CONSTANTS
    N = 3
    Team <- Alone
    NoDiplomacy = {}
    Unborn = {}
    TurnsLeft = 2
    Cities = {}
    Techs = {}
    InitGold <- NoGold
    InitOwner <- OnesCities
    InitKnows <- OneKnowsAll
    InitEmbassies <- Everyone
    Near <- NobodyNear
    AdvanceNeeds = {}
    DiplGoldCost = 50
    TechLost = {}
    Offers <- Pacts
    MaxClauses = 2
    MaxOpen = 2
    Learnable = {}
    Forgettable = {}
    Events = {"contact", "war", "death"}

SPECIFICATION Spec

CHECK_DEADLOCK FALSE
VIEW WithoutMaxState

INVARIANT MeetingsOfTheLiving
PROPERTY RefinesDiplomacy
PROPERTY BrokenPactsVoidAcceptances
