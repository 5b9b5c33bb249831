CONSTANTS
    N = 3
    Team <- Alone
    NoDiplomacy = {}
    Unborn = {}
    TurnsLeft = 2
    Cities = {}
    Techs = {1, 2}
    InitGold <- NoGold
    InitOwner <- OnesCities
    InitKnows <- WritingKnown
    InitEmbassies <- OneAndTwo
    Near <- NobodyNear
    AdvanceNeeds = {1}
    DiplGoldCost = 50
    TechLost = {}
    Offers <- Pottery4Two
    MaxClauses = 1
    MaxOpen = 1
    Learnable = {}
    Forgettable <- OneForgetsWriting
    Events = {}

SPECIFICATION Spec

INVARIANT NoTreatyLeftBehind
