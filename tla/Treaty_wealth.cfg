CONSTANTS
    N = 3
    Team <- Alone
    NoDiplomacy = {}
    Unborn = {}
    TurnsLeft = 2
    Cities = {7}
    Techs = {1, 2}
    InitGold <- OneRich
    InitOwner <- OnesCities
    InitKnows <- WritingKnown
    InitEmbassies <- WithOne
    Near <- NobodyNear
    AdvanceNeeds = {1}
    DiplGoldCost = 50
    TechLost = {"donor", "receiver"}
    Offers <- Wealth
    MaxClauses = 2
    MaxOpen = 2
    Learnable <- TwoFindsPottery
    Forgettable <- OneForgetsWriting
    Events = {"spend", "conquest", "palace", "control"}

SPECIFICATION Spec

INVARIANT AcceptedAsSigned
INVARIANT GoldNeverNegative
PROPERTY PromisesKept
