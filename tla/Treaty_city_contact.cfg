CONSTANTS
    N = 3
    Team <- Alone
    NoDiplomacy = {}
    Unborn = {}
    TurnsLeft = 2
    Cities = {7}
    Techs = {}
    InitGold <- NoGold
    InitOwner <- OnesCities
    InitKnows <- OneKnowsAll
    InitEmbassies <- Everyone
    Near <- ThreeNear
    AdvanceNeeds = {}
    DiplGoldCost = 50
    TechLost = {}
    Offers <- CityForAlliance
    MaxClauses = 2
    MaxOpen = 1
    Learnable = {}
    Forgettable = {}
    Events = {"contact"}

SPECIFICATION Spec

INVARIANT NoLoveLoveHate
