SPECIFICATION Spec
CONSTANTS
    p1 = p1
    p2 = p2
    p3 = p3
    i1 = i1
    i2 = i2
    Players = {p1, p2, p3}
    Items = {i1, i2}
    TradedSlots = 1
    Capacity <- Places
    MAX_MONEY_AMOUNT = 2
    InitialItems <- Belongings
    InitialMoney <- Gold
    MaxStack = 2
    MaxTrades = 2
    MaxMishaps = 1
    MaxPending = 3
    None = None
INVARIANTS
    TypeOK
    TradesAreMutual
    OneHolder
    TradesAreSavedWhole
PROPERTIES
    AcceptancesStandForTheOffers
    TradesEndFairly
