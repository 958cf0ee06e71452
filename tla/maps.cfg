SPECIFICATION FairSpec
CONSTANTS
    b1 = b1  b2 = b2  i1 = i1  i2 = i2  i3 = i3  w1 = w1  w2 = w2  w3 = w3
    BaseMap = {b1, b2}
    Instance = {i1, i2, i3}
    Parent <- Dungeons
    Worker = {w1, w2, w3}
    MaxTicks = 2
    null = null
INVARIANTS
    PendingIsExact Barrier
PROPERTIES
    TickEnds DeactivateEnds
