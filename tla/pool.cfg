SPECIFICATION FairSpec
CONSTANTS
    op1 = op1  op2 = op2  op3 = op3
    none = none
    Operation = {op1, op2, op3}
    AsyncThreads = 2
    MaySpuriouslyWake = TRUE
    MayFailToOpen = {"noDatabase", "tooOld", "other"}
    MayClose = TRUE
INVARIANTS
    TypeOK WorkersAreSound
PROPERTIES
    DestructionEnds OperationsProceed
