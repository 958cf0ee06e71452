SPECIFICATION FairSpec
CONSTANTS
    op1 = op1  op2 = op2  op3 = op3
    none = none
    Operation = {op1}
    AsyncThreads = 1
    MaySpuriouslyWake = FALSE
    MayFailToOpen = {"noDatabase"}
    MayClose = FALSE
PROPERTIES
    EnqueuedIsExecuted
