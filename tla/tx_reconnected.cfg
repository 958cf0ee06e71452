SPECIFICATION Spec
CONSTANTS
    w1 = w1  w2 = w2  k1 = k1  t1 = t1  t2 = t2
    Transaction = {t1}
    Size <- OneTransaction
    Worker = {w1}
    Caller = {}
    LoopBreaker = 2
    MaxRetries = 2
    MaxAttempts = 2
    MaxLosses = 1
    MaxRefusals = 0
    MayRefuse = FALSE
    nobody = nobody
INVARIANTS
    AllOrNothing
