SPECIFICATION FairSpec
CONSTANTS
    w1 = w1  w2 = w2  k1 = k1  t1 = t1  t2 = t2
    Transaction = {t1, t2}
    Size <- TwoTransactions
    Worker = {w1, w2}
    Caller = {k1}
    LoopBreaker = 2
    MaxRetries = 2
    MaxAttempts = 2
    MaxLosses = 1
    MaxRefusals = 1
    MayRefuse = TRUE
    nobody = nobody
INVARIANTS
    OneRetrier ResultIsTrue
PROPERTIES
    IsAtomic TransactionsEnd
