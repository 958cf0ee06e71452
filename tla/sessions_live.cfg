SPECIFICATION FairSpec
CONSTANTS
    s1 = s1  s2 = s2  s3 = s3
    a1 = a1  a2 = a2  a3 = a3
    null = null  never = never
    Session = {s1, s2, s3}
    Account = {a1, a2}
    AccountOf <- TwoAccounts
    Privileged = {}
    PlayerLimits = {1}
    Tolerance = 0
    ExpireTime = 2
    MaxTime = 0
INVARIANTS
    NoDanglingQueueEntry OneOwner ShutdownEvictsEveryone
PROPERTIES
    LostSessionsLeave AdmissionCompletes
