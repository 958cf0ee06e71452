SPECIFICATION Spec
CONSTANTS
    s1 = s1  s2 = s2  s3 = s3
    a1 = a1  a2 = a2  a3 = a3
    null = null  never = never
    Session = {s1, s2, s3}
    Account = {a1, a2, a3}
    AccountOf <- ThreeSingles
    Privileged = {}
    PlayerLimits = {0, 1}
    Tolerance = 1
    ExpireTime = 1
    MaxTime = 1
SYMMETRY Symmetry
INVARIANTS
    TypeOK InQueueFlagIsJustified
PROPERTIES
    LimitIsExact FirstComeFirstServed
