SPECIFICATION Spec
CONSTANTS
    a1 = a1  a2 = a2  h1 = h1
    Alliance = {a1, a2}
    Horde = {h1}
    MinPlayersPerTeam = 1
    MaxPlayersPerTeam = 2
    MaxBattlegrounds = 1
    AcceptWait = 2
    InvitationTypes = {0, 1, 2}
    MaxGroupSize = 2
    MaxMishaps = 1
SYMMETRY Interchangeable
INVARIANTS
    TypeOK PlacesAreCounted QueueAgreesWithSlots OfflineQueueIsExact
    FreeSlotsAreExact TimersAreExact
PROPERTIES
    InvitationsLast
