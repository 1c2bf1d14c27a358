SPECIFICATION Spec
CONSTANTS
    Users = {u1, u2}
    States = {s1, s2}
    Nil = Nil
    Requests = {r1, r2}
    MaxQueued = 4
    MaxTasks = 2
    MaxDepth = 6
    SenatorCount <- TwoSenatorsEach
SYMMETRY Interchangeable
INVARIANTS
    TypeOK
    LoggedInHasUser
    SessionMatchesProviders
    VisibleStateIsStored
    HomeShowsOwnChoice
PROPERTIES
    LogOutEndsSession
    NavigationNeverTraps
    SessionIsAtomic
