SPECIFICATION FairSpec
CONSTANTS
    Users = {u1, u2}
    States = {s1}
    Nil = Nil
    Requests = {r1}
    MaxQueued = 4
    MaxTasks = 2
    MaxDepth = 4
    SenatorCount <- TwoSenatorsEach
PROPERTY
    SignInReachesApp
