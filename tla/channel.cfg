CONSTANTS
    c1 = c1
    s1 = s1
    Clients = {c1, c2}
    Servers = {s1, s2}
    Objects = {o1, o2}
    Owner = c1
    TableSize = 2
    Others <- Rooms
    MaxInflight = 1
    MaxGeneration = 2
    Memory = 1
    Killable = {s2}
    Timed = {c2}
    MaxCount = 2
SPECIFICATION Spec
INVARIANTS ListsMatchCallers CallIsHeard ReferencesBalance
PROPERTY StopReleasesCallers
CHECK_DEADLOCK FALSE
