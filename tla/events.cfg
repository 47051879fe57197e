CONSTANTS
    a = a
    b = b
    c = c
    e1 = e1
    e2 = e2
    Threads = {a, b, c}
    Events = {e1, e2}
    MaxCount = 2
    WaitsOf <- Overlapping
    PollsOf <- Polls
    Killable = {b, c}
SPECIFICATION Spec
INVARIANT NoLostWakeup
PROPERTIES TimeoutIsHonest SignalReachesWaiter
