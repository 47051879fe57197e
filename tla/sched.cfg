CONSTANTS
    idle = idle
    init = init
    kt = kt
    u2 = u2
    Nobody = Nobody
    Idle = idle
    InitThread = init
    LevelCount = 2
    Priority <- Bands
    Threads = {idle, init, kt, u2}
    KernelThreads = {idle, kt}
    SliceFor <- Slices
    Boot <- OnlyInit
    Killers = {init}
SPECIFICATION Spec
INVARIANTS ListsAreSound FreedIsForgotten
PROPERTIES NothingStaysOwed EveryoneRuns
