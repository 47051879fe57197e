CONSTANTS
    boot = boot
    init = init
    a = a
    b = b
    d = d
    Nobody = Nobody
    Procs = {boot, init, a, b}
    InitProc = init
    BootThread = boot
    Supervisors = {a}
    Killable = {a, b}
    Asked = {a, Nobody}
    MaxCount = 2
SPECIFICATION Spec
INVARIANTS TreeIsSound NobodySleepsInVain SupervisorIsTold
PROPERTIES KilledProcessEnds StatusIsTaken
CHECK_DEADLOCK FALSE
