CONSTANTS
    Callers = {c1, c2}
    Servers = {p}
    Volumes = {0}
    Depth = 1
    MaxGeneration = 2
    Segments = {d1, d2}
    Killable = {c1}
    Late = {p}
    Attachments = 2
    None = None
    MaxCount = 2
SPECIFICATION Spec
INVARIANTS VolumeIsSound AnswerIsItsOwn NobodyIsStranded
PROPERTIES GoneIsLeft
CHECK_DEADLOCK FALSE
