CONSTANTS
    beep = beep
    mixing = mixing
    doom = doom
    None = None
    Programs = {beep, mixing}
    KindOf <- Kinds
    Ports = {2, 3}
    Slots = {0, 1, 2}
    MaxNodes = 3
    Frames <- Depths
    IndexSpan = 4
    Period = 1
    QuietLimit = 1
    AtOnce <- Blocks
    Wanted <- Lengths
    Runs = 1
    Killable = {mixing}
    MaxSignals = 1
SPECIFICATION Spec
INVARIANTS StreamIsWhole NoStrandedPlayer
PROPERTIES ImplementsContract EveryPlayerEnds
CHECK_DEADLOCK FALSE
