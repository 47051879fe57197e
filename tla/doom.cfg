CONSTANTS
    None = None
    Nobody = Nobody
    Slots = {0}
    Sfx = {"pistol", "liar"}
    LumpOf <- MCLumpOf
    Lump <- MCLump
    Loudness <- MCLoudness
    Beat = 18
    Codes = {"CONTROL_LEFT", "CONTROL_RIGHT", "ISO_EXTRA"}
    MaxDown = 2
    MaxEvents = 2
    Displays <- MCDisplays
    BackW = 3
    BackH = 2
    Scale = 2
    FrameTime = 1
SPECIFICATION Spec
INVARIANTS DrawsIntoItsOwn NoStuckKey VoicesAreSound
PROPERTY CloseEndsTheGame
CHECK_DEADLOCK FALSE
