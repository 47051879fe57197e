CONSTANTS
    LONG_MAX = 7
    STEP = 1
    CLASSES = 4
    RUN = 12
    PIECE_FIRST = 28
    PIECE_MAX = 36
    HOLE_MIN = 4
    BINS = 3
    FIT_SCAN = 1
    Memory = 48
    BUFSIZ = 2
    DiskMax = 4
    Specs <- MCSpecs
    Widths = {2, 4}
    Passed <- MCPassed
    Wholes <- MCWholes
    Fractions <- MCFractions
    Mantissas <- MCMantissas
    Exponents <- MCExponents
    Precisions = {2, 3, 4}
    Inputs <- MCInputs
    Formats <- MCFormats
    Texts <- MCTexts
    Separators = {44}
    Numerals <- MCNumerals
    Bases = {0, 8, 10, 16}
    Arrays <- MCArrays
    Names <- MCNames
    Values <- MCValues
    Inherited <- MCInherited
    Sizes = {1, 7, 9, 19}
    MaxHeld = 3
    WANTED = 19
    Runs <- MCRuns
    MaxRead = 3
SPECIFICATION Spec
INVARIANTS AnswersAreRight MemoryIsSound
PROPERTY ImplementsPlainFile
CHECK_DEADLOCK FALSE
