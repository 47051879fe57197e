CONSTANTS
    Readers = {r, r2}
    Writers = {w}
    FirstReader = r
    FirstWriter = w
    Pollers = {r, w}
    Careless = {}
    Killable = {r, w}
    Bytes = {0, 1}
    Capacity = 3
    Messages <- ShortAndLong
    MaxRead = 2
    MaxCount = 2
SPECIFICATION Spec
INVARIANT NoStrandedEnd
PROPERTIES ImplementsByteStream CallsComeBack
CHECK_DEADLOCK FALSE
