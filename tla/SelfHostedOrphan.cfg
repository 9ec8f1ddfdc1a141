\* The relay of another run has the port, and the next run takes it for its own.
SPECIFICATION Spec
CONSTANTS
    first = first
    second = second
    NoRun = NoRun
    Runs <- Two
    Public = {first, second}
    Mortal = {}
    MaxMishaps = 1
PROPERTIES
    BridgeOnOwnRelay
CHECK_DEADLOCK TRUE
