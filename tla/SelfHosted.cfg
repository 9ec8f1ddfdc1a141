\* Two runs, one behind a Quick Tunnel and one with an address of its own: two
\* mishaps, a Ctrl-C, a kill or the death of a child each.
SPECIFICATION FairSpec
CONSTANTS
    first = first
    second = second
    NoRun = NoRun
    Runs <- Two
    Public = {second}
    Mortal = {"relay", "tunnel"}
    MaxMishaps = 2
INVARIANTS
    NoChildLeft
    EndIsRecorded
PROPERTIES
    StartupDecides
CHECK_DEADLOCK TRUE
