SPECIFICATION Spec
CONSTANTS
    MyMain = {a}
    MyHn = {b}
    TheirMain = {t}
    TheirHn = {h}
    MaxVersion = 3
    MaxOpens = 3
    MaxFaults = 1
    MaxCalls = 2
INVARIANTS
    NothingTypedIsLost
CHECK_DEADLOCK FALSE
