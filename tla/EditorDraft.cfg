SPECIFICATION Spec
CONSTANTS
    MyMain = {a}
    MyHn = {b}
    TheirMain = {t}
    TheirHn = {h}
    MaxVersion = 3
    MaxOpens = 2
    MaxFaults = 1
    MaxCalls = 2
INVARIANTS
    TypeOK
    DraftBacksScreen
PROPERTIES
    WorkKept
    NoUnseenOverwrite
CHECK_DEADLOCK FALSE
