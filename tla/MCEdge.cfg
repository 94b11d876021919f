CONSTANTS
    Slots <- TwoSlots
    Window = 3
    Limit <- SmallLimits
    Keys <- SourceKeys
    MaxDeploys = 3
    MaxRequests = 5
SPECIFICATION Spec
INVARIANTS
    TypeOK
    LoginsBounded
PROPERTIES
    TrafficKept
\* Time may stand still.
CHECK_DEADLOCK FALSE
