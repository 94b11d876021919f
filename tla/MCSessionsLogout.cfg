\* A logout and a refresh of the same session.
CONSTANTS
    req1 = req1
    req2 = req2
    NoOne = NoOne
    Requests <- TwoRequests
    MaxLogins = 2
    MaxServed = 3
    MaxPairs = 3
    MaxVersion = 3
    MaxFaults = 1
SPECIFICATION Spec
PROPERTIES
    LogoutEndsSession
\* The bounds end every behaviour.
CHECK_DEADLOCK FALSE
