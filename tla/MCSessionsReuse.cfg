\* A refresh token that was rotated or logged out is presented again.
CONSTANTS
    req1 = req1
    req2 = req2
    NoOne = NoOne
    Requests <- TwoRequests
    MaxLogins = 2
    MaxServed = 3
    MaxPairs = 3
    MaxVersion = 3
    MaxFaults = 1
SPECIFICATION Spec
PROPERTIES
    ReuseKills
\* The bounds end every behaviour.
CHECK_DEADLOCK FALSE
