\* Two requests at a time, two logins, three pairs, two bumps of token_version.
CONSTANTS
    req1 = req1
    req2 = req2
    NoOne = NoOne
    Requests <- TwoRequests
    MaxLogins = 2
    MaxServed = 3
    MaxPairs = 3
    MaxVersion = 3
    MaxFaults = 1
SPECIFICATION Spec
INVARIANTS
    TypeOK
    KillsSessions
    OneLiveRowPerLogin
SYMMETRY RequestSymmetry
\* The bounds end every behaviour.
CHECK_DEADLOCK FALSE
