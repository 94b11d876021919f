CONSTANTS
    VerifyRequired = TRUE
    MaxCalls = 4
    MaxRoleCalls = 2
    MaxArrivals = 4
    RoleNames <- FourNames
    Levels <- ThreeLevels
    RolePatches <- TwoPatches
SPECIFICATION Spec
INVARIANTS
    TypeOK
    OpenTokensExplained
    TokensSpentOnce
    UserEventsOrdered
    RolesStand
    RoleLossesExplained
\* Every request may be answered.
CHECK_DEADLOCK FALSE
