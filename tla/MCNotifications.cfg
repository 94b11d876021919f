\* Any three requests, patches, PUTs and faults; two dispatchers.
CONSTANTS
    clientA = clientA
    clientB = clientB
    adminA = adminA
    adminB = adminB
    processA = processA
    processB = processB
    Requests <- TwoClients
    Admins <- TwoAdmins
    Dispatchers <- TwoProcesses
    Channels <- MailAndInApp
    Payloads <- SomePayloads
    Patches <- SomePatches
    Puts <- SomePuts
    Patched <- InAppOnly
    Flagged <- MailAndInApp
    Providers <- MailOnly
    MaxEvents = 3
    BatchSize = 2
    MaxAttempts = 2
SPECIFICATION FairSpec
INVARIANTS
    TypeOK
    AllOrNothing
    KeyUsedOnce
    OptOutHonoured
    PatchLossesExplained
    DuplicatesExplained
    OutcomeIsTrue
PROPERTIES
    ReadStaysListed
    EveryDeliverySettles
\* Every request may be answered and every delivery settled.
CHECK_DEADLOCK FALSE
