\* Three versions, the third never valid, two primary records; no symmetry, which liveness does not allow.
CONSTANTS
    post1 = post1
    workerA = workerA
    workerB = workerB
    NoOne = NoOne
    Subjects <- OneSubject
    Consumers <- TwoWorkers
    Poison <- ThirdIsPoison
    MaxVersion = 3
    MaxAttempts = 2
    MaxPrimary = 2
    MaxFaults = 2
SPECIFICATION FairSpec
PROPERTIES
    EveryEventDone
\* Every record may be done with: the members then only poll.
CHECK_DEADLOCK FALSE
