\* One subject with three versions, three primary records, two faults.
CONSTANTS
    post1 = post1
    workerA = workerA
    workerB = workerB
    NoOne = NoOne
    Subjects <- OneSubject
    Consumers <- TwoWorkers
    Poison <- NoPoison
    MaxVersion = 3
    MaxAttempts = 2
    MaxPrimary = 3
    MaxFaults = 2
SPECIFICATION Spec
INVARIANTS
    TypeOK
    AppliedOnce
    WatermarkIsHighest
    NothingSkipped
PROPERTIES
    OvertakenOnlyAtFirst
    AppliesAtMostOnce
SYMMETRY WorkerSymmetry
\* Every record may be done with: the members then only poll.
CHECK_DEADLOCK FALSE
