\* A gap: version 2 is applied while version 1 is not.
CONSTANTS
    post1 = post1
    workerA = workerA
    workerB = workerB
    NoOne = NoOne
    Subjects <- OneSubject
    Consumers <- TwoWorkers
    Poison <- NoPoison
    MaxVersion = 2
    MaxAttempts = 2
    MaxPrimary = 2
    MaxFaults = 1
SPECIFICATION Spec
INVARIANTS
    NoGapApplied
CHECK_DEADLOCK FALSE
