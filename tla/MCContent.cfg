\* Any five requests to posts and files, one of them a walk through the list.
CONSTANTS
    MaxRequests = 4
    MaxUploads = 2
    MaxDeletions = 2
    Fields <- TwoFields
    Patches <- SomePatches
    MaxPosition = 3
    PageLimit = 1
    MaxAttempts = 2
    MaxArrivals = 5
SPECIFICATION FairSpec
INVARIANTS
    TypeOK
    EventsTellPost
    WalksComplete
    LiveFileHasBytes
    OrphansExplained
    DeletedOnce
PROPERTIES
    NoLostUpdate
    DeletedBytesGo
\* Every request may be answered.
CHECK_DEADLOCK FALSE
