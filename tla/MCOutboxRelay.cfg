\* One aggregate with two versions, two relays, a batch that holds both rows.
CONSTANTS
    post1 = post1
    relayA = relayA
    relayB = relayB
    NoEvent = NoEvent
    Aggregates <- OneAggregate
    Relays <- TwoRelays
    MaxVersion = 2
    BatchSize = 2
    MaxAttempts = 3
    MaxFaults = 2
SPECIFICATION FairSpec
INVARIANTS
    TypeOK
    DuplicatesAccounted
PROPERTIES
    PublishedIsFinal
    PublishesAtLeastOnce
\* Every event may be published: the relays then only poll.
CHECK_DEADLOCK FALSE
