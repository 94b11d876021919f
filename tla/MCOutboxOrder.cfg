\* One relay is enough: no concurrency is needed to overtake a failed row.
CONSTANTS
    post1 = post1
    relayA = relayA
    relayB = relayB
    NoEvent = NoEvent
    Aggregates <- OneAggregate
    Relays <- OneRelay
    MaxVersion = 2
    BatchSize = 1
    MaxAttempts = 2
    MaxFaults = 1
SPECIFICATION Spec
PROPERTY OutboxOrderPreserved
CHECK_DEADLOCK FALSE
