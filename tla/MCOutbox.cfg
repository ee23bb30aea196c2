\* Two events, two deliverer loops, two attempts: crashes, lapsed leases, a replay.
CONSTANTS
    Events = {e1, e2}
    Workers = {w1, w2}
    NoEvent = NoEvent
    MaxAttempts = 2
    MaxFaults = 2
    MaxReplays = 1
SPECIFICATION FairSpec
INVARIANTS
    OutboxTypeOK
    AtMostOneOwner
    DuplicatesArePaidFor
PROPERTIES
    ImplementsDelivery
    OwedIsSettled
CHECK_DEADLOCK FALSE
