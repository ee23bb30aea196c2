\* Two keys, two bodies, three requests at a time.
CONSTANTS
    Keys = {k1, k2}
    Bodies = {b1, b2}
    Servers = {s1, s2, s3}
    NoKey = NoKey
    NoBody = NoBody
    MaxFaults = 3
SPECIFICATION FairSpec
INVARIANTS
    IdempotencyTypeOK
    AnsweredIsStored
PROPERTIES
    ImplementsSingleAnswer
    ClaimIsResolved
CHECK_DEADLOCK FALSE
