\* Two runs of one create, two confirms.
CONSTANTS
    Creators = {h1, h2}
    Confirmers = {c1, c2}
    MaxFaults = 3
SPECIFICATION FairSpec
INVARIANTS
    IntentTypeOK
    AcceptedIsOnRecord
    SucceededWasPaid
    OutcomeLostOnlyToOverlap
    OutcomeIsAudited
PROPERTIES
    PreparedIsResolved
CHECK_DEADLOCK FALSE
