\* Two notifications about one payment, two requests at a time.
CONSTANTS
    Intents <- MCIntent
    Notes <- MCNotes
    Handlers = {h1, h2}
    NoNote = NoNote
    MaxConns = 3
    MaxResends = 2
    MaxCrashes = 1
    MaxErrors = 2
SPECIFICATION FairSpec
INVARIANTS
    InboundTypeOK
    AppliedAtMostOnce
    AppliedIsReflected
    OnlyErrorsLoseNotifications
    SessionFollowsPayment
PROPERTIES
    SentIsApplied
CHECK_DEADLOCK FALSE
