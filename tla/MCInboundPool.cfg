CONSTANTS
    Intents <- MCIntent
    Notes <- MCNotes
    Handlers = {h1, h2}
    NoNote = NoNote
    MaxConns = 2
    MaxResends = 0
    MaxCrashes = 0
    MaxErrors = 0
SPECIFICATION FairSpec
PROPERTIES
    SentIsAcked
CHECK_DEADLOCK FALSE
