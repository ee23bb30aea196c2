CONSTANTS
    Intents <- MCIntent
    Notes <- MCNotes
    Handlers = {h1, h2}
    NoNote = NoNote
    MaxConns = 3
    MaxResends = 0
    MaxCrashes = 0
    MaxErrors = 1
SPECIFICATION Spec
INVARIANTS
    AckedIsDurable
