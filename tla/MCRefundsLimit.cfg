CONSTANTS
    Paid = 3
    Ids <- MCIds
    Amount <- MCAmount
    Handlers = {h1, h2}
    NoId = NoId
    MaxFaults = 1
SPECIFICATION Spec
INVARIANTS
    ReservedWithinPaid
CHECK_DEADLOCK FALSE
