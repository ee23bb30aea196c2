\* A payment of 3: re_1 asks for 2, re_rest for all that is left.
CONSTANTS
    Paid = 3
    Ids <- MCIds
    Amount <- MCAmount
    Handlers = {h1, h2}
    NoId = NoId
    MaxFaults = 2
SPECIFICATION FairSpec
INVARIANTS
    RefundTypeOK
    NewWithinPaid
    RepeatsArePaidFor
PROPERTIES
    ReservationIsAnswered
CHECK_DEADLOCK FALSE
