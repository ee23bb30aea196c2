\* A cancel of an incomplete subscription, whose card is saved afterwards; no faults.
CONSTANTS
    Orders = {o1}
    Copies = {x1}
    Handlers = {h1, h2}
    NoNote = NoNote
    Authorization = pi
    MaxFaults = 0
SPECIFICATION Spec
INVARIANTS
    DeleteStopsClock
CHECK_DEADLOCK FALSE
