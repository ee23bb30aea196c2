\* Two handlers; the authorization and one cycle, each notified twice.
CONSTANTS
    Orders = {o1}
    Copies = {x1, x2}
    Handlers = {h1, h2}
    NoNote = NoNote
    Authorization = pi
    MaxFaults = 2
SPECIFICATION Spec
SYMMETRY Symmetry
INVARIANTS
    SubscriptionTypeOK
    NoStrayClock
    CycleBilledOnce
    SettledStateAgrees
PROPERTIES
    CanceledStaysCanceled
CHECK_DEADLOCK FALSE
