\* One payment, two notifications, a confirm, two attempts for each event.
CONSTANTS
    Payments = {p1}
    Checkout = {p1}
    Notices = {n1, n2}
    Said = {"succeeded", "canceled"}
    Confirms = {c1}
    MaxAttempts = 2
    NoEvent = NoEvent
    NoPayment = NoPayment
SPECIFICATION FairSpec
INVARIANTS
    MemoryTypeOK
    FeedFollowsStatus
    StatusIsTold
    SessionCompletes
PROPERTIES
    QueueDrains
    MemoryImplementsDelivery
CHECK_DEADLOCK FALSE
