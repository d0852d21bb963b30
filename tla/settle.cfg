\* One order, two attempts to pay it, three handlers in flight; one capture
\* has an event id of its own.
CONSTANTS
    None = None
    o1 = o1
    p1 = p1
    Orders = {o1}
    Charges = {p1, p2}
    OrderOf <- OneOrder
    Requests = {r1, r2, r3}
    HoldTime = 1
    OtpTime = 0
    MaxTime = 2
    EventIds <- MixedIds
    EventId <- MixedId
SPECIFICATION Spec
SYMMETRY Symmetry
\* All answered, everything processed and the clock at its bound.
CHECK_DEADLOCK FALSE
INVARIANTS
    TypeOK
    SoldIffInvoiced
    BooksMatchCharge
    ProcessedIsBooked
PROPERTIES
    PickupNotUndone
