\* A capture answered as the replay of another event of its payment.
CONSTANTS
    None = None
    o1 = o1
    p1 = p1
    Orders = {o1}
    Charges = {p1, p2}
    OrderOf <- OneOrder
    Requests = {r1, r2}
    HoldTime = 1
    OtpTime = 0
    MaxTime = 2
    EventIds = {p1, p2}
    EventId <- PaymentId
SPECIFICATION Spec
SYMMETRY Symmetry
\* All answered, everything processed and the clock at its bound.
CHECK_DEADLOCK FALSE
INVARIANT OnlyReplaysDropped
