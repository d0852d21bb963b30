\* A vehicle, two banks that may list it, two lots that may take it.
CONSTANTS
    None = None
    Banks = {b1, b2}
    Vehicles = {v1}
    Lots = {l1, l2}
    Bidders = {u1}
    Requests = {r1, r2}
    SaleTypes = {"HYBRID"}
    Prices = {1, 2}
    Visibilities = {TRUE}
    Changes = {"CANCELLED"}
    MaxBids = 1
\* Two requests for quotation of one dealer, two quotes; a retail buyer.
    NoOne = NoOne
    NoDay = NoDay
    Customers = {dealer, retail}
    Wholesale = {dealer}
    Rfqs = {q1, q2}
    Quotes = {a1, a2}
    RfqSlots = {h1, h2}
    ClosingDays <- DeskClosingDays
    LastDay = 2
\* The counter of one user's holds.
    Keys = {hold}
    Threshold <- DeskThreshold
    Window = 2
    MaxCount = 3
    LastSecond = 5
\* Two checkouts in flight.
    Tiers = {"RETAIL"}
    NoTier = "NONE"
    NoNumber = "none"
    OrderNumbers = {"P1", "P2"}
    Tills = {s1, s2}
    BasePrices = {20, 140000}
    Percents <- DeskPercents
    DefaultFee <- DeskDefaultFee
    DefaultGst = 1800
SPECIFICATION Spec
SYMMETRY Symmetry
\* Each part stops at its bounds: no slot, no row, no time left.
CHECK_DEADLOCK FALSE
INVARIANTS
    DeskTypeOK
    ListedNeverOverstated
    LotsConsistent
    StatusTellsAnswers
    AdmittedPerWindow
    OrderAddsUp
PROPERTIES
    NoNewHoldInLot
    BidFreezesPrice
    ClosingDaySettles
