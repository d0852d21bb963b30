\* Two bidders on one item of each kind; locks may run out under their owners.
CONSTANTS
    None = None
    b1 = b1
    b2 = b2
    Items = {i1}
    Bidders = {b1, b2}
    Requests = {r1, r2}
    Amounts = {1, 2, 3}
    Listings <- AllListings
    MinVehicleIncrement = 1
    MinLotIncrement = 1
    AntiSnipeWindow = 2
    AntiSnipeExtension = 2
    MaxTime = 4
SPECIFICATION Spec
SYMMETRY Symmetry
\* The amounts are used up, all requests answered and the clock at its bound.
CHECK_DEADLOCK FALSE
INVARIANTS
    TypeOK
    OneWinningBid
    WinningBidLeads
PROPERTIES
    RaisesOnly
    SoldPriceFinal
    EndNeverMovesBack
    OrderIsLeaders
