----------------------------- MODULE Catalogue -----------------------------
(***************************************************************************)
(* What banks list: the banks themselves (banks.module.ts), the vehicles   *)
(* their staff create and update (vehicles.service.ts:99-173), the lots    *)
(* they bundle vehicles into (lots.service.ts), and, coarsely, the buyers  *)
(* who hold, bid for and pay for those vehicles meanwhile.                 *)
(*                                                                         *)
(* No handler takes a lock: each reads a row, awaits, and writes by id     *)
(* what it has decided. `seen` is what it has read.                        *)
(***************************************************************************)
EXTENDS Integers, FiniteSets

CONSTANTS
    Banks,          \* bank codes
    Vehicles,       \* registration numbers
    Lots,           \* lot ids
    Bidders,        \* buyers who ask for access to a private lot
    Requests,       \* slots for requests in flight (bound)
    SaleTypes,      \* the sale types vehicles are listed with (bound)
    Prices,         \* buyNowPricePaise, reservePricePaise (bound)
    Visibilities,   \* whether lots are private (bound)
    Changes,        \* the statuses staff set by hand (bound)
    MaxBids,        \* bound on bidCount
    None

Statuses == {"DRAFT", "PENDING_APPROVAL", "LIVE", "ON_HOLD", "SOLD", "WITHDRAWN", "CANCELLED"}

ASSUME CatalogueAssumption ==
    /\ SaleTypes \subseteq {"AUCTION", "BUY_NOW", "LOT", "HYBRID"}
    /\ Changes \subseteq Statuses
    /\ Visibilities \subseteq BOOLEAN
    /\ IsFiniteSet(Vehicles) /\ IsFiniteSet(Requests)
    /\ MaxBids \in Nat
    /\ None \notin Banks \cup Vehicles \cup Lots \cup Statuses
    /\ None \notin Prices

VARIABLES
    bank,       \* Bank rows, NoBank where there is none
    vehicle,    \* Vehicle rows, NoVehicle where there is none
    lot,        \* Lot rows, NoLot where there is none
    access,     \* the status of each buyer's LotAccessRequest, None if there is none
    approved,   \* LotApprovedBidder rows
    pc,
    seen

catalogueVars == <<bank, vehicle, lot, access, approved, pc, seen>>

BankType == [verified : BOOLEAN, listed : Nat]      \* isVerified, vehiclesListed

VehicleType == [bank     : Banks,
                saleType : SaleTypes \cup {"LOT"},
                status   : Statuses,
                price    : Prices,
                bids     : Nat,
                held     : BOOLEAN,                 \* heldById is not null
                lot      : Lots \cup {None}]

LotType == [bank : Banks, private : BOOLEAN, count : Nat]    \* vehicleCount

NoBank == [verified |-> FALSE, listed |-> -1]
NoVehicle == [bank |-> None, saleType |-> None, status |-> None, price |-> None,
              bids |-> 0, held |-> FALSE, lot |-> None]
NoLot == [bank |-> None, private |-> FALSE, count |-> 0]

SeenType == [bank    : Banks \cup {None},
             vehicle : Vehicles \cup {None},
             status  : Statuses,                \* initialStatus of a new vehicle
             frozen  : BOOLEAN,                 \* had the vehicle bids when it was read?
             members : SUBSET Vehicles]         \* vehicleIds of a new lot

Nothing == [bank |-> None, vehicle |-> None, status |-> "DRAFT", frozen |-> FALSE, members |-> {}]

CatalogueInit ==
    /\ bank = [b \in Banks |-> NoBank]
    /\ vehicle = [v \in Vehicles |-> NoVehicle]
    /\ lot = [l \in Lots |-> NoLot]
    /\ access = [l \in Lots |-> [u \in Bidders |-> None]]
    /\ approved = [l \in Lots |-> {}]
    /\ pc = [r \in Requests |-> "idle"]
    /\ seen = [r \in Requests |-> Nothing]

Goto(r, p, s) ==
    /\ pc' = [pc EXCEPT ![r] = p]
    /\ seen' = [seen EXCEPT ![r] = s]

Answer(r) == Goto(r, "idle", Nothing)

----------------------------------------------------------------------------
(* BanksService                                                            *)

CreateBank(b) ==
    /\ bank[b] = NoBank
    /\ bank' = [bank EXCEPT ![b] = [verified |-> FALSE, listed |-> 0]]
    /\ UNCHANGED <<vehicle, lot, access, approved, pc, seen>>

UpdateBank(b, verified) ==
    /\ bank[b] # NoBank
    /\ bank' = [bank EXCEPT ![b].verified = verified]
    /\ UNCHANGED <<vehicle, lot, access, approved, pc, seen>>

----------------------------------------------------------------------------
(* VehiclesService.create                                                  *)

(* The bank's verification decides the status of the new vehicle.           *)
ReadBank(r, b) ==
    /\ pc[r] = "idle" /\ bank[b] # NoBank
    /\ Goto(r, "insert", [Nothing EXCEPT
              !.bank = b, !.status = IF bank[b].verified THEN "LIVE" ELSE "PENDING_APPROVAL"])
    /\ UNCHANGED <<bank, vehicle, lot, access, approved>>

(* Mutant: a taken number is counted as well.                               *)
InsertOrCount(r, v, saleType, price) ==
    /\ pc[r] = "insert"
    /\ IF vehicle[v] = NoVehicle
       THEN vehicle' = [vehicle EXCEPT ![v] =
              [bank |-> seen[r].bank, saleType |-> saleType, status |-> seen[r].status,
               price |-> price, bids |-> 0, held |-> FALSE, lot |-> None]]
       ELSE UNCHANGED vehicle
    /\ Goto(r, "count", seen[r])
    /\ UNCHANGED <<bank, lot, access, approved>>

(* A registration number that is taken is refused.                          *)
InsertVehicle(r, v, saleType, price) ==
    /\ pc[r] = "insert"
    /\ IF vehicle[v] = NoVehicle
       THEN /\ vehicle' = [vehicle EXCEPT ![v] =
                 [bank |-> seen[r].bank, saleType |-> saleType, status |-> seen[r].status,
                  price |-> price, bids |-> 0, held |-> FALSE, lot |-> None]]
            /\ Goto(r, "count", seen[r])
       ELSE Answer(r) /\ UNCHANGED vehicle
    /\ UNCHANGED <<bank, lot, access, approved>>

(* vehiclesListed is incremented by a statement of its own.                 *)
CountVehicle(r) ==
    /\ pc[r] = "count"
    /\ bank' = [bank EXCEPT ![seen[r].bank].listed = @ + 1]
    /\ Answer(r)
    /\ UNCHANGED <<vehicle, lot, access, approved>>

----------------------------------------------------------------------------
(* VehiclesService.update, by the bank's staff or an administrator         *)

(* Mutant: bids freeze nothing.                                             *)
ReadUnfrozen(r, v) ==
    /\ pc[r] = "idle" /\ vehicle[v] # NoVehicle
    /\ Goto(r, "update", [Nothing EXCEPT !.vehicle = v])
    /\ UNCHANGED <<bank, vehicle, lot, access, approved>>

ReadVehicleRow(r, v) ==
    /\ pc[r] = "idle" /\ vehicle[v] # NoVehicle
    /\ Goto(r, "update", [Nothing EXCEPT !.vehicle = v, !.frozen = vehicle[v].bids > 0])
    /\ UNCHANGED <<bank, vehicle, lot, access, approved>>

(* Mutant: a field left out is written as null.                             *)
GivenOrNull(field, value) == field

(* A field that the request leaves out, None, keeps its value.              *)
Given(field, value) == IF field = None THEN value ELSE field

(* The prices are dropped from the request if the vehicle had bids. The     *)
(* status may be any: nothing checks it against the row's.                  *)
UpdateVehicle(r, price, status) ==
    /\ pc[r] = "update"
    /\ seen[r].frozen => price = None
    /\ vehicle' = [vehicle EXCEPT ![seen[r].vehicle].price = Given(price, @),
                                  ![seen[r].vehicle].status = Given(status, @)]
    /\ Answer(r)
    /\ UNCHANGED <<bank, lot, access, approved>>

----------------------------------------------------------------------------
(* LotsService                                                             *)

(* Mutant: vehicles of any bank are taken.                                  *)
EligibleAnyBank(v, b) ==
    /\ vehicle[v].status \notin {None, "SOLD", "CANCELLED"}
    /\ vehicle[v].lot = None

Eligible(v, b) ==
    /\ vehicle[v].bank = b
    /\ vehicle[v].status \notin {"SOLD", "CANCELLED"}
    /\ vehicle[v].lot = None

(* create finds all its vehicles eligible, ...                              *)
ReadMembers(r, b, members) ==
    /\ pc[r] = "idle" /\ bank[b] # NoBank
    /\ \A v \in members : Eligible(v, b)
    /\ Goto(r, "lot", [Nothing EXCEPT !.bank = b, !.members = members])
    /\ UNCHANGED <<bank, vehicle, lot, access, approved>>

(* Mutant: the sale type stays.                                             *)
CreateLotKeepingType(r, l, private) ==
    /\ pc[r] = "lot" /\ lot[l] = NoLot
    /\ lot' = [lot EXCEPT ![l] = [bank |-> seen[r].bank, private |-> private,
                                  count |-> Cardinality(seen[r].members)]]
    /\ vehicle' = [v \in Vehicles |-> IF v \in seen[r].members
                     THEN [vehicle[v] EXCEPT !.lot = l] ELSE vehicle[v]]
    /\ Answer(r)
    /\ UNCHANGED <<bank, access, approved>>

(* ... then creates the lot and moves them in by id, wherever they are now. *)
CreateLot(r, l, private) ==
    /\ pc[r] = "lot" /\ lot[l] = NoLot
    /\ lot' = [lot EXCEPT ![l] = [bank |-> seen[r].bank, private |-> private,
                                  count |-> Cardinality(seen[r].members)]]
    /\ vehicle' = [v \in Vehicles |-> IF v \in seen[r].members
                     THEN [vehicle[v] EXCEPT !.lot = l, !.saleType = "LOT"] ELSE vehicle[v]]
    /\ Answer(r)
    /\ UNCHANGED <<bank, access, approved>>

(* A buyer may ask once for a private lot.                                  *)
RequestAccess(l, u) ==
    /\ lot[l].private /\ access[l][u] = None
    /\ access' = [access EXCEPT ![l][u] = "PENDING"]
    /\ UNCHANGED <<bank, vehicle, lot, approved, pc, seen>>

(* A buyer may be approved without having asked.                            *)
ApproveBidder(l, u) ==
    /\ lot[l] # NoLot
    /\ approved' = [approved EXCEPT ![l] = @ \cup {u}]
    /\ access' = [access EXCEPT ![l][u] = IF @ = None THEN None ELSE "APPROVED"]
    /\ UNCHANGED <<bank, vehicle, lot, pc, seen>>

(* An await throws or the pod dies.                                         *)
Drop(r) ==
    /\ pc[r] # "idle"
    /\ Answer(r)
    /\ UNCHANGED <<bank, vehicle, lot, access, approved>>

----------------------------------------------------------------------------
(* The buyers: see VehicleSale and Auction for the steps of each.          *)

(* hold's conditional update; a running hold may end at any time here.      *)
HoldVehicle(v) ==
    /\ vehicle[v].saleType \in {"BUY_NOW", "HYBRID"}
    /\ vehicle[v].status = "LIVE" \/ (vehicle[v].status = "ON_HOLD" /\ vehicle[v].held)
    /\ vehicle' = [vehicle EXCEPT ![v].status = "ON_HOLD", ![v].held = TRUE]

(* The sweep, which may even reset a vehicle that was sold since its read.  *)
ReleaseVehicle(v) ==
    /\ vehicle[v].held \/ vehicle[v].status = "SOLD"
    /\ vehicle' = [vehicle EXCEPT ![v].status = "LIVE", ![v].held = FALSE]

(* The compare-and-set of a bid.                                            *)
BidOnVehicle(v) ==
    /\ vehicle[v].saleType \in {"AUCTION", "HYBRID"} /\ vehicle[v].status = "LIVE"
    /\ vehicle[v].bids < MaxBids
    /\ vehicle' = [vehicle EXCEPT ![v].bids = @ + 1]

(* The payment of one who holds the vehicle or has bid for it.              *)
SellVehicle(v) ==
    /\ vehicle[v].held \/ vehicle[v].bids > 0
    /\ vehicle' = [vehicle EXCEPT ![v].status = "SOLD", ![v].held = FALSE]

----------------------------------------------------------------------------
BankOffice(r) ==
    \/ \E b \in Banks : ReadBank(r, b)
    \/ \E v \in Vehicles, t \in SaleTypes, p \in Prices : InsertVehicle(r, v, t, p)
    \/ CountVehicle(r)
    \/ \E v \in Vehicles : ReadVehicleRow(r, v)
    \/ \E p \in Prices \cup {None}, s \in Changes \cup {None} : UpdateVehicle(r, p, s)
    \/ \E b \in Banks, members \in SUBSET Vehicles : ReadMembers(r, b, members)
    \/ \E l \in Lots, private \in Visibilities : CreateLot(r, l, private)
    \/ Drop(r)

Buyer(v) ==
    /\ HoldVehicle(v) \/ ReleaseVehicle(v) \/ BidOnVehicle(v) \/ SellVehicle(v)
    /\ UNCHANGED <<bank, lot, access, approved, pc, seen>>

CatalogueNext ==
    \/ \E b \in Banks : CreateBank(b) \/ \E verified \in BOOLEAN : UpdateBank(b, verified)
    \/ \E r \in Requests : BankOffice(r)
    \/ \E l \in Lots, u \in Bidders : RequestAccess(l, u) \/ ApproveBidder(l, u)
    \/ \E v \in Vehicles : Buyer(v)

CatalogueSpec == CatalogueInit /\ [][CatalogueNext]_catalogueVars

----------------------------------------------------------------------------
(* Properties                                                              *)

RequestOK(r) ==
    /\ pc[r] \in {"insert", "count", "lot"} => seen[r].bank # None
    /\ pc[r] \in {"insert", "count"} => bank[seen[r].bank] # NoBank
    /\ pc[r] = "update" => seen[r].vehicle # None /\ vehicle[seen[r].vehicle] # NoVehicle
    /\ \A v \in seen[r].members : vehicle[v] # NoVehicle

(* The columns hold what their declarations say; requests past their first  *)
(* read work on rows that exist.                                            *)
CatalogueTypeOK ==
    /\ bank \in [Banks -> BankType \cup {NoBank}]
    /\ vehicle \in [Vehicles -> VehicleType \cup {NoVehicle}]
    /\ lot \in [Lots -> LotType \cup {NoLot}]
    /\ access \in [Lots -> [Bidders -> {"PENDING", "APPROVED", None}]]
    /\ approved \in [Lots -> SUBSET Bidders]
    /\ pc \in [Requests -> {"idle", "insert", "count", "update", "lot"}]
    /\ seen \in [Requests -> SeenType]
    /\ \A r \in Requests : RequestOK(r)

VehiclesOf(b) == {v \in Vehicles : vehicle[v].bank = b}
Counting(b) == {r \in Requests : pc[r] = "count" /\ seen[r].bank = b}

(* vehicles.service.ts:137: the insert and the count are two statements. A  *)
(* crash between them loses a count, but no interleaving of clerks and no   *)
(* refusal ever makes a bank's counter exceed the vehicles it has listed.   *)
ListedNeverOverstated ==
    \A b \in Banks : bank[b].listed + Cardinality(Counting(b)) <= Cardinality(VehiclesOf(b))

Members(l) == {v \in Vehicles : vehicle[v].lot = l}

(* lots.service.ts:53-93: two lots created at once may both claim a vehicle *)
(* and the later one keeps it; even so a lot holds only vehicles of its own *)
(* bank, sold as LOT, and never more of them than its vehicleCount says.    *)
LotsConsistent ==
    \A l \in Lots :
      /\ \A v \in Members(l) : vehicle[v].bank = lot[l].bank /\ vehicle[v].saleType = "LOT"
      /\ Cardinality(Members(l)) <= lot[l].count

(* lots.service.ts:89, "switch their saleType": a vehicle that was held     *)
(* before may sit in a lot on hold, but no buyer gets a new hold on one,    *)
(* and no vehicle leaves its lot but for another.                           *)
NoNewHoldInLot ==
    [][\A v \in Vehicles : vehicle[v].lot # None =>
         vehicle'[v].lot # None /\ (vehicle'[v].held => vehicle[v].held)]_catalogueVars

(* vehicles.service.ts:158, "Once any bid is placed, financial fields are   *)
(* frozen": an update that read the row before the first bid still writes   *)
(* its price, but once those are over the price stays.                      *)
PriceSettled(v) ==
    /\ vehicle[v].bids > 0
    /\ \A r \in Requests : pc[r] = "update" /\ seen[r].vehicle = v => seen[r].frozen

BidFreezesPrice ==
    [][\A v \in Vehicles : PriceSettled(v) =>
         PriceSettled(v)' /\ vehicle'[v].price = vehicle[v].price]_catalogueVars
============================================================================
