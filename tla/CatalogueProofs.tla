--------------------------- MODULE CatalogueProofs ---------------------------
(***************************************************************************)
(* Proofs about Catalogue, for any banks, vehicles, lots and requests: the *)
(* vehicles and the requests in flight are only assumed to be finitely     *)
(* many, so that they can be counted.                                      *)
(***************************************************************************)
EXTENDS Catalogue, FiniteSetTheorems, TLAPS

Places == {"idle", "insert", "count", "update", "lot"}

(* The invariant: the properties, and that whoever creates a lot holds      *)
(* vehicles of the bank it creates it for.                                  *)
MembersOwn ==
    \A r \in Requests : \A v \in seen[r].members : vehicle[v].bank = seen[r].bank

CInv == CatalogueTypeOK /\ MembersOwn /\ LotsConsistent /\ ListedNeverOverstated

(* A row that is there is a vehicle of some bank; one that is not is empty. *)
LEMMA Row ==
    ASSUME CatalogueTypeOK, NEW v \in Vehicles
    PROVE  /\ vehicle[v] # NoVehicle => vehicle[v] \in VehicleType /\ vehicle[v].bank \in Banks
           /\ vehicle[v].bank # None => vehicle[v] # NoVehicle
           /\ vehicle[v] = NoVehicle => /\ vehicle[v].lot = None /\ vehicle[v].bids = 0
                                        /\ vehicle[v].held = FALSE /\ vehicle[v].status = None
                                        /\ vehicle[v].bank = None
           /\ vehicle[v].lot \in Lots \cup {None} /\ vehicle[v].bids \in Nat
  BY CatalogueAssumption DEF CatalogueTypeOK, VehicleType, NoVehicle

LEMMA BidsCounted ==
    ASSUME CatalogueTypeOK, NEW v \in Vehicles
    PROVE  vehicle[v].bids \in Nat
  BY Row

LEMMA LotRow ==
    ASSUME CatalogueTypeOK, NEW l \in Lots
    PROVE  /\ lot[l] # NoLot => lot[l] \in LotType /\ lot[l].bank \in Banks
           /\ lot[l] = NoLot => lot[l].bank = None /\ lot[l].count = 0
  BY CatalogueAssumption DEF CatalogueTypeOK, LotType, NoLot

LEMMA BankRow ==
    ASSUME CatalogueTypeOK, NEW b \in Banks
    PROVE  /\ bank[b] # NoBank => bank[b] \in BankType /\ bank[b].listed \in Nat
           /\ bank[b] = NoBank => bank[b].listed = -1
           /\ bank[b].listed \in Int
  BY DEF CatalogueTypeOK, BankType, NoBank

(* The sets that are counted are finite.                                    *)
LEMMA Countable ==
    /\ \A l \in Lots : IsFiniteSet(Members(l)) /\ Cardinality(Members(l)) \in Nat
    /\ \A b \in Banks : IsFiniteSet(VehiclesOf(b)) /\ Cardinality(VehiclesOf(b)) \in Nat
    /\ \A b \in Banks : IsFiniteSet(Counting(b)) /\ Cardinality(Counting(b)) \in Nat
  <1>1. ASSUME NEW S \in SUBSET Vehicles PROVE IsFiniteSet(S) /\ Cardinality(S) \in Nat
    BY FS_Subset, FS_CardinalityType, CatalogueAssumption
  <1>2. ASSUME NEW S \in SUBSET Requests PROVE IsFiniteSet(S) /\ Cardinality(S) \in Nat
    BY FS_Subset, FS_CardinalityType, CatalogueAssumption
  <1> QED
    BY <1>1, <1>2 DEF Members, VehiclesOf, Counting

LEMMA NothingTyped == Nothing \in SeenType
  BY DEF Nothing, SeenType, Statuses

LEMMA CInvInit == CatalogueInit => CInv
  <1> SUFFICES ASSUME CatalogueInit PROVE CInv
    OBVIOUS
  <1>1. CatalogueTypeOK
    BY NothingTyped
    DEF CatalogueInit, CatalogueTypeOK, RequestOK, Nothing
  <1>2. MembersOwn
    BY DEF CatalogueInit, MembersOwn, Nothing
  <1>3. \A v \in Vehicles : vehicle[v].lot = None /\ vehicle[v].bank = None
    BY DEF CatalogueInit, NoVehicle
  <1>4. \A l \in Lots : Members(l) = {} /\ lot[l].count = 0
    BY <1>3, CatalogueAssumption DEF Members, CatalogueInit, NoLot
  <1>5. LotsConsistent
    BY <1>4, FS_EmptySet DEF LotsConsistent
  <1>6. \A b \in Banks : Counting(b) = {} /\ bank[b].listed = -1
    BY DEF Counting, CatalogueInit, NoBank
  <1>7. ListedNeverOverstated
    BY <1>6, FS_EmptySet, Countable DEF ListedNeverOverstated
  <1> QED
    BY <1>1, <1>2, <1>5, <1>7 DEF CInv

----------------------------------------------------------------------------
(* What leaves each count right                                            *)

(* Vehicles that stay in their lots.                                        *)
LEMMA LotsKept ==
    ASSUME LotsConsistent, lot' = lot,
           \A v \in Vehicles : /\ vehicle'[v].lot = vehicle[v].lot
                               /\ vehicle[v].lot # None =>
                                    /\ vehicle'[v].bank = vehicle[v].bank
                                    /\ vehicle'[v].saleType = vehicle[v].saleType
    PROVE  LotsConsistent'
  <1>1. \A l \in Lots : Members(l)' = Members(l)
    BY DEF Members
  <1>2. \A l \in Lots : \A v \in Members(l) : v \in Vehicles /\ vehicle[v].lot # None
    BY CatalogueAssumption DEF Members
  <1> QED
    BY <1>1, <1>2 DEF LotsConsistent

(* Banks that list no less and count no more.                               *)
LEMMA ListedKept ==
    ASSUME CatalogueTypeOK, ListedNeverOverstated,
           \A b \in Banks : /\ bank'[b].listed = bank[b].listed
                            /\ Counting(b)' \subseteq Counting(b)
                            /\ VehiclesOf(b) \subseteq VehiclesOf(b)'
    PROVE  ListedNeverOverstated'
  <1> SUFFICES ASSUME NEW b \in Banks
               PROVE  (bank[b].listed + Cardinality(Counting(b)) <= Cardinality(VehiclesOf(b)))'
    BY DEF ListedNeverOverstated
  <1>1. VehiclesOf(b)' \in SUBSET Vehicles
    BY DEF VehiclesOf
  <1>2. IsFiniteSet(VehiclesOf(b)') /\ Cardinality(VehiclesOf(b)') \in Nat
    BY <1>1, FS_Subset, FS_CardinalityType, CatalogueAssumption
  <1>3. Cardinality(VehiclesOf(b)) <= Cardinality(VehiclesOf(b)')
    BY <1>2, FS_Subset
  <1>4. Cardinality(Counting(b)') <= Cardinality(Counting(b))
        /\ Cardinality(Counting(b)') \in Nat
    BY FS_Subset, FS_CardinalityType, Countable
  <1>5. bank[b].listed + Cardinality(Counting(b)) <= Cardinality(VehiclesOf(b))
    BY DEF ListedNeverOverstated
  <1> QED
    BY <1>2, <1>3, <1>4, <1>5, BankRow, Countable

(* Each request goes on as it was or is over.                               *)
Ended ==
    /\ pc' \in [Requests -> Places] /\ seen' \in [Requests -> SeenType]
    /\ \A q \in Requests : \/ pc'[q] = pc[q] /\ seen'[q] = seen[q]
                           \/ pc'[q] = "idle" /\ seen'[q] = Nothing

LEMMA AnswerEnds ==
    ASSUME CatalogueTypeOK, NEW r \in Requests, Answer(r)
    PROVE  Ended
  BY NothingTyped DEF Answer, Goto, Ended, CatalogueTypeOK, Places

LEMMA UnchangedEnds ==
    ASSUME CatalogueTypeOK, UNCHANGED <<pc, seen>>
    PROVE  Ended
  BY DEF Ended, CatalogueTypeOK, Places

(* Such requests stay right while rows stay and vehicles stay their bank's. *)
LEMMA RequestsKept ==
    ASSUME CatalogueTypeOK, MembersOwn, Ended,
           \A b \in Banks : bank[b] # NoBank => bank'[b] # NoBank,
           \A v \in Vehicles : vehicle[v] # NoVehicle =>
                vehicle'[v] # NoVehicle /\ vehicle'[v].bank = vehicle[v].bank
    PROVE  /\ \A q \in Requests : RequestOK(q)'
           /\ MembersOwn'
           /\ \A b \in Banks : Counting(b)' \subseteq Counting(b)
  <1>1. \A q \in Requests : seen[q] \in SeenType /\ RequestOK(q)
    BY DEF CatalogueTypeOK
  <1>2. ASSUME NEW q \in Requests
        PROVE RequestOK(q)' /\ \A v \in seen'[q].members : vehicle'[v].bank = seen'[q].bank
    <2>1. CASE pc'[q] = "idle" /\ seen'[q] = Nothing
      BY <2>1 DEF RequestOK, Nothing
    <2>2. CASE pc'[q] = pc[q] /\ seen'[q] = seen[q]
      <3>1. seen[q].bank \in Banks \cup {None} /\ seen[q].vehicle \in Vehicles \cup {None}
            /\ seen[q].members \subseteq Vehicles
        BY <1>1 DEF SeenType
      <3> QED
        BY <1>1, <2>2, <3>1 DEF RequestOK, MembersOwn
    <2> QED
      BY <2>1, <2>2 DEF Ended
  <1>3. ASSUME NEW b \in Banks PROVE Counting(b)' \subseteq Counting(b)
    BY DEF Counting, Ended
  <1> QED
    BY <1>2, <1>3 DEF MembersOwn

----------------------------------------------------------------------------
(* Each step preserves the invariant                                       *)

(* A vehicle's row is rewritten, and stays in its bank and its lot.         *)
LEMMA RewriteStep ==
    ASSUME CInv, Ended, NEW v \in Vehicles, vehicle[v] # NoVehicle,
           NEW row \in VehicleType, vehicle' = [vehicle EXCEPT ![v] = row],
           row.bank = vehicle[v].bank, row.saleType = vehicle[v].saleType,
           row.lot = vehicle[v].lot,
           UNCHANGED <<bank, lot, access, approved>>
    PROVE  CInv'
  <1>1. CatalogueTypeOK /\ MembersOwn /\ LotsConsistent /\ ListedNeverOverstated
    BY DEF CInv
  <1>2. row # NoVehicle
    BY CatalogueAssumption DEF VehicleType, NoVehicle
  <1>3. /\ vehicle' \in [Vehicles -> VehicleType \cup {NoVehicle}] /\ vehicle'[v] = row
        /\ \A w \in Vehicles : w # v => vehicle'[w] = vehicle[w]
    BY <1>1 DEF CatalogueTypeOK
  <1>4. \A w \in Vehicles : /\ vehicle'[w].lot = vehicle[w].lot
                            /\ vehicle'[w].bank = vehicle[w].bank
                            /\ vehicle'[w].saleType = vehicle[w].saleType
                            /\ vehicle[w] # NoVehicle => vehicle'[w] # NoVehicle
    BY <1>2, <1>3
  <1>5. LotsConsistent'
    BY <1>1, <1>4, LotsKept
  <1>6. /\ \A q \in Requests : RequestOK(q)'
        /\ MembersOwn' /\ \A b \in Banks : Counting(b)' \subseteq Counting(b)
    BY <1>1, <1>4, RequestsKept
  <1>7. ListedNeverOverstated'
    <2>1. \A b \in Banks : VehiclesOf(b) \subseteq VehiclesOf(b)'
      BY <1>4 DEF VehiclesOf
    <2> QED
      BY <1>1, <1>6, <2>1, ListedKept
  <1>8. CatalogueTypeOK'
    BY <1>1, <1>3, <1>6 DEF CatalogueTypeOK, Ended, Places
  <1> QED
    BY <1>5, <1>6, <1>7, <1>8 DEF CInv

(* What the sale does to a row.                                             *)
LEMMA BuyerRow ==
    ASSUME CatalogueTypeOK, NEW v \in Vehicles,
           HoldVehicle(v) \/ ReleaseVehicle(v) \/ BidOnVehicle(v) \/ SellVehicle(v)
    PROVE  /\ vehicle[v] # NoVehicle
           /\ \E row \in VehicleType :
                /\ vehicle' = [vehicle EXCEPT ![v] = row]
                /\ row.bank = vehicle[v].bank /\ row.saleType = vehicle[v].saleType
                /\ row.lot = vehicle[v].lot /\ row.price = vehicle[v].price
                /\ row.bids >= vehicle[v].bids
                /\ row.held => vehicle[v].held \/ vehicle[v].saleType # "LOT"
  <1>1. vehicle[v] # NoVehicle
    BY Row, CatalogueAssumption
    DEF HoldVehicle, ReleaseVehicle, BidOnVehicle, SellVehicle, Statuses, NoVehicle
  <1>2. vehicle[v] \in VehicleType
    BY <1>1, Row
  <1>3. CASE HoldVehicle(v)
    <2> DEFINE row == [vehicle[v] EXCEPT !.status = "ON_HOLD", !.held = TRUE]
    <2>1. vehicle' = [vehicle EXCEPT ![v] = row] /\ vehicle[v].saleType # "LOT"
      BY <1>3 DEF HoldVehicle
    <2>2. row \in VehicleType /\ row.bids = vehicle[v].bids /\ row.price = vehicle[v].price
          /\ row.bank = vehicle[v].bank /\ row.saleType = vehicle[v].saleType
          /\ row.lot = vehicle[v].lot
      BY <1>2 DEF VehicleType, Statuses
    <2> HIDE DEF row
    <2>3. row.held => vehicle[v].held \/ vehicle[v].saleType # "LOT"
      BY <2>1, <2>2
    <2>4. row.bids >= vehicle[v].bids
      BY <1>2, <2>2 DEF VehicleType
    <2> QED
      BY <1>1, <2>1, <2>2, <2>3, <2>4, Zenon
  <1>4. CASE ReleaseVehicle(v)
    <2> DEFINE row == [vehicle[v] EXCEPT !.status = "LIVE", !.held = FALSE]
    <2>1. vehicle' = [vehicle EXCEPT ![v] = row]
      BY <1>4 DEF ReleaseVehicle
    <2>2. row \in VehicleType /\ row.bids = vehicle[v].bids /\ row.price = vehicle[v].price
          /\ row.bank = vehicle[v].bank /\ row.saleType = vehicle[v].saleType
          /\ row.lot = vehicle[v].lot /\ row.held = FALSE
      BY <1>2 DEF VehicleType, Statuses
    <2> HIDE DEF row
    <2>3. row.held => vehicle[v].held \/ vehicle[v].saleType # "LOT"
      BY <2>1, <2>2
    <2>4. row.bids >= vehicle[v].bids
      BY <1>2, <2>2 DEF VehicleType
    <2> QED
      BY <1>1, <2>1, <2>2, <2>3, <2>4, Zenon
  <1>5. CASE BidOnVehicle(v)
    <2> DEFINE row == [vehicle[v] EXCEPT !.bids = vehicle[v].bids + 1]
    <2>1. vehicle' = [vehicle EXCEPT ![v] = row]
      BY <1>5 DEF BidOnVehicle
    <2>2. row \in VehicleType /\ row.bids >= vehicle[v].bids /\ row.price = vehicle[v].price
          /\ row.bank = vehicle[v].bank /\ row.saleType = vehicle[v].saleType
          /\ row.lot = vehicle[v].lot /\ row.held = vehicle[v].held
      BY <1>2 DEF VehicleType
    <2> HIDE DEF row
    <2>3. row.held => vehicle[v].held \/ vehicle[v].saleType # "LOT"
      BY <2>1, <2>2
    <2>4. row.bids >= vehicle[v].bids
      BY <1>2, <2>2 DEF VehicleType
    <2> QED
      BY <1>1, <2>1, <2>2, <2>3, <2>4, Zenon
  <1>6. CASE SellVehicle(v)
    <2> DEFINE row == [vehicle[v] EXCEPT !.status = "SOLD", !.held = FALSE]
    <2>1. vehicle' = [vehicle EXCEPT ![v] = row]
      BY <1>6 DEF SellVehicle
    <2>2. row \in VehicleType /\ row.bids = vehicle[v].bids /\ row.price = vehicle[v].price
          /\ row.bank = vehicle[v].bank /\ row.saleType = vehicle[v].saleType
          /\ row.lot = vehicle[v].lot /\ row.held = FALSE
      BY <1>2 DEF VehicleType, Statuses
    <2> HIDE DEF row
    <2>3. row.held => vehicle[v].held \/ vehicle[v].saleType # "LOT"
      BY <2>1, <2>2
    <2>4. row.bids >= vehicle[v].bids
      BY <1>2, <2>2 DEF VehicleType
    <2> QED
      BY <1>1, <2>1, <2>2, <2>3, <2>4, Zenon
  <1> QED
    BY <1>3, <1>4, <1>5, <1>6

LEMMA BuyerStep ==
    ASSUME CInv, NEW v \in Vehicles, Buyer(v)
    PROVE  CInv'
  <1>1. CatalogueTypeOK /\ UNCHANGED <<bank, lot, access, approved, pc, seen>>
        /\ (HoldVehicle(v) \/ ReleaseVehicle(v) \/ BidOnVehicle(v) \/ SellVehicle(v))
    BY DEF CInv, Buyer
  <1>2. PICK row \in VehicleType :
                /\ vehicle' = [vehicle EXCEPT ![v] = row]
                /\ row.bank = vehicle[v].bank /\ row.saleType = vehicle[v].saleType
                /\ row.lot = vehicle[v].lot
    BY <1>1, BuyerRow
  <1> QED
    BY <1>1, <1>2, BuyerRow, UnchangedEnds, RewriteStep

(* What an update does to a row.                                            *)
LEMMA UpdateRow ==
    ASSUME CatalogueTypeOK, NEW r \in Requests,
           NEW p \in Prices \cup {None}, NEW s \in Changes \cup {None}, UpdateVehicle(r, p, s)
    PROVE  /\ seen[r].vehicle \in Vehicles /\ vehicle[seen[r].vehicle] # NoVehicle
           /\ \E row \in VehicleType :
                /\ vehicle' = [vehicle EXCEPT ![seen[r].vehicle] = row]
                /\ row.bank = vehicle[seen[r].vehicle].bank
                /\ row.saleType = vehicle[seen[r].vehicle].saleType
                /\ row.lot = vehicle[seen[r].vehicle].lot
                /\ row.bids = vehicle[seen[r].vehicle].bids
                /\ row.held = vehicle[seen[r].vehicle].held
                /\ seen[r].frozen => row.price = vehicle[seen[r].vehicle].price
  <1>1. pc[r] = "update" /\ seen[r] \in SeenType /\ RequestOK(r)
    BY DEF CatalogueTypeOK, UpdateVehicle
  <1>2. PICK v \in Vehicles : v = seen[r].vehicle /\ vehicle[v] # NoVehicle
    BY <1>1 DEF RequestOK, SeenType
  <1> DEFINE row == [vehicle[v] EXCEPT !.price = Given(p, vehicle[v].price),
                                       !.status = Given(s, vehicle[v].status)]
  <1>3. vehicle[v] \in VehicleType
    BY <1>2, Row
  <1>4. Given(p, vehicle[v].price) \in Prices /\ Given(s, vehicle[v].status) \in Statuses
    BY <1>3, CatalogueAssumption DEF Given, VehicleType
  <1>5. row \in VehicleType /\ row.price = Given(p, vehicle[v].price)
        /\ row.bank = vehicle[v].bank /\ row.saleType = vehicle[v].saleType
        /\ row.lot = vehicle[v].lot /\ row.bids = vehicle[v].bids /\ row.held = vehicle[v].held
    BY <1>3, <1>4 DEF VehicleType
  <1>6. vehicle' = [vehicle EXCEPT ![v] = row] /\ (seen[r].frozen => p = None)
    BY <1>2 DEF UpdateVehicle
  <1>7. seen[r].frozen => row.price = vehicle[v].price
    BY <1>5, <1>6 DEF Given
  <1> HIDE DEF row
  <1> QED
    BY <1>2, <1>5, <1>6, <1>7

LEMMA UpdateStep ==
    ASSUME CInv, NEW r \in Requests,
           NEW p \in Prices \cup {None}, NEW s \in Changes \cup {None}, UpdateVehicle(r, p, s)
    PROVE  CInv'
  <1>1. CatalogueTypeOK /\ Answer(r) /\ UNCHANGED <<bank, lot, access, approved>>
    BY DEF CInv, UpdateVehicle
  <1>2. PICK v \in Vehicles : v = seen[r].vehicle /\ vehicle[v] # NoVehicle
    BY <1>1, UpdateRow
  <1>3. PICK row \in VehicleType :
                /\ vehicle' = [vehicle EXCEPT ![v] = row]
                /\ row.bank = vehicle[v].bank /\ row.saleType = vehicle[v].saleType
                /\ row.lot = vehicle[v].lot
    BY <1>1, <1>2, UpdateRow
  <1> QED
    BY <1>1, <1>2, <1>3, AnswerEnds, RewriteStep

(* Only what is asked of private lots changes.                              *)
LEMMA AccessStep ==
    ASSUME CInv, NEW l \in Lots, NEW u \in Bidders, RequestAccess(l, u) \/ ApproveBidder(l, u)
    PROVE  CInv'
  <1>1. CatalogueTypeOK /\ MembersOwn /\ LotsConsistent /\ ListedNeverOverstated
        /\ UNCHANGED <<bank, vehicle, lot, pc, seen>>
    BY DEF CInv, RequestAccess, ApproveBidder
  <1>2. /\ access' \in [Lots -> [Bidders -> {"PENDING", "APPROVED", None}]]
        /\ approved' \in [Lots -> SUBSET Bidders]
    <2> DEFINE Answers == {"PENDING", "APPROVED", None}
    <2>1. access[l] \in [Bidders -> Answers] /\ access \in [Lots -> [Bidders -> Answers]]
          /\ approved \in [Lots -> SUBSET Bidders]
      BY <1>1 DEF CatalogueTypeOK
    <2>2. \E answer \in Answers : access' = [access EXCEPT ![l] = [access[l] EXCEPT ![u] = answer]]
      <3>1. CASE RequestAccess(l, u)
        BY <3>1 DEF RequestAccess
      <3>2. CASE ApproveBidder(l, u)
        BY <3>2 DEF ApproveBidder
      <3> QED
        BY <3>1, <3>2
    <2>3. \E answer \in Answers :
            /\ access' = [access EXCEPT ![l] = [access[l] EXCEPT ![u] = answer]]
            /\ [access[l] EXCEPT ![u] = answer] \in [Bidders -> Answers]
      BY <2>1, <2>2
    <2>4. approved' = approved \/ approved' = [approved EXCEPT ![l] = approved[l] \cup {u}]
      BY DEF RequestAccess, ApproveBidder
    <2> QED
      BY <2>1, <2>3, <2>4
  <1>3. LotsConsistent'
    BY <1>1, LotsKept
  <1>4. /\ \A q \in Requests : RequestOK(q)'
        /\ MembersOwn' /\ \A b \in Banks : Counting(b)' \subseteq Counting(b)
    BY <1>1, UnchangedEnds, RequestsKept
  <1>5. ListedNeverOverstated'
    BY <1>1, <1>4, ListedKept DEF VehiclesOf
  <1> QED
    BY <1>1, <1>2, <1>3, <1>4, <1>5 DEF CInv, CatalogueTypeOK

LEMMA DropStep ==
    ASSUME CInv, NEW r \in Requests, Drop(r)
    PROVE  CInv'
  <1>1. CatalogueTypeOK /\ MembersOwn /\ LotsConsistent /\ ListedNeverOverstated
        /\ Answer(r) /\ UNCHANGED <<bank, vehicle, lot, access, approved>>
    BY DEF CInv, Drop
  <1>2. Ended
    BY <1>1, AnswerEnds
  <1>3. LotsConsistent'
    BY <1>1, LotsKept
  <1>4. /\ \A q \in Requests : RequestOK(q)'
        /\ MembersOwn' /\ \A b \in Banks : Counting(b)' \subseteq Counting(b)
    BY <1>1, <1>2, RequestsKept
  <1>5. ListedNeverOverstated'
    BY <1>1, <1>4, ListedKept DEF VehiclesOf
  <1> QED
    BY <1>1, <1>2, <1>3, <1>4, <1>5 DEF CInv, CatalogueTypeOK, Ended, Places

(* The row of a bank appears or changes its verification.                   *)
LEMMA BankStep ==
    ASSUME CInv, NEW b \in Banks, CreateBank(b) \/ \E verified \in BOOLEAN : UpdateBank(b, verified)
    PROVE  CInv'
  <1>1. CatalogueTypeOK /\ MembersOwn /\ LotsConsistent /\ ListedNeverOverstated
        /\ UNCHANGED <<vehicle, lot, access, approved, pc, seen>>
    BY DEF CInv, CreateBank, UpdateBank
  <1>2. PICK row \in BankType : /\ bank' = [bank EXCEPT ![b] = row]
                                /\ row.listed = IF bank[b] = NoBank THEN 0 ELSE bank[b].listed
    <2>1. CASE CreateBank(b)
      <3> DEFINE row == [verified |-> FALSE, listed |-> 0]
      <3>1. row \in BankType /\ row.listed = 0 /\ bank' = [bank EXCEPT ![b] = row] /\ bank[b] = NoBank
        BY <2>1 DEF CreateBank, BankType
      <3> QED
        BY <3>1
    <2>2. ASSUME NEW verified \in BOOLEAN, UpdateBank(b, verified)
          PROVE  \E row \in BankType : /\ bank' = [bank EXCEPT ![b] = row]
                                       /\ row.listed = bank[b].listed /\ bank[b] # NoBank
      <3> DEFINE row == [bank[b] EXCEPT !.verified = verified]
      <3>1. bank[b] # NoBank /\ bank[b] \in BankType
        BY <1>1, <2>2, BankRow DEF UpdateBank
      <3>2. row \in BankType /\ row.listed = bank[b].listed
        BY <3>1 DEF BankType
      <3>3. bank' = [bank EXCEPT ![b] = row]
        BY <2>2 DEF UpdateBank
      <3> HIDE DEF row
      <3> QED
        BY <3>1, <3>2, <3>3
    <2> QED
      BY <2>1, <2>2
  <1>3. /\ bank' \in [Banks -> BankType \cup {NoBank}] /\ bank'[b] = row /\ row # NoBank
        /\ \A c \in Banks : c # b => bank'[c] = bank[c]
    BY <1>1, <1>2 DEF CatalogueTypeOK, BankType, NoBank
  <1>4. LotsConsistent'
    BY <1>1, LotsKept
  <1>5. /\ \A q \in Requests : RequestOK(q)'
        /\ MembersOwn' /\ \A c \in Banks : Counting(c)' \subseteq Counting(c)
    BY <1>1, <1>3, UnchangedEnds, RequestsKept
  <1>6. \A c \in Banks : Counting(c)' = Counting(c) /\ VehiclesOf(c)' = VehiclesOf(c)
    BY <1>1 DEF Counting, VehiclesOf
  <1>7. ASSUME bank[b] = NoBank PROVE Counting(b) = {}
    <2>1. \A r \in Requests : pc[r] = "count" => seen[r].bank # b
      BY <1>1, <1>7 DEF CatalogueTypeOK, RequestOK
    <2> QED
      BY <2>1 DEF Counting
  <1>8. ASSUME NEW c \in Banks
        PROVE  (bank[c].listed + Cardinality(Counting(c)) <= Cardinality(VehiclesOf(c)))'
    <2>1. bank[c].listed + Cardinality(Counting(c)) <= Cardinality(VehiclesOf(c))
      BY <1>1 DEF ListedNeverOverstated
    <2>2. CASE c = b /\ bank[b] = NoBank
      BY <1>2, <1>3, <1>6, <1>7, <2>2, FS_EmptySet, Countable
    <2>3. CASE ~(c = b /\ bank[b] = NoBank)
      BY <1>2, <1>3, <1>6, <2>1, <2>3
    <2> QED
      BY <2>2, <2>3
  <1> QED
    BY <1>1, <1>3, <1>4, <1>5, <1>8 DEF CInv, CatalogueTypeOK, ListedNeverOverstated

(* A request reads what it will work on.                                    *)
LEMMA ReadStep ==
    ASSUME CInv, NEW r \in Requests, pc[r] = "idle",
           NEW p \in {"insert", "update", "lot"}, NEW s \in SeenType, Goto(r, p, s),
           p \in {"insert", "lot"} => s.bank # None,
           p = "insert" => bank[s.bank] # NoBank,
           p = "update" => s.vehicle # None /\ vehicle[s.vehicle] # NoVehicle,
           \A v \in s.members : vehicle[v] # NoVehicle /\ vehicle[v].bank = s.bank,
           UNCHANGED <<bank, vehicle, lot, access, approved>>
    PROVE  CInv'
  <1>1. CatalogueTypeOK /\ MembersOwn /\ LotsConsistent /\ ListedNeverOverstated
    BY DEF CInv
  <1>2. /\ pc' \in [Requests -> Places] /\ seen' \in [Requests -> SeenType]
        /\ pc'[r] = p /\ seen'[r] = s
        /\ \A q \in Requests : q # r => pc'[q] = pc[q] /\ seen'[q] = seen[q]
    BY <1>1 DEF Goto, CatalogueTypeOK, Places
  <1>3. LotsConsistent'
    BY LotsKept, <1>1
  <1>4. ASSUME NEW q \in Requests
        PROVE  RequestOK(q)' /\ \A v \in seen'[q].members : vehicle'[v].bank = seen'[q].bank
    <2>1. CASE q = r
      BY <1>2, <2>1 DEF RequestOK
    <2>2. CASE q # r
      BY <1>1, <1>2, <2>2 DEF RequestOK, CatalogueTypeOK, MembersOwn
    <2> QED
      BY <2>1, <2>2
  <1>5. \A b \in Banks : Counting(b)' \subseteq Counting(b)
    BY <1>2 DEF Counting
  <1>6. ListedNeverOverstated'
    BY <1>1, <1>5, ListedKept DEF VehiclesOf
  <1> QED
    BY <1>1, <1>2, <1>3, <1>4, <1>6 DEF CInv, CatalogueTypeOK, Places, MembersOwn

(* A new row; its count is still to come.                                   *)
LEMMA InsertStep ==
    ASSUME CInv, NEW r \in Requests, NEW v \in Vehicles, NEW t \in SaleTypes, NEW p \in Prices,
           InsertVehicle(r, v, t, p)
    PROVE  CInv'
  <1>1. CatalogueTypeOK /\ MembersOwn /\ LotsConsistent /\ ListedNeverOverstated
        /\ pc[r] = "insert" /\ UNCHANGED <<bank, lot, access, approved>>
    BY DEF CInv, InsertVehicle
  <1>2. CASE vehicle[v] # NoVehicle
    <2>1. Answer(r) /\ vehicle' = vehicle
      BY <1>2 DEF InsertVehicle
    <2> QED
      BY <1>1, <2>1, DropStep DEF Drop
  <1>3. CASE vehicle[v] = NoVehicle
    <2>1. PICK b \in Banks : b = seen[r].bank /\ bank[b] # NoBank
      BY <1>1 DEF CatalogueTypeOK, RequestOK, SeenType
    <2> DEFINE new == [bank |-> b, saleType |-> t, status |-> seen[r].status,
                       price |-> p, bids |-> 0, held |-> FALSE, lot |-> None]
    <2>2. new \in VehicleType /\ new.bank = b /\ new.lot = None /\ new # NoVehicle
      BY <1>1, CatalogueAssumption DEF CatalogueTypeOK, SeenType, VehicleType, NoVehicle
    <2>3. vehicle' = [vehicle EXCEPT ![v] = new] /\ Goto(r, "count", seen[r])
      BY <1>3, <2>1 DEF InsertVehicle
    <2> HIDE DEF new
    <2>4. /\ vehicle' \in [Vehicles -> VehicleType \cup {NoVehicle}] /\ vehicle'[v] = new
          /\ \A w \in Vehicles : w # v => vehicle'[w] = vehicle[w]
      BY <1>1, <2>2, <2>3 DEF CatalogueTypeOK
    <2>5. /\ pc' \in [Requests -> Places] /\ pc'[r] = "count" /\ seen' = seen
          /\ \A q \in Requests : q # r => pc'[q] = pc[q]
      BY <1>1, <2>3 DEF Goto, CatalogueTypeOK, Places
    <2>6. vehicle[v].bank = None /\ vehicle[v].lot = None
      BY <1>1, <1>3, Row
    <2>7. LotsConsistent'
      BY <1>1, <2>2, <2>4, <2>6, LotsKept
    <2>8. ASSUME NEW q \in Requests
          PROVE  RequestOK(q)' /\ \A w \in seen'[q].members : vehicle'[w].bank = seen'[q].bank
      <3>1. seen[q] \in SeenType /\ RequestOK(q)
            /\ \A w \in seen[q].members : vehicle[w].bank = seen[q].bank
        BY <1>1 DEF CatalogueTypeOK, MembersOwn
      <3>2. seen[q].members \subseteq Vehicles /\ seen[q].vehicle \in Vehicles \cup {None}
        BY <3>1 DEF SeenType
      <3>3. v \notin seen[q].members
        BY <1>3, <3>1 DEF RequestOK
      <3>4. CASE q = r
        BY <1>1, <2>1, <2>2, <2>4, <2>5, <3>1, <3>2, <3>3, <3>4, CatalogueAssumption DEF RequestOK
      <3>5. CASE q # r
        BY <1>1, <2>2, <2>4, <2>5, <3>1, <3>2, <3>3, <3>5 DEF RequestOK
      <3> QED
        BY <3>4, <3>5
    <2>9. ASSUME NEW c \in Banks
          PROVE  (bank[c].listed + Cardinality(Counting(c)) <= Cardinality(VehiclesOf(c)))'
      <3>1. bank[c].listed + Cardinality(Counting(c)) <= Cardinality(VehiclesOf(c))
        BY <1>1 DEF ListedNeverOverstated
      <3>2. CASE c = b
        <4>1. Counting(c)' = Counting(c) \cup {r} /\ r \notin Counting(c)
          BY <1>1, <2>1, <2>5, <3>2 DEF Counting
        <4>2. VehiclesOf(c)' = VehiclesOf(c) \cup {v} /\ v \notin VehiclesOf(c)
          BY <2>2, <2>4, <2>6, <3>2, CatalogueAssumption DEF VehiclesOf
        <4>3. Cardinality(Counting(c)') = Cardinality(Counting(c)) + 1
          BY <4>1, Countable, FS_AddElement
        <4>4. Cardinality(VehiclesOf(c)') = Cardinality(VehiclesOf(c)) + 1
          BY <4>2, Countable, FS_AddElement
        <4> QED
          BY <1>1, <3>1, <4>3, <4>4, BankRow, Countable
      <3>3. CASE c # b
        <4>1. Counting(c)' = Counting(c)
          BY <1>1, <2>1, <2>5, <3>3 DEF Counting
        <4>2. VehiclesOf(c)' = VehiclesOf(c)
          BY <2>2, <2>4, <2>6, <3>3, CatalogueAssumption DEF VehiclesOf
        <4> QED
          BY <1>1, <3>1, <4>1, <4>2
      <3> QED
        BY <3>2, <3>3
    <2> QED
      BY <1>1, <2>4, <2>5, <2>7, <2>8, <2>9
      DEF CInv, CatalogueTypeOK, Places, MembersOwn, ListedNeverOverstated
  <1> QED
    BY <1>2, <1>3

LEMMA CountStep ==
    ASSUME CInv, NEW r \in Requests, CountVehicle(r)
    PROVE  CInv'
  <1>1. CatalogueTypeOK /\ MembersOwn /\ LotsConsistent /\ ListedNeverOverstated
        /\ pc[r] = "count" /\ Answer(r) /\ UNCHANGED <<vehicle, lot, access, approved>>
    BY DEF CInv, CountVehicle
  <1>2. PICK b \in Banks : b = seen[r].bank /\ bank[b] # NoBank
    BY <1>1 DEF CatalogueTypeOK, RequestOK, SeenType
  <1> DEFINE row == [bank[b] EXCEPT !.listed = bank[b].listed + 1]
  <1>3. row \in BankType /\ row.listed = bank[b].listed + 1 /\ row # NoBank
    BY <1>1, <1>2, BankRow DEF BankType, NoBank
  <1>4. bank' = [bank EXCEPT ![b] = row]
    BY <1>2 DEF CountVehicle
  <1> HIDE DEF row
  <1>5. /\ bank' \in [Banks -> BankType \cup {NoBank}] /\ bank'[b] = row
        /\ \A c \in Banks : c # b => bank'[c] = bank[c]
    BY <1>1, <1>3, <1>4 DEF CatalogueTypeOK
  <1>6. Ended
    BY <1>1, AnswerEnds
  <1>7. LotsConsistent'
    BY <1>1, LotsKept
  <1>8. /\ \A q \in Requests : RequestOK(q)'
        /\ MembersOwn' /\ \A c \in Banks : Counting(c)' \subseteq Counting(c)
    BY <1>1, <1>3, <1>5, <1>6, RequestsKept
  <1>9. ASSUME NEW c \in Banks
        PROVE  (bank[c].listed + Cardinality(Counting(c)) <= Cardinality(VehiclesOf(c)))'
    <2>1. bank[c].listed + Cardinality(Counting(c)) <= Cardinality(VehiclesOf(c))
          /\ VehiclesOf(c)' = VehiclesOf(c)
      BY <1>1 DEF ListedNeverOverstated, VehiclesOf
    <2>2. CASE c = b
      <3>1. r \in Counting(c)
        BY <1>1, <1>2, <2>2 DEF Counting
      <3>2. Counting(c)' = Counting(c) \ {r}
        BY <1>1, <1>2, <1>8 DEF Counting, Answer, Goto, CatalogueTypeOK
      <3>3. Cardinality(Counting(c)') = Cardinality(Counting(c)) - 1
        BY <3>1, <3>2, Countable, FS_RemoveElement
      <3> QED
        BY <1>1, <1>3, <1>5, <2>1, <2>2, <3>3, BankRow, Countable
    <2>3. CASE c # b
      <3>1. Counting(c)' \subseteq Counting(c)
        BY <1>8
      <3>2. Cardinality(Counting(c)') <= Cardinality(Counting(c))
            /\ Cardinality(Counting(c)') \in Nat
        BY <3>1, FS_Subset, FS_CardinalityType, Countable
      <3> QED
        BY <1>1, <1>5, <2>1, <2>3, <3>2, BankRow, Countable
    <2> QED
      BY <2>2, <2>3
  <1> QED
    BY <1>1, <1>5, <1>6, <1>7, <1>8, <1>9
    DEF CInv, CatalogueTypeOK, Ended, Places, ListedNeverOverstated

(* The vehicles of a new lot, wherever they are now.                        *)
LEMMA CreateLotStep ==
    ASSUME CInv, NEW r \in Requests, NEW l \in Lots, NEW private \in BOOLEAN,
           CreateLot(r, l, private)
    PROVE  CInv'
  <1> DEFINE M == seen[r].members
  <1>1. CatalogueTypeOK /\ MembersOwn /\ LotsConsistent /\ ListedNeverOverstated
        /\ pc[r] = "lot" /\ lot[l] = NoLot /\ Answer(r) /\ UNCHANGED <<bank, access, approved>>
    BY DEF CInv, CreateLot
  <1>2. PICK b \in Banks : b = seen[r].bank
    BY <1>1 DEF CatalogueTypeOK, RequestOK, SeenType
  <1>3. M \in SUBSET Vehicles
        /\ \A v \in M : vehicle[v] # NoVehicle /\ vehicle[v] \in VehicleType /\ vehicle[v].bank = b
    <2>1. seen[r] \in SeenType /\ RequestOK(r) /\ \A v \in M : vehicle[v].bank = b
      BY <1>1, <1>2 DEF CatalogueTypeOK, MembersOwn
    <2>2. M \in SUBSET Vehicles
      BY <2>1 DEF SeenType
    <2>3. \A v \in M : vehicle[v] # NoVehicle
      BY <2>1 DEF RequestOK
    <2> QED
      BY <1>1, <2>1, <2>2, <2>3, Row
  <1>4. IsFiniteSet(M) /\ Cardinality(M) \in Nat
    BY <1>3, FS_Subset, FS_CardinalityType, CatalogueAssumption
  <1> DEFINE new == [bank |-> b, private |-> private, count |-> Cardinality(M)]
  <1>5. new \in LotType /\ new.bank = b /\ new.count = Cardinality(M)
    BY <1>4 DEF LotType
  <1>6. lot' = [lot EXCEPT ![l] = new]
    BY <1>2 DEF CreateLot
  <1> HIDE DEF new
  <1>7. /\ lot' \in [Lots -> LotType \cup {NoLot}] /\ lot'[l] = new
        /\ \A k \in Lots : k # l => lot'[k] = lot[k]
    BY <1>1, <1>5, <1>6 DEF CatalogueTypeOK
  <1>8. ASSUME NEW v \in M
        PROVE  /\ vehicle'[v] \in VehicleType /\ vehicle'[v].bank = b
               /\ vehicle'[v].saleType = "LOT" /\ vehicle'[v].lot = l
    <2>1. vehicle'[v] = [vehicle[v] EXCEPT !.lot = l, !.saleType = "LOT"]
      BY <1>3 DEF CreateLot
    <2> QED
      BY <1>3, <2>1 DEF VehicleType
  <1>9. \A v \in Vehicles \ M : vehicle'[v] = vehicle[v]
    BY DEF CreateLot
  <1>10. vehicle' \in [Vehicles -> VehicleType \cup {NoVehicle}]
    <2>1. \A v \in Vehicles : vehicle'[v] \in VehicleType \cup {NoVehicle}
      BY <1>1, <1>8, <1>9 DEF CatalogueTypeOK
    <2>2. \E f : vehicle' = [v \in Vehicles |-> f[v]]
      <3>1. vehicle' = [v \in Vehicles |-> vehicle'[v]]
        BY DEF CreateLot
      <3> QED
        BY <3>1
    <2> QED
      BY <2>1, <2>2
  <1>11. \A v \in Vehicles : /\ vehicle'[v].bank = vehicle[v].bank
                             /\ vehicle[v] # NoVehicle => vehicle'[v] # NoVehicle
    BY <1>3, <1>8, <1>9, CatalogueAssumption DEF VehicleType, NoVehicle
  <1>12. Ended
    BY <1>1, AnswerEnds
  <1>13. /\ \A q \in Requests : RequestOK(q)'
         /\ MembersOwn' /\ \A c \in Banks : Counting(c)' \subseteq Counting(c)
    BY <1>1, <1>11, <1>12, RequestsKept
  <1>14. ListedNeverOverstated'
    <2>1. \A c \in Banks : VehiclesOf(c) \subseteq VehiclesOf(c)'
      BY <1>11 DEF VehiclesOf
    <2> QED
      BY <1>1, <1>13, <2>1, ListedKept
  <1>15. ASSUME NEW k \in Lots
         PROVE  /\ \A v \in Members(k)' : vehicle'[v].bank = lot'[k].bank
                                         /\ vehicle'[v].saleType = "LOT"
                /\ Cardinality(Members(k)') <= lot'[k].count
    <2>1. CASE k = l
      <3>1. \A v \in Vehicles : vehicle[v].lot # l
        <4> SUFFICES ASSUME NEW v \in Vehicles, vehicle[v].lot = l PROVE FALSE
          OBVIOUS
        <4>1. vehicle[v].bank = None
          BY <1>1, LotRow DEF LotsConsistent, Members
        <4>2. vehicle[v].lot = None
          BY <1>1, <4>1, Row, CatalogueAssumption
        <4> QED
          BY <4>2, CatalogueAssumption
      <3>2. Members(k)' = M
        BY <1>3, <1>8, <1>9, <2>1, <3>1 DEF Members
      <3> QED
        BY <1>3, <1>4, <1>5, <1>7, <1>8, <2>1, <3>2
    <2>2. CASE k # l
      <3>1. Members(k)' \subseteq Members(k) /\ \A v \in Members(k)' : vehicle'[v] = vehicle[v]
        BY <1>8, <1>9, <2>2 DEF Members
      <3>2. Cardinality(Members(k)') <= Cardinality(Members(k))
            /\ Cardinality(Members(k)') \in Nat
        BY <3>1, FS_Subset, FS_CardinalityType, Countable
      <3>3. lot'[k] = lot[k] /\ lot[k].count \in Nat
        BY <1>1, <1>7, <2>2, LotRow DEF LotType
      <3>4. /\ \A v \in Members(k) : vehicle[v].bank = lot[k].bank /\ vehicle[v].saleType = "LOT"
            /\ Cardinality(Members(k)) <= lot[k].count
        BY <1>1 DEF LotsConsistent
      <3> QED
        BY <3>1, <3>2, <3>3, <3>4, Countable
    <2> QED
      BY <2>1, <2>2
  <1>16. LotsConsistent'
    BY <1>15 DEF LotsConsistent
  <1> QED
    BY <1>1, <1>7, <1>10, <1>12, <1>13, <1>14, <1>16 DEF CInv, CatalogueTypeOK, Ended, Places

LEMMA OfficeStep ==
    ASSUME CInv, NEW r \in Requests, BankOffice(r)
    PROVE  CInv'
  <1>1. CatalogueTypeOK
    BY DEF CInv
  <1>2. ASSUME NEW b \in Banks, ReadBank(r, b) PROVE CInv'
    <2> DEFINE s == [Nothing EXCEPT !.bank = b,
                       !.status = IF bank[b].verified THEN "LIVE" ELSE "PENDING_APPROVAL"]
    <2>1. s \in SeenType /\ s.bank = b /\ s.members = {} /\ b # None
      BY CatalogueAssumption DEF Nothing, SeenType, Statuses
    <2>2. pc[r] = "idle" /\ bank[b] # NoBank /\ Goto(r, "insert", s)
          /\ UNCHANGED <<bank, vehicle, lot, access, approved>>
      BY <1>2 DEF ReadBank
    <2> HIDE DEF s
    <2> QED
      BY <2>1, <2>2, ReadStep
  <1>3. ASSUME NEW v \in Vehicles, ReadVehicleRow(r, v) PROVE CInv'
    <2> DEFINE s == [Nothing EXCEPT !.vehicle = v, !.frozen = vehicle[v].bids > 0]
    <2>1. (vehicle[v].bids > 0) \in BOOLEAN
      BY <1>1, Row
    <2>2. s \in SeenType /\ s.vehicle = v /\ s.members = {} /\ v # None
      BY <2>1, CatalogueAssumption DEF Nothing, SeenType, Statuses
    <2>3. pc[r] = "idle" /\ vehicle[v] # NoVehicle /\ Goto(r, "update", s)
          /\ UNCHANGED <<bank, vehicle, lot, access, approved>>
      BY <1>3 DEF ReadVehicleRow
    <2> HIDE DEF s
    <2> QED
      BY <2>2, <2>3, ReadStep
  <1>4. ASSUME NEW b \in Banks, NEW members \in SUBSET Vehicles, ReadMembers(r, b, members)
        PROVE  CInv'
    <2> DEFINE s == [Nothing EXCEPT !.bank = b, !.members = members]
    <2>1. s \in SeenType /\ s.bank = b /\ s.members = members /\ b # None
      BY CatalogueAssumption DEF Nothing, SeenType, Statuses
    <2>2. pc[r] = "idle" /\ Goto(r, "lot", s) /\ (\A v \in members : vehicle[v].bank = b)
          /\ UNCHANGED <<bank, vehicle, lot, access, approved>>
      BY <1>4 DEF ReadMembers, Eligible
    <2>3. \A v \in members : vehicle[v] # NoVehicle
      BY <1>1, <2>1, <2>2, Row
    <2> HIDE DEF s
    <2> QED
      BY <2>1, <2>2, <2>3, ReadStep
  <1> QED
    BY <1>2, <1>3, <1>4, InsertStep, CountStep, UpdateStep, CreateLotStep, DropStep,
       CatalogueAssumption DEF BankOffice

LEMMA CInvNext == CInv /\ [CatalogueNext]_catalogueVars => CInv'
  <1> SUFFICES ASSUME CInv, [CatalogueNext]_catalogueVars PROVE CInv'
    OBVIOUS
  <1>1. CASE CatalogueNext
    BY <1>1, BankStep, OfficeStep, AccessStep, BuyerStep DEF CatalogueNext
  <1>2. CASE UNCHANGED catalogueVars
    BY <1>2 DEF catalogueVars, CInv, CatalogueTypeOK, RequestOK, MembersOwn, LotsConsistent,
                Members, ListedNeverOverstated, VehiclesOf, Counting
  <1> QED
    BY <1>1, <1>2

(* Banks, vehicles, lots and bidders are well typed, and requests work on   *)
(* rows that exist.                                                         *)
THEOREM CatalogueTypeCorrect == CatalogueSpec => []CatalogueTypeOK
  <1>1. CInv => CatalogueTypeOK
    BY DEF CInv
  <1> QED
    BY <1>1, CInvInit, CInvNext, PTL DEF CatalogueSpec

(* vehicles.service.ts:108-139: a bank's counter, together with the counts  *)
(* still to come, never claims a vehicle that the bank has not listed.      *)
THEOREM ListedCorrect == CatalogueSpec => []ListedNeverOverstated
  <1>1. CInv => ListedNeverOverstated
    BY DEF CInv
  <1> QED
    BY <1>1, CInvInit, CInvNext, PTL DEF CatalogueSpec

(* lots.service.ts:53-93: even when two lots claim a vehicle, a lot holds   *)
(* its own bank's vehicles, sold as LOT, and no more than it counts.        *)
THEOREM LotsCorrect == CatalogueSpec => []LotsConsistent
  <1>1. CInv => LotsConsistent
    BY DEF CInv
  <1> QED
    BY <1>1, CInvInit, CInvNext, PTL DEF CatalogueSpec

----------------------------------------------------------------------------
(* What a step may do to one vehicle and to the requests that update it    *)

UpdatesUnfrozen(r, v) == pc[r] = "update" /\ seen[r].vehicle = v /\ ~seen[r].frozen

RowMoves(v) ==
    vehicle[v] # NoVehicle =>
      /\ vehicle[v].lot # None => vehicle'[v].lot # None
      /\ vehicle'[v].held => vehicle[v].held \/ vehicle[v].saleType # "LOT"
      /\ vehicle'[v].bids >= vehicle[v].bids
      /\ vehicle'[v].price = vehicle[v].price \/ \E r \in Requests : UpdatesUnfrozen(r, v)

RequestMoves(r, v) ==
    pc'[r] = "update" /\ seen'[r].vehicle = v =>
      \/ pc[r] = "update" /\ seen'[r] = seen[r]
      \/ vehicle[v].bids > 0 => seen'[r].frozen

LEMMA RowStays ==
    ASSUME CatalogueTypeOK, NEW v \in Vehicles, vehicle'[v] = vehicle[v]
    PROVE  RowMoves(v)
  <1>1. vehicle'[v].bids >= vehicle[v].bids
    BY BidsCounted
  <1>2. vehicle'[v].held => vehicle[v].held
    OBVIOUS
  <1>3. vehicle'[v].lot = vehicle[v].lot /\ vehicle'[v].price = vehicle[v].price
    OBVIOUS
  <1> QED
    BY <1>1, <1>2, <1>3, Zenon DEF RowMoves

LEMMA RowMovesNext ==
    ASSUME CInv, [CatalogueNext]_catalogueVars, NEW v \in Vehicles
    PROVE  RowMoves(v)
  <1>1. CatalogueTypeOK
    BY DEF CInv
  <1>2. ASSUME NEW w \in Vehicles, Buyer(w) PROVE RowMoves(v)
    <2>1. HoldVehicle(w) \/ ReleaseVehicle(w) \/ BidOnVehicle(w) \/ SellVehicle(w)
      BY <1>2 DEF Buyer
    <2>2. PICK row \in VehicleType :
                /\ vehicle' = [vehicle EXCEPT ![w] = row]
                /\ row.lot = vehicle[w].lot /\ row.price = vehicle[w].price
                /\ row.bids >= vehicle[w].bids
                /\ row.held => vehicle[w].held \/ vehicle[w].saleType # "LOT"
      BY <1>1, <2>1, BuyerRow
    <2>3. vehicle \in [Vehicles -> VehicleType \cup {NoVehicle}]
      BY <1>1 DEF CatalogueTypeOK
    <2>4. CASE v = w
      <3>1. vehicle'[v] = row
        BY <2>2, <2>3, <2>4
      <3> QED
        BY <2>2, <2>4, <3>1 DEF RowMoves
    <2>5. CASE v # w
      <3>1. vehicle'[v] = vehicle[v]
        BY <2>2, <2>3, <2>5
      <3> QED
        BY <1>1, <3>1, RowStays
    <2> QED
      BY <2>4, <2>5
  <1>3. ASSUME NEW r \in Requests, NEW p \in Prices \cup {None}, NEW s \in Changes \cup {None},
               UpdateVehicle(r, p, s)
        PROVE  RowMoves(v)
    <2>1. PICK w \in Vehicles : w = seen[r].vehicle
      BY <1>1, <1>3, UpdateRow
    <2>2. PICK row \in VehicleType :
                /\ vehicle' = [vehicle EXCEPT ![w] = row]
                /\ row.lot = vehicle[w].lot /\ row.held = vehicle[w].held
                /\ row.bids = vehicle[w].bids
                /\ seen[r].frozen => row.price = vehicle[w].price
      BY <1>1, <1>3, <2>1, UpdateRow
    <2>3. vehicle \in [Vehicles -> VehicleType \cup {NoVehicle}] /\ pc[r] = "update"
      BY <1>1, <1>3 DEF CatalogueTypeOK, UpdateVehicle
    <2>4. CASE v = w
      <3>1. vehicle'[v] = row
        BY <2>2, <2>3, <2>4
      <3>2. row.bids >= vehicle[v].bids
        BY <1>1, <2>2, <2>4, BidsCounted
      <3>3. row.price = vehicle[v].price \/ UpdatesUnfrozen(r, v)
        BY <2>1, <2>2, <2>3, <2>4 DEF UpdatesUnfrozen
      <3> QED
        BY <2>2, <2>4, <3>1, <3>2, <3>3 DEF RowMoves
    <2>5. CASE v # w
      <3>1. vehicle'[v] = vehicle[v]
        BY <2>2, <2>3, <2>5
      <3> QED
        BY <1>1, <3>1, RowStays
    <2> QED
      BY <2>4, <2>5
  <1>4. ASSUME NEW r \in Requests, NEW l \in Lots, NEW private \in BOOLEAN,
               CreateLot(r, l, private)
        PROVE  RowMoves(v)
    <2>1. CASE v \in seen[r].members
      <3>1. vehicle'[v] = [vehicle[v] EXCEPT !.lot = l, !.saleType = "LOT"]
        BY <1>4, <2>1 DEF CreateLot
      <3>2. ASSUME vehicle[v] # NoVehicle PROVE vehicle[v] \in VehicleType
        BY <1>1, <3>2, Row
      <3>3. ASSUME vehicle[v] # NoVehicle
            PROVE  /\ vehicle'[v].lot = l /\ vehicle'[v].held = vehicle[v].held
                   /\ vehicle'[v].bids = vehicle[v].bids /\ vehicle'[v].price = vehicle[v].price
        BY <3>1, <3>2, <3>3 DEF VehicleType
      <3> QED
        BY <1>1, <3>3, BidsCounted, CatalogueAssumption DEF RowMoves
    <2>2. CASE v \notin seen[r].members
      <3>1. vehicle'[v] = vehicle[v]
        BY <1>4, <2>2 DEF CreateLot
      <3> QED
        BY <1>1, <3>1, RowStays
    <2> QED
      BY <2>1, <2>2
  <1>5. ASSUME NEW r \in Requests, NEW w \in Vehicles, NEW t \in SaleTypes, NEW p \in Prices,
               InsertVehicle(r, w, t, p)
        PROVE  RowMoves(v)
    <2>1. CASE vehicle[w] = NoVehicle /\ v = w
      BY <2>1 DEF RowMoves
    <2>2. CASE ~(vehicle[w] = NoVehicle /\ v = w)
      <3>1. vehicle'[v] = vehicle[v]
        BY <1>1, <1>5, <2>2 DEF InsertVehicle, CatalogueTypeOK
      <3> QED
        BY <1>1, <3>1, RowStays
    <2> QED
      BY <2>1, <2>2
  <1>6. CASE vehicle' = vehicle
    BY <1>1, <1>6, RowStays
  <1> QED
    BY <1>2, <1>3, <1>4, <1>5, <1>6, CatalogueAssumption
    DEF CatalogueNext, catalogueVars, CreateBank, UpdateBank, BankOffice, ReadBank, CountVehicle,
        ReadVehicleRow, ReadMembers, Drop, RequestAccess, ApproveBidder

(* A request that is only answered, or that goes on to another place.       *)
LEMMA Moved ==
    ASSUME CatalogueTypeOK, NEW r \in Requests, NEW q \in Requests, NEW v \in Vehicles,
           NEW p, NEW s, Goto(q, p, s),
           p = "update" /\ s.vehicle = v => (vehicle[v].bids > 0 => s.frozen)
    PROVE  RequestMoves(r, v)
  <1>1. CASE r = q
    BY <1>1 DEF Goto, RequestMoves, CatalogueTypeOK
  <1>2. CASE r # q
    BY <1>2 DEF Goto, RequestMoves, CatalogueTypeOK
  <1> QED
    BY <1>1, <1>2

LEMMA RequestMovesNext ==
    ASSUME CInv, [CatalogueNext]_catalogueVars, NEW r \in Requests, NEW v \in Vehicles
    PROVE  RequestMoves(r, v)
  <1>1. CatalogueTypeOK
    BY DEF CInv
  <1>2. ASSUME NEW q \in Requests, BankOffice(q) PROVE RequestMoves(r, v)
    <2>1. ASSUME NEW p \in {"idle", "insert", "count", "lot"}, NEW s, Goto(q, p, s)
          PROVE  RequestMoves(r, v)
      BY <1>1, <2>1, Moved
    <2>2. ASSUME NEW w \in Vehicles, ReadVehicleRow(q, w) PROVE RequestMoves(r, v)
      <3> DEFINE s == [Nothing EXCEPT !.vehicle = w, !.frozen = vehicle[w].bids > 0]
      <3>1. Goto(q, "update", s)
        BY <2>2 DEF ReadVehicleRow
      <3>2. s.vehicle = w /\ (vehicle[w].bids > 0 => s.frozen)
        BY DEF Nothing
      <3> HIDE DEF s
      <3> QED
        BY <1>1, <3>1, <3>2, Moved
    <2> QED
      BY <1>2, <2>1, <2>2
      DEF BankOffice, ReadBank, InsertVehicle, CountVehicle, UpdateVehicle, ReadMembers, CreateLot,
          Drop, Answer
  <1>3. CASE UNCHANGED <<pc, seen>>
    BY <1>3 DEF RequestMoves
  <1> QED
    BY <1>2, <1>3
    DEF CatalogueNext, catalogueVars, CreateBank, UpdateBank, RequestAccess, ApproveBidder, Buyer

(* lots.service.ts:89-92, vehicles.service.ts:223-240: no buyer gets a new  *)
(* hold on a vehicle in a lot, and none leaves its lot but for another.     *)
THEOREM NoNewHoldCorrect == CatalogueSpec => NoNewHoldInLot
  <1>1. CInv /\ [CatalogueNext]_catalogueVars =>
          [\A v \in Vehicles : vehicle[v].lot # None =>
             vehicle'[v].lot # None /\ (vehicle'[v].held => vehicle[v].held)]_catalogueVars
    <2> SUFFICES ASSUME CInv, [CatalogueNext]_catalogueVars,
                        NEW v \in Vehicles, vehicle[v].lot # None
                 PROVE  vehicle'[v].lot # None /\ (vehicle'[v].held => vehicle[v].held)
      OBVIOUS
    <2>1. vehicle[v].lot \in Lots /\ vehicle[v] # NoVehicle
      BY Row DEF CInv
    <2>2. vehicle[v].saleType = "LOT"
      BY <2>1 DEF CInv, LotsConsistent, Members
    <2> QED
      BY <2>1, <2>2, RowMovesNext DEF RowMoves
  <1> QED
    BY <1>1, CInvInit, CInvNext, PTL DEF CatalogueSpec, NoNewHoldInLot

(* vehicles.service.ts:158-173: once a vehicle has bids and no update that  *)
(* read it before is left, its price stays.                                 *)
THEOREM PriceCorrect == CatalogueSpec => BidFreezesPrice
  <1>1. CInv /\ [CatalogueNext]_catalogueVars =>
          [\A v \in Vehicles : PriceSettled(v) =>
             PriceSettled(v)' /\ vehicle'[v].price = vehicle[v].price]_catalogueVars
    <2> SUFFICES ASSUME CInv, [CatalogueNext]_catalogueVars, NEW v \in Vehicles, PriceSettled(v)
                 PROVE  PriceSettled(v)' /\ vehicle'[v].price = vehicle[v].price
      OBVIOUS
    <2>1. vehicle[v] # NoVehicle /\ vehicle[v].bids \in Nat /\ vehicle[v].bids > 0
      <3>1. vehicle[v].bids \in Nat /\ vehicle[v].bids > 0
        BY BidsCounted DEF CInv, PriceSettled
      <3>2. NoVehicle.bids = 0
        BY DEF NoVehicle
      <3> QED
        BY <3>1, <3>2
    <2>2. RowMoves(v) /\ \A r \in Requests : RequestMoves(r, v)
      BY RowMovesNext, RequestMovesNext
    <2>3. \A r \in Requests : ~UpdatesUnfrozen(r, v)
      BY DEF PriceSettled, UpdatesUnfrozen
    <2>4. vehicle'[v].price = vehicle[v].price /\ vehicle'[v].bids >= vehicle[v].bids
      BY <2>1, <2>2, <2>3 DEF RowMoves
    <2>5. vehicle'[v].bids > 0
      <3>0. CatalogueTypeOK'
        BY CInvNext DEF CInv
      <3>1. vehicle'[v] \in VehicleType \cup {NoVehicle}
        BY <3>0 DEF CatalogueTypeOK
      <3>2. vehicle'[v].bids \in Nat
        BY <3>1 DEF VehicleType, NoVehicle
      <3> QED
        BY <2>1, <2>4, <3>2
    <2>6. ASSUME NEW r \in Requests, pc'[r] = "update", seen'[r].vehicle = v
          PROVE  seen'[r].frozen
      BY <2>1, <2>2, <2>6 DEF RequestMoves, PriceSettled
    <2> QED
      BY <2>4, <2>5, <2>6 DEF PriceSettled
  <1> QED
    BY <1>1, CInvInit, CInvNext, PTL DEF CatalogueSpec, BidFreezesPrice
============================================================================
