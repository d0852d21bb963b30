------------------------- MODULE VehicleSaleProofs -------------------------
(* What VehicleSale keeps for every number of vehicles, buyers, orders,     *)
(* requests and sweepers, every hold time and every set of listings.        *)
EXTENDS VehicleSale, LedgerSums, FiniteSetTheorems, TLAPS


LEMMA ConstantTypes ==
    NoAsk \in AskType /\ Nothing \in SeenType /\ NoOrder \in OrderType
BY SaleAssumption DEF NoAsk, Nothing, NoOrder, AskType, SeenType, OrderType

(* A step keeps the rows, the locks and what each request has read within   *)
(* their types.                                                             *)
LEMMA TypeStep == TypeOK /\ [Next]_vars => TypeOK'
<1> USE SaleAssumption, ConstantTypes
<1> SUFFICES ASSUME TypeOK, [Next]_vars PROVE TypeOK'
  OBVIOUS
<1>1. ASSUME NEW r \in Requests, Arrive(r) PROVE TypeOK'
  BY <1>1 DEF TypeOK, sweeps, Arrive, LockedRequest, Enter, rows, AskType, RequestOK, LockOK, InLock, PCs
<1>2. ASSUME NEW r \in Requests, AcquireLock(r) PROVE TypeOK'
  <2>1. [Nothing EXCEPT !.at = IF ask[r].kind = "hold" THEN now ELSE None] \in SeenType
    BY DEF TypeOK, SeenType
  <2>2. seen' \in [Requests -> SeenType]
    BY <1>2, <2>1 DEF TypeOK, AcquireLock, Proceed
  <2>3. ask[r].kind = "hold" => seen'[r].at # None
    BY <1>2 DEF TypeOK, AcquireLock, Proceed, Nothing
  <2>4. LockOK'
    BY <1>2 DEF TypeOK, AcquireLock, Proceed, RequestOK, LockOK, InLock, AskType
  <2>5. QED
    BY <1>2, <2>2, <2>3, <2>4 DEF TypeOK, sweeps, AcquireLock, Proceed, rows, RequestOK, PCs
<1>3. ASSUME NEW r \in Requests, LockRefused(r) PROVE TypeOK'
  BY <1>3 DEF TypeOK, sweeps, LockRefused, Answer, rows, RequestOK, LockOK, InLock, PCs
<1>4. ASSUME NEW r \in Requests, ReleaseLock(r) PROVE TypeOK'
  <2>1. LockOK'
    BY <1>4 DEF TypeOK, ReleaseLock, Answer, RequestOK, LockOK, InLock, AskType
  <2>2. QED BY <1>4, <2>1 DEF TypeOK, sweeps, ReleaseLock, Answer, rows, RequestOK, PCs
<1>5. ASSUME NEW r \in Requests, HoldVehicle(r) PROVE TypeOK'
  <2>1. vehicle' \in [Vehicles -> VehicleType]
    BY <1>5 DEF TypeOK, HoldVehicle, RequestOK, VehicleType, AskType, SeenType
  <2>2. QED BY <1>5, <2>1 DEF TypeOK, sweeps, HoldVehicle, Leave, Proceed, RequestOK, LockOK, InLock, PCs
<1>6. ASSUME NEW r \in Requests, ReadVehicle(r) PROVE TypeOK'
  <2>1. [at |-> None, until |-> vehicle[ask[r].vehicle].heldUntil,
         base |-> BasePrice(ask[r].vehicle)] \in SeenType
    BY <1>6 DEF TypeOK, ReadVehicle, RequestOK, SeenType, VehicleType, BasePrice, ListingType,
                AskType
  <2>2. seen' \in [Requests -> SeenType]
    BY <1>6, <2>1 DEF TypeOK, ReadVehicle, Leave, Proceed
  <2>3. QED BY <1>6, <2>2 DEF TypeOK, sweeps, ReadVehicle, Leave, Proceed, rows, RequestOK, LockOK, InLock, PCs
<1>7. ASSUME NEW r \in Requests, CheckExisting(r) PROVE TypeOK'
  <2>1. seen' \in [Requests -> SeenType]
    BY <1>7 DEF TypeOK, CheckExisting, Leave, Proceed, SeenType
  <2>2. pc'[r] = "priced" => seen'[r].until # None
    BY <1>7 DEF TypeOK, CheckExisting, Leave, Proceed
  <2>3. QED BY <1>7, <2>1, <2>2 DEF TypeOK, sweeps, CheckExisting, Leave, Proceed, rows, RequestOK, LockOK, InLock, PCs
<1>8. ASSUME NEW r \in Requests, NEW o \in Orders, CreateOrder(r, o) PROVE TypeOK'
  BY <1>8 DEF TypeOK, sweeps, CreateOrder, Leave, Proceed, RequestOK, LockOK, InLock, PCs, OrderType, AskType, SeenType
<1>9. ASSUME NEW r \in Requests, CallbackThrows(r) PROVE TypeOK'
  BY <1>9 DEF TypeOK, sweeps, CallbackThrows, Leave, Proceed, rows, RequestOK, LockOK, InLock, PCs
<1>10. ASSUME NEW r \in Requests, RejectSignature(r) PROVE TypeOK'
  <2>1. LockOK'
    BY <1>10 DEF TypeOK, RejectSignature, Answer, LockOK, InLock
  <2>2. QED BY <1>10, <2>1 DEF TypeOK, sweeps, RejectSignature, Answer, RequestOK, PCs
<1>11. ASSUME NEW r \in Requests, CommitPayment(r) PROVE TypeOK'
  <2>1. /\ ask[r].order \in Orders
        /\ order[ask[r].order].buyer \in Buyers
        /\ order[ask[r].order].base \in Nat
    BY <1>11 DEF TypeOK, CommitPayment, RequestOK, AskType, OrderType
  <2>2. vehicle' \in [Vehicles -> VehicleType]
    <3>1. [status |-> "SOLD", heldBy |-> None, heldUntil |-> None,
           soldTo |-> order[ask[r].order].buyer] \in VehicleType
      BY <2>1 DEF VehicleType
    <3>2. QED BY <1>11, <3>1 DEF TypeOK, CommitPayment
  <2>3. order' \in [Orders -> OrderType]
    BY <1>11, <2>1 DEF TypeOK, CommitPayment, OrderType
  <2>4. \A o \in Orders : order'[o].status # "ABSENT" =>
           order'[o].buyer # None /\ order'[o].vehicle # None /\ order'[o].heldUntil # None
    BY <1>11, <2>1 DEF TypeOK, CommitPayment, RequestOK, OrderType
  <2>5. \A q \in Requests : RequestOK(q)'
    BY <1>11, <2>1 DEF TypeOK, CommitPayment, Answer, RequestOK, OrderType
  <2>6. LockOK'
    BY <1>11 DEF TypeOK, CommitPayment, Answer, LockOK, InLock
  <2>7. QED BY <1>11, <2>1, <2>2, <2>3, <2>4, <2>5, <2>6 DEF TypeOK, sweeps, CommitPayment, Answer, PCs
<1>12. ASSUME NEW r \in Requests, RollbackPayment(r) PROVE TypeOK'
  <2>1. LockOK'
    BY <1>12 DEF TypeOK, RollbackPayment, Answer, rows, LockOK, InLock
  <2>2. QED BY <1>12, <2>1 DEF TypeOK, sweeps, RollbackPayment, Answer, rows, RequestOK, PCs
<1>13. ASSUME NEW r \in Requests, Crash(r) PROVE TypeOK'
  <2>1. /\ pc' \in [Requests -> PCs] /\ ask' \in [Requests -> AskType]
        /\ seen' \in [Requests -> SeenType]
    BY <1>13 DEF TypeOK, Crash, Answer, Proceed, PCs
  <2>2. LockOK'
    BY <1>13 DEF TypeOK, Crash, Answer, Proceed, LockOK, InLock
  <2>3. \A q \in Requests : RequestOK(q)'
    BY <1>13 DEF TypeOK, Crash, Answer, Proceed, rows, RequestOK, LockOK, InLock
  <2>4. QED BY <1>13, <2>1, <2>2, <2>3 DEF TypeOK, sweeps, Crash, rows
<1>14. ASSUME NEW r \in Requests, NEW o \in Orders, ReadOrder(r, o) PROVE TypeOK'
  <2>1. LockOK'
    BY <1>14 DEF TypeOK, ReadOrder, Enter, LockOK, InLock
  <2>2. QED BY <1>14, <2>1 DEF TypeOK, sweeps, ReadOrder, Enter, rows, AskType, RequestOK, PCs
<1>15. ASSUME NEW v \in Vehicles, ExpireLock(v) PROVE TypeOK'
  <2>1. /\ pc' \in [Requests -> PCs] /\ ask' \in [Requests -> AskType]
        /\ seen' \in [Requests -> SeenType] /\ lock' \in [Vehicles -> Requests \cup {None}]
    BY <1>15 DEF TypeOK, ExpireLock, Answer, flight, PCs
  <2>2. LockOK'
    BY <1>15 DEF TypeOK, ExpireLock, Answer, flight, LockOK, InLock
  <2>3. \A q \in Requests : RequestOK(q)'
    BY <1>15 DEF TypeOK, ExpireLock, Answer, flight, rows, RequestOK
  <2>4. QED BY <1>15, <2>1, <2>2, <2>3 DEF TypeOK, sweeps, ExpireLock, rows
<1>16. ASSUME NEW s \in Sweepers, FindExpiredHolds(s) PROVE TypeOK'
  BY <1>16 DEF TypeOK, FindExpiredHolds, ExpiredHolds, rows, flight, RequestOK, LockOK
<1>17. ASSUME NEW s \in Sweepers, ReleaseHolds(s) PROVE TypeOK'
  <2>1. vehicle' \in [Vehicles -> VehicleType]
    BY <1>17 DEF TypeOK, ReleaseHolds, VehicleType
  <2>2. QED BY <1>17, <2>1 DEF TypeOK, ReleaseHolds, flight, RequestOK, LockOK
<1>18. ASSUME NEW s \in Sweepers, SweepFails(s) PROVE TypeOK'
  BY <1>18 DEF TypeOK, SweepFails, rows, flight, RequestOK, LockOK
<1>19. CASE ExpireOverdueOrders
  <2>1. order' \in [Orders -> OrderType]
    BY <1>19 DEF TypeOK, ExpireOverdueOrders, OrderType
  <2>2. \A o \in Orders : /\ order'[o].buyer = order[o].buyer
                          /\ order'[o].vehicle = order[o].vehicle
                          /\ order'[o].heldUntil = order[o].heldUntil
                          /\ order'[o].status = "ABSENT" <=> order[o].status = "ABSENT"
    BY <1>19 DEF TypeOK, ExpireOverdueOrders, Overdue, OrderType
  <2>3. \A q \in Requests : RequestOK(q)'
    BY <1>19, <2>2 DEF TypeOK, ExpireOverdueOrders, flight, RequestOK, AskType
  <2>4. QED BY <1>19, <2>1, <2>2, <2>3 DEF TypeOK, sweeps, ExpireOverdueOrders, flight, LockOK
<1>20. CASE Tick
  BY <1>20 DEF TypeOK, sweeps, Tick, rows, flight, RequestOK, LockOK
<1>21. CASE UNCHANGED vars
  BY <1>21 DEF TypeOK, vars, RequestOK, LockOK
<1>22. QED
  BY <1>1, <1>2, <1>3, <1>4, <1>5, <1>6, <1>7, <1>8, <1>9, <1>10, <1>11, <1>12, <1>13, <1>14,
     <1>15, <1>16, <1>17, <1>18, <1>19, <1>20, <1>21 DEF Next, Serve

(* Type correctness: the rows, the locks and what each request has read by  *)
(* its pc stay within their types, whatever interleaves.                    *)
THEOREM TypeCorrect == Spec => []TypeOK
<1>1. Init => TypeOK
  BY SaleAssumption, ConstantTypes
  DEF Init, TypeOK, VehicleType, RequestOK, LockOK, InLock, PCs, NoOrder
<1>2. QED
  BY <1>1, TypeStep, PTL DEF Spec

----------------------------------------------------------------------------
(* The ledger: invoices, orders and the bank's counters                    *)

(* A step that is no payment writes no invoice and no bank counter, moves   *)
(* no order into or out of READY_FOR_PICKUP, and leaves soldTo alone.       *)
LEMMA OnlyPaymentSells ==
    ASSUME TypeOK, [Next]_vars, \A r \in Requests : ~CommitPayment(r)
    PROVE  /\ UNCHANGED <<invoiced, bank>>
           /\ \A o \in Orders : order'[o].status = "READY_FOR_PICKUP"
                                <=> order[o].status = "READY_FOR_PICKUP"
           /\ \A v \in Vehicles : vehicle'[v].soldTo = vehicle[v].soldTo
<1> USE DEF TypeOK
<1> DEFINE Ledger == /\ UNCHANGED <<invoiced, bank>>
                     /\ \A o \in Orders : order'[o].status = "READY_FOR_PICKUP"
                                          <=> order[o].status = "READY_FOR_PICKUP"
                     /\ \A v \in Vehicles : vehicle'[v].soldTo = vehicle[v].soldTo
<1>1. ASSUME UNCHANGED rows PROVE Ledger
  BY <1>1 DEF rows
<1>2. ASSUME NEW r \in Requests, Serve(r) PROVE Ledger
  <2>1. CASE HoldVehicle(r)
    BY <2>1 DEF HoldVehicle
  <2>2. ASSUME NEW o \in Orders, CreateOrder(r, o) PROVE Ledger
    BY <2>2 DEF CreateOrder
  <2>3. CASE RejectSignature(r)
    BY <2>3 DEF RejectSignature
  <2>4. CASE ReleaseLock(r)
    BY <1>1, <2>4 DEF ReleaseLock, rows
  <2>5. CASE AcquireLock(r) \/ LockRefused(r) \/ ReadVehicle(r) \/ CheckExisting(r)
             \/ CallbackThrows(r) \/ RollbackPayment(r)
    BY <1>1, <2>5 DEF AcquireLock, LockRefused, ReadVehicle, CheckExisting, CallbackThrows,
                      RollbackPayment
  <2>6. QED BY <1>2, <2>1, <2>2, <2>3, <2>4, <2>5 DEF Serve
<1>3. ASSUME NEW s \in Sweepers, ReleaseHolds(s) PROVE Ledger
  BY <1>3 DEF ReleaseHolds
<1>4. CASE ExpireOverdueOrders
  <2>1. \A o \in Orders : order'[o].status = "READY_FOR_PICKUP"
                          <=> order[o].status = "READY_FOR_PICKUP"
    BY <1>4 DEF ExpireOverdueOrders, Overdue, OrderType
  <2>2. QED BY <1>4, <2>1 DEF ExpireOverdueOrders
<1>5. ASSUME NEW r \in Requests, Arrive(r) \/ Crash(r) \/ \E o \in Orders : ReadOrder(r, o)
      PROVE  Ledger
  BY <1>1, <1>5 DEF Arrive, LockedRequest, Crash, ReadOrder
<1>6. ASSUME NEW v \in Vehicles, ExpireLock(v) PROVE Ledger
  BY <1>1, <1>6 DEF ExpireLock
<1>7. ASSUME NEW s \in Sweepers, FindExpiredHolds(s) \/ SweepFails(s) PROVE Ledger
  BY <1>1, <1>7 DEF FindExpiredHolds, SweepFails
<1>8. CASE Tick \/ UNCHANGED vars
  BY <1>1, <1>8 DEF Tick, vars, rows
<1>9. QED BY <1>2, <1>3, <1>4, <1>5, <1>6, <1>7, <1>8 DEF Next

(* vehiclesSold counts invoices, and an order is ready for pickup exactly   *)
(* when it has its invoice, under any interleaving of verify-payment calls. *)
Ledger == BankCountsInvoices /\ ReadyIffInvoiced

LEMMA LedgerStep == TypeOK /\ Ledger /\ [Next]_vars => Ledger'
<1> SUFFICES ASSUME TypeOK, Ledger, [Next]_vars PROVE Ledger'
  OBVIOUS
<1>1. ASSUME NEW r \in Requests, CommitPayment(r) PROVE Ledger'
  <2>1. IsFiniteSet(invoiced) /\ ask[r].order \in Orders
    BY <1>1, SaleAssumption, FS_Subset DEF TypeOK, CommitPayment, RequestOK, AskType
  <2>2. Cardinality(invoiced') = Cardinality(invoiced) + 1
    BY <1>1, <2>1, FS_AddElement DEF CommitPayment
  <2>3. BankCountsInvoices'
    BY <1>1, <2>2 DEF CommitPayment, Ledger, BankCountsInvoices
  <2>4. ReadyIffInvoiced'
    BY <1>1, <2>1 DEF TypeOK, CommitPayment, Ledger, ReadyIffInvoiced, OrderType
  <2>5. QED BY <2>3, <2>4 DEF Ledger
<1>2. CASE \A r \in Requests : ~CommitPayment(r)
  BY <1>2, OnlyPaymentSells DEF Ledger, BankCountsInvoices, ReadyIffInvoiced
<1>3. QED BY <1>1, <1>2

(* orders.service.ts:240-290: the payment transaction counts each sale of   *)
(* the bank once, whoever else verifies, sweeps or dies.                    *)
THEOREM LedgerCorrect == Spec => []BankCountsInvoices
<1>1. Init => Ledger
  BY FS_EmptySet DEF Init, Ledger, BankCountsInvoices, ReadyIffInvoiced, NoOrder
<1>2. Ledger => BankCountsInvoices
  BY DEF Ledger
<1>3. QED BY <1>1, <1>2, LedgerStep, TypeCorrect, PTL DEF Spec

(* orders.service.ts:240-290, 361-374: an order is ready for pickup exactly *)
(* when it has its invoice; no sweep expires a paid order.                  *)
THEOREM ReadyCorrect == Spec => []ReadyIffInvoiced
<1>1. Init => Ledger
  BY FS_EmptySet DEF Init, Ledger, BankCountsInvoices, ReadyIffInvoiced, NoOrder
<1>2. Ledger => ReadyIffInvoiced
  BY DEF Ledger
<1>3. QED BY <1>1, <1>2, LedgerStep, TypeCorrect, PTL DEF Spec

(* soldTo moves only with the invoice of an order of the new owner.         *)
THEOREM SaleCorrect == Spec => SaleHasInvoice
<1> DEFINE Backed == \A v \in Vehicles : vehicle'[v].soldTo # vehicle[v].soldTo =>
                       \E o \in invoiced' \ invoiced : /\ order'[o].vehicle = v
                                                       /\ order'[o].buyer = vehicle'[v].soldTo
<1>1. TypeOK /\ [Next]_vars => [Backed]_vars
  <2> SUFFICES ASSUME TypeOK, [Next]_vars PROVE Backed
    OBVIOUS
  <2>1. ASSUME NEW r \in Requests, CommitPayment(r) PROVE Backed
    <3>1. ask[r].order \in Orders
      BY <2>1 DEF TypeOK, CommitPayment, RequestOK, AskType
    <3>2. order[ask[r].order].vehicle \in Vehicles
      BY <2>1, <3>1 DEF TypeOK, CommitPayment, RequestOK, OrderType
    <3>3. /\ ask[r].order \in invoiced' \ invoiced
          /\ order'[ask[r].order].vehicle = order[ask[r].order].vehicle
          /\ order'[ask[r].order].buyer = order[ask[r].order].buyer
      BY <2>1, <3>1 DEF TypeOK, CommitPayment, OrderType
    <3>4. /\ \A v \in Vehicles \ {order[ask[r].order].vehicle} : vehicle'[v] = vehicle[v]
          /\ vehicle'[order[ask[r].order].vehicle].soldTo = order[ask[r].order].buyer
      BY <2>1, <3>2 DEF TypeOK, CommitPayment
    <3>5. QED BY <3>3, <3>4
  <2>2. CASE \A r \in Requests : ~CommitPayment(r)
    BY <2>2, OnlyPaymentSells
  <2>3. QED BY <2>1, <2>2
<1>2. QED BY <1>1, TypeCorrect, PTL DEF Spec, SaleHasInvoice

----------------------------------------------------------------------------
(* What the lock adds                                                      *)

(* How a request can come to be at a pc inside the lock.                    *)
LEMMA RequestFrame ==
    ASSUME TypeOK, [Next]_vars, NEW q \in Requests
    PROVE  /\ pc'[q] = "locked" =>
                \/ AcquireLock(q)
                \/ pc[q] = "locked" /\ ask'[q] = ask[q] /\ seen'[q] = seen[q]
           /\ pc'[q] = "gated" =>
                \/ ReadVehicle(q)
                \/ pc[q] = "gated" /\ ask'[q] = ask[q] /\ seen'[q] = seen[q]
           /\ pc'[q] = "priced" =>
                \/ CheckExisting(q)
                \/ pc[q] = "priced" /\ ask'[q] = ask[q] /\ seen'[q] = seen[q]
           /\ pc'[q] \in InLock =>
                \/ AcquireLock(q)
                \/ pc[q] \in InLock /\ ask'[q] = ask[q]
<1> USE DEF TypeOK
<1> DEFINE Same == pc'[q] = pc[q] /\ ask'[q] = ask[q] /\ seen'[q] = seen[q]
<1> DEFINE Gone == pc'[q] \in {"idle", "waiting", "verifying"}
<1> DEFINE Out == pc'[q] \in {"release", "dead"} /\ ask'[q] = ask[q] /\ pc[q] \in InLock
<1>1. ASSUME NEW r \in Requests, Arrive(r) PROVE Same \/ Gone
  BY <1>1 DEF Arrive, LockedRequest, Enter
<1>2. ASSUME NEW r \in Requests, AcquireLock(r), r # q PROVE Same
  BY <1>2 DEF AcquireLock, Proceed
<1>3. ASSUME NEW r \in Requests, LockRefused(r) \/ ReleaseLock(r) PROVE Same \/ Gone
  BY <1>3 DEF LockRefused, ReleaseLock, Answer
<1>4. ASSUME NEW r \in Requests, HoldVehicle(r) \/ CallbackThrows(r) PROVE Same \/ Out
  BY <1>4 DEF HoldVehicle, CallbackThrows, Leave, Proceed, InLock
<1>5. ASSUME NEW r \in Requests, ReadVehicle(r) \/ CheckExisting(r), r # q PROVE Same
  BY <1>5 DEF ReadVehicle, CheckExisting, Leave, Proceed
<1>6. ASSUME NEW r \in Requests, NEW o \in Orders, CreateOrder(r, o) PROVE Same \/ Out
  BY <1>6 DEF CreateOrder, Leave, Proceed, InLock
<1>7. ASSUME NEW r \in Requests, RejectSignature(r) \/ CommitPayment(r) \/ RollbackPayment(r)
      PROVE  Same \/ Gone
  BY <1>7 DEF RejectSignature, CommitPayment, RollbackPayment, Answer
<1>8. ASSUME NEW r \in Requests, Crash(r) PROVE Same \/ Gone \/ Out
  <2>1. CASE r # q
    BY <1>8, <2>1 DEF Crash, Answer, Proceed
  <2>2. CASE r = q /\ \E v \in Vehicles : lock[v] = r
    <3>1. pc[q] \in InLock
      BY SaleAssumption, <2>2 DEF LockOK
    <3>2. QED BY <1>8, <2>2, <3>1 DEF Crash, Proceed
  <2>3. CASE r = q /\ ~\E v \in Vehicles : lock[v] = r
    BY <1>8, <2>3 DEF Crash, Answer
  <2>4. QED BY <2>1, <2>2, <2>3
<1>9. ASSUME NEW r \in Requests, NEW o \in Orders, ReadOrder(r, o) PROVE Same \/ Gone
  BY <1>9 DEF ReadOrder, Enter
<1>10. ASSUME NEW v \in Vehicles, ExpireLock(v) PROVE Same \/ Gone
  BY <1>10 DEF ExpireLock, Answer, flight
<1>11. ASSUME NEW s \in Sweepers, FindExpiredHolds(s) \/ ReleaseHolds(s) \/ SweepFails(s) PROVE Same
  BY <1>11 DEF FindExpiredHolds, ReleaseHolds, SweepFails, flight
<1>12. CASE ExpireOverdueOrders \/ Tick \/ UNCHANGED vars
  BY <1>12 DEF ExpireOverdueOrders, Tick, vars, flight
<1>13. CASE AcquireLock(q)
  BY <1>13 DEF AcquireLock, Proceed
<1>14. CASE ReadVehicle(q)
  BY <1>14 DEF ReadVehicle, Leave, Proceed, InLock
<1>15. CASE CheckExisting(q)
  BY <1>15 DEF CheckExisting, Leave, Proceed, InLock
<1>16. CASE Same \/ Gone \/ Out
  BY <1>16 DEF InLock
<1> HIDE DEF Same, Gone, Out
<1>17. QED
  BY <1>1, <1>2, <1>3, <1>4, <1>5, <1>6, <1>7, <1>8, <1>9, <1>10, <1>11, <1>12, <1>13, <1>14,
     <1>15, <1>16 DEF Next, Serve

(* How an Order row changes, and how a vehicle comes to be held.            *)
LEMMA RowFrame ==
    ASSUME TypeOK, [Next]_vars
    PROVE  /\ \A o \in Orders :
                \/ order'[o] = order[o]
                \/ \E r \in Requests : CreateOrder(r, o)
                \/ /\ order[o].status # "ABSENT"
                   /\ order'[o] = [order[o] EXCEPT !.status = order'[o].status]
                   /\ order'[o].status \in {"EXPIRED", "READY_FOR_PICKUP"}
           /\ \A v \in Vehicles :
                \/ vehicle'[v] = vehicle[v]
                \/ vehicle'[v].heldBy = None /\ vehicle'[v].heldUntil = None
                \/ \E r \in Requests : /\ HoldVehicle(r) /\ ask[r].vehicle = v
                                       /\ CanHold(v, seen[r].at)
           /\ now' \in Nat /\ now' >= now /\ listing' = listing
<1> USE SaleAssumption DEF TypeOK
<1> DEFINE OrdersSame == order' = order
           VehiclesSame == vehicle' = vehicle
           Unheld(v) == vehicle'[v].heldBy = None /\ vehicle'[v].heldUntil = None
           Closed(o) == /\ order[o].status # "ABSENT"
                        /\ order'[o] = [order[o] EXCEPT !.status = order'[o].status]
                        /\ order'[o].status \in {"EXPIRED", "READY_FOR_PICKUP"}
           Clock == now' \in Nat /\ now' >= now /\ listing' = listing
<1>1. ASSUME UNCHANGED rows PROVE OrdersSame /\ VehiclesSame
  BY <1>1 DEF rows
<1>2. CASE \E r \in Requests : HoldVehicle(r)
  <2>1. PICK r \in Requests : HoldVehicle(r)
    BY <1>2
  <2>2. OrdersSame /\ Clock
    BY <2>1 DEF HoldVehicle
  <2>3. \A v \in Vehicles : vehicle'[v] = vehicle[v] \/ (ask[r].vehicle = v /\ CanHold(v, seen[r].at))
    BY <2>1 DEF HoldVehicle
  <2>4. QED BY <2>1, <2>2, <2>3
<1>3. CASE \E r \in Requests, o \in Orders : CreateOrder(r, o)
  <2>1. PICK r \in Requests, o \in Orders : CreateOrder(r, o)
    BY <1>3
  <2>2. VehiclesSame /\ Clock /\ \A p \in Orders \ {o} : order'[p] = order[p]
    BY <2>1 DEF CreateOrder
  <2>3. QED BY <2>1, <2>2
<1>4. CASE \E r \in Requests : CommitPayment(r)
  <2>1. PICK r \in Requests : CommitPayment(r)
    BY <1>4
  <2>2. ask[r].order \in Orders /\ order[ask[r].order].status # "ABSENT"
    BY <2>1 DEF CommitPayment, RequestOK, AskType
  <2>3. ASSUME NEW o \in Orders PROVE order'[o] = order[o] \/ Closed(o)
    <3> DEFINE paid == [order[o] EXCEPT !.status = "READY_FOR_PICKUP"]
    <3>1. order'[o] = order[o] \/ (o = ask[r].order /\ order'[o] = paid)
      BY <2>1 DEF CommitPayment
    <3>2. order[o] \in OrderType
      OBVIOUS
    <3>3. paid.status = "READY_FOR_PICKUP"
      BY <3>2 DEF OrderType
    <3>4. paid = [order[o] EXCEPT !.status = paid.status]
      BY <3>3
    <3> HIDE DEF paid
    <3>5. CASE o = ask[r].order /\ order'[o] = paid
      BY <2>2, <3>3, <3>4, <3>5
    <3>6. QED BY <3>1, <3>5
  <2>4. \A v \in Vehicles : vehicle'[v] = vehicle[v] \/ Unheld(v)
    <3> DEFINE w == order[ask[r].order].vehicle
    <3>1. \A v \in Vehicles : v # w => vehicle'[v] = vehicle[v]
      BY <2>1 DEF CommitPayment
    <3>2. w \in Vehicles => vehicle'[w] = [status |-> "SOLD", heldBy |-> None, heldUntil |-> None,
                                         soldTo |-> order[ask[r].order].buyer]
      BY <2>1 DEF CommitPayment
    <3>3. w \in Vehicles => vehicle'[w].heldBy = None /\ vehicle'[w].heldUntil = None
      BY <3>2
    <3> HIDE DEF w
    <3>4. QED BY <3>1, <3>3, Zenon
  <2>5. Clock
    BY <2>1 DEF CommitPayment
  <2>6. QED BY <2>3, <2>4, <2>5
<1>5. CASE \E s \in Sweepers : ReleaseHolds(s)
  <2>1. OrdersSame /\ Clock
    BY <1>5 DEF ReleaseHolds
  <2>2. \A v \in Vehicles : vehicle'[v] = vehicle[v] \/ Unheld(v)
    <3>1. \A v \in Vehicles :
             \/ vehicle'[v] = vehicle[v]
             \/ vehicle'[v] = [status |-> "LIVE", heldBy |-> None, heldUntil |-> None,
                               soldTo |-> vehicle[v].soldTo]
      BY <1>5 DEF ReleaseHolds
    <3>2. ASSUME NEW v \in Vehicles,
                 vehicle'[v] = [status |-> "LIVE", heldBy |-> None, heldUntil |-> None,
                                soldTo |-> vehicle[v].soldTo]
          PROVE  Unheld(v)
      BY <3>2
    <3>3. QED BY <3>1, <3>2, Zenon
  <2>3. QED BY <2>1, <2>2
<1>6. CASE ExpireOverdueOrders
  <2>1. VehiclesSame /\ Clock
    BY <1>6 DEF ExpireOverdueOrders
  <2>2. \A o \in Orders : order'[o] = order[o] \/ Closed(o)
    BY <1>6 DEF ExpireOverdueOrders, Overdue, OrderType
  <2>3. QED BY <2>1, <2>2
<1>7. ASSUME NEW r \in Requests,
             \/ Arrive(r) \/ Crash(r) \/ \E o \in Orders : ReadOrder(r, o)
             \/ AcquireLock(r) \/ LockRefused(r) \/ ReleaseLock(r) \/ ReadVehicle(r)
             \/ CheckExisting(r) \/ CallbackThrows(r) \/ RollbackPayment(r)
      PROVE  UNCHANGED rows /\ Clock
  <2>1. CASE AcquireLock(r)
    BY <2>1 DEF AcquireLock
  <2>2. CASE CheckExisting(r) \/ ReadVehicle(r)
    BY <2>2 DEF CheckExisting, ReadVehicle
  <2>3. CASE Arrive(r) \/ Crash(r) \/ \E o \in Orders : ReadOrder(r, o)
    <3>1. UNCHANGED rows /\ UNCHANGED <<now, listing>>
      BY <2>3 DEF Arrive, LockedRequest, Crash, ReadOrder
    <3>2. QED BY <3>1
  <2>4. CASE LockRefused(r) \/ CallbackThrows(r) \/ RollbackPayment(r)
    BY <2>4 DEF LockRefused, CallbackThrows, RollbackPayment
  <2>5. CASE ReleaseLock(r)
    BY <2>5 DEF ReleaseLock
  <2>6. QED BY <1>7, <2>1, <2>2, <2>3, <2>4, <2>5
<1>8. CASE \E r \in Requests : RejectSignature(r)
  <2>1. OrdersSame /\ VehiclesSame /\ Clock
    BY <1>8 DEF RejectSignature
  <2>2. QED BY <2>1
<1>9. CASE \/ \E v \in Vehicles : ExpireLock(v)
           \/ \E s \in Sweepers : FindExpiredHolds(s) \/ SweepFails(s)
           \/ Tick \/ UNCHANGED vars
  <2>1. UNCHANGED rows /\ Clock
    BY <1>9 DEF ExpireLock, FindExpiredHolds, SweepFails, Tick, vars, rows
  <2>2. QED BY <1>1, <2>1
<1>10. QED
  BY <1>1, <1>2, <1>3, <1>4, <1>5, <1>6, <1>7, <1>8, <1>9 DEF Next, Serve

(* Once it is invoiced, an order keeps its base price.                      *)
LEMMA BaseKept ==
    ASSUME TypeOK, ReadyIffInvoiced, [Next]_vars, NEW o \in invoiced
    PROVE  order'[o].base = order[o].base
<1>1. o \in Orders /\ order[o] \in OrderType /\ order[o].status = "READY_FOR_PICKUP"
  BY DEF TypeOK, ReadyIffInvoiced
<1>2. ~ \E r \in Requests : CreateOrder(r, o)
  BY <1>1 DEF CreateOrder
<1>3. CASE order'[o] = order[o]
  BY <1>3
<1>4. CASE order'[o] = [order[o] EXCEPT !.status = order'[o].status]
  <2>1. PICK s : s = order'[o].status
    OBVIOUS
  <2>2. order'[o] = [order[o] EXCEPT !.status = s]
    BY <1>4, <2>1
  <2>3. QED BY <1>1, <2>2 DEF OrderType
<1>5. QED BY <1>1, <1>2, <1>3, <1>4, RowFrame

LEMMA RecoveredStep ==
    TypeOK /\ Ledger /\ BankRecoversInvoices /\ [Next]_vars => BankRecoversInvoices'
<1> SUFFICES ASSUME TypeOK, Ledger, BankRecoversInvoices, [Next]_vars
             PROVE  BankRecoversInvoices'
  OBVIOUS
<1>1. IsFiniteSet(invoiced) /\ IsFiniteSet(invoiced') /\ invoiced' \subseteq Orders
  BY TypeStep, SaleAssumption, FS_Subset DEF TypeOK
<1>2. bank.recovered = BaseSum(order, invoiced)
  BY DEF BankRecoversInvoices, BaseSum
<1>3. \A o \in invoiced : order'[o].base = order[o].base
  BY BaseKept DEF Ledger
<1>4. BaseSum(order', invoiced) = BaseSum(order, invoiced)
  BY <1>1, <1>3, SumSame
<1>5. ASSUME NEW r \in Requests, CommitPayment(r)
      PROVE  bank'.recovered = BaseSum(order', invoiced')
  <2> DEFINE z == ask[r].order
  <2>1. z \in Orders /\ order[z] \in OrderType /\ z \notin invoiced
    BY <1>5 DEF TypeOK, CommitPayment, RequestOK, AskType
  <2>2. invoiced' = invoiced \cup {z} /\ bank'.recovered = bank.recovered + order[z].base
    BY <1>5 DEF CommitPayment
  <2>3. order'[z].base = order[z].base
    BY <1>5, <2>1 DEF CommitPayment, TypeOK, OrderType
  <2>4. \A o \in invoiced' : order'[o].base \in Nat
    BY <1>1, TypeStep DEF TypeOK, OrderType
  <2>5. z \in invoiced' /\ invoiced' \ {z} = invoiced
    BY <2>1, <2>2
  <2> HIDE DEF z
  <2>6. BaseSum(order', invoiced') = order'[z].base + BaseSum(order', invoiced)
    BY <1>1, <2>4, <2>5, SumRemove
  <2>7. order[z].base \in Nat /\ bank.recovered \in Nat
    BY <2>1 DEF TypeOK, OrderType
  <2>8. QED BY <1>2, <1>4, <2>2, <2>3, <2>6, <2>7
<1>6. ASSUME \A r \in Requests : ~CommitPayment(r)
      PROVE  bank'.recovered = BaseSum(order', invoiced')
  <2>1. invoiced' = invoiced /\ bank' = bank
    BY <1>6, OnlyPaymentSells
  <2>2. QED BY <1>2, <1>4, <2>1
<1>7. bank'.recovered = BaseSum(order', invoiced')
  BY <1>5, <1>6, Zenon
<1>8. QED
  BY <1>7, Zenon DEF BankRecoversInvoices, BaseSum, MapThenSumSet, MapThenFoldSet

(* orders.service.ts:240-290: totalRecoveredPaise is the sum of the base    *)
(* prices of the invoiced orders, under any interleaving.                   *)
THEOREM RecoveredCorrect == Spec => []BankRecoversInvoices
<1>1. Init => Ledger
  BY FS_EmptySet DEF Init, Ledger, BankCountsInvoices, ReadyIffInvoiced, NoOrder
<1>2. Init => BankRecoversInvoices
  <2>1. ASSUME Init PROVE bank.recovered = BaseSum(order, invoiced)
    BY <2>1, SumEmpty DEF Init
  <2>2. QED BY <2>1 DEF BankRecoversInvoices, BaseSum
<1>3. QED BY <1>1, <1>2, LedgerStep, RecoveredStep, TypeCorrect, PTL DEF Spec

(* While no lock expires under its owner, a request inside withLock owns    *)
(* the lock, so no two are inside for one vehicle.                          *)
Guarded == \A r \in Requests : pc[r] \in InLock => lock[ask[r].vehicle] = r

LEMMA GuardedStep ==
    ASSUME ~LockMayExpire, TypeOK, Guarded, [Next]_vars
    PROVE  Guarded'
<1> SUFFICES ASSUME NEW q \in Requests, pc'[q] \in InLock
             PROVE  lock'[ask'[q].vehicle] = q
  BY DEF Guarded
<1>1. CASE AcquireLock(q)
  BY <1>1 DEF TypeOK, AcquireLock, Proceed, RequestOK, AskType
<1> SUFFICES ASSUME ~AcquireLock(q)
             PROVE  lock'[ask'[q].vehicle] = q
  BY <1>1
<1>2. pc[q] \in InLock /\ ask'[q] = ask[q] /\ lock[ask[q].vehicle] = q
  BY RequestFrame DEF Guarded
<1>3. ask[q].vehicle \in Vehicles
  BY <1>2 DEF TypeOK, RequestOK, AskType, InLock
<1>4. lock' = lock \/ (\E r \in Requests : AcquireLock(r) \/ ReleaseLock(r))
                   \/ (\E v \in Vehicles : ExpireLock(v))
  <2>1. ASSUME NEW r \in Requests, Serve(r)
        PROVE  lock' = lock \/ AcquireLock(r) \/ ReleaseLock(r)
    BY <2>1 DEF Serve, LockRefused, HoldVehicle, ReadVehicle, CheckExisting, CreateOrder,
                CallbackThrows, RejectSignature, CommitPayment, RollbackPayment
  <2>2. ASSUME NEW r \in Requests, Arrive(r) \/ Crash(r) \/ \E o \in Orders : ReadOrder(r, o)
        PROVE  lock' = lock
    BY <2>2 DEF Arrive, LockedRequest, Crash, ReadOrder
  <2>3. ASSUME NEW s \in Sweepers, FindExpiredHolds(s) \/ ReleaseHolds(s) \/ SweepFails(s)
        PROVE  lock' = lock
    BY <2>3 DEF FindExpiredHolds, ReleaseHolds, SweepFails
  <2>4. CASE ExpireOverdueOrders \/ Tick \/ UNCHANGED vars
    BY <2>4 DEF ExpireOverdueOrders, Tick, vars
  <2>5. QED BY <2>1, <2>2, <2>3, <2>4 DEF Next
<1>5. ASSUME NEW r \in Requests, AcquireLock(r) PROVE lock'[ask'[q].vehicle] = q
  BY <1>2, <1>3, <1>5, SaleAssumption DEF TypeOK, AcquireLock
<1>6. ASSUME NEW r \in Requests, ReleaseLock(r) PROVE lock'[ask'[q].vehicle] = q
  <2>1. r # q
    BY <1>2, <1>6, RequestFrame DEF TypeOK, ReleaseLock, Answer, InLock
  <2>2. QED BY <1>2, <1>3, <1>6, <2>1 DEF TypeOK, ReleaseLock
<1>7. ASSUME NEW v \in Vehicles, ExpireLock(v) PROVE lock'[ask'[q].vehicle] = q
  <2>1. lock[v] # q
    BY <1>7, SaleAssumption DEF TypeOK, ExpireLock, Answer, InLock
  <2>2. QED BY <1>2, <1>3, <1>7, <2>1 DEF TypeOK, ExpireLock
<1>8. QED BY <1>2, <1>4, <1>5, <1>6, <1>7

LEMMA OneInLock ==
    ASSUME TypeOK, Guarded, NEW q \in Requests, NEW r \in Requests,
           pc[q] \in InLock, pc[r] \in InLock, ask[q].vehicle = ask[r].vehicle
    PROVE  q = r
BY DEF Guarded

(* One payable order per buyer and vehicle, while no lock expires under its *)
(* owner: whoever is past the duplicate check has no order, and stays so.   *)
PricedAlone ==
    \A r \in Requests : pc[r] = "priced" =>
        \A o \in Orders :
            ~(/\ order[o].status = "HELD"
              /\ order[o].vehicle = ask[r].vehicle
              /\ order[o].buyer = ask[r].buyer)

LEMMA OneHeldStep ==
    ASSUME ~LockMayExpire, TypeOK, Guarded, PricedAlone, OneHeldOrderPerBuyer, [Next]_vars
    PROVE  PricedAlone' /\ OneHeldOrderPerBuyer'
<1> DEFINE SameOrder(o) == /\ order[o].status = "HELD"
                           /\ order'[o].vehicle = order[o].vehicle
                           /\ order'[o].buyer = order[o].buyer
<1>1. \A o \in Orders : order'[o].status = "HELD" =>
         SameOrder(o) \/ \E r \in Requests : CreateOrder(r, o)
  BY RowFrame
<1>2. ASSUME NEW r \in Requests, NEW o \in Orders, CreateOrder(r, o)
      PROVE  PricedAlone' /\ OneHeldOrderPerBuyer'
  <2>1. /\ \A p \in Orders \ {o} : order'[p] = order[p]
        /\ order'[o].vehicle = ask[r].vehicle /\ order'[o].buyer = ask[r].buyer
        /\ pc[r] = "priced" /\ pc'[r] = "release" /\ ask' = ask
    BY <1>2 DEF TypeOK, CreateOrder, Leave, Proceed
  <2>2. OneHeldOrderPerBuyer'
    BY <2>1 DEF PricedAlone, OneHeldOrderPerBuyer
  <2>3. ASSUME NEW q \in Requests, pc'[q] = "priced"
        PROVE  pc[q] = "priced" /\ ask[q].vehicle # ask[r].vehicle
    <3>1. q # r /\ pc[q] = "priced"
      BY <1>2, <2>1, <2>3 DEF TypeOK, CreateOrder, Leave, Proceed
    <3>2. QED BY <2>1, <3>1, OneInLock DEF InLock
  <2>4. PricedAlone'
    BY <2>1, <2>3 DEF PricedAlone
  <2>5. QED BY <2>2, <2>4
<1>3. CASE ~\E r \in Requests, o \in Orders : CreateOrder(r, o)
  <2>1. \A o \in Orders : order'[o].status = "HELD" => SameOrder(o)
    BY <1>1, <1>3
  <2>2. OneHeldOrderPerBuyer'
    BY <2>1 DEF OneHeldOrderPerBuyer
  <2>3. ASSUME NEW q \in Requests, pc'[q] = "priced", NEW o \in Orders,
               order'[o].status = "HELD", order'[o].vehicle = ask'[q].vehicle,
               order'[o].buyer = ask'[q].buyer
        PROVE  FALSE
    <3>1. CASE CheckExisting(q)
      <4>1. ask' = ask /\ OpenOrders(ask[q].vehicle, ask[q].buyer) = {}
        BY <2>3, <3>1 DEF TypeOK, CheckExisting, Leave, Proceed
      <4>2. QED BY <2>1, <2>3, <4>1 DEF OpenOrders, OpenStatuses
    <3>2. CASE pc[q] = "priced" /\ ask'[q] = ask[q]
      BY <2>1, <2>3, <3>2 DEF PricedAlone
    <3>3. QED BY <2>3, <3>1, <3>2, RequestFrame
  <2>4. PricedAlone'
    BY <2>3 DEF PricedAlone
  <2>5. QED BY <2>2, <2>4
<1>4. QED BY <1>2, <1>3

(* orders.service.ts:87-90: checking out again and again, with locks that   *)
(* outlive their owners' work, leaves a buyer one HELD order of a vehicle.  *)
THEOREM OneHeldCorrect ==
    ASSUME ~LockMayExpire
    PROVE  Spec => []OneHeldOrderPerBuyer
<1>1. Init => Guarded /\ PricedAlone /\ OneHeldOrderPerBuyer
  BY DEF Init, Guarded, PricedAlone, OneHeldOrderPerBuyer, NoOrder, InLock
<1>2. TypeOK /\ Guarded /\ PricedAlone /\ OneHeldOrderPerBuyer /\ [Next]_vars
        => (Guarded /\ PricedAlone /\ OneHeldOrderPerBuyer)'
  BY GuardedStep, OneHeldStep
<1>3. QED BY <1>1, <1>2, TypeCorrect, PTL DEF Spec

(* A step moves one request at most.                                        *)
LEMMA OneMoves ==
    ASSUME TypeOK, [Next]_vars
    PROVE  \/ pc' = pc /\ ask' = ask
           \/ \E r \in Requests : \A q \in Requests \ {r} : pc'[q] = pc[q] /\ ask'[q] = ask[q]
<1> DEFINE Moves(r) == \A q \in Requests \ {r} : pc'[q] = pc[q] /\ ask'[q] = ask[q]
<1>1. ASSUME NEW r \in Requests, Arrive(r) \/ \E o \in Orders : ReadOrder(r, o) PROVE Moves(r)
  BY <1>1 DEF TypeOK, Arrive, LockedRequest, ReadOrder, Enter
<1>2. ASSUME NEW r \in Requests, Crash(r) PROVE Moves(r)
  BY <1>2 DEF TypeOK, Crash, Proceed, Answer
<1>3. ASSUME NEW r \in Requests, Serve(r) PROVE Moves(r)
  <2>1. CASE AcquireLock(r) \/ HoldVehicle(r) \/ ReadVehicle(r) \/ CheckExisting(r) \/ CallbackThrows(r)
    BY <2>1 DEF TypeOK, AcquireLock, HoldVehicle, ReadVehicle, CheckExisting, CallbackThrows, Leave,
                Proceed
  <2>2. ASSUME NEW o \in Orders, CreateOrder(r, o) PROVE Moves(r)
    BY <2>2 DEF TypeOK, CreateOrder, Leave, Proceed
  <2>3. CASE LockRefused(r) \/ ReleaseLock(r)
    BY <2>3 DEF TypeOK, LockRefused, ReleaseLock, Answer
  <2>4. CASE RejectSignature(r) \/ CommitPayment(r) \/ RollbackPayment(r)
    BY <2>4 DEF TypeOK, RejectSignature, CommitPayment, RollbackPayment, Answer
  <2>5. QED BY <1>3, <2>1, <2>2, <2>3, <2>4 DEF Serve
<1>4. ASSUME NEW v \in Vehicles, ExpireLock(v)
      PROVE  (pc' = pc /\ ask' = ask) \/ \E r \in Requests : Moves(r)
  <2>1. lock[v] \in Requests
    BY <1>4 DEF TypeOK, ExpireLock
  <2>2. (pc' = pc /\ ask' = ask) \/ Moves(lock[v])
    BY <1>4 DEF TypeOK, ExpireLock, Answer, flight
  <2> HIDE DEF Moves
  <2>3. QED BY <2>1, <2>2
<1>5. ASSUME NEW s \in Sweepers, FindExpiredHolds(s) \/ ReleaseHolds(s) \/ SweepFails(s)
      PROVE  pc' = pc /\ ask' = ask
  BY <1>5 DEF FindExpiredHolds, ReleaseHolds, SweepFails, flight
<1>6. CASE ExpireOverdueOrders \/ Tick \/ UNCHANGED vars
  BY <1>6 DEF ExpireOverdueOrders, Tick, vars, flight
<1>7. CASE \E r \in Requests : Arrive(r) \/ Serve(r) \/ Crash(r) \/ \E o \in Orders : ReadOrder(r, o)
  BY <1>1, <1>2, <1>3, <1>7
<1> HIDE DEF Moves
<1>8. CASE \E v \in Vehicles : ExpireLock(v)
  BY <1>4, <1>8 DEF Moves
<1>9. QED BY <1>5, <1>6, <1>7, <1>8 DEF Next

Running == {"locked", "gated", "priced"}

(* Only AcquireLock starts a callback.                                      *)
LEMMA RunningFrame ==
    ASSUME TypeOK, [Next]_vars, NEW q \in Requests, pc'[q] \in Running, ~AcquireLock(q)
    PROVE  pc[q] \in Running /\ ask'[q] = ask[q]
BY RequestFrame DEF TypeOK, ReadVehicle, CheckExisting, Leave, Proceed, Running

(* Each step starts one callback of a vehicle that has none, ends one, or   *)
(* leaves them as they are.                                                 *)
LEMMA SerialStep ==
    ASSUME TypeOK, Guarded, [Next]_vars
    PROVE  [Serial!Next]_Callbacks
<1> SUFFICES Serial!Next \/ Callbacks' = Callbacks
  OBVIOUS
<1> USE DEF Callbacks, Running
<1>1. CASE pc' = pc /\ ask' = ask
  BY <1>1
<1>2. ASSUME NEW r \in Requests, AcquireLock(r) PROVE Serial!Next
  <2>1. PICK v \in Vehicles : v = ask[r].vehicle
    BY <1>2 DEF TypeOK, AcquireLock, RequestOK, AskType
  <2>2. Callbacks[v] = {}
    BY <1>2, <2>1, SaleAssumption DEF Guarded, AcquireLock, InLock
  <2>3. pc' = [pc EXCEPT ![r] = "locked"] /\ ask' = ask
    BY <1>2 DEF AcquireLock, Proceed
  <2>4. pc \in [Requests -> PCs] /\ pc[r] = "waiting"
    BY <1>2 DEF TypeOK, AcquireLock
  <2>5. Callbacks' = [Callbacks EXCEPT ![v] = {r}]
    <3>1. ASSUME NEW u \in Vehicles, u # v PROVE Callbacks'[u] = Callbacks[u]
      BY <2>1, <2>3, <2>4, <3>1
    <3>2. Callbacks'[v] = {r}
      BY <2>1, <2>2, <2>3, <2>4
    <3>3. QED BY <3>1, <3>2
  <2>6. Serial!Begin(v, r)
    BY <2>2, <2>5 DEF Serial!Begin
  <2>7. QED BY <2>6 DEF Serial!Next
<1>3. ASSUME NEW r \in Requests, ~AcquireLock(r),
             \A q \in Requests \ {r} : pc'[q] = pc[q] /\ ask'[q] = ask[q]
      PROVE  Serial!Next \/ Callbacks' = Callbacks
  <2>1. CASE pc'[r] \in Running
    <3>1. pc[r] \in Running /\ ask'[r] = ask[r]
      BY <1>3, <2>1, RunningFrame
    <3>2. QED BY <1>3, <2>1, <3>1
  <2>2. CASE pc'[r] \notin Running /\ pc[r] \notin Running
    BY <1>3, <2>2
  <2>3. CASE pc'[r] \notin Running /\ pc[r] \in Running
    <3> DEFINE v == ask[r].vehicle
    <3>1. v \in Vehicles
      BY <2>3 DEF TypeOK, RequestOK, AskType
    <3>2. \A q \in Callbacks[v] : q = r
      BY <2>3, <3>1, OneInLock DEF InLock
    <3>3. Callbacks'[v] = {}
      <4>1. ASSUME NEW q \in Callbacks'[v] PROVE FALSE
        <5>1. q \in Requests /\ pc'[q] \in Running /\ ask'[q].vehicle = v
          BY <3>1, <4>1
        <5>2. q # r
          BY <2>3, <5>1
        <5>3. q \in Callbacks[v]
          BY <1>3, <3>1, <5>1, <5>2
        <5>4. QED BY <3>2, <5>2, <5>3
      <4>2. QED BY <4>1
    <3>4. ASSUME NEW u \in Vehicles, u # v PROVE Callbacks'[u] = Callbacks[u]
      BY <1>3, <2>3, <3>4
    <3>5. Callbacks' = [Callbacks EXCEPT ![v] = {}]
      BY <3>3, <3>4
    <3>6. QED BY <3>1, <3>5 DEF Serial!Next, Serial!End
  <2>4. QED BY <2>1, <2>2, <2>3
<1> HIDE DEF Callbacks
<1>4. QED BY <1>1, <1>2, <1>3, OneMoves

(* redis.service.ts:97-102: with locks that outlive their owners' work,     *)
(* withLock implements a lock: whatever throws, crashes or runs out, the    *)
(* callbacks for a vehicle run one after another.                           *)
THEOREM LockCorrect ==
    ASSUME ~LockMayExpire
    PROVE  Spec => OneCallbackAtATime
<1>1. Init => Guarded /\ Serial!Init
  BY DEF Init, Guarded, InLock, Serial!Init, Callbacks
<1>2. TypeOK /\ Guarded /\ [Next]_vars => Guarded' /\ [Serial!Next]_Callbacks
  BY GuardedStep, SerialStep
<1>3. QED BY <1>1, <1>2, TypeCorrect, PTL DEF Spec, OneCallbackAtATime, Serial!Spec
----------------------------------------------------------------------------
(* What the conditional update keeps without the lock                      *)

(* The time a hold works with has passed.                                   *)
ReadPast ==
    \A r \in Requests : pc[r] = "locked" /\ ask[r].kind = "hold" => seen[r].at <= now

LEMMA ReadPastStep == TypeOK /\ ReadPast /\ [Next]_vars => ReadPast'
<1> SUFFICES ASSUME TypeOK, ReadPast, [Next]_vars, NEW q \in Requests,
                    pc'[q] = "locked", ask'[q].kind = "hold"
             PROVE  seen'[q].at <= now'
  BY DEF ReadPast
<1>1. now \in Nat /\ now' \in Nat /\ now' >= now
  BY RowFrame DEF TypeOK
<1>2. CASE AcquireLock(q)
  <2>1. seen'[q].at = now
    BY <1>2 DEF TypeOK, AcquireLock, Proceed, Nothing
  <2>2. QED BY <1>1, <2>1
<1>3. CASE pc[q] = "locked" /\ ask'[q] = ask[q] /\ seen'[q] = seen[q]
  <2>1. seen[q].at \in Nat /\ seen[q].at <= now
    BY <1>3 DEF TypeOK, RequestOK, SeenType, ReadPast
  <2>2. QED BY <1>1, <1>3, <2>1
<1>4. QED BY <1>2, <1>3, RequestFrame

(* The row a hold that matches leaves.                                      *)
LEMMA HeldRow ==
    ASSUME TypeOK, NEW r \in Requests, HoldVehicle(r), CanHold(ask[r].vehicle, seen[r].at)
    PROVE  /\ pc[r] = "locked" /\ ask[r].kind = "hold" /\ ask[r].vehicle \in Vehicles
           /\ ask[r].buyer \in Buyers /\ seen[r].at \in Nat
           /\ vehicle' = [vehicle EXCEPT ![ask[r].vehicle] =
                [status |-> "ON_HOLD", heldBy |-> ask[r].buyer,
                 heldUntil |-> seen[r].at + HoldTime, soldTo |-> vehicle[ask[r].vehicle].soldTo]]
           /\ order' = order
BY DEF TypeOK, HoldVehicle, RequestOK, AskType, SeenType

(* vehicles.service.ts:223-238: with or without the lock, no hold takes a   *)
(* vehicle from a buyer whose own hold still runs.                          *)
THEOREM HoldCorrect == Spec => HoldNeverStolen
<1> DEFINE Fair == \A v \in Vehicles : vehicle'[v].heldBy \notin {None, vehicle[v].heldBy} =>
                      \/ vehicle[v].status = "LIVE"
                      \/ Before(vehicle[v].heldUntil, now)
<1>1. Init => ReadPast
  BY DEF Init, ReadPast
<1>2. TypeOK /\ ReadPast /\ [Next]_vars => [Fair]_vars
  <2> SUFFICES ASSUME TypeOK, ReadPast, [Next]_vars, NEW v \in Vehicles,
                      vehicle'[v].heldBy \notin {None, vehicle[v].heldBy},
                      vehicle[v].status # "LIVE"
               PROVE  Before(vehicle[v].heldUntil, now)
    OBVIOUS
  <2>1. PICK r \in Requests : HoldVehicle(r) /\ ask[r].vehicle = v /\ CanHold(v, seen[r].at)
    BY RowFrame
  <2>2. seen[r].at \in Nat /\ seen[r].at <= now
    BY <2>1, HeldRow DEF ReadPast
  <2>3. Before(vehicle[v].heldUntil, seen[r].at)
    BY <2>1 DEF CanHold
  <2>4. QED BY <2>2, <2>3 DEF TypeOK, VehicleType, Before
<1>3. QED BY <1>1, <1>2, ReadPastStep, TypeCorrect, PTL DEF Spec, HoldNeverStolen

(* A vehicle held by somebody is on hold until some time, and may be held.  *)
RowsHeld ==
    \A v \in Vehicles : vehicle[v].heldBy # None =>
        /\ vehicle[v].status = "ON_HOLD" /\ vehicle[v].heldUntil # None
        /\ listing[v].saleType \in Holdable

LEMMA RowsHeldStep == TypeOK /\ RowsHeld /\ [Next]_vars => RowsHeld'
<1> SUFFICES ASSUME TypeOK, RowsHeld, [Next]_vars, NEW v \in Vehicles, vehicle'[v].heldBy # None
             PROVE  /\ vehicle'[v].status = "ON_HOLD" /\ vehicle'[v].heldUntil # None
                    /\ listing'[v].saleType \in Holdable
  BY DEF RowsHeld
<1>1. listing' = listing
  BY RowFrame
<1>2. CASE vehicle'[v] = vehicle[v]
  BY <1>1, <1>2 DEF RowsHeld
<1>3. ASSUME NEW r \in Requests, HoldVehicle(r), ask[r].vehicle = v, CanHold(v, seen[r].at)
      PROVE  /\ vehicle'[v].status = "ON_HOLD" /\ vehicle'[v].heldUntil # None
             /\ listing'[v].saleType \in Holdable
  <2>1. /\ vehicle'[v] = [status |-> "ON_HOLD", heldBy |-> ask[r].buyer,
                          heldUntil |-> seen[r].at + HoldTime, soldTo |-> vehicle[v].soldTo]
        /\ seen[r].at + HoldTime \in Nat
    BY <1>3, HeldRow, SaleAssumption DEF TypeOK
  <2>2. QED BY <1>1, <1>3, <2>1, SaleAssumption DEF CanHold
<1>4. QED BY <1>2, <1>3, RowFrame
----------------------------------------------------------------------------
(* Checkout and the hold it relies on                                      *)

(* While a checkout runs, its vehicle can lose its holder but not get one.  *)
LEMMA HolderUnderLock ==
    ASSUME TypeOK, Guarded, [Next]_vars, NEW q \in Requests, pc[q] \in {"gated", "priced"},
           NEW v, v = ask[q].vehicle
    PROVE  /\ v \in Vehicles
           /\ vehicle'[v] = vehicle[v] \/ vehicle'[v].heldBy = None
<1>1. v \in Vehicles
  BY DEF TypeOK, RequestOK, AskType
<1>2. ASSUME NEW r \in Requests, HoldVehicle(r), ask[r].vehicle = v PROVE FALSE
  <2>1. pc[r] = "locked"
    BY <1>2 DEF HoldVehicle
  <2>2. QED BY <1>2, <2>1, OneInLock DEF InLock
<1>3. QED BY <1>1, <1>2, RowFrame

(* Nobody else has the vehicle of a checkout past the gates; and as long as *)
(* the buyer has it, what was read of his hold is still so.                 *)
HoldInHand ==
    \A r \in Requests : pc[r] \in {"gated", "priced"} =>
        LET v == ask[r].vehicle IN
        /\ vehicle[v].heldBy \in {None, ask[r].buyer}
        /\ vehicle[v].heldBy # None => seen[r].until = vehicle[v].heldUntil

LEMMA HoldInHandStep ==
    ASSUME TypeOK, Guarded, RowsHeld, HoldInHand, [Next]_vars
    PROVE  HoldInHand'
<1> SUFFICES ASSUME NEW q \in Requests, pc'[q] \in {"gated", "priced"},
                    NEW v, v = ask'[q].vehicle
             PROVE  /\ vehicle'[v].heldBy \in {None, ask'[q].buyer}
                    /\ vehicle'[v].heldBy # None => seen'[q].until = vehicle'[v].heldUntil
  BY DEF HoldInHand
<1>1. CASE ReadVehicle(q)
  <2>1. /\ ask' = ask /\ vehicle' = vehicle /\ v \in Vehicles
        /\ BuyNowGate(v, ask[q].buyer) \/ AuctionGate(v, ask[q].buyer)
        /\ seen'[q] = [at |-> None, until |-> vehicle[v].heldUntil, base |-> BasePrice(v)]
    BY <1>1 DEF TypeOK, ReadVehicle, Leave, Proceed, rows, RequestOK, AskType
  <2>2. seen'[q].until = vehicle[v].heldUntil
    BY <2>1
  <2>3. vehicle[v].heldBy \in {None, ask[q].buyer}
    BY <2>1 DEF BuyNowGate, AuctionGate, RowsHeld, Holdable
  <2>4. QED BY <2>1, <2>2, <2>3
<1>2. CASE CheckExisting(q)
  <2>1. /\ pc[q] = "gated" /\ ask' = ask /\ vehicle' = vehicle
        /\ seen[q].until # None => seen'[q].until = seen[q].until
    BY <1>2 DEF TypeOK, CheckExisting, Leave, Proceed, rows
  <2>2. /\ vehicle[v].heldBy \in {None, ask[q].buyer}
        /\ vehicle[v].heldBy # None => seen[q].until = vehicle[v].heldUntil
    BY <2>1 DEF HoldInHand
  <2>3. v \in Vehicles
    BY <2>1 DEF TypeOK, RequestOK, AskType
  <2>4. QED BY <2>1, <2>2, <2>3 DEF RowsHeld
<1>3. CASE pc[q] \in {"gated", "priced"} /\ ask'[q] = ask[q] /\ seen'[q] = seen[q]
  <2>1. vehicle'[v] = vehicle[v] \/ vehicle'[v].heldBy = None
    BY <1>3, HolderUnderLock
  <2>2. QED BY <1>3, <2>1 DEF HoldInHand
<1>4. QED BY <1>1, <1>2, <1>3, RequestFrame

(* A HELD order is new, or was HELD before with the same columns.           *)
LEMMA HeldOrder ==
    ASSUME TypeOK, [Next]_vars, NEW o \in Orders, order'[o].status = "HELD"
    PROVE  \/ order'[o] = order[o]
           \/ \E r \in Requests :
                /\ CreateOrder(r, o)
                /\ order'[o] = [status |-> "HELD", buyer |-> ask[r].buyer,
                                vehicle |-> ask[r].vehicle, base |-> seen[r].base,
                                heldUntil |-> seen[r].until]
<1>1. ASSUME NEW r \in Requests, NEW p \in Orders, CreateOrder(r, p)
      PROVE  \/ order'[o] = order[o]
             \/ p = o /\ order'[o] = [status |-> "HELD", buyer |-> ask[r].buyer,
                                      vehicle |-> ask[r].vehicle, base |-> seen[r].base,
                                      heldUntil |-> seen[r].until]
  BY <1>1 DEF TypeOK, CreateOrder
<1>2. CASE \E r \in Requests, p \in Orders : CreateOrder(r, p)
  BY <1>1, <1>2
<1>3. CASE ~\E r \in Requests, p \in Orders : CreateOrder(r, p)
  BY <1>3, RowFrame
<1>4. QED BY <1>2, <1>3

(* orders.service.ts:51-127: between the gates of a checkout and its order, *)
(* no other buyer takes the vehicle over, while locks outlive their work.   *)
THEOREM FollowsCorrect ==
    ASSUME ~LockMayExpire
    PROVE  Spec => OrderFollowsHold
<1> DEFINE Follows == \A o \in Orders :
                        order[o].status = "ABSENT" /\ order'[o].status = "HELD" =>
                          vehicle[order'[o].vehicle].heldBy \in {None, order'[o].buyer}
<1>1. Init => Guarded /\ RowsHeld /\ HoldInHand
  BY DEF Init, Guarded, RowsHeld, HoldInHand, InLock
<1>2. TypeOK /\ Guarded /\ RowsHeld /\ HoldInHand /\ [Next]_vars
        => (Guarded /\ RowsHeld /\ HoldInHand)' /\ [Follows]_vars
  <2> SUFFICES ASSUME TypeOK, Guarded, RowsHeld, HoldInHand, [Next]_vars
               PROVE  (Guarded /\ RowsHeld /\ HoldInHand)' /\ Follows
    OBVIOUS
  <2>1. (Guarded /\ RowsHeld /\ HoldInHand)'
    BY GuardedStep, RowsHeldStep, HoldInHandStep
  <2>2. ASSUME NEW o \in Orders, order[o].status = "ABSENT", order'[o].status = "HELD"
        PROVE  vehicle[order'[o].vehicle].heldBy \in {None, order'[o].buyer}
    <3>1. PICK r \in Requests :
            /\ CreateOrder(r, o)
            /\ order'[o] = [status |-> "HELD", buyer |-> ask[r].buyer,
                            vehicle |-> ask[r].vehicle, base |-> seen[r].base,
                            heldUntil |-> seen[r].until]
      BY <2>2, HeldOrder
    <3>2. order'[o].vehicle = ask[r].vehicle /\ order'[o].buyer = ask[r].buyer
      BY <3>1
    <3>3. QED BY <3>1, <3>2 DEF CreateOrder, HoldInHand
  <2>3. QED BY <2>1, <2>2
<1>3. QED BY <1>1, <1>2, TypeCorrect, PTL DEF Spec, OrderFollowsHold
(* No deadline, written or in hand, is further away than a hold takes.      *)
Recent ==
    /\ \A v \in Vehicles : vehicle[v].heldUntil # None => vehicle[v].heldUntil <= now + HoldTime
    /\ \A r \in Requests : pc[r] \in {"gated", "priced"} /\ seen[r].until # None =>
          seen[r].until <= now + HoldTime
    /\ \A o \in Orders : order[o].status = "HELD" => order[o].heldUntil <= now + HoldTime

LEMMA RecentStep == TypeOK /\ ReadPast /\ Recent /\ [Next]_vars => Recent'
<1> SUFFICES ASSUME TypeOK, ReadPast, Recent, [Next]_vars PROVE Recent'
  OBVIOUS
<1> DEFINE Near(t) == t # None => t <= now + HoldTime
           NearNext(t) == t # None => t <= now' + HoldTime
<1>0. \A t, m, n, h \in Nat : t <= m + h /\ n >= m => t <= n + h
  OBVIOUS
<1>1. now \in Nat /\ now' \in Nat /\ now' >= now /\ HoldTime \in Nat
  BY RowFrame, SaleAssumption DEF TypeOK
<1>2. ASSUME NEW t \in Nat \cup {None}, Near(t) PROVE NearNext(t)
  <2>1. CASE t # None
    <3>1. t \in Nat /\ t <= now + HoldTime
      BY <1>2, <2>1
    <3>2. QED BY <1>0, <1>1, <3>1
  <2>2. QED BY <2>1
<1>3. ASSUME NEW v \in Vehicles PROVE NearNext(vehicle'[v].heldUntil)
  <2>1. ASSUME NEW r \in Requests, HoldVehicle(r), ask[r].vehicle = v, CanHold(v, seen[r].at)
        PROVE  NearNext(vehicle'[v].heldUntil)
    <3>1. vehicle'[v] = [status |-> "ON_HOLD", heldBy |-> ask[r].buyer,
                         heldUntil |-> seen[r].at + HoldTime, soldTo |-> vehicle[v].soldTo]
      BY <2>1, HeldRow DEF TypeOK
    <3>2. vehicle'[v].heldUntil = seen[r].at + HoldTime /\ seen[r].at \in Nat /\ seen[r].at <= now
      BY <2>1, <3>1, HeldRow DEF ReadPast
    <3>3. QED BY <1>1, <3>2
  <2>2. CASE vehicle'[v] = vehicle[v]
    <3>1. vehicle[v].heldUntil \in Nat \cup {None} /\ Near(vehicle[v].heldUntil)
      BY DEF TypeOK, VehicleType, Recent
    <3>2. QED BY <1>2, <2>2, <3>1
  <2>3. CASE vehicle'[v].heldUntil = None
    BY <2>3
  <2>4. QED BY <2>1, <2>2, <2>3, RowFrame
<1>4. ASSUME NEW q \in Requests, pc'[q] \in {"gated", "priced"} PROVE NearNext(seen'[q].until)
  <2>1. CASE ReadVehicle(q)
    <3>1. LET v == ask[q].vehicle IN
          v \in Vehicles /\ seen'[q].until = vehicle[v].heldUntil
      BY <1>4, <2>1 DEF TypeOK, ReadVehicle, Leave, Proceed, RequestOK, AskType
    <3>2. seen'[q].until \in Nat \cup {None} /\ Near(seen'[q].until)
      BY <3>1 DEF TypeOK, VehicleType, Recent
    <3>3. QED BY <1>2, <3>2
  <2>2. CASE CheckExisting(q)
    <3>1. /\ pc[q] = "gated"
          /\ seen'[q].until = IF seen[q].until = None THEN now + HoldTime ELSE seen[q].until
      BY <1>4, <2>2 DEF TypeOK, CheckExisting, Leave, Proceed
    <3>2. seen[q].until \in Nat \cup {None} /\ Near(seen[q].until)
      BY <3>1 DEF TypeOK, SeenType, Recent
    <3>3. QED BY <1>1, <1>2, <3>1, <3>2
  <2>3. CASE pc[q] \in {"gated", "priced"} /\ seen'[q] = seen[q]
    <3>1. seen[q].until \in Nat \cup {None} /\ Near(seen[q].until)
      BY <2>3 DEF TypeOK, SeenType, Recent
    <3>2. QED BY <1>2, <2>3, <3>1
  <2>4. QED BY <1>4, <2>1, <2>2, <2>3, RequestFrame
<1>5. ASSUME NEW o \in Orders, order'[o].status = "HELD"
      PROVE  NearNext(order'[o].heldUntil) /\ order'[o].heldUntil # None
  <2>1. CASE order'[o] = order[o]
    <3>1. /\ order[o].heldUntil \in Nat \cup {None} /\ order[o].heldUntil # None
          /\ Near(order[o].heldUntil)
      BY <1>5, <2>1 DEF TypeOK, OrderType, Recent
    <3>2. QED BY <1>2, <2>1, <3>1
  <2>2. ASSUME NEW r \in Requests, CreateOrder(r, o),
               order'[o] = [status |-> "HELD", buyer |-> ask[r].buyer,
                            vehicle |-> ask[r].vehicle, base |-> seen[r].base,
                            heldUntil |-> seen[r].until]
        PROVE  NearNext(order'[o].heldUntil) /\ order'[o].heldUntil # None
    <3>1. /\ seen[r].until \in Nat \cup {None} /\ seen[r].until # None
          /\ Near(seen[r].until)
      BY <2>2 DEF TypeOK, CreateOrder, RequestOK, SeenType, Recent
    <3>2. order'[o].heldUntil = seen[r].until
      BY <2>2
    <3>3. QED BY <1>2, <3>1, <3>2
  <2>3. QED BY <1>5, <2>1, <2>2, HeldOrder
<1>6. QED BY <1>3, <1>4, <1>5 DEF Recent

(* When a hold has the lock and the time, every payable order of the        *)
(* vehicle was created before.                                              *)
Settled ==
    \A r \in Requests, o \in Orders :
        /\ pc[r] = "locked" /\ ask[r].kind = "hold"
        /\ order[o].status = "HELD" /\ order[o].vehicle = ask[r].vehicle
        => order[o].heldUntil <= seen[r].at + HoldTime

LEMMA SettledStep ==
    ASSUME TypeOK, Guarded, Recent, Settled, [Next]_vars
    PROVE  Settled'
<1> SUFFICES ASSUME NEW q \in Requests, NEW o \in Orders,
                    pc'[q] = "locked", ask'[q].kind = "hold",
                    order'[o].status = "HELD", order'[o].vehicle = ask'[q].vehicle
             PROVE  order'[o].heldUntil <= seen'[q].at + HoldTime
  BY DEF Settled
<1>1. CASE AcquireLock(q)
  <2>1. order' = order /\ seen'[q].at = now
    BY <1>1 DEF TypeOK, AcquireLock, Proceed, Nothing, rows
  <2>2. QED BY <2>1 DEF Recent
<1>2. CASE pc[q] = "locked" /\ ask'[q] = ask[q] /\ seen'[q] = seen[q]
  <2>1. CASE order'[o] = order[o]
    BY <1>2, <2>1 DEF Settled
  <2>2. ASSUME NEW r \in Requests, CreateOrder(r, o),
               order'[o] = [status |-> "HELD", buyer |-> ask[r].buyer,
                            vehicle |-> ask[r].vehicle, base |-> seen[r].base,
                            heldUntil |-> seen[r].until]
        PROVE  FALSE
    <3>1. pc[r] = "priced" /\ ask[r].vehicle = ask[q].vehicle
      BY <1>2, <2>2 DEF CreateOrder
    <3>2. QED BY <1>2, <3>1, OneInLock DEF InLock
  <2>3. QED BY <2>1, <2>2, HeldOrder
<1>3. QED BY <1>1, <1>2, RequestFrame

LEMMA DeadlineStep ==
    ASSUME TypeOK, RowsHeld, HoldInHand, Settled, DeadlineWithinHold, [Next]_vars
    PROVE  DeadlineWithinHold'
<1> SUFFICES ASSUME NEW o \in Orders, order'[o].status = "HELD", NEW v, v = order'[o].vehicle,
                    vehicle'[v].heldBy = order'[o].buyer
             PROVE  order'[o].heldUntil <= vehicle'[v].heldUntil
  BY DEF DeadlineWithinHold
<1>1. CASE order'[o] = order[o]
  <2>1. v \in Vehicles /\ order[o].buyer # None
    BY <1>1 DEF TypeOK, OrderType
  <2>2. CASE vehicle'[v] = vehicle[v]
    BY <1>1, <2>2 DEF DeadlineWithinHold
  <2>3. ASSUME NEW r \in Requests, HoldVehicle(r), ask[r].vehicle = v, CanHold(v, seen[r].at)
        PROVE  order'[o].heldUntil <= vehicle'[v].heldUntil
    <3>1. vehicle'[v] = [status |-> "ON_HOLD", heldBy |-> ask[r].buyer,
                         heldUntil |-> seen[r].at + HoldTime, soldTo |-> vehicle[v].soldTo]
      BY <2>3, HeldRow DEF TypeOK
    <3>2. vehicle'[v].heldUntil = seen[r].at + HoldTime
      BY <3>1
    <3>3. order[o].status = "HELD" /\ order[o].vehicle = ask[r].vehicle
      BY <1>1, <2>3
    <3>4. order[o].heldUntil <= seen[r].at + HoldTime
      BY <2>3, <3>3, HeldRow DEF Settled
    <3>5. QED BY <1>1, <3>2, <3>4
  <2>4. QED BY <1>1, <2>1, <2>2, <2>3, RowFrame
<1>2. ASSUME NEW r \in Requests, CreateOrder(r, o),
             order'[o] = [status |-> "HELD", buyer |-> ask[r].buyer, vehicle |-> ask[r].vehicle,
                          base |-> seen[r].base, heldUntil |-> seen[r].until]
      PROVE  order'[o].heldUntil <= vehicle'[v].heldUntil
  <2>1. /\ order'[o].heldUntil = seen[r].until /\ order'[o].buyer = ask[r].buyer
        /\ v = ask[r].vehicle
    BY <1>2
  <2>2. vehicle' = vehicle /\ pc[r] = "priced"
    BY <1>2 DEF CreateOrder
  <2>3. v \in Vehicles /\ ask[r].buyer # None
    BY <2>1, <2>2 DEF TypeOK, RequestOK, AskType
  <2>4. vehicle[v].heldUntil \in Nat /\ seen[r].until = vehicle[v].heldUntil
    BY <2>1, <2>2, <2>3 DEF TypeOK, VehicleType, HoldInHand, RowsHeld
  <2>5. QED BY <2>1, <2>2, <2>4
<1>3. QED BY <1>1, <1>2, HeldOrder

(* orders.service.ts:100: the deadline a checkout copies from the hold is   *)
(* never later than the hold of that buyer, now or when he renews it.       *)
THEOREM DeadlineCorrect ==
    ASSUME ~LockMayExpire
    PROVE  Spec => []DeadlineWithinHold
<1> DEFINE DInv == /\ Guarded /\ ReadPast /\ RowsHeld /\ HoldInHand
                   /\ Recent /\ Settled /\ DeadlineWithinHold
<1>1. Init => DInv
  BY DEF Init, Guarded, ReadPast, RowsHeld, HoldInHand, Recent, Settled, DeadlineWithinHold,
         NoOrder, InLock
<1>2. TypeOK /\ DInv /\ [Next]_vars => DInv'
  BY GuardedStep, ReadPastStep, RowsHeldStep, HoldInHandStep, RecentStep, SettledStep, DeadlineStep
<1>3. DInv => DeadlineWithinHold
  OBVIOUS
<1> HIDE DEF DInv
<1>4. QED BY <1>1, <1>2, <1>3, TypeCorrect, PTL DEF Spec
----------------------------------------------------------------------------
(* Buyers in time                                                          *)

(* What any step does to a row; only a sweep sets it LIVE.                  *)
LEMMA RowMoves ==
    ASSUME TypeOK, [Next]_vars, NEW v \in Vehicles
    PROVE  \/ vehicle'[v] = vehicle[v]
           \/ vehicle'[v].status = "SOLD"
           \/ \E r \in Requests : HoldVehicle(r) /\ ask[r].vehicle = v /\ CanHold(v, seen[r].at)
           \/ \E s \in Sweepers : ReleaseHolds(s) /\ v \in found[s]
<1>1. ASSUME NEW r \in Requests, Serve(r), ~HoldVehicle(r), ~CommitPayment(r)
      PROVE  vehicle' = vehicle
  BY <1>1 DEF Serve, AcquireLock, LockRefused, ReleaseLock, ReadVehicle, CheckExisting, CreateOrder,
              CallbackThrows, RejectSignature, RollbackPayment, rows
<1>2. ASSUME NEW r \in Requests, HoldVehicle(r)
      PROVE  vehicle'[v] = vehicle[v] \/ (ask[r].vehicle = v /\ CanHold(v, seen[r].at))
  BY <1>2 DEF TypeOK, HoldVehicle
<1>3. ASSUME NEW r \in Requests, CommitPayment(r)
      PROVE  vehicle'[v] = vehicle[v] \/ vehicle'[v].status = "SOLD"
  BY <1>3 DEF TypeOK, CommitPayment
<1>4. ASSUME NEW r \in Requests, Arrive(r) \/ Crash(r) \/ \E o \in Orders : ReadOrder(r, o)
      PROVE  vehicle' = vehicle
  BY <1>4 DEF Arrive, LockedRequest, Crash, ReadOrder, rows
<1>5. CASE \/ (\E w \in Vehicles : ExpireLock(w)) \/ ExpireOverdueOrders \/ Tick \/ UNCHANGED vars
           \/ \E s \in Sweepers : FindExpiredHolds(s) \/ SweepFails(s)
  BY <1>5 DEF ExpireLock, ExpireOverdueOrders, Tick, FindExpiredHolds, SweepFails, vars, rows
<1>6. ASSUME NEW s \in Sweepers, ReleaseHolds(s)
      PROVE  vehicle'[v] = vehicle[v] \/ v \in found[s]
  BY <1>6 DEF TypeOK, ReleaseHolds
<1>7. QED BY <1>1, <1>2, <1>3, <1>4, <1>5, <1>6 DEF Next

(* A vehicle that was cut once stays so, and only a sweep cuts one.         *)
LEMMA CutFrame ==
    ASSUME [Next]_vars
    PROVE  cut' = cut \/ \E s \in Sweepers : ReleaseHolds(s)
<1>1. ASSUME NEW r \in Requests, Serve(r) PROVE UNCHANGED sweeps
  BY <1>1 DEF Serve, AcquireLock, LockRefused, ReleaseLock, HoldVehicle, ReadVehicle, CheckExisting,
              CreateOrder, CallbackThrows, RejectSignature, CommitPayment, RollbackPayment
<1>2. ASSUME NEW r \in Requests, Arrive(r) \/ Crash(r) \/ \E o \in Orders : ReadOrder(r, o)
      PROVE  UNCHANGED sweeps
  BY <1>2 DEF Arrive, LockedRequest, Crash, ReadOrder
<1>3. CASE (\E w \in Vehicles : ExpireLock(w)) \/ ExpireOverdueOrders \/ Tick
  BY <1>3 DEF ExpireLock, ExpireOverdueOrders, Tick, sweeps
<1>4. CASE (\E s \in Sweepers : FindExpiredHolds(s) \/ SweepFails(s)) \/ UNCHANGED vars
  BY <1>4 DEF FindExpiredHolds, SweepFails, vars
<1>5. QED BY <1>1, <1>2, <1>3, <1>4 DEF Next, sweeps

LEMMA CutGrows ==
    ASSUME [Next]_vars
    PROVE  cut \subseteq cut'
BY CutFrame DEF ReleaseHolds

(* What a sweep does to a vehicle that it does not cut.                     *)
LEMMA SweptRow ==
    ASSUME TypeOK, NEW s \in Sweepers, ReleaseHolds(s), NEW v \in Vehicles, v \in found[s],
           v \notin cut'
    PROVE  vehicle'[v].status = "LIVE" /\ (vehicle[v].status = "LIVE" \/ v \in ExpiredHolds)
<1>1. vehicle'[v] = [status |-> "LIVE", heldBy |-> None, heldUntil |-> None,
                     soldTo |-> vehicle[v].soldTo]
  BY DEF ReleaseHolds
<1>2. vehicle'[v].status = "LIVE"
  BY <1>1
<1>3. v \in found[s] \ ExpiredHolds => vehicle[v].status = "LIVE"
  BY DEF ReleaseHolds
<1>4. QED BY <1>2, <1>3

Timely(o) ==
    /\ order[o].status = "HELD" /\ order[o].heldUntil >= now
    /\ order[o].vehicle \notin cut
    /\ listing[order[o].vehicle].saleType \in Holdable

(* A buyer with a timely order, or about to create one, still has his hold  *)
(* or the vehicle is sold, and nobody else has a timely order for it; all   *)
(* this unless a sweep has cut the vehicle.                                 *)
HoldBacks(v, buyer, until) ==
    \/ vehicle[v].status = "SOLD"
    \/ vehicle[v].heldBy = buyer /\ vehicle[v].heldUntil = until

TimelyHeld ==
    \A o \in Orders : Timely(o) => HoldBacks(order[o].vehicle, order[o].buyer, order[o].heldUntil)

CheckoutTimely(r) ==
    /\ pc[r] \in {"gated", "priced"} /\ listing[ask[r].vehicle].saleType \in Holdable
    /\ seen[r].until >= now /\ ask[r].vehicle \notin cut

CheckoutHeld ==
    \A r \in Requests :
        /\ pc[r] \in {"gated", "priced"} /\ listing[ask[r].vehicle].saleType \in Holdable =>
              seen[r].until # None
        /\ CheckoutTimely(r) =>
              /\ HoldBacks(ask[r].vehicle, ask[r].buyer, seen[r].until)
              /\ \A o \in Orders : Timely(o) /\ order[o].vehicle = ask[r].vehicle =>
                    order[o].buyer = ask[r].buyer

LEMMA TimelyFrame ==
    ASSUME TypeOK, [Next]_vars, NEW o \in Orders, Timely(o)'
    PROVE  \/ Timely(o) /\ order'[o] = order[o]
           \/ \E r \in Requests :
                /\ CreateOrder(r, o)
                /\ order'[o] = [status |-> "HELD", buyer |-> ask[r].buyer,
                                vehicle |-> ask[r].vehicle, base |-> seen[r].base,
                                heldUntil |-> seen[r].until]
<1>1. order'[o].status = "HELD" /\ order'[o].heldUntil >= now' /\ order'[o].vehicle \notin cut
  BY CutGrows DEF Timely
<1>2. now \in Nat /\ now' \in Nat /\ now' >= now /\ listing' = listing
  BY RowFrame DEF TypeOK
<1>3. ASSUME order'[o] = order[o] PROVE Timely(o)
  <2>1. order[o].heldUntil \in Nat
    BY <1>1, <1>3 DEF TypeOK, OrderType
  <2>2. order[o].heldUntil >= now
    BY <1>1, <1>2, <1>3, <2>1
  <2>3. QED BY <1>1, <1>2, <1>3, <2>2 DEF Timely
<1>4. QED BY <1>1, <1>3, HeldOrder

(* A hold of the vehicle waits for the end of the one behind a timely order. *)
LEMMA HoldWaits ==
    ASSUME TypeOK, ReadPast, RowsHeld, TimelyHeld, NEW o \in Orders, Timely(o),
           NEW r \in Requests, HoldVehicle(r), CanHold(order[o].vehicle, seen[r].at)
    PROVE  FALSE
<1> DEFINE v == order[o].vehicle
<1>1. v \in Vehicles /\ order[o].buyer # None /\ order[o].heldUntil \in Nat
  BY DEF TypeOK, Timely, OrderType
<1>2. vehicle[v].heldBy = order[o].buyer /\ vehicle[v].heldUntil = order[o].heldUntil
  BY <1>1 DEF TimelyHeld, HoldBacks, CanHold
<1>3. vehicle[v].status = "ON_HOLD"
  BY <1>1, <1>2 DEF RowsHeld
<1>4. order[o].heldUntil < seen[r].at
  BY <1>2, <1>3 DEF CanHold, Before
<1>5. seen[r].at \in Nat /\ seen[r].at <= now
  BY DEF TypeOK, ReadPast, HoldVehicle, RequestOK, SeenType
<1>6. order[o].heldUntil >= now /\ now \in Nat
  BY DEF Timely, TypeOK
<1>7. QED BY <1>1, <1>4, <1>5, <1>6

LEMMA CreatedInTime ==
    ASSUME TypeOK, [Next]_vars, NEW o \in Orders, Timely(o)', NEW r \in Requests, CreateOrder(r, o),
           order'[o] = [status |-> "HELD", buyer |-> ask[r].buyer, vehicle |-> ask[r].vehicle,
                        base |-> seen[r].base, heldUntil |-> seen[r].until]
    PROVE  CheckoutTimely(r)
<1>1. /\ order'[o].vehicle = ask[r].vehicle /\ order'[o].heldUntil = seen[r].until
      /\ pc[r] = "priced" /\ now' = now
  BY DEF CreateOrder
<1>2. listing[ask[r].vehicle].saleType \in Holdable
  BY <1>1, RowFrame DEF Timely
<1>3. QED BY <1>1, <1>2, CutGrows DEF Timely, CheckoutTimely

LEMMA CreatedTimely ==
    ASSUME TypeOK, CheckoutHeld, [Next]_vars, NEW o \in Orders, Timely(o)',
           NEW r \in Requests, CreateOrder(r, o),
           order'[o] = [status |-> "HELD", buyer |-> ask[r].buyer, vehicle |-> ask[r].vehicle,
                        base |-> seen[r].base, heldUntil |-> seen[r].until]
    PROVE  /\ vehicle' = vehicle
           /\ HoldBacks(order'[o].vehicle, order'[o].buyer, order'[o].heldUntil)
           /\ \A p \in Orders : Timely(p) /\ order[p].vehicle = order'[o].vehicle =>
                 order[p].buyer = order'[o].buyer
<1>1. /\ order'[o].vehicle = ask[r].vehicle /\ order'[o].buyer = ask[r].buyer
      /\ order'[o].heldUntil = seen[r].until
  OBVIOUS
<1>2. vehicle' = vehicle
  BY DEF CreateOrder
<1>3. QED BY <1>1, <1>2, CreatedInTime DEF CheckoutHeld

(* A sweep that ends a hold behind something timely cuts the vehicle.       *)
LEMMA SweepCuts ==
    ASSUME TypeOK, RowsHeld, NEW v \in Vehicles, NEW b, b # None, NEW t \in Nat, t >= now,
           HoldBacks(v, b, t), NEW s \in Sweepers, ReleaseHolds(s), v \in found[s]
    PROVE  v \in cut'
<1> SUFFICES ASSUME v \notin cut' PROVE FALSE
  OBVIOUS
<1>1. vehicle[v].status = "LIVE" \/ v \in ExpiredHolds
  BY SweptRow
<1>2. vehicle[v].heldBy = b /\ vehicle[v].heldUntil = t
  BY <1>1 DEF HoldBacks, ExpiredHolds
<1>3. v \in ExpiredHolds
  BY <1>1, <1>2 DEF RowsHeld
<1>4. t < now
  BY <1>2, <1>3 DEF ExpiredHolds, Before
<1>5. now \in Nat
  BY DEF TypeOK
<1>6. QED BY <1>4, <1>5

LEMMA TimelyStep ==
    ASSUME TypeOK, ReadPast, RowsHeld, TimelyHeld, CheckoutHeld, OneTimelyBuyer, [Next]_vars
    PROVE  TimelyHeld' /\ OneTimelyBuyer'
<1>1. ASSUME NEW o \in Orders, Timely(o)'
      PROVE  HoldBacks(order[o].vehicle, order[o].buyer, order[o].heldUntil)'
  <2>1. CASE Timely(o) /\ order'[o] = order[o]
    <3>1. HoldBacks(order[o].vehicle, order[o].buyer, order[o].heldUntil)
      BY <2>1 DEF TimelyHeld
    <3>2. order[o].vehicle \in Vehicles
      BY <2>1 DEF TypeOK, Timely, OrderType
    <3>3. \A r \in Requests : ~(HoldVehicle(r) /\ CanHold(order[o].vehicle, seen[r].at))
      BY <2>1, HoldWaits
    <3>4. order[o].vehicle \notin cut' /\ order[o].buyer # None /\ order[o].heldUntil \in Nat
          /\ order[o].heldUntil >= now
      BY <1>1, <2>1 DEF TypeOK, Timely, OrderType
    <3>5. \A s \in Sweepers : ~(ReleaseHolds(s) /\ order[o].vehicle \in found[s])
      BY <3>1, <3>2, <3>4, SweepCuts
    <3>6. \/ vehicle'[order[o].vehicle] = vehicle[order[o].vehicle]
          \/ vehicle'[order[o].vehicle].status = "SOLD"
      BY <3>2, <3>3, <3>5, RowMoves
    <3>7. QED BY <2>1, <3>1, <3>6 DEF HoldBacks
  <2>2. ASSUME NEW r \in Requests, CreateOrder(r, o),
               order'[o] = [status |-> "HELD", buyer |-> ask[r].buyer, vehicle |-> ask[r].vehicle,
                            base |-> seen[r].base, heldUntil |-> seen[r].until]
        PROVE  HoldBacks(order[o].vehicle, order[o].buyer, order[o].heldUntil)'
    BY <1>1, <2>2, CreatedTimely DEF HoldBacks
  <2>3. QED BY <1>1, <2>1, <2>2, TimelyFrame
<1>2. ASSUME NEW o \in Orders, NEW p \in Orders, Timely(o)', Timely(p)',
             order'[o].vehicle = order'[p].vehicle
      PROVE  order'[o].buyer = order'[p].buyer
  <2>1. CASE order'[o] = order[o] /\ Timely(o) /\ order'[p] = order[p] /\ Timely(p)
    BY <1>2, <2>1 DEF OneTimelyBuyer, Timely
  <2>2. ASSUME NEW q \in Orders, NEW c \in Orders, NEW r \in Requests, CreateOrder(r, c), Timely(c)',
               order'[c] = [status |-> "HELD", buyer |-> ask[r].buyer,
                            vehicle |-> ask[r].vehicle, base |-> seen[r].base,
                            heldUntil |-> seen[r].until],
               Timely(q)', order'[q].vehicle = order'[c].vehicle
        PROVE  order'[q].buyer = order'[c].buyer
    <3>1. CASE q = c
      BY <3>1
    <3>2. CASE q # c
      <4>1. order'[q] = order[q] /\ order[c].status = "ABSENT"
        BY <2>2, <3>2 DEF TypeOK, CreateOrder
      <4>2. Timely(q)
        <5>1. ASSUME NEW s \in Requests, CreateOrder(s, q) PROVE FALSE
          BY <2>2, <4>1, <5>1 DEF Timely, CreateOrder
        <5>2. QED BY <2>2, <5>1, TimelyFrame
      <4>3. QED BY <2>2, <4>1, <4>2, CreatedTimely
    <3>3. QED BY <3>1, <3>2
  <2>3. QED BY <1>2, <2>1, <2>2, TimelyFrame
<1>3. OneTimelyBuyer'
  BY <1>2 DEF OneTimelyBuyer, Timely
<1>4. QED BY <1>1, <1>3 DEF TimelyHeld

LEMMA CheckoutStep ==
    ASSUME TypeOK, Guarded, RowsHeld, TimelyHeld, CheckoutHeld, [Next]_vars
    PROVE  CheckoutHeld'
<1> SUFFICES ASSUME NEW q \in Requests, pc'[q] \in {"gated", "priced"},
                    NEW v, v = ask'[q].vehicle, listing'[v].saleType \in Holdable
             PROVE  /\ seen'[q].until # None
                    /\ seen'[q].until >= now' /\ v \notin cut' =>
                          /\ HoldBacks(v, ask[q].buyer, seen[q].until)'
                          /\ \A o \in Orders : Timely(o)' /\ order'[o].vehicle = v =>
                                order'[o].buyer = ask'[q].buyer
  BY DEF CheckoutHeld, CheckoutTimely, HoldBacks
<1>1. listing' = listing /\ now \in Nat /\ now' \in Nat /\ now' >= now /\ cut \subseteq cut'
  BY RowFrame, CutGrows DEF TypeOK
<1>2. CASE ReadVehicle(q)
  <2>1. /\ ask' = ask /\ vehicle' = vehicle /\ order' = order /\ now' = now /\ v \in Vehicles
        /\ ask[q].buyer # None
        /\ BuyNowGate(v, ask[q].buyer) \/ AuctionGate(v, ask[q].buyer)
        /\ seen'[q] = [at |-> None, until |-> vehicle[v].heldUntil, base |-> BasePrice(v)]
    BY <1>2 DEF TypeOK, ReadVehicle, Leave, Proceed, rows, RequestOK, AskType
  <2>2. seen'[q].until = vehicle[v].heldUntil
    BY <2>1
  <2>3. vehicle[v].heldBy = ask[q].buyer
    BY <1>1, <2>1 DEF BuyNowGate, AuctionGate, Holdable
  <2>4. vehicle[v].heldUntil # None /\ vehicle[v].status = "ON_HOLD"
    BY <2>1, <2>3 DEF RowsHeld
  <2>5. ASSUME NEW o \in Orders, Timely(o)', order'[o].vehicle = v
        PROVE  order'[o].buyer = ask'[q].buyer
    <3>1. Timely(o)
      BY <1>1, <2>1, <2>5 DEF Timely
    <3>2. QED BY <2>1, <2>3, <2>4, <2>5, <3>1 DEF TimelyHeld, HoldBacks
  <2>6. QED BY <2>1, <2>2, <2>3, <2>4, <2>5 DEF HoldBacks
<1>3. CASE CheckExisting(q)
  <2>1. /\ pc[q] = "gated" /\ ask' = ask /\ vehicle' = vehicle /\ order' = order /\ now' = now
        /\ seen[q].until # None => seen'[q].until = seen[q].until
    BY <1>3 DEF TypeOK, CheckExisting, Leave, Proceed, rows
  <2>2. seen[q].until # None
    BY <1>1, <2>1 DEF CheckoutHeld
  <2>3. ASSUME seen'[q].until >= now', v \notin cut' PROVE CheckoutTimely(q)
    BY <1>1, <2>1, <2>2, <2>3 DEF CheckoutTimely
  <2>4. \A o \in Orders : Timely(o)' => Timely(o)
    BY <1>1, <2>1 DEF Timely
  <2>5. QED BY <2>1, <2>2, <2>3, <2>4 DEF CheckoutHeld, HoldBacks
<1>4. CASE pc[q] \in {"gated", "priced"} /\ ask'[q] = ask[q] /\ seen'[q] = seen[q]
  <2>1. seen[q].until # None /\ seen[q].until \in Nat
    BY <1>1, <1>4 DEF CheckoutHeld, TypeOK, SeenType
  <2>2. v \in Vehicles /\ ask[q].buyer # None
    BY <1>4 DEF TypeOK, RequestOK, AskType
  <2>3. SUFFICES ASSUME seen[q].until >= now', v \notin cut'
                 PROVE  /\ HoldBacks(v, ask[q].buyer, seen[q].until)'
                        /\ \A o \in Orders : Timely(o)' /\ order'[o].vehicle = v =>
                              order'[o].buyer = ask[q].buyer
    BY <1>4, <2>1
  <2>4. seen[q].until >= now
    BY <1>1, <2>1, <2>3
  <2>5. CheckoutTimely(q)
    BY <1>1, <1>4, <2>3, <2>4 DEF CheckoutTimely
  <2>6. /\ HoldBacks(v, ask[q].buyer, seen[q].until)
        /\ \A o \in Orders : Timely(o) /\ order[o].vehicle = v => order[o].buyer = ask[q].buyer
    BY <1>4, <2>5 DEF CheckoutHeld
  <2>7. ASSUME NEW r \in Requests, HoldVehicle(r), ask[r].vehicle = v PROVE FALSE
    <3>1. pc[r] = "locked"
      BY <2>7 DEF HoldVehicle
    <3>2. QED BY <1>4, <2>7, <3>1, OneInLock DEF InLock
  <2>8. \A s \in Sweepers : ~(ReleaseHolds(s) /\ v \in found[s])
    BY <2>1, <2>2, <2>3, <2>4, <2>6, SweepCuts
  <2>9. vehicle'[v] = vehicle[v] \/ vehicle'[v].status = "SOLD"
    BY <2>2, <2>7, <2>8, RowMoves
  <2>10. HoldBacks(v, ask[q].buyer, seen[q].until)'
    BY <1>4, <2>6, <2>9 DEF HoldBacks
  <2>11. ASSUME NEW o \in Orders, Timely(o)', order'[o].vehicle = v
         PROVE  order'[o].buyer = ask[q].buyer
    <3>1. CASE Timely(o) /\ order'[o] = order[o]
      BY <2>6, <2>11, <3>1
    <3>2. ASSUME NEW r \in Requests, CreateOrder(r, o),
                 order'[o] = [status |-> "HELD", buyer |-> ask[r].buyer,
                              vehicle |-> ask[r].vehicle, base |-> seen[r].base,
                              heldUntil |-> seen[r].until]
          PROVE  FALSE
      <4>1. pc[r] = "priced" /\ pc'[r] = "release" /\ ask[r].vehicle = ask[q].vehicle
        BY <1>4, <2>11, <3>2 DEF TypeOK, CreateOrder, Leave, Proceed
      <4>2. r # q
        BY <4>1
      <4>3. QED BY <1>4, <4>1, <4>2, OneInLock DEF InLock
    <3>3. QED BY <2>11, <3>1, <3>2, TimelyFrame
  <2>12. QED BY <2>10, <2>11
<1>5. QED BY <1>2, <1>3, <1>4, RequestFrame

(* README.md:35-36: two buyers never have timely payable orders for one     *)
(* vehicle, unless a sweep that works from an earlier read has cut it.      *)
THEOREM TimelyCorrect ==
    ASSUME ~LockMayExpire
    PROVE  Spec => []OneTimelyBuyer
<1> DEFINE TInv == /\ Guarded /\ ReadPast /\ RowsHeld
                   /\ TimelyHeld /\ CheckoutHeld /\ OneTimelyBuyer
<1>1. Init => TInv
  BY DEF Init, Guarded, ReadPast, RowsHeld, TimelyHeld, CheckoutHeld, CheckoutTimely, OneTimelyBuyer,
         Timely, NoOrder, InLock
<1>2. TypeOK /\ TInv /\ [Next]_vars => TInv'
  BY GuardedStep, ReadPastStep, RowsHeldStep, TimelyStep, CheckoutStep
<1>3. TInv => OneTimelyBuyer
  OBVIOUS
<1> HIDE DEF TInv
<1>4. QED BY <1>1, <1>2, <1>3, TypeCorrect, PTL DEF Spec

----------------------------------------------------------------------------
(* Where the two documented promises go wrong                              *)

(* Every sweep still finds its vehicles expired, or released by another,    *)
(* when it writes: its update repeats the conditions of its read.           *)
SweepsInTime ==
    \A s \in Sweepers : ReleaseHolds(s) =>
        \A v \in found[s] : vehicle[v].status = "LIVE" \/ v \in ExpiredHolds

(* vehicles.service.ts:292: then no sold vehicle is put back on the market, *)
(* as the comment promises.                                                 *)
THEOREM SweptCorrect == Spec /\ [][SweepsInTime]_vars => SoldStaysSold
<1>1. TypeOK /\ [Next]_vars /\ [SweepsInTime]_vars =>
         [\A v \in Vehicles : vehicle[v].status = "SOLD" => vehicle'[v].status = "SOLD"]_vars
  BY RowMoves DEF CanHold, SweepsInTime, ExpiredHolds, vars
<1>2. QED BY <1>1, TypeCorrect, PTL DEF Spec, SoldStaysSold

(* README.md:47: nor does any hold end before its time.                     *)
THEOREM HoldRunsCorrect == Spec /\ [][SweepsInTime]_vars => HoldRunsItsTime
<1>1. TypeOK /\ [Next]_vars /\ [SweepsInTime]_vars =>
         [\A v \in Vehicles : vehicle[v].status = "ON_HOLD" /\ ~Before(vehicle[v].heldUntil, now) =>
            vehicle'[v].status # "LIVE"]_vars
  <2>1. ASSUME NEW r \in Requests, NEW v \in Vehicles, TypeOK, HoldVehicle(r), ask[r].vehicle = v,
               CanHold(v, seen[r].at)
        PROVE  vehicle'[v].status = "ON_HOLD"
    BY <2>1 DEF TypeOK, HoldVehicle
  <2>2. QED BY <2>1, RowMoves DEF SweepsInTime, ExpiredHolds, vars
<1>2. QED BY <1>1, TypeCorrect, PTL DEF Spec, HoldRunsItsTime

(* Every payment that commits finds its order still payable and in time.    *)
PaidInTime ==
    \A r \in Requests : CommitPayment(r) =>
        /\ order[ask[r].order].status = "HELD"
        /\ order[ask[r].order].heldUntil >= now

(* An auction has one buyer, and a lot none.                                *)
Entitled(v, buyer) ==
    \/ listing[v].saleType \in Holdable
    \/ listing[v].saleType = "AUCTION" /\ buyer = listing[v].bidder

AllEntitled ==
    /\ \A r \in Requests : pc[r] \in {"gated", "priced"} => Entitled(ask[r].vehicle, ask[r].buyer)
    /\ \A o \in Orders : order[o].status # "ABSENT" => Entitled(order[o].vehicle, order[o].buyer)

(* No other buyer has a timely order of a vehicle or is about to create one. *)
OnlyFor(v, b) ==
    /\ \A p \in Orders : Timely(p) /\ order[p].vehicle = v => order[p].buyer = b
    /\ \A r \in Requests : CheckoutTimely(r) /\ ask[r].vehicle = v => ask[r].buyer = b

(* Behind an invoice the vehicle is sold, and only its buyer can pay again. *)
SaleClosed ==
    \A o \in invoiced : listing[order[o].vehicle].saleType \in Holdable =>
        /\ vehicle[order[o].vehicle].status = "SOLD"
        /\ OnlyFor(order[o].vehicle, order[o].buyer)

(* What becomes of an order: it is created, or keeps all but its status.    *)
LEMMA OrderKept ==
    ASSUME TypeOK, [Next]_vars, NEW o \in Orders, order'[o].status # "ABSENT"
    PROVE  \/ /\ order[o].status # "ABSENT"
              /\ order'[o].vehicle = order[o].vehicle /\ order'[o].buyer = order[o].buyer
           \/ \E r \in Requests :
                /\ pc[r] = "priced" /\ order[o].status = "ABSENT"
                /\ order'[o].vehicle = ask[r].vehicle /\ order'[o].buyer = ask[r].buyer
<1> DEFINE Kept == /\ order[o].status # "ABSENT"
                   /\ order'[o].vehicle = order[o].vehicle /\ order'[o].buyer = order[o].buyer
<1>1. CASE order'[o] = order[o]
  BY <1>1
<1>2. ASSUME NEW r \in Requests, CreateOrder(r, o)
      PROVE  /\ pc[r] = "priced" /\ order[o].status = "ABSENT"
             /\ order'[o].vehicle = ask[r].vehicle /\ order'[o].buyer = ask[r].buyer
  BY <1>2 DEF TypeOK, CreateOrder
<1>3. ASSUME order[o].status # "ABSENT", order'[o] = [order[o] EXCEPT !.status = order'[o].status]
      PROVE  Kept
  <2>1. PICK s : s = order'[o].status
    OBVIOUS
  <2>2. order'[o] = [order[o] EXCEPT !.status = s] /\ order[o] \in OrderType
    BY <1>3, <2>1 DEF TypeOK
  <2>3. QED BY <1>3, <2>2 DEF OrderType
<1> HIDE DEF Kept
<1>4. Kept \/ (order'[o] = order[o]) \/ \E r \in Requests : CreateOrder(r, o)
  BY <1>3, RowFrame
<1>5. QED BY <1>1, <1>2, <1>4 DEF Kept

LEMMA EntitledStep == TypeOK /\ AllEntitled /\ [Next]_vars => AllEntitled'
<1> SUFFICES ASSUME TypeOK, AllEntitled, [Next]_vars PROVE AllEntitled'
  OBVIOUS
<1>1. listing' = listing
  BY RowFrame
<1>2. ASSUME NEW q \in Requests, pc'[q] \in {"gated", "priced"}
      PROVE  Entitled(ask[q].vehicle, ask[q].buyer) /\ ask'[q] = ask[q]
  <2>1. CASE ReadVehicle(q)
    BY <1>2, <2>1 DEF TypeOK, ReadVehicle, Leave, Proceed, BuyNowGate, AuctionGate, Entitled
  <2>2. CASE CheckExisting(q)
    BY <2>2 DEF CheckExisting, Leave, Proceed, AllEntitled
  <2>3. CASE pc[q] \in {"gated", "priced"} /\ ask'[q] = ask[q]
    BY <2>3 DEF AllEntitled
  <2>4. QED BY <1>2, <2>1, <2>2, <2>3, RequestFrame
<1>3. ASSUME NEW o \in Orders, order'[o].status # "ABSENT"
      PROVE  Entitled(order'[o].vehicle, order'[o].buyer)
  BY <1>3, OrderKept DEF AllEntitled
<1>4. QED BY <1>1, <1>2, <1>3 DEF AllEntitled, Entitled

LEMMA NewInvoice ==
    ASSUME TypeOK, [Next]_vars, PaidInTime, NEW o \in invoiced' \ invoiced
    PROVE  /\ o \in Orders /\ order[o].vehicle \in Vehicles
           /\ order[o].status = "HELD" /\ order[o].heldUntil >= now
           /\ vehicle'[order[o].vehicle].status = "SOLD"
           /\ order'[o].vehicle = order[o].vehicle /\ order'[o].buyer = order[o].buyer
           /\ invoiced' = invoiced \cup {o}
<1>1. PICK r \in Requests : CommitPayment(r)
  BY OnlyPaymentSells
<1>2. o = ask[r].order /\ invoiced' = invoiced \cup {o}
  BY <1>1 DEF CommitPayment
<1>3. order[o].status = "HELD" /\ order[o].heldUntil >= now
  BY <1>1, <1>2 DEF PaidInTime
<1>4. o \in Orders /\ order[o] \in OrderType /\ order[o].vehicle \in Vehicles
  BY <1>1, <1>2, <1>3 DEF TypeOK, CommitPayment, RequestOK, AskType, OrderType
<1>5. order'[o].vehicle = order[o].vehicle /\ order'[o].buyer = order[o].buyer
  BY <1>1, <1>2, <1>4 DEF TypeOK, CommitPayment, OrderType
<1>6. vehicle'[order[o].vehicle].status = "SOLD"
  BY <1>1, <1>2, <1>4 DEF TypeOK, CommitPayment
<1>7. QED BY <1>2, <1>3, <1>4, <1>5, <1>6

(* An invoiced order keeps its vehicle and its buyer.                       *)
LEMMA OldInvoice ==
    ASSUME TypeOK, ReadyIffInvoiced, [Next]_vars, SweepsInTime, NEW o \in invoiced
    PROVE  /\ o \in Orders /\ order[o].vehicle \in Vehicles
           /\ order'[o].vehicle = order[o].vehicle /\ order'[o].buyer = order[o].buyer
           /\ vehicle[order[o].vehicle].status = "SOLD" => vehicle'[order[o].vehicle].status = "SOLD"
<1>1. o \in Orders /\ order[o].status = "READY_FOR_PICKUP" /\ order[o].vehicle \in Vehicles
  BY DEF TypeOK, ReadyIffInvoiced, OrderType
<1>2. order'[o].status # "ABSENT"
  BY <1>1, RowFrame DEF CreateOrder
<1>3. vehicle[order[o].vehicle].status = "SOLD" => vehicle'[order[o].vehicle].status = "SOLD"
  BY <1>1, RowMoves DEF CanHold, SweepsInTime, ExpiredHolds
<1>4. QED BY <1>1, <1>2, <1>3, OrderKept

(* A checkout in time was so before, or has just read its hold.             *)
LEMMA CheckoutFrame ==
    ASSUME TypeOK, CheckoutHeld, [Next]_vars, NEW q \in Requests, CheckoutTimely(q)'
    PROVE  ReadVehicle(q) \/ (CheckoutTimely(q) /\ ask'[q] = ask[q])
<1>1. listing' = listing /\ now \in Nat /\ now' \in Nat /\ now' >= now /\ cut \subseteq cut'
  BY RowFrame, CutGrows DEF TypeOK
<1>2. /\ pc'[q] \in {"gated", "priced"} /\ listing[ask'[q].vehicle].saleType \in Holdable
      /\ seen'[q].until >= now' /\ ask'[q].vehicle \notin cut
  BY <1>1 DEF CheckoutTimely
<1>3. ASSUME pc[q] \in {"gated", "priced"}, ask'[q] = ask[q],
             seen[q].until # None => seen'[q].until = seen[q].until
      PROVE  CheckoutTimely(q)
  <2>1. seen[q].until # None /\ seen[q].until \in Nat
    BY <1>2, <1>3 DEF CheckoutHeld, TypeOK, SeenType
  <2>2. seen[q].until >= now
    BY <1>1, <1>2, <1>3, <2>1
  <2>3. QED BY <1>2, <1>3, <2>2 DEF CheckoutTimely
<1>4. CASE CheckExisting(q)
  <2>1. /\ pc[q] = "gated" /\ ask' = ask
        /\ seen[q].until # None => seen'[q].until = seen[q].until
    BY <1>2, <1>4 DEF TypeOK, CheckExisting, Leave, Proceed, rows
  <2>2. QED BY <1>3, <2>1
<1>5. QED BY <1>2, <1>3, <1>4, RequestFrame

(* Nobody passes the gates of a sold vehicle.                               *)
LEMMA OnlyForStays ==
    ASSUME TypeOK, RowsHeld, CheckoutHeld, [Next]_vars, NEW v \in Vehicles, NEW b,
           listing[v].saleType \in Holdable, OnlyFor(v, b), vehicle'[v].status = "SOLD"
    PROVE  OnlyFor(v, b)'
<1>1. ASSUME NEW p \in Orders, Timely(p)', order'[p].vehicle = v PROVE order'[p].buyer = b
  <2>1. CASE Timely(p) /\ order'[p] = order[p]
    BY <1>1, <2>1 DEF OnlyFor
  <2>2. ASSUME NEW r \in Requests, CreateOrder(r, p),
               order'[p] = [status |-> "HELD", buyer |-> ask[r].buyer, vehicle |-> ask[r].vehicle,
                            base |-> seen[r].base, heldUntil |-> seen[r].until]
        PROVE  order'[p].buyer = b
    <3>1. order'[p].vehicle = ask[r].vehicle /\ order'[p].buyer = ask[r].buyer
      BY <2>2
    <3>2. CheckoutTimely(r)
      BY <1>1, <2>2, <3>1, CreatedInTime
    <3>3. QED BY <1>1, <3>1, <3>2 DEF OnlyFor
  <2>3. QED BY <1>1, <2>1, <2>2, TimelyFrame
<1>2. ASSUME NEW q \in Requests, CheckoutTimely(q)', ask'[q].vehicle = v
      PROVE  ask'[q].buyer = b
  <2>1. CASE ReadVehicle(q)
    <3>1. pc'[q] \in {"gated", "priced"}
      BY <1>2 DEF CheckoutTimely
    <3>2. /\ ask' = ask /\ vehicle' = vehicle /\ ask[q].buyer # None
          /\ BuyNowGate(v, ask[q].buyer) \/ AuctionGate(v, ask[q].buyer)
      BY <1>2, <2>1, <3>1 DEF TypeOK, ReadVehicle, Leave, Proceed, rows, RequestOK
    <3>3. vehicle[v].heldBy = ask[q].buyer
      BY <3>2 DEF BuyNowGate, AuctionGate, Holdable
    <3>4. QED BY <3>2, <3>3 DEF RowsHeld
  <2>2. CASE CheckoutTimely(q) /\ ask'[q] = ask[q]
    BY <1>2, <2>2 DEF OnlyFor
  <2>3. QED BY <1>2, <2>1, <2>2, CheckoutFrame
<1>3. QED BY <1>1, <1>2 DEF OnlyFor

LEMMA ClosedStep ==
    ASSUME TypeOK, ReadyIffInvoiced, RowsHeld, CheckoutHeld, OneTimelyBuyer, SaleClosed, cut = {},
           [Next]_vars, SweepsInTime, PaidInTime
    PROVE  SaleClosed'
<1> SUFFICES ASSUME NEW o \in invoiced', listing'[order'[o].vehicle].saleType \in Holdable
             PROVE  /\ vehicle'[order'[o].vehicle].status = "SOLD"
                    /\ OnlyFor(order[o].vehicle, order[o].buyer)'
  BY DEF SaleClosed
<1>1. /\ order[o].vehicle \in Vehicles
      /\ order'[o].vehicle = order[o].vehicle /\ order'[o].buyer = order[o].buyer
  BY NewInvoice, OldInvoice
<1>2. PICK v, b : v \in Vehicles /\ v = order[o].vehicle /\ b = order[o].buyer
  BY <1>1
<1>3. listing[v].saleType \in Holdable
  BY <1>1, <1>2, RowFrame
<1>4. CASE o \in invoiced
  <2>1. vehicle[v].status = "SOLD" /\ OnlyFor(v, b)
    BY <1>2, <1>3, <1>4 DEF SaleClosed, OnlyFor
  <2>2. vehicle'[v].status = "SOLD"
    BY <1>2, <1>4, <2>1, OldInvoice
  <2>3. OnlyFor(v, b)'
    BY <1>2, <1>3, <2>1, <2>2, OnlyForStays
  <2>4. QED BY <1>1, <1>2, <2>2, <2>3 DEF OnlyFor
<1>5. CASE o \notin invoiced
  <2>1. o \in Orders /\ Timely(o)
    BY <1>2, <1>3, <1>5, NewInvoice DEF Timely
  <2>2. OnlyFor(v, b)
    BY <1>2, <1>3, <2>1 DEF OnlyFor, OneTimelyBuyer, Timely, CheckoutHeld
  <2>3. vehicle'[v].status = "SOLD"
    BY <1>2, <1>5, NewInvoice
  <2>4. OnlyFor(v, b)'
    BY <1>2, <1>3, <2>2, <2>3, OnlyForStays
  <2>5. QED BY <1>1, <1>2, <2>3, <2>4 DEF OnlyFor
<1>6. QED BY <1>4, <1>5

LEMMA OneOwnerStep ==
    ASSUME TypeOK, ReadyIffInvoiced, AllEntitled, SaleClosed, NeverSoldTwice, cut = {},
           [Next]_vars, SweepsInTime, PaidInTime
    PROVE  NeverSoldTwice'
<1>1. ASSUME NEW o \in invoiced', NEW p \in invoiced', order'[o].vehicle = order'[p].vehicle
      PROVE  order'[o].buyer = order'[p].buyer
  <2>1. ASSUME NEW n \in invoiced'
        PROVE  /\ n \in Orders /\ order[n].status # "ABSENT"
               /\ order'[n].vehicle = order[n].vehicle /\ order'[n].buyer = order[n].buyer
    <3>1. CASE n \in invoiced
      BY <3>1, OldInvoice DEF ReadyIffInvoiced
    <3>2. CASE n \notin invoiced
      BY <3>2, NewInvoice
    <3>3. QED BY <3>1, <3>2
  <2>2. CASE listing[order[o].vehicle].saleType \notin Holdable
    <3>1. ASSUME NEW n \in invoiced', order[n].vehicle = order[o].vehicle
          PROVE  order[n].buyer = listing[order[o].vehicle].bidder
      BY <2>1, <2>2, <3>1 DEF AllEntitled, Entitled
    <3>2. QED BY <1>1, <2>1, <3>1
  <2>3. CASE listing[order[o].vehicle].saleType \in Holdable
    <3>1. ASSUME NEW m \in invoiced' \ invoiced, NEW n \in invoiced,
                 order[m].vehicle = order[n].vehicle, order[n].vehicle = order[o].vehicle
          PROVE  order[m].buyer = order[n].buyer
      <4>1. m \in Orders /\ Timely(m)
        BY <2>3, <3>1, NewInvoice DEF Timely
      <4>2. QED BY <2>3, <3>1, <4>1 DEF SaleClosed, OnlyFor
    <3>2. CASE o \in invoiced /\ p \in invoiced
      BY <1>1, <2>1, <3>2 DEF NeverSoldTwice
    <3>3. CASE o \notin invoiced /\ p \notin invoiced
      BY <3>3, NewInvoice
    <3>4. QED BY <1>1, <2>1, <3>1, <3>2, <3>3
  <2>4. QED BY <2>2, <2>3
<1>2. QED BY <1>1 DEF NeverSoldTwice

(* README.md:35-36, "never sell the same vehicle to two people": it would   *)
(* hold if every sweep still found its vehicles expired when it writes      *)
(* (vehicles.service.ts:280-299) and every payment that commits found its   *)
(* order HELD and in time, the two checks that verifyPayment leaves to the  *)
(* expiry job (orders.service.ts:182-290).                                  *)
THEOREM PromptSaleCorrect ==
    ASSUME ~LockMayExpire
    PROVE  Spec /\ [][PaidInTime /\ SweepsInTime]_vars => []NeverSoldTwice
<1> DEFINE SInv == /\ Guarded /\ ReadPast /\ RowsHeld
                   /\ TimelyHeld /\ CheckoutHeld /\ OneTimelyBuyer
                   /\ Ledger /\ AllEntitled /\ SaleClosed /\ NeverSoldTwice /\ cut = {}
<1>1. Init => SInv
  <2>1. Init => Ledger
    BY FS_EmptySet DEF Init, Ledger, BankCountsInvoices, ReadyIffInvoiced, NoOrder
  <2>2. Init => AllEntitled /\ SaleClosed /\ NeverSoldTwice
    BY DEF Init, AllEntitled, SaleClosed, NeverSoldTwice, NoOrder
  <2>3. QED
    BY <2>1, <2>2 DEF Init, Guarded, ReadPast, RowsHeld, TimelyHeld, CheckoutHeld, CheckoutTimely,
                      OneTimelyBuyer, Timely, NoOrder, InLock
<1>2. TypeOK /\ SInv /\ [Next]_vars /\ [PaidInTime /\ SweepsInTime]_vars => SInv'
  <2> SUFFICES ASSUME TypeOK, SInv, [Next]_vars, [PaidInTime /\ SweepsInTime]_vars PROVE SInv'
    OBVIOUS
  <2>1. PaidInTime /\ SweepsInTime
    <3>1. UNCHANGED vars => PaidInTime
      BY DEF PaidInTime, vars, CommitPayment
    <3>2. UNCHANGED vars => SweepsInTime
      BY DEF SweepsInTime, vars, TypeOK, ReleaseHolds
    <3>3. QED BY <3>1, <3>2
  <2>2. (Guarded /\ ReadPast /\ RowsHeld /\ TimelyHeld /\ CheckoutHeld /\ OneTimelyBuyer)'
    BY GuardedStep, ReadPastStep, RowsHeldStep, TimelyStep, CheckoutStep
  <2>3. Ledger' /\ AllEntitled'
    BY LedgerStep, EntitledStep
  <2>4. SaleClosed' /\ NeverSoldTwice'
    BY <2>1, ClosedStep, OneOwnerStep DEF Ledger
  <2>5. cut' = {}
    BY <2>1, CutFrame DEF SweepsInTime, ReleaseHolds
  <2>6. QED BY <2>2, <2>3, <2>4, <2>5
<1>3. SInv => NeverSoldTwice
  OBVIOUS
<1> HIDE DEF SInv
<1>4. QED BY <1>1, <1>2, <1>3, TypeCorrect, PTL DEF Spec
=============================================================================
