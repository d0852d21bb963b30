---------------------------- MODULE VehicleSale ----------------------------
(***************************************************************************)
(* The sale of a repossessed vehicle: hold, checkout, payment, and the two *)
(* cron sweeps, as several API pods run them against one Postgres and one  *)
(* Redis (vehicles.service.ts, orders.service.ts, redis.service.ts and the *)
(* two *-cron.service.ts).                                                 *)
(*                                                                         *)
(* A request is a process: each `await` on Redis, Postgres or Razorpay     *)
(* ends a step, and what the request read before it is kept in `seen`.     *)
(* A Prisma transaction is one step, at its commit: it touches single rows *)
(* by id and its only conflicts are row locks and unique keys.             *)
(*                                                                         *)
(* Refused requests whose refusal changes no row (404, 403, a throttled    *)
(* hold) leave no trace here.                                              *)
(***************************************************************************)
EXTENDS Integers, FiniteSets, FiniteSetsExt

CONSTANTS
    Vehicles,       \* vehicle ids
    Buyers,         \* user ids of buyers
    Orders,         \* order ids the database may hand out (bound)
    Requests,       \* slots for requests in flight (bound on concurrency)
    Sweepers,       \* runs of the hold-sweep cron in flight, one or more per pod
    Listings,       \* what a bank may have listed: see ListingType
    HoldTime,       \* HOLD_MINUTES
    MaxTime,        \* bound on the clock
    LockMayExpire,  \* may a lock's 5 s TTL run out while its owner still runs?
    None            \* SQL NULL, an unset field, a free lock

(* The columns of a vehicle that the sale reads and never writes.           *)
ListingType == [saleType : {"BUY_NOW", "HYBRID", "AUCTION", "LOT"},
                price    : Nat,                   \* buyNowPricePaise, 0 if unset
                bid      : Nat,                   \* currentBidPaise
                bidder   : Buyers \cup {None},    \* currentBidderId
                endAt    : Nat \cup {None}]       \* auctionEndAt

ASSUME SaleAssumption ==
    /\ IsFiniteSet(Orders)
    /\ Listings \subseteq ListingType
    /\ HoldTime \in Nat
    /\ MaxTime \in Nat
    /\ LockMayExpire \in BOOLEAN
    /\ None \notin Vehicles \cup Buyers \cup Orders \cup Requests \cup Nat

VARIABLES
    now,        \* the clock the pods share
    listing,    \* [Vehicles -> ListingType]
    vehicle,    \* the sale columns of the Vehicle rows
    order,      \* the Order rows; status ABSENT until created
    payment,    \* status of the one Payment row checkout creates per order
    invoiced,   \* the orders that have an Invoice row (orderId is unique)
    bank,       \* vehiclesSold and totalRecoveredPaise of the Bank row
    lock,       \* Redis key lock:vehicle:<id>, the request that owns it
    pc,         \* where each request in flight is
    ask,        \* what it asks for
    seen,       \* what it has read so far
    found,      \* per sweeper, the ids its findMany returned
    cut         \* history: the vehicles a sweep released though sold or still held

rows == <<vehicle, order, payment, invoiced, bank>>
flight == <<pc, ask, seen>>
sweeps == <<found, cut>>
vars == <<now, listing, vehicle, order, payment, invoiced, bank, lock, pc, ask, seen, found, cut>>

Holdable == {"BUY_NOW", "HYBRID"}

VehicleType == [status    : {"LIVE", "ON_HOLD", "SOLD"},
                heldBy    : Buyers \cup {None},
                heldUntil : Nat \cup {None},
                soldTo    : Buyers \cup {None}]

OrderType == [status    : {"ABSENT", "HELD", "EXPIRED", "READY_FOR_PICKUP"},
              buyer     : Buyers \cup {None},
              vehicle   : Vehicles \cup {None},
              base      : Nat,
              heldUntil : Nat \cup {None}]

(* waiting for the lock; locked, the callback of withLock about to run;     *)
(* gated and priced, inside startCheckout; release, in the `finally`;       *)
(* verifying, inside verifyPayment; dead, the pod died with the lock held.  *)
PCs == {"idle", "waiting", "locked", "gated", "priced", "release", "verifying", "dead"}

AskType == [kind    : {"hold", "checkout", "verify", "none"},
            buyer   : Buyers \cup {None},
            vehicle : Vehicles \cup {None},
            order   : Orders \cup {None}]

SeenType == [at    : Nat \cup {None},     \* `now` read in hold()
             until : Nat \cup {None},     \* heldUntil read or computed
             base  : Nat]                 \* basePricePaise read

NoOrder == [status |-> "ABSENT", buyer |-> None, vehicle |-> None,
            base |-> 0, heldUntil |-> None]

NoAsk == [kind |-> "none", buyer |-> None, vehicle |-> None, order |-> None]

Nothing == [at |-> None, until |-> None, base |-> 0]

Init ==
    /\ now = 0
    /\ listing \in [Vehicles -> Listings]
    /\ vehicle = [v \in Vehicles |-> [status |-> "LIVE", heldBy |-> None,
                                      heldUntil |-> None, soldTo |-> None]]
    /\ order = [o \in Orders |-> NoOrder]
    /\ payment = [o \in Orders |-> "NONE"]
    /\ invoiced = {}
    /\ bank = [sold |-> 0, recovered |-> 0]
    /\ lock = [v \in Vehicles |-> None]
    /\ pc = [r \in Requests |-> "idle"]
    /\ ask = [r \in Requests |-> NoAsk]
    /\ seen = [r \in Requests |-> Nothing]
    /\ found = [s \in Sweepers |-> {}]
    /\ cut = {}

(* SQL `t < now`: NULL compares to nothing.                                 *)
Before(t, time) == t # None /\ t < time

(* Request r starts; goes on with s in hand; ends its callback; is answered. *)
Enter(r, p, a) ==
    /\ pc' = [pc EXCEPT ![r] = p]
    /\ ask' = [ask EXCEPT ![r] = a]
    /\ UNCHANGED seen

Proceed(r, p, s) ==
    /\ pc' = [pc EXCEPT ![r] = p]
    /\ seen' = [seen EXCEPT ![r] = s]
    /\ UNCHANGED ask

Leave(r) == Proceed(r, "release", Nothing)

Answer(r) ==
    /\ pc' = [pc EXCEPT ![r] = "idle"]
    /\ ask' = [ask EXCEPT ![r] = NoAsk]
    /\ seen' = [seen EXCEPT ![r] = Nothing]

----------------------------------------------------------------------------
(* RedisService.withLock                                                   *)

(* POST /vehicles/:id/hold or POST /orders/checkout arrives at some pod.    *)
LockedRequest(r, kind, b, v) ==
    /\ pc[r] = "idle"
    /\ Enter(r, "waiting", [kind |-> kind, buyer |-> b, vehicle |-> v, order |-> None])
    /\ UNCHANGED <<now, listing, rows, lock, sweeps>>

(* Mutant: no lock, everybody enters.                                       *)
AcquireNoLock(r) ==
    /\ pc[r] = "waiting"
    /\ Proceed(r, "locked",
               [Nothing EXCEPT !.at = IF ask[r].kind = "hold" THEN now ELSE None])
    /\ UNCHANGED <<now, listing, rows, lock, sweeps>>

(* The first statement of hold()'s callback reads the clock.                *)
AcquireLock(r) ==
    LET v == ask[r].vehicle IN
    /\ pc[r] = "waiting"
    /\ lock[v] = None
    /\ lock' = [lock EXCEPT ![v] = r]
    /\ Proceed(r, "locked",
               [Nothing EXCEPT !.at = IF ask[r].kind = "hold" THEN now ELSE None])
    /\ UNCHANGED <<now, listing, rows, sweeps>>

(* Mutant: a client that waits for ever.                                    *)
NeverRefused(r) == FALSE /\ UNCHANGED vars

(* The retries are used up: acquire() throws and the caller gets an error.  *)
LockRefused(r) ==
    /\ pc[r] = "waiting"
    /\ lock[ask[r].vehicle] # None
    /\ Answer(r)
    /\ UNCHANGED <<now, listing, rows, lock, sweeps>>

(* Releasing a lock that expired deletes nothing: the value is not ours.    *)
ReleaseLock(r) ==
    LET v == ask[r].vehicle IN
    /\ pc[r] = "release"
    /\ lock' = IF lock[v] = r THEN [lock EXCEPT ![v] = None] ELSE lock
    /\ Answer(r)
    /\ UNCHANGED <<now, listing, rows, sweeps>>

(* An await inside the callback throws: a database error, Razorpay's error  *)
(* (which rolls the transaction back), Prisma's transaction timeout.        *)
CallbackThrows(r) ==
    /\ pc[r] \in {"locked", "gated", "priced"}
    /\ Leave(r)
    /\ UNCHANGED <<now, listing, rows, lock, sweeps>>

(* Mutant: a lock without a TTL.                                            *)
NoTtl(v) == FALSE /\ UNCHANGED vars

(* Redis drops the key after its TTL: always when the owner is dead, and    *)
(* while the owner runs if it can run for longer than the TTL.              *)
ExpireLock(v) ==
    LET owner == lock[v] IN
    /\ owner # None
    /\ LockMayExpire \/ pc[owner] = "dead"
    /\ lock' = [lock EXCEPT ![v] = None]
    /\ IF pc[owner] = "dead" THEN Answer(owner) ELSE UNCHANGED flight
    /\ UNCHANGED <<now, listing, rows, sweeps>>

(* The pod of a request dies; a lock it owns stays until its TTL.           *)
Crash(r) ==
    /\ pc[r] \notin {"idle", "dead"}
    /\ IF \E v \in Vehicles : lock[v] = r THEN Proceed(r, "dead", Nothing)
       ELSE Answer(r)
    /\ UNCHANGED <<now, listing, rows, lock, sweeps>>

----------------------------------------------------------------------------
(* VehiclesService.hold                                                    *)

(* Mutant: the WHERE clause forgets to compare heldUntil.                   *)
CanHoldAnyway(v, time) ==
    /\ listing[v].saleType \in Holdable
    /\ vehicle[v].status \in {"LIVE", "ON_HOLD"}

(* Mutant: `lte` for `lt`.                                                  *)
CanHoldAtDeadline(v, time) ==
    /\ listing[v].saleType \in Holdable
    /\ \/ vehicle[v].status = "LIVE"
       \/ vehicle[v].status = "ON_HOLD" /\ Before(vehicle[v].heldUntil, time + 1)

(* The WHERE clause of hold()'s updateMany.                                 *)
CanHold(v, time) ==
    /\ listing[v].saleType \in Holdable
    /\ \/ vehicle[v].status = "LIVE"
       \/ vehicle[v].status = "ON_HOLD" /\ Before(vehicle[v].heldUntil, time)

(* The conditional updateMany; a miss is only diagnosed.                    *)
HoldVehicle(r) ==
    LET v == ask[r].vehicle IN
    /\ pc[r] = "locked" /\ ask[r].kind = "hold"
    /\ vehicle' = IF CanHold(v, seen[r].at)
                  THEN [vehicle EXCEPT ![v] = [status |-> "ON_HOLD", heldBy |-> ask[r].buyer,
                                               heldUntil |-> seen[r].at + HoldTime,
                                               soldTo |-> @.soldTo]]
                  ELSE vehicle
    /\ Leave(r)
    /\ UNCHANGED <<now, listing, order, payment, invoiced, bank, lock, sweeps>>

----------------------------------------------------------------------------
(* OrdersService.startCheckout                                             *)

(* The entitlement gates, on the row as read. Neither looks at the status.  *)
BuyNowGate(v, b) ==
    /\ listing[v].saleType \in Holdable
    /\ vehicle[v].heldBy = b
    /\ ~Before(vehicle[v].heldUntil, now)
    /\ listing[v].price # 0

AuctionGate(v, b) ==
    /\ listing[v].saleType = "AUCTION"
    /\ listing[v].endAt # None
    /\ listing[v].endAt <= now
    /\ listing[v].bidder = b

BasePrice(v) == IF listing[v].saleType = "AUCTION" THEN listing[v].bid ELSE listing[v].price

ReadVehicle(r) ==
    LET v == ask[r].vehicle
        b == ask[r].buyer IN
    /\ pc[r] = "locked" /\ ask[r].kind = "checkout"
    /\ IF BuyNowGate(v, b) \/ AuctionGate(v, b)
       THEN Proceed(r, "gated", [at |-> None, until |-> vehicle[v].heldUntil,
                                 base |-> BasePrice(v)])
       ELSE Leave(r)
    /\ UNCHANGED <<now, listing, rows, lock, sweeps>>

OpenStatuses == {"HELD", "READY_FOR_PICKUP"}    \* PAYMENT_PENDING, PAID: never written

OpenOrders(v, b) == {o \in Orders : /\ order[o].vehicle = v
                                    /\ order[o].buyer = b
                                    /\ order[o].status \in OpenStatuses}

(* Mutant: the `?? now + holdMinutes` is gone.                              *)
CheckKeepsNull(r) ==
    /\ pc[r] = "gated"
    /\ IF OpenOrders(ask[r].vehicle, ask[r].buyer) = {}
       THEN Proceed(r, "priced", seen[r])
       ELSE Leave(r)
    /\ UNCHANGED <<now, listing, rows, lock, sweeps>>

(* Mutant: every order gets a fresh deadline, not the hold's.               *)
CheckRenewsDeadline(r) ==
    /\ pc[r] = "gated"
    /\ IF OpenOrders(ask[r].vehicle, ask[r].buyer) = {}
       THEN Proceed(r, "priced", [at |-> None, until |-> now + HoldTime, base |-> seen[r].base])
       ELSE Leave(r)
    /\ UNCHANGED <<now, listing, rows, lock, sweeps>>

(* The duplicate check, and the deadline computed after it.                 *)
CheckExisting(r) ==
    /\ pc[r] = "gated"
    /\ IF OpenOrders(ask[r].vehicle, ask[r].buyer) = {}
       THEN Proceed(r, "priced",
                    [at |-> None,
                     until |-> IF seen[r].until = None THEN now + HoldTime ELSE seen[r].until,
                     base |-> seen[r].base])
       ELSE Leave(r)
    /\ UNCHANGED <<now, listing, rows, lock, sweeps>>

(* The transaction: Order row, Razorpay order, Payment row.                 *)
CreateOrder(r, o) ==
    /\ pc[r] = "priced"
    /\ order[o].status = "ABSENT"
    /\ order' = [order EXCEPT ![o] = [status |-> "HELD", buyer |-> ask[r].buyer,
                                      vehicle |-> ask[r].vehicle,
                                      base |-> seen[r].base, heldUntil |-> seen[r].until]]
    /\ payment' = [payment EXCEPT ![o] = "INITIATED"]
    /\ Leave(r)
    /\ UNCHANGED <<now, listing, vehicle, invoiced, bank, lock, sweeps>>

----------------------------------------------------------------------------
(* OrdersService.verifyPayment: no lock                                    *)

(* The read and the checks on what was read.                                *)
ReadOrder(r, o) ==
    /\ pc[r] = "idle"
    /\ order[o].status = "HELD"
    /\ payment[o] = "INITIATED"
    /\ Enter(r, "verifying", [kind |-> "verify", buyer |-> None, vehicle |-> None, order |-> o])
    /\ UNCHANGED <<now, listing, rows, lock, sweeps>>

(* The HMAC does not match: the payment fails, whatever it has become.      *)
RejectSignature(r) ==
    /\ pc[r] = "verifying"
    /\ payment' = [payment EXCEPT ![ask[r].order] = "FAILED"]
    /\ Answer(r)
    /\ UNCHANGED <<now, listing, vehicle, order, invoiced, bank, lock, sweeps>>

(* Mutant: no unique key on the invoice's orderId.                          *)
CommitPaymentTwice(r) ==
    LET o == ask[r].order
        v == order[o].vehicle IN
    /\ pc[r] = "verifying"
    /\ payment' = [payment EXCEPT ![o] = "CAPTURED"]
    /\ order' = [order EXCEPT ![o].status = "READY_FOR_PICKUP"]
    /\ vehicle' = [vehicle EXCEPT ![v] = [status |-> "SOLD", heldBy |-> None,
                                          heldUntil |-> None, soldTo |-> order[o].buyer]]
    /\ bank' = [sold |-> bank.sold + 1, recovered |-> bank.recovered + order[o].base]
    /\ invoiced' = invoiced \cup {o}
    /\ Answer(r)
    /\ UNCHANGED <<now, listing, lock, sweeps>>

(* The one transaction of a sale. Every row is updated by id alone, and     *)
(* only the unique key of the invoice can roll it back.                     *)
CommitPayment(r) ==
    LET o == ask[r].order
        v == order[o].vehicle IN
    /\ pc[r] = "verifying"
    /\ o \notin invoiced
    /\ payment' = [payment EXCEPT ![o] = "CAPTURED"]
    /\ order' = [order EXCEPT ![o].status = "READY_FOR_PICKUP"]
    /\ vehicle' = [vehicle EXCEPT ![v] = [status |-> "SOLD", heldBy |-> None,
                                          heldUntil |-> None, soldTo |-> order[o].buyer]]
    /\ bank' = [sold |-> bank.sold + 1, recovered |-> bank.recovered + order[o].base]
    /\ invoiced' = invoiced \cup {o}
    /\ Answer(r)
    /\ UNCHANGED <<now, listing, lock, sweeps>>

(* The order has its invoice, or the invoice number is another order's (it  *)
(* is the last four characters of the order number), or the database fails. *)
RollbackPayment(r) ==
    /\ pc[r] = "verifying"
    /\ Answer(r)
    /\ UNCHANGED <<now, listing, rows, lock, sweeps>>

----------------------------------------------------------------------------
(* The cron jobs: every minute, on every pod                               *)

ExpiredHolds == {v \in Vehicles : /\ vehicle[v].status = "ON_HOLD"
                                  /\ Before(vehicle[v].heldUntil, now)}

(* Mutant: the sweep waits one unit longer than the hold.                   *)
FindLate(s) ==
    LET late == {v \in ExpiredHolds : vehicle[v].heldUntil + 1 < now} IN
    /\ found[s] = {}
    /\ late # {}
    /\ found' = [found EXCEPT ![s] = late]
    /\ UNCHANGED <<now, listing, rows, lock, flight, cut>>

(* releaseExpiredHolds: findMany ...                                        *)
FindExpiredHolds(s) ==
    /\ found[s] = {}
    /\ ExpiredHolds # {}
    /\ found' = [found EXCEPT ![s] = ExpiredHolds]
    /\ UNCHANGED <<now, listing, rows, lock, flight, cut>>

(* ... then updateMany by those ids, without a look at the rows.            *)
ReleaseHolds(s) ==
    /\ found[s] # {}
    /\ vehicle' = [v \in Vehicles |->
                     IF v \in found[s]
                     THEN [status |-> "LIVE", heldBy |-> None, heldUntil |-> None,
                           soldTo |-> vehicle[v].soldTo]
                     ELSE vehicle[v]]
    /\ found' = [found EXCEPT ![s] = {}]
    /\ cut' = cut \cup {v \in found[s] \ ExpiredHolds : vehicle[v].status # "LIVE"}
    /\ UNCHANGED <<now, listing, order, payment, invoiced, bank, lock, flight>>

(* The pod dies between the two, or the update throws (the job logs it).    *)
SweepFails(s) ==
    /\ found[s] # {}
    /\ found' = [found EXCEPT ![s] = {}]
    /\ UNCHANGED <<now, listing, rows, lock, flight, cut>>

(* Mutant: paid orders expire too.                                          *)
OverdueEvenPaid(o) ==
    order[o].status \in {"HELD", "READY_FOR_PICKUP"} /\ Before(order[o].heldUntil, now)

Overdue(o) == order[o].status = "HELD" /\ Before(order[o].heldUntil, now)

(* Mutant: only PAYMENT_PENDING, a status nothing writes, expires.           *)
ExpirePending == FALSE /\ UNCHANGED vars

(* expireOverdueOrders: one UPDATE.                                         *)
ExpireOverdueOrders ==
    /\ \E o \in Orders : Overdue(o)
    /\ order' = [o \in Orders |-> IF Overdue(o) THEN [order[o] EXCEPT !.status = "EXPIRED"]
                                  ELSE order[o]]
    /\ UNCHANGED <<now, listing, vehicle, payment, invoiced, bank, lock, flight, sweeps>>

Tick ==
    /\ now < MaxTime
    /\ now' = now + 1
    /\ UNCHANGED <<listing, rows, lock, flight, sweeps>>

----------------------------------------------------------------------------
Arrive(r) == \E kind \in {"hold", "checkout"}, b \in Buyers, v \in Vehicles :
                 LockedRequest(r, kind, b, v)

(* What a request does once it has arrived, but for dying.                  *)
Serve(r) ==
    \/ AcquireLock(r) \/ LockRefused(r) \/ ReleaseLock(r)
    \/ HoldVehicle(r)
    \/ ReadVehicle(r) \/ CheckExisting(r)
    \/ \E o \in Orders : CreateOrder(r, o)
    \/ CallbackThrows(r)
    \/ RejectSignature(r) \/ CommitPayment(r) \/ RollbackPayment(r)

Next ==
    \/ \E r \in Requests : \/ Arrive(r)
                           \/ Serve(r)
                           \/ Crash(r)
                           \/ \E o \in Orders : ReadOrder(r, o)
    \/ \E v \in Vehicles : ExpireLock(v)
    \/ \E s \in Sweepers : FindExpiredHolds(s) \/ ReleaseHolds(s) \/ SweepFails(s)
    \/ ExpireOverdueOrders
    \/ Tick

Spec == Init /\ [][Next]_vars

(* Every await ends (Postgres, Redis and Razorpay calls have timeouts), a   *)
(* lock's TTL ends, and the cron jobs run every minute. A sweep may fail or *)
(* die after its findMany, but not every time for ever.                     *)
Fairness ==
    /\ \A r \in Requests : WF_vars(Serve(r))
    /\ \A v \in Vehicles : WF_vars(ExpireLock(v))
    /\ \A s \in Sweepers : WF_vars(FindExpiredHolds(s)) /\ SF_vars(ReleaseHolds(s))
    /\ WF_vars(ExpireOverdueOrders)

FairSpec == Spec /\ Fairness

----------------------------------------------------------------------------
(* Properties                                                              *)

(* What a request has read by the time it gets to its pc.                   *)
RequestOK(r) ==
    /\ pc[r] \notin {"idle", "verifying"} => ask[r].buyer # None /\ ask[r].vehicle # None
    /\ pc[r] = "locked" /\ ask[r].kind = "hold" => seen[r].at # None
    /\ pc[r] = "priced" => seen[r].until # None
    /\ pc[r] = "verifying" => /\ ask[r].order # None
                                  /\ order[ask[r].order].status # "ABSENT"

(* A lock belongs to a request inside withLock for that vehicle.            *)
InLock == {"locked", "gated", "priced", "release", "dead"}

LockOK == \A v \in Vehicles :
    lock[v] # None => pc[lock[v]] \in InLock /\ ask[lock[v]].vehicle = v

(* The columns and records hold what their declarations say, and a created  *)
(* order has its buyer, vehicle and deadline.                               *)
TypeOK ==
    /\ now \in 0..MaxTime
    /\ listing \in [Vehicles -> Listings]
    /\ vehicle \in [Vehicles -> VehicleType]
    /\ order \in [Orders -> OrderType]
    /\ \A o \in Orders : order[o].status # "ABSENT" =>
          order[o].buyer # None /\ order[o].vehicle # None /\ order[o].heldUntil # None
    /\ payment \in [Orders -> {"NONE", "INITIATED", "CAPTURED", "FAILED"}]
    /\ invoiced \subseteq Orders
    /\ bank \in [sold : Nat, recovered : Nat]
    /\ lock \in [Vehicles -> Requests \cup {None}]
    /\ pc \in [Requests -> PCs]
    /\ ask \in [Requests -> AskType]
    /\ seen \in [Requests -> SeenType]
    /\ \A r \in Requests : RequestOK(r)
    /\ LockOK
    /\ found \in [Sweepers -> SUBSET Vehicles]
    /\ cut \subseteq Vehicles

(* The bank's dashboard counts each sale once, however often and however    *)
(* concurrently the browser posts verify-payment: vehiclesSold is the       *)
(* number of invoices.                                                      *)
BankCountsInvoices == bank.sold = Cardinality(invoiced)

(* And totalRecoveredPaise is the sum of the base prices of those orders.   *)
BankRecoversInvoices ==
    bank.recovered = MapThenSumSet(LAMBDA o : order[o].base, invoiced)

(* An order is ready for pickup exactly when it has its invoice: no sweep   *)
(* expires a paid order, no half of the payment transaction survives.       *)
ReadyIffInvoiced ==
    \A o \in Orders : order[o].status = "READY_FOR_PICKUP" <=> o \in invoiced

(* A vehicle changes hands only together with the invoice of an order of    *)
(* the new owner for that vehicle: a repeated verify-payment of an earlier  *)
(* buyer never moves soldTo back.                                           *)
SaleHasInvoice ==
    [][\A v \in Vehicles : vehicle'[v].soldTo # vehicle[v].soldTo =>
         \E o \in invoiced' \ invoiced : /\ order'[o].vehicle = v
                                         /\ order'[o].buyer = vehicle'[v].soldTo]_vars

(* A double click, two tabs or a retry never opens two payable orders for   *)
(* one buyer and vehicle (the duplicate check of startCheckout). It takes   *)
(* the lock: the check and the insert are separate statements.              *)
OneHeldOrderPerBuyer ==
    \A o, p \in Orders :
        /\ order[o].status = "HELD" /\ order[p].status = "HELD"
        /\ order[o].vehicle = order[p].vehicle /\ order[o].buyer = order[p].buyer
        => o = p

(* startCheckout commits an order long after it looked at the hold; no      *)
(* other buyer has taken the vehicle over in between.                       *)
OrderFollowsHold ==
    [][\A o \in Orders :
         order[o].status = "ABSENT" /\ order'[o].status = "HELD" =>
            vehicle[order'[o].vehicle].heldBy \in {None, order'[o].buyer}]_vars

(* While a buyer holds the vehicle, no payable order of his outlives the    *)
(* hold that protects it: order.heldUntil was copied from the row.          *)
DeadlineWithinHold ==
    \A o \in Orders :
        LET v == order[o].vehicle IN
        order[o].status = "HELD" /\ vehicle[v].heldBy = order[o].buyer =>
            order[o].heldUntil <= vehicle[v].heldUntil

(* The conditional update alone, with or without the lock, never takes a    *)
(* vehicle from a buyer whose hold still runs.                              *)
HoldNeverStolen ==
    [][\A v \in Vehicles :
         vehicle'[v].heldBy \notin {None, vehicle[v].heldBy} =>
            \/ vehicle[v].status = "LIVE"
            \/ Before(vehicle[v].heldUntil, now)]_vars

(* README.md:35-36: whatever hold, checkout, payment and the cron jobs do   *)
(* to each other, at most one buyer at a time has an order of a vehicle     *)
(* that he can still pay within its deadline, unless a sweep that works     *)
(* from an earlier read has cut a hold of that vehicle short.               *)
OneTimelyBuyer ==
    \A o, p \in Orders :
        /\ order[o].status = "HELD" /\ order[p].status = "HELD"
        /\ order[o].vehicle = order[p].vehicle /\ order[o].vehicle \notin cut
        /\ listing[order[o].vehicle].saleType \in Holdable
        /\ order[o].heldUntil >= now /\ order[p].heldUntil >= now
        => order[o].buyer = order[p].buyer

(* A hold that ran out without payment ends: swept, taken over or sold.     *)
Lapsed(v) == vehicle[v].status = "ON_HOLD" /\ Before(vehicle[v].heldUntil, now)

ExpiredHoldEnds == \A v \in Vehicles : Lapsed(v) ~> ~Lapsed(v)

(* An order past its deadline does not stay payable.                        *)
OverdueOrderSettles ==
    \A o \in Orders :
        (order[o].status = "HELD" /\ order[o].heldUntil < now) ~> order[o].status # "HELD"

(* No pod's death keeps a vehicle locked.                                   *)
LockIsFreed == \A v \in Vehicles : lock[v] # None ~> lock[v] = None

(* Whoever asks is answered: nobody waits for a lock for ever.              *)
EveryRequestEnds == \A r \in Requests : pc[r] # "idle" ~> pc[r] = "idle"

(* README.md:41-43, redis.service.ts:97-102: while a lock outlives its work, *)
(* the callbacks for a vehicle never overlap, whichever fail, whichever pods *)
(* die and however often their locks run out then: withLock implements a     *)
(* lock.                                                                     *)
Callbacks ==
    [v \in Vehicles |->
       {r \in Requests : pc[r] \in {"locked", "gated", "priced"} /\ ask[r].vehicle = v}]

Serial == INSTANCE VehicleLock WITH running <- Callbacks

OneCallbackAtATime == Serial!Spec

(* README.md:35-36, "never sell the same vehicle to two people": the paid   *)
(* orders for a vehicle are one buyer's.                                    *)
NeverSoldTwice ==
    \A o, p \in invoiced :
        order[o].vehicle = order[p].vehicle => order[o].buyer = order[p].buyer

(* vehicles.service.ts:280, the sweep releases holds that "elapsed without  *)
(* payment": it never puts a sold vehicle back on the market.               *)
SoldStaysSold ==
    [][\A v \in Vehicles : vehicle[v].status = "SOLD" => vehicle'[v].status = "SOLD"]_vars

(* The same comment of one who holds a vehicle, and README.md:47, "sweeps   *)
(* expired holds": no vehicle is released while its hold still runs.        *)
HoldRunsItsTime ==
    [][\A v \in Vehicles : vehicle[v].status = "ON_HOLD" /\ ~Before(vehicle[v].heldUntil, now) =>
         vehicle'[v].status # "LIVE"]_vars
=============================================================================
