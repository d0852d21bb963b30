------------------------------ MODULE Auction ------------------------------
(***************************************************************************)
(* Bids on vehicles and lots (bids.service.ts), with what changes a vehicle *)
(* under them: holds of HYBRID listings, the winner's checkout and payment. *)
(*                                                                         *)
(* Both bid handlers run under the Redis lock of their item, in four       *)
(* database round trips: read, compare-and-set of the price, transaction   *)
(* on the bid rows, extension of the end. `seen` holds what was read.      *)
(* A bid or checkout that is refused changes no row and leaves no trace;   *)
(* taking the lock and the read that follows it are one step, for a lock   *)
(* taken earlier only keeps others out for longer.                         *)
(***************************************************************************)
EXTENDS Integers, Sequences, FiniteSets

CONSTANTS
    Items,                  \* ids of vehicles and lots
    Bidders,                \* user ids of buyers
    Requests,               \* slots for requests in flight (bound)
    Amounts,                \* amounts bid, in paise (bound)
    Listings,               \* what may be on auction: see ListingType
    MinVehicleIncrement,    \* AUCTION_MIN_INCREMENT
    MinLotIncrement,        \* LOT_MIN_INCREMENT
    AntiSnipeWindow,        \* ANTI_SNIPE_WINDOW_SECONDS
    AntiSnipeExtension,     \* ANTI_SNIPE_EXTENSION_SECONDS
    MaxTime,                \* bound on the clock
    None

ListingType == [kind     : {"AUCTION", "HYBRID", "LOT"},
                opening  : Nat \ {0},          \* startingBidPaise ?? reservePricePaise
                end      : Nat \cup {None},    \* auctionEndAt as listed
                admitted : SUBSET Bidders]     \* lot: all, or the approved if private

ASSUME AuctionAssumption ==
    /\ Amounts \subseteq Nat \ {0}
    /\ Listings \subseteq ListingType
    /\ MinVehicleIncrement \in Nat \ {0}
    /\ MinLotIncrement \in Nat \ {0}
    /\ AntiSnipeWindow \in Nat
    /\ AntiSnipeExtension \in Nat
    /\ AntiSnipeWindow <= AntiSnipeExtension    \* as in env.example
    /\ MaxTime \in Nat
    /\ None \notin Items \cup Bidders \cup Requests \cup Nat

VARIABLES
    now,
    listing,    \* [Items -> Listings]
    status,     \* Vehicle.status; a lot stays LIVE: no code closes one
    heldBy,     \* heldById
    price,      \* currentBidPaise
    leader,     \* currentBidderId
    bidCount,
    endAt,      \* auctionEndAt
    bids,       \* the item's Bid rows in the order of their commits
    orders,     \* the buyers that checkout created an order for
    lock,       \* lock:vehicle:<id> or lock:lot:<id>
    overrun,    \* history: the items whose lock once ran out under its owner
    pc,
    seen

sale == <<status, heldBy, orders>>
register == <<price, leader, bidCount>>
vars == <<now, listing, status, heldBy, price, leader, bidCount, endAt, bids, orders,
          lock, overrun, pc, seen>>

PCs == {"idle", "swap", "clear", "insert", "snipe", "extend", "order", "release", "dead"}

SeenType == [item    : Items \cup {None},
             bidder  : Bidders \cup {None},
             amount  : Nat,
             price   : Nat,                  \* currentBidPaise as read
             end     : Nat \cup {None},      \* auctionEndAt as read, then as computed
             winners : SUBSET Nat]           \* rows the UPDATE of isWinning sees

BidType == [bidder : Bidders, amount : Nat, winning : BOOLEAN]

Nothing == [item |-> None, bidder |-> None, amount |-> 0, price |-> 0, end |-> None,
            winners |-> {}]

Init ==
    /\ now = 0
    /\ listing \in [Items -> Listings]
    /\ status = [i \in Items |-> "LIVE"]
    /\ heldBy = [i \in Items |-> None]
    /\ price = [i \in Items |-> 0]
    /\ leader = [i \in Items |-> None]
    /\ bidCount = [i \in Items |-> 0]
    /\ endAt = [i \in Items |-> listing[i].end]
    /\ bids = [i \in Items |-> <<>>]
    /\ orders = [i \in Items |-> {}]
    /\ lock = [i \in Items |-> None]
    /\ overrun = {}
    /\ pc = [r \in Requests |-> "idle"]
    /\ seen = [r \in Requests |-> Nothing]

IsVehicle(i) == listing[i].kind # "LOT"

Goto(r, p, s) ==
    /\ pc' = [pc EXCEPT ![r] = p]
    /\ seen' = [seen EXCEPT ![r] = s]

(* Mutant: no lock.                                                         *)
EnterUnlocked(r, i, p, s) ==
    /\ pc[r] = "idle"
    /\ lock' = [lock EXCEPT ![i] = r]
    /\ Goto(r, p, s)

(* withLock: r takes the lock of i.                                         *)
EnterLock(r, i, p, s) ==
    /\ pc[r] = "idle"
    /\ lock[i] = None
    /\ lock' = [lock EXCEPT ![i] = r]
    /\ Goto(r, p, s)

----------------------------------------------------------------------------
(* BidsService.bidOnVehicle and bidOnLot                                   *)

(* Mutant: the increment is forgotten.                                      *)
MinOpening(i) == listing[i].opening

MinRequired(i) ==
    IF price[i] = 0 THEN listing[i].opening
    ELSE price[i] + (IF IsVehicle(i) THEN MinVehicleIncrement ELSE MinLotIncrement)

BiddingOpen(i) == endAt[i] # None => now <= endAt[i]

(* The checks of both handlers, on the row as read under the lock.          *)
PlaceBid(r, i, b, amount) ==
    /\ IF IsVehicle(i) THEN status[i] = "LIVE" ELSE b \in listing[i].admitted
    /\ BiddingOpen(i)
    /\ amount >= MinRequired(i)
    /\ EnterLock(r, i, "swap", [item |-> i, bidder |-> b, amount |-> amount,
                                price |-> price[i], end |-> endAt[i], winners |-> {}])
    /\ UNCHANGED <<now, listing, sale, register, endAt, bids, overrun>>

(* Mutant: the WHERE clause has lost `status: LIVE`.                        *)
MatchesAnyStatus(r) == price[seen[r].item] = seen[r].price

(* Mutant: the WHERE clause has lost `currentBidPaise`.                     *)
MatchesAnyPrice(r) == IsVehicle(seen[r].item) => status[seen[r].item] = "LIVE"

(* The WHERE clause of the compare-and-set.                                 *)
Matches(r) ==
    LET i == seen[r].item IN
    /\ price[i] = seen[r].price
    /\ IsVehicle(i) => status[i] = "LIVE"

CompareAndSet(r) ==
    LET i == seen[r].item IN
    /\ pc[r] = "swap"
    /\ IF Matches(r)
       THEN /\ price' = [price EXCEPT ![i] = seen[r].amount]
            /\ leader' = [leader EXCEPT ![i] = seen[r].bidder]
            /\ bidCount' = [bidCount EXCEPT ![i] = @ + 1]
            /\ Goto(r, "clear", seen[r])
       ELSE UNCHANGED register /\ Goto(r, "release", Nothing)
    /\ UNCHANGED <<now, listing, sale, endAt, bids, lock, overrun>>

(* The transaction on the Bid rows. Its UPDATE works on the rows committed  *)
(* when it starts (READ COMMITTED); nothing is visible before the commit.   *)
ClearWinner(r) ==
    LET rows == bids[seen[r].item] IN
    /\ pc[r] = "clear"
    /\ Goto(r, "insert", [seen[r] EXCEPT !.winners = {k \in DOMAIN rows : rows[k].winning}])
    /\ UNCHANGED <<now, listing, sale, register, endAt, bids, lock, overrun>>

(* Mutant: the new row is inserted before the others are cleared.           *)
InsertThenClear(r) ==
    LET i == seen[r].item IN
    /\ pc[r] = "insert"
    /\ bids' = [bids EXCEPT ![i] =
                  Append([k \in DOMAIN @ |-> [@[k] EXCEPT !.winning = FALSE]],
                         [bidder |-> seen[r].bidder, amount |-> seen[r].amount, winning |-> FALSE])]
    /\ Goto(r, "snipe", seen[r])
    /\ UNCHANGED <<now, listing, sale, register, endAt, lock, overrun>>

InsertBid(r) ==
    LET i == seen[r].item
        cleared == [k \in DOMAIN bids[i] |->
                      [bids[i][k] EXCEPT !.winning = @ /\ k \notin seen[r].winners]] IN
    /\ pc[r] = "insert"
    /\ bids' = [bids EXCEPT ![i] =
                  Append(cleared, [bidder |-> seen[r].bidder, amount |-> seen[r].amount,
                                   winning |-> TRUE])]
    /\ Goto(r, "snipe", seen[r])
    /\ UNCHANGED <<now, listing, sale, register, endAt, lock, overrun>>

(* Mutant: every bid sets the end.                                          *)
SnipeAlways(end) == end # None /\ end > now

(* Is the end as read at most a window away?                                *)
InSnipeWindow(end) == end # None /\ end > now /\ end - now < AntiSnipeWindow

(* The new end is computed, then written.                                   *)
AntiSnipe(r) ==
    /\ pc[r] = "snipe"
    /\ IF InSnipeWindow(seen[r].end)
       THEN Goto(r, "extend", [seen[r] EXCEPT !.end = now + AntiSnipeExtension])
       ELSE Goto(r, "release", Nothing)
    /\ UNCHANGED <<now, listing, sale, register, endAt, bids, lock, overrun>>

ExtendEnd(r) ==
    /\ pc[r] = "extend"
    /\ endAt' = [endAt EXCEPT ![seen[r].item] = seen[r].end]
    /\ Goto(r, "release", Nothing)
    /\ UNCHANGED <<now, listing, sale, register, bids, lock, overrun>>

----------------------------------------------------------------------------
(* The end of a request                                                    *)

(* The owner of r's lock: whoever it is, an expired lock is not released.   *)
ReleaseLock(r) ==
    /\ pc[r] = "release"
    /\ lock' = [i \in Items |-> IF lock[i] = r THEN None ELSE lock[i]]
    /\ Goto(r, "idle", Nothing)
    /\ UNCHANGED <<now, listing, sale, register, endAt, bids, overrun>>

(* An await throws and the callback ends; its transaction rolls back.       *)
CallbackThrows(r) ==
    /\ pc[r] \notin {"idle", "release", "dead"}
    /\ Goto(r, "release", Nothing)
    /\ UNCHANGED <<now, listing, sale, register, endAt, bids, lock, overrun>>

(* The pod dies: a lock it owns stays until its TTL.                        *)
Crash(r) ==
    /\ pc[r] \notin {"idle", "dead"}
    /\ Goto(r, IF \E i \in Items : lock[i] = r THEN "dead" ELSE "idle", Nothing)
    /\ UNCHANGED <<now, listing, sale, register, endAt, bids, lock, overrun>>

(* The TTL of a lock ends.                                                  *)
ExpireLock(i) ==
    LET owner == lock[i] IN
    /\ owner # None
    /\ lock' = [lock EXCEPT ![i] = None]
    /\ IF pc[owner] = "dead"
       THEN Goto(owner, "idle", Nothing) /\ UNCHANGED overrun
       ELSE overrun' = overrun \cup {i} /\ UNCHANGED <<pc, seen>>
    /\ UNCHANGED <<now, listing, sale, register, endAt, bids>>

----------------------------------------------------------------------------
(* What else changes the vehicle: see VehicleSale for the steps of each.   *)
(* How long a hold lasts does not matter here: it may end at any time.     *)

(* A HYBRID listing is bought at its price while it is on auction.          *)
Hold(i, b) ==
    /\ lock[i] = None
    /\ listing[i].kind = "HYBRID" /\ status[i] \in {"LIVE", "ON_HOLD"}
    /\ status' = [status EXCEPT ![i] = "ON_HOLD"]
    /\ heldBy' = [heldBy EXCEPT ![i] = b]
    /\ UNCHANGED <<now, listing, orders, register, endAt, bids, lock, overrun, pc, seen>>

(* The sweep, which may even reset a vehicle that was sold since its read.  *)
ReleaseHold(i) ==
    /\ listing[i].kind = "HYBRID" /\ status[i] # "LIVE"
    /\ status' = [status EXCEPT ![i] = "LIVE"]
    /\ heldBy' = [heldBy EXCEPT ![i] = None]
    /\ UNCHANGED <<now, listing, orders, register, endAt, bids, lock, overrun, pc, seen>>

(* The gates of startCheckout.                                              *)
Entitled(i, b) ==
    \/ listing[i].kind = "HYBRID" /\ heldBy[i] = b
    \/ /\ listing[i].kind = "AUCTION"
       /\ endAt[i] # None /\ endAt[i] <= now
       /\ leader[i] = b

(* startCheckout reads the vehicle, ...                                     *)
EnterCheckout(r, i, b) ==
    /\ Entitled(i, b)
    /\ b \notin orders[i]
    /\ EnterLock(r, i, "order", [Nothing EXCEPT !.item = i, !.bidder = b])
    /\ UNCHANGED <<now, listing, sale, register, endAt, bids, overrun>>

(* ... and commits the order.                                               *)
CreateOrder(r) ==
    /\ pc[r] = "order"
    /\ orders' = [orders EXCEPT ![seen[r].item] = @ \cup {seen[r].bidder}]
    /\ Goto(r, "release", Nothing)
    /\ UNCHANGED <<now, listing, status, heldBy, register, endAt, bids, lock, overrun>>

(* verifyPayment of an order, without the lock.                             *)
CommitPayment(i) ==
    /\ orders[i] # {} /\ status[i] # "SOLD"
    /\ status' = [status EXCEPT ![i] = "SOLD"]
    /\ heldBy' = [heldBy EXCEPT ![i] = None]
    /\ UNCHANGED <<now, listing, orders, register, endAt, bids, lock, overrun, pc, seen>>

Tick ==
    /\ now < MaxTime
    /\ now' = now + 1
    /\ UNCHANGED <<listing, sale, register, endAt, bids, lock, overrun, pc, seen>>

----------------------------------------------------------------------------
Serve(r) ==
    \/ \E i \in Items, b \in Bidders, amount \in Amounts : PlaceBid(r, i, b, amount)
    \/ CompareAndSet(r) \/ ClearWinner(r) \/ InsertBid(r) \/ AntiSnipe(r) \/ ExtendEnd(r)
    \/ \E i \in Items, b \in Bidders : EnterCheckout(r, i, b)
    \/ CreateOrder(r)
    \/ ReleaseLock(r) \/ CallbackThrows(r) \/ Crash(r)

Disturb(i) ==
    \/ \E b \in Bidders : Hold(i, b)
    \/ ReleaseHold(i) \/ CommitPayment(i) \/ ExpireLock(i)

Next ==
    \/ \E r \in Requests : Serve(r)
    \/ \E i \in Items : Disturb(i)
    \/ Tick

Spec == Init /\ [][Next]_vars

----------------------------------------------------------------------------
(* Properties                                                              *)

(* What a request has in hand at each pc.                                   *)
Bidding == {"swap", "clear", "insert", "snipe", "extend"}

RequestOK(r) ==
    /\ pc[r] \in Bidding \cup {"order"} => seen[r].item # None /\ seen[r].bidder # None
    /\ pc[r] = "swap" => seen[r].amount >= (IF seen[r].price = 0 THEN 1 ELSE seen[r].price + 1)
    /\ pc[r] = "extend" => seen[r].end # None

(* The columns hold what their declarations say, and a bid in flight has    *)
(* passed the minimum for the price it has read.                            *)
TypeOK ==
    /\ now \in 0..MaxTime
    /\ listing \in [Items -> Listings]
    /\ status \in [Items -> {"LIVE", "ON_HOLD", "SOLD"}]
    /\ heldBy \in [Items -> Bidders \cup {None}]
    /\ price \in [Items -> Nat]
    /\ leader \in [Items -> Bidders \cup {None}]
    /\ bidCount \in [Items -> Nat]
    /\ endAt \in [Items -> Nat \cup {None}]
    /\ bids \in [Items -> Seq(BidType)]
    /\ orders \in [Items -> SUBSET Bidders]
    /\ lock \in [Items -> Requests \cup {None}]
    /\ overrun \subseteq Items
    /\ pc \in [Requests -> PCs]
    /\ seen \in [Requests -> SeenType]
    /\ \A r \in Requests : RequestOK(r)

(* README.md:42-44, the conditional update as the last defence: even when   *)
(* the lock fails, accepted bids raise the price one after another by at    *)
(* least the minimum increment, and the leader is the last bidder accepted. *)
LeastIncrement ==
    IF MinVehicleIncrement < MinLotIncrement THEN MinVehicleIncrement ELSE MinLotIncrement

Register == INSTANCE AuctionRegister WITH MinStep <- LeastIncrement

RaisesOnly == Register!Spec

(* A bid in flight when the winner pays does not outbid him: nothing        *)
(* changes the price or the leader of a sold vehicle, lock or no lock.      *)
SoldPriceFinal ==
    [][\A i \in Items : status[i] = "SOLD" => price'[i] = price[i] /\ leader'[i] = leader[i]]_vars

Winning(i) == {k \in DOMAIN bids[i] : bids[i][k].winning}

(* While its lock does its work, an item never shows two winning bids,      *)
(* however bids, failures and crashes interleave.                           *)
OneWinningBid == \A i \in Items \ overrun : Cardinality(Winning(i)) <= 1

(* And when nobody is bidding and no accepted bid has lost its row to a     *)
(* crash, the winning row is the leader's, at the current price.            *)
WinningBidLeads ==
    \A i \in Items \ overrun :
        lock[i] = None /\ bidCount[i] = Len(bids[i]) /\ bidCount[i] > 0 =>
            /\ Winning(i) = {bidCount[i]}
            /\ bids[i][bidCount[i]].bidder = leader[i]
            /\ bids[i][bidCount[i]].amount = price[i]

(* Anti-snipe only ever gives time, although it writes an end computed from *)
(* the row as it was when the bid began.                                    *)
EndNeverMovesBack ==
    [][\A i \in Items \ overrun : endAt[i] # None => endAt'[i] >= endAt[i]]_vars

(* Checkout commits an order after a Razorpay round trip, for the leader it *)
(* read: nobody has outbid him meanwhile.                                   *)
OrderIsLeaders ==
    [][\A i \in Items \ overrun :
         listing[i].kind = "AUCTION" => orders'[i] \subseteq orders[i] \cup {leader[i]}]_vars
=============================================================================
