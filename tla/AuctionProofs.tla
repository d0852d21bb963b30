--------------------------- MODULE AuctionProofs ---------------------------
(* What Auction keeps for all items, bidders, amounts and listings, every   *)
(* number of requests and every anti-snipe setting.                         *)
EXTENDS Auction, FiniteSetTheorems, SequenceTheorems, TLAPS

LEMMA NothingTyped == Nothing \in SeenType
BY DEF Nothing, SeenType

(* The rows an InsertBid leaves: as many and one more, of which only the    *)
(* new one and those that its UPDATE had not seen are winning.              *)
RowsAfter(rows, winners, b, amount) ==
    Append([k \in DOMAIN rows |-> [rows[k] EXCEPT !.winning = @ /\ k \notin winners]],
           [bidder |-> b, amount |-> amount, winning |-> TRUE])

LEMMA InsertedRows ==
    ASSUME NEW rows \in Seq(BidType), NEW winners \in SUBSET Nat, NEW b \in Bidders,
           NEW amount \in Nat, NEW result, result = RowsAfter(rows, winners, b, amount)
    PROVE  /\ result \in Seq(BidType)
           /\ DOMAIN result = 1..(Len(rows) + 1)
           /\ \A k \in DOMAIN result :
                result[k].winning => k = Len(rows) + 1 \/ (k \in DOMAIN rows /\ rows[k].winning
                                                           /\ k \notin winners)
<1> DEFINE cleared == [k \in DOMAIN rows |-> [rows[k] EXCEPT !.winning = @ /\ k \notin winners]]
           row == [bidder |-> b, amount |-> amount, winning |-> TRUE]
<1>1. /\ Len(rows) \in Nat /\ DOMAIN rows = 1..Len(rows)
      /\ \A k \in DOMAIN rows : rows[k] \in BidType
  OBVIOUS
<1>2. ASSUME NEW k \in DOMAIN rows
      PROVE  /\ [rows[k] EXCEPT !.winning = @ /\ k \notin winners] \in BidType
             /\ [rows[k] EXCEPT !.winning = @ /\ k \notin winners].winning
                  <=> rows[k].winning /\ k \notin winners
  BY <1>1 DEF BidType
<1>3. cleared \in [1..Len(rows) -> BidType]
  BY <1>1, <1>2
<1>4. cleared \in Seq(BidType) /\ Len(cleared) = Len(rows)
  BY <1>1, <1>3
<1>5. row \in BidType /\ row.winning
  BY DEF BidType
<1>6. \A k \in DOMAIN rows : cleared[k].winning <=> rows[k].winning /\ k \notin winners
  BY <1>2
<1> HIDE DEF cleared, row
<1>7. result = Append(cleared, row)
  BY DEF RowsAfter, cleared, row
<1>8. result \in Seq(BidType) /\ Len(result) = Len(rows) + 1
  BY <1>4, <1>5, <1>7
<1>9. \A k \in 1..Len(rows) : result[k] = cleared[k]
  BY <1>4, <1>5, <1>7
<1>10. DOMAIN result = 1..(Len(rows) + 1)
  BY <1>1, <1>8
<1>11. ASSUME NEW k \in DOMAIN result, result[k].winning, k # Len(rows) + 1
       PROVE  k \in DOMAIN rows /\ rows[k].winning /\ k \notin winners
  <2>1. k \in 1..Len(rows)
    BY <1>1, <1>10, <1>11
  <2>2. QED BY <1>1, <1>6, <1>9, <1>11, <2>1
<1>12. QED BY <1>8, <1>10, <1>11

(* A request that goes where it needs nothing in hand.                      *)
Local == /\ pc \in [Requests -> PCs]
         /\ seen \in [Requests -> SeenType]
         /\ \A r \in Requests : RequestOK(r)

LEMMA GoEmptyHanded ==
    ASSUME Local, NEW r \in Requests, NEW p \in {"idle", "release", "dead"}, Goto(r, p, Nothing)
    PROVE  Local'
<1>1. pc' \in [Requests -> PCs] /\ seen' \in [Requests -> SeenType]
  BY NothingTyped DEF Local, Goto, PCs
<1>2. ASSUME NEW q \in Requests PROVE RequestOK(q)'
  BY DEF Local, Goto, RequestOK, Bidding
<1>3. QED BY <1>1, <1>2 DEF Local

LEMMA StayPut == ASSUME Local, UNCHANGED <<pc, seen>> PROVE Local'
BY DEF Local, RequestOK

(* Type correctness: the columns stay within their types, and a bid that    *)
(* reaches the compare-and-set exceeds the price it has read.               *)
THEOREM TypeCorrect == Spec => []TypeOK
<1> USE AuctionAssumption, NothingTyped
<1>1. Init => TypeOK
  BY DEF Init, TypeOK, ListingType, RequestOK, Bidding, PCs
<1>2. TypeOK /\ [Next]_vars => TypeOK'
  <2> SUFFICES ASSUME TypeOK, [Next]_vars PROVE TypeOK'
    OBVIOUS
  <2>1. ASSUME NEW r \in Requests, NEW i \in Items, NEW b \in Bidders, NEW amount \in Amounts,
               PlaceBid(r, i, b, amount)
        PROVE  TypeOK'
    <3> DEFINE s == [item |-> i, bidder |-> b, amount |-> amount, price |-> price[i],
                     end |-> endAt[i], winners |-> {}]
    <3>1. s \in SeenType
      BY DEF TypeOK, SeenType
    <3>2. amount >= (IF price[i] = 0 THEN 1 ELSE price[i] + 1)
      BY <2>1 DEF TypeOK, PlaceBid, MinRequired, ListingType
    <3>3. /\ s.item = i /\ s.bidder = b /\ s.amount = amount /\ s.price = price[i]
      OBVIOUS
    <3> HIDE DEF s
    <3>4. pc' = [pc EXCEPT ![r] = "swap"] /\ seen' = [seen EXCEPT ![r] = s]
      BY <2>1 DEF PlaceBid, EnterLock, Goto, s
    <3>5. \A q \in Requests : RequestOK(q)'
      BY <3>1, <3>2, <3>3, <3>4 DEF TypeOK, RequestOK, Bidding
    <3>6. QED
      BY <2>1, <3>1, <3>4, <3>5 DEF TypeOK, PlaceBid, EnterLock, sale, register, PCs
  <2>2. ASSUME NEW r \in Requests, CompareAndSet(r) PROVE TypeOK'
    <3>1. seen[r].item \in Items /\ seen[r].bidder \in Bidders /\ seen[r].amount \in Nat
      BY <2>2 DEF TypeOK, CompareAndSet, RequestOK, SeenType, Bidding
    <3>2. CASE Matches(r)
      <4>1. price' \in [Items -> Nat]
        BY <2>2, <3>1, <3>2 DEF TypeOK, CompareAndSet
      <4>2. leader' \in [Items -> Bidders \cup {None}]
        BY <2>2, <3>1, <3>2 DEF TypeOK, CompareAndSet
      <4>3. bidCount' \in [Items -> Nat]
        <5>1. bidCount' = [bidCount EXCEPT ![seen[r].item] = bidCount[seen[r].item] + 1]
          BY <2>2, <3>2 DEF CompareAndSet
        <5>2. bidCount[seen[r].item] + 1 \in Nat
          BY <3>1 DEF TypeOK
        <5>3. QED BY <5>1, <5>2 DEF TypeOK
      <4>4. pc' = [pc EXCEPT ![r] = "clear"] /\ seen' = seen /\ pc[r] = "swap"
        BY <2>2, <3>2 DEF TypeOK, CompareAndSet, Goto
      <4>5. \A q \in Requests : RequestOK(q)'
        BY <4>4 DEF TypeOK, RequestOK, Bidding
      <4>6. QED BY <2>2, <4>1, <4>2, <4>3, <4>4, <4>5 DEF TypeOK, CompareAndSet, sale, PCs
    <3>3. CASE ~Matches(r)
      <4>1. UNCHANGED register /\ Goto(r, "release", Nothing)
        BY <2>2, <3>3 DEF CompareAndSet
      <4>2. Local'
        BY <4>1, GoEmptyHanded DEF TypeOK, Local
      <4>3. QED BY <2>2, <4>1, <4>2 DEF TypeOK, CompareAndSet, sale, register, Local
    <3>4. QED BY <3>2, <3>3
  <2>3. ASSUME NEW r \in Requests, ClearWinner(r) PROVE TypeOK'
    <3> DEFINE w == {k \in DOMAIN bids[seen[r].item] : bids[seen[r].item][k].winning}
               s == [seen[r] EXCEPT !.winners = w]
    <3>1. seen[r].item \in Items
      BY <2>3 DEF TypeOK, ClearWinner, RequestOK, SeenType, Bidding
    <3>2. w \in SUBSET Nat
      BY <3>1 DEF TypeOK
    <3> HIDE DEF w
    <3>3. s \in SeenType /\ s.item = seen[r].item /\ s.bidder = seen[r].bidder
      BY <3>2 DEF TypeOK, SeenType
    <3> HIDE DEF s
    <3>4. pc' = [pc EXCEPT ![r] = "insert"] /\ seen' = [seen EXCEPT ![r] = s] /\ pc[r] = "clear"
      BY <2>3 DEF ClearWinner, Goto, s, w
    <3>5. \A q \in Requests : RequestOK(q)'
      BY <3>3, <3>4 DEF TypeOK, RequestOK, Bidding
    <3>6. QED BY <2>3, <3>3, <3>4, <3>5 DEF TypeOK, ClearWinner, sale, register, PCs
  <2>4. ASSUME NEW r \in Requests, InsertBid(r) PROVE TypeOK'
    <3>1. /\ seen[r].item \in Items /\ seen[r].bidder \in Bidders /\ seen[r].amount \in Nat
          /\ seen[r].winners \in SUBSET Nat
      BY <2>4 DEF TypeOK, InsertBid, RequestOK, SeenType, Bidding
    <3>2. bids[seen[r].item] \in Seq(BidType)
      BY <3>1 DEF TypeOK
    <3>3. bids' \in [Items -> Seq(BidType)]
      <4> DEFINE i == seen[r].item
                 result == RowsAfter(bids[i], seen[r].winners, seen[r].bidder, seen[r].amount)
      <4>1. bids' = [bids EXCEPT ![i] = result]
        BY <2>4 DEF InsertBid, RowsAfter
      <4> HIDE DEF result
      <4>2. result = RowsAfter(bids[i], seen[r].winners, seen[r].bidder, seen[r].amount)
        BY DEF result
      <4>3. result \in Seq(BidType)
        BY <3>1, <3>2, <4>2, InsertedRows
      <4>4. QED BY <4>1, <4>3 DEF TypeOK
    <3>4. /\ pc' \in [Requests -> PCs] /\ seen' \in [Requests -> SeenType]
          /\ \A q \in Requests : RequestOK(q)'
      BY <2>4 DEF TypeOK, InsertBid, Goto, RequestOK, Bidding, PCs
    <3>5. QED BY <2>4, <3>3, <3>4 DEF TypeOK, InsertBid, sale, register
  <2>5. ASSUME NEW r \in Requests, AntiSnipe(r) PROVE TypeOK'
    <3> DEFINE s == [seen[r] EXCEPT !.end = now + AntiSnipeExtension]
    <3>0. now + AntiSnipeExtension \in Nat /\ now + AntiSnipeExtension # None
      BY DEF TypeOK
    <3>1. s \in SeenType /\ s.item = seen[r].item /\ s.bidder = seen[r].bidder /\ s.end # None
      BY <3>0 DEF TypeOK, SeenType
    <3> HIDE DEF s
    <3>2. /\ pc[r] = "snipe"
          /\ \/ pc' = [pc EXCEPT ![r] = "extend"] /\ seen' = [seen EXCEPT ![r] = s]
             \/ pc' = [pc EXCEPT ![r] = "release"] /\ seen' = [seen EXCEPT ![r] = Nothing]
      BY <2>5 DEF AntiSnipe, Goto, s
    <3>3. \A q \in Requests : RequestOK(q)'
      <4>1. RequestOK(r)'
        BY <3>1, <3>2 DEF TypeOK, RequestOK, Bidding
      <4>2. ASSUME NEW q \in Requests, q # r PROVE RequestOK(q)'
        <5>1. pc'[q] = pc[q] /\ seen'[q] = seen[q] /\ RequestOK(q)
          BY <3>2, <4>2 DEF TypeOK
        <5>2. QED BY <5>1 DEF RequestOK
      <4>3. QED BY <4>1, <4>2
    <3>4. pc' \in [Requests -> PCs] /\ seen' \in [Requests -> SeenType]
      <4>1. CASE pc' = [pc EXCEPT ![r] = "extend"] /\ seen' = [seen EXCEPT ![r] = s]
        BY <3>1, <4>1 DEF TypeOK, PCs
      <4>2. CASE pc' = [pc EXCEPT ![r] = "release"] /\ seen' = [seen EXCEPT ![r] = Nothing]
        BY <4>2 DEF TypeOK, PCs
      <4>3. QED BY <3>2, <4>1, <4>2
    <3>5. QED BY <2>5, <3>3, <3>4 DEF TypeOK, AntiSnipe, sale, register
  <2>6. ASSUME NEW r \in Requests, ExtendEnd(r) PROVE TypeOK'
    <3>1. seen[r].end \in Nat
      BY <2>6 DEF TypeOK, ExtendEnd, RequestOK, SeenType
    <3>2. endAt' \in [Items -> Nat \cup {None}]
      BY <2>6, <3>1 DEF TypeOK, ExtendEnd
    <3>3. QED
      BY <2>6, <3>2 DEF TypeOK, ExtendEnd, Goto, RequestOK, Bidding, PCs, sale, register
  <2>7. ASSUME NEW r \in Requests, NEW i \in Items, NEW b \in Bidders, EnterCheckout(r, i, b)
        PROVE  TypeOK'
    <3> DEFINE s == [Nothing EXCEPT !.item = i, !.bidder = b]
    <3>1. s \in SeenType /\ s.item = i /\ s.bidder = b
      BY DEF Nothing, SeenType
    <3> HIDE DEF s
    <3>2. pc' = [pc EXCEPT ![r] = "order"] /\ seen' = [seen EXCEPT ![r] = s]
      BY <2>7 DEF EnterCheckout, EnterLock, Goto, s
    <3>3. QED
      BY <2>7, <3>1, <3>2 DEF TypeOK, EnterCheckout, EnterLock, RequestOK, Bidding, PCs, sale, register
  <2>8. ASSUME NEW r \in Requests, CreateOrder(r) PROVE TypeOK'
    <3>1. seen[r].item \in Items /\ seen[r].bidder \in Bidders
      BY <2>8 DEF TypeOK, CreateOrder, RequestOK, SeenType
    <3>2. orders' \in [Items -> SUBSET Bidders]
      BY <2>8, <3>1 DEF TypeOK, CreateOrder
    <3>3. QED BY <2>8, <3>2 DEF TypeOK, CreateOrder, Goto, RequestOK, Bidding, PCs, register
  <2>9. ASSUME NEW r \in Requests, ReleaseLock(r) \/ CallbackThrows(r) \/ Crash(r) PROVE TypeOK'
    <3>1. PICK p \in {"idle", "release", "dead"} : Goto(r, p, Nothing)
      BY <2>9 DEF ReleaseLock, CallbackThrows, Crash
    <3>2. Local'
      <4>1. Local
        BY DEF TypeOK, Local
      <4>2. QED BY <3>1, <4>1, GoEmptyHanded
    <3>3. lock' \in [Items -> Requests \cup {None}]
      BY <2>9 DEF TypeOK, ReleaseLock, CallbackThrows, Crash
    <3>4. UNCHANGED <<now, listing, sale, register, endAt, bids, overrun>>
      BY <2>9 DEF ReleaseLock, CallbackThrows, Crash
    <3>5. QED BY <3>2, <3>3, <3>4 DEF TypeOK, Local, sale, register
  <2>10. ASSUME NEW i \in Items, ExpireLock(i) PROVE TypeOK'
    <3>1. lock' \in [Items -> Requests \cup {None}] /\ overrun' \subseteq Items
      BY <2>10 DEF TypeOK, ExpireLock
    <3>2. Local'
      <4>1. lock[i] \in Requests
        BY <2>10 DEF TypeOK, ExpireLock
      <4>2. CASE pc[lock[i]] = "dead"
        BY <2>10, <4>1, <4>2, GoEmptyHanded DEF TypeOK, Local, ExpireLock
      <4>3. CASE pc[lock[i]] # "dead"
        BY <2>10, <4>3, StayPut DEF TypeOK, Local, ExpireLock
      <4>4. QED BY <4>2, <4>3
    <3>3. QED BY <2>10, <3>1, <3>2 DEF TypeOK, Local, ExpireLock, sale, register
  <2>11. ASSUME NEW i \in Items, ReleaseHold(i) \/ CommitPayment(i) \/ \E b \in Bidders : Hold(i, b)
         PROVE  TypeOK'
    <3>1. Local'
      BY <2>11, StayPut DEF TypeOK, Local, ReleaseHold, CommitPayment, Hold
    <3>2. status' \in [Items -> {"LIVE", "ON_HOLD", "SOLD"}]
      <4>1. CASE ReleaseHold(i) \/ CommitPayment(i)
        BY <4>1 DEF TypeOK, ReleaseHold, CommitPayment
      <4>2. ASSUME NEW b \in Bidders, Hold(i, b)
            PROVE  status' \in [Items -> {"LIVE", "ON_HOLD", "SOLD"}]
        BY <4>2 DEF TypeOK, Hold
      <4>3. QED BY <2>11, <4>1, <4>2
    <3>3. heldBy' \in [Items -> Bidders \cup {None}]
      <4>1. CASE ReleaseHold(i) \/ CommitPayment(i)
        BY <4>1 DEF TypeOK, ReleaseHold, CommitPayment
      <4>2. ASSUME NEW b \in Bidders, Hold(i, b) PROVE heldBy' \in [Items -> Bidders \cup {None}]
        BY <4>2 DEF TypeOK, Hold
      <4>3. QED BY <2>11, <4>1, <4>2
    <3>4. QED BY <2>11, <3>1, <3>2, <3>3 DEF TypeOK, Local, ReleaseHold, CommitPayment, Hold, register
  <2>12. CASE Tick \/ UNCHANGED vars
    BY <2>12 DEF TypeOK, Tick, vars, RequestOK, sale, register
  <2>13. QED
    BY <2>1, <2>2, <2>3, <2>4, <2>5, <2>6, <2>7, <2>8, <2>9, <2>10, <2>11, <2>12
    DEF Next, Serve, Disturb
<1>3. QED BY <1>1, <1>2, PTL DEF Spec

----------------------------------------------------------------------------
(* Refinement                                                              *)

(* Only the compare-and-set writes the price, the leader or the count.      *)
LEMMA OnlySwapRaises ==
    ASSUME TypeOK, [Next]_vars, register' # register
    PROVE  \E r \in Requests : CompareAndSet(r) /\ Matches(r)
<1>1. ASSUME NEW r \in Requests, Serve(r)
      PROVE  UNCHANGED register \/ (CompareAndSet(r) /\ Matches(r))
  BY <1>1 DEF Serve, PlaceBid, CompareAndSet, ClearWinner, InsertBid, AntiSnipe, ExtendEnd,
              EnterCheckout, CreateOrder, ReleaseLock, CallbackThrows, Crash
<1>2. ASSUME NEW i \in Items, Disturb(i) PROVE UNCHANGED register
  BY <1>2 DEF Disturb, Hold, ReleaseHold, CommitPayment, ExpireLock
<1>3. CASE Tick \/ UNCHANGED vars
  BY <1>3 DEF Tick, vars, register
<1>4. QED BY <1>1, <1>2, <1>3 DEF Next

(* A request leaves the others where they are.                              *)
LEMMA OthersRest ==
    ASSUME TypeOK, NEW r \in Requests, NEW q \in Requests, r # q, Serve(r)
    PROVE  pc'[q] = pc[q] /\ seen'[q] = seen[q]
<1>1. \E p, s : Goto(r, p, s)
  BY DEF Serve, PlaceBid, EnterLock, CompareAndSet, ClearWinner, InsertBid, AntiSnipe, ExtendEnd,
         EnterCheckout, CreateOrder, ReleaseLock, CallbackThrows, Crash
<1>2. QED BY <1>1 DEF TypeOK, Goto

(* What else happens to an item at most ends a dead request.                *)
LEMMA DisturbRests ==
    ASSUME TypeOK, NEW i \in Items, Disturb(i), NEW q \in Requests, pc'[q] # "idle"
    PROVE  pc'[q] = pc[q] /\ seen'[q] = seen[q]
<1>1. CASE UNCHANGED <<pc, seen>>
  BY <1>1
<1>2. CASE Goto(lock[i], "idle", Nothing)
  <2>1. q # lock[i]
    BY <1>2 DEF TypeOK, Goto
  <2>2. QED BY <1>2, <2>1 DEF TypeOK, Goto
<1>3. QED BY <1>1, <1>2 DEF Disturb, Hold, ReleaseHold, CommitPayment, ExpireLock

(* A bid that reaches the compare-and-set makes good its minimum for the    *)
(* price it has read, and the WHERE clause makes that the current price.    *)
BidsEnough ==
    \A r \in Requests : pc[r] = "swap" =>
        /\ seen[r].amount \in Amounts
        /\ seen[r].amount >= (IF seen[r].price = 0 THEN 1 ELSE seen[r].price + LeastIncrement)

LEMMA BidsEnoughStep == TypeOK /\ BidsEnough /\ [Next]_vars => BidsEnough'
<1> SUFFICES ASSUME TypeOK, BidsEnough, [Next]_vars, NEW q \in Requests, pc'[q] = "swap"
             PROVE  /\ seen'[q].amount \in Amounts
                    /\ seen'[q].amount >= (IF seen'[q].price = 0 THEN 1
                                           ELSE seen'[q].price + LeastIncrement)
  BY DEF BidsEnough
<1> DEFINE Same == pc[q] = "swap" /\ seen'[q] = seen[q]
<1>1. ASSUME NEW i \in Items, NEW b \in Bidders, NEW amount \in Amounts, PlaceBid(q, i, b, amount)
      PROVE  /\ seen'[q].amount \in Amounts
             /\ seen'[q].amount >= (IF seen'[q].price = 0 THEN 1
                                    ELSE seen'[q].price + LeastIncrement)
  <2>1. seen'[q].amount = amount /\ seen'[q].price = price[i]
    BY <1>1 DEF TypeOK, PlaceBid, EnterLock, Goto
  <2>2. amount >= (IF price[i] = 0 THEN 1 ELSE price[i] + LeastIncrement)
    BY <1>1, AuctionAssumption DEF TypeOK, PlaceBid, MinRequired, ListingType, LeastIncrement
  <2>3. QED BY <2>1, <2>2
<1>2. ASSUME NEW r \in Requests, r # q, Serve(r) PROVE Same
  BY <1>2, OthersRest
<1>3. ASSUME Serve(q), \A i \in Items, b \in Bidders, amount \in Amounts : ~PlaceBid(q, i, b, amount)
      PROVE  FALSE
  BY <1>3 DEF TypeOK, Serve, EnterLock, CompareAndSet, ClearWinner, InsertBid, AntiSnipe,
              ExtendEnd, EnterCheckout, CreateOrder, ReleaseLock, CallbackThrows, Crash, Goto
<1>4. ASSUME NEW i \in Items, Disturb(i) PROVE Same
  BY <1>4, DisturbRests
<1>5. ASSUME Tick \/ UNCHANGED vars PROVE Same
  BY <1>5 DEF Tick, vars
<1>6. CASE Same
  BY <1>6 DEF BidsEnough
<1>7. QED BY <1>1, <1>2, <1>3, <1>4, <1>5, <1>6 DEF Next

(* Bidding implements the register, whether or not its lock works: accepted *)
(* bids raise the price by the minimum increment, one after another.        *)
THEOREM RegisterCorrect == Spec => RaisesOnly
<1>1. Init => Register!Init /\ BidsEnough
  BY DEF Init, Register!Init, BidsEnough
<1>2. TypeOK /\ BidsEnough /\ [Next]_vars => [Register!Next]_(Register!vars)
  <2> SUFFICES ASSUME TypeOK, BidsEnough, [Next]_vars, register' # register
               PROVE  Register!Next
    BY DEF register, Register!vars
  <2>1. PICK r \in Requests : CompareAndSet(r) /\ Matches(r)
    BY OnlySwapRaises
  <2> DEFINE i == seen[r].item
             b == seen[r].bidder
             amount == seen[r].amount
  <2>2. i \in Items /\ b \in Bidders /\ amount \in Amounts
    BY <2>1 DEF TypeOK, BidsEnough, CompareAndSet, RequestOK, Bidding, SeenType
  <2>3. amount >= (IF price[i] = 0 THEN 1 ELSE price[i] + LeastIncrement)
    BY <2>1 DEF BidsEnough, CompareAndSet, Matches
  <2>4. Register!Raise(i, b, amount)
    BY <2>1, <2>3 DEF Register!Raise, CompareAndSet
  <2>5. QED BY <2>2, <2>4 DEF Register!Next
<1>3. QED
  BY <1>1, <1>2, TypeCorrect, BidsEnoughStep, PTL DEF Spec, RaisesOnly, Register!Spec

----------------------------------------------------------------------------
(* What the lock adds                                                      *)

Working == Bidding \cup {"order"}

(* Unless the lock of an item ever ran out under its owner, whoever works   *)
(* on the item owns its lock.                                               *)
Guarded ==
    \A r \in Requests : pc[r] \in Working /\ seen[r].item \notin overrun =>
        lock[seen[r].item] = r

(* Inside the transaction on the bid rows, the winner is as it was at the   *)
(* UPDATE: nobody else can have inserted a row since.                       *)
WinnersSeen ==
    \A r \in Requests : pc[r] = "insert" /\ seen[r].item \notin overrun =>
        Winning(seen[r].item) \subseteq seen[r].winners

(* How a request comes to be at work.                                       *)
LEMMA WorkFrame ==
    ASSUME TypeOK, [Next]_vars, NEW q \in Requests, pc'[q] \in Working
    PROVE  \/ pc[q] \in Working /\ seen'[q].item = seen[q].item
           \/ \E i \in Items : /\ lock[i] = None /\ lock' = [lock EXCEPT ![i] = q]
                               /\ seen'[q].item = i
<1> DEFINE Same == pc[q] \in Working /\ seen'[q].item = seen[q].item
           Entered(i) == /\ lock[i] = None /\ lock' = [lock EXCEPT ![i] = q]
                         /\ seen'[q].item = i
<1>1. ASSUME NEW i \in Items, NEW b \in Bidders, NEW amount \in Amounts, PlaceBid(q, i, b, amount)
      PROVE  Entered(i)
  BY <1>1 DEF TypeOK, PlaceBid, EnterLock, Goto
<1>2. ASSUME NEW i \in Items, NEW b \in Bidders, EnterCheckout(q, i, b) PROVE Entered(i)
  BY <1>2 DEF TypeOK, EnterCheckout, EnterLock, Goto, Nothing
<1>3. ASSUME NEW r \in Requests, r # q, Serve(r) PROVE Same
  BY <1>3, OthersRest
<1>4. CASE CompareAndSet(q) \/ InsertBid(q)
  BY <1>4 DEF TypeOK, CompareAndSet, InsertBid, Goto, Working, Bidding
<1>5. CASE ClearWinner(q) \/ AntiSnipe(q)
  BY <1>5 DEF TypeOK, ClearWinner, AntiSnipe, Goto, Working, Bidding, SeenType
<1>6. CASE ExtendEnd(q) \/ CreateOrder(q) \/ ReleaseLock(q) \/ CallbackThrows(q) \/ Crash(q)
  BY <1>6 DEF TypeOK, ExtendEnd, CreateOrder, ReleaseLock, CallbackThrows, Crash, Goto, Working,
              Bidding
<1>7. ASSUME NEW i \in Items, Disturb(i) PROVE Same
  <2>1. pc'[q] # "idle"
    BY DEF Working, Bidding
  <2>2. QED BY <1>7, <2>1, DisturbRests
<1>8. ASSUME Tick \/ UNCHANGED vars PROVE Same
  BY <1>8 DEF Tick, vars
<1>9. QED BY <1>1, <1>2, <1>3, <1>4, <1>5, <1>6, <1>7, <1>8 DEF Next, Serve

(* How a lock changes.                                                      *)
LEMMA LockFrame ==
    ASSUME TypeOK, [Next]_vars
    PROVE  /\ overrun \subseteq overrun'
           /\ \/ lock' = lock
              \/ \E i \in Items, r \in Requests : lock[i] = None /\ lock' = [lock EXCEPT ![i] = r]
              \/ \E r \in Requests :
                    /\ pc[r] = "release"
                    /\ lock' = [i \in Items |-> IF lock[i] = r THEN None ELSE lock[i]]
              \/ \E i \in Items :
                    /\ lock[i] # None /\ lock' = [lock EXCEPT ![i] = None]
                    /\ pc[lock[i]] = "dead" \/ i \in overrun'
<1>1. ASSUME NEW r \in Requests, Serve(r)
      PROVE  /\ overrun' = overrun
             /\ \/ lock' = lock
                \/ \E i \in Items : lock[i] = None /\ lock' = [lock EXCEPT ![i] = r]
                \/ /\ pc[r] = "release"
                   /\ lock' = [i \in Items |-> IF lock[i] = r THEN None ELSE lock[i]]
  BY <1>1 DEF Serve, PlaceBid, EnterLock, CompareAndSet, ClearWinner, InsertBid, AntiSnipe,
              ExtendEnd, EnterCheckout, CreateOrder, ReleaseLock, CallbackThrows, Crash
<1>2. ASSUME NEW i \in Items, Disturb(i)
      PROVE  /\ overrun \subseteq overrun'
             /\ \/ lock' = lock
                \/ /\ lock[i] # None /\ lock' = [lock EXCEPT ![i] = None]
                   /\ pc[lock[i]] = "dead" \/ i \in overrun'
  BY <1>2 DEF Disturb, Hold, ReleaseHold, CommitPayment, ExpireLock
<1>3. CASE Tick \/ UNCHANGED vars
  BY <1>3 DEF Tick, vars
<1>4. QED BY <1>1, <1>2, <1>3 DEF Next

LEMMA GuardedStep == TypeOK /\ Guarded /\ [Next]_vars => Guarded'
<1> SUFFICES ASSUME TypeOK, Guarded, [Next]_vars, NEW q \in Requests, pc'[q] \in Working,
                    seen'[q].item \notin overrun'
             PROVE  lock'[seen'[q].item] = q
  BY DEF Guarded
<1> DEFINE i == seen'[q].item
<1>1. CASE \E j \in Items : lock[j] = None /\ lock' = [lock EXCEPT ![j] = q] /\ i = j
  BY <1>1 DEF TypeOK
<1>2. CASE pc[q] \in Working /\ i = seen[q].item
  <2>1. i \in Items /\ lock[i] = q
    BY <1>2, LockFrame DEF TypeOK, Guarded, RequestOK, SeenType, Working
  <2>2. pc[q] \notin {"release", "dead"} /\ q # None
    BY <1>2, AuctionAssumption DEF Working, Bidding
  <2>3. QED BY <2>1, <2>2, LockFrame DEF TypeOK
<1>3. QED BY <1>1, <1>2, WorkFrame

LEMMA OneAtWork ==
    ASSUME Guarded, NEW q \in Requests, NEW r \in Requests,
           pc[q] \in Working, pc[r] \in Working,
           seen[q].item = seen[r].item, seen[q].item \notin overrun
    PROVE  q = r
BY DEF Guarded

(* How a request comes to a pc at which it relies on what it has read.      *)
Before == {"swap", "clear", "insert", "snipe"}

LEMMA HandFrame ==
    ASSUME TypeOK, [Next]_vars, NEW q \in Requests
    PROVE  /\ pc'[q] = "insert" =>
                ClearWinner(q) \/ (pc[q] = "insert" /\ seen'[q] = seen[q])
           /\ pc'[q] = "order" =>
                \/ \E i \in Items, b \in Bidders : EnterCheckout(q, i, b)
                \/ pc[q] = "order" /\ seen'[q] = seen[q]
           /\ pc'[q] = "extend" =>
                AntiSnipe(q) \/ (pc[q] = "extend" /\ seen'[q] = seen[q])
           /\ pc'[q] \in Before =>
                \/ \E i \in Items, b \in Bidders, amount \in Amounts : PlaceBid(q, i, b, amount)
                \/ /\ pc[q] \in Before
                   /\ seen'[q].item = seen[q].item /\ seen'[q].end = seen[q].end
<1> DEFINE Same == pc'[q] = pc[q] /\ seen'[q] = seen[q]
           Kept == /\ pc[q] \in Before
                   /\ seen'[q].item = seen[q].item /\ seen'[q].end = seen[q].end
<1>1. ASSUME NEW r \in Requests, r # q, Serve(r) PROVE Same
  BY <1>1 DEF TypeOK, Serve, PlaceBid, EnterLock, CompareAndSet, ClearWinner, InsertBid, AntiSnipe,
              ExtendEnd, EnterCheckout, CreateOrder, ReleaseLock, CallbackThrows, Crash, Goto
<1>2. ASSUME NEW i \in Items, NEW b \in Bidders, NEW amount \in Amounts, PlaceBid(q, i, b, amount)
      PROVE  pc'[q] = "swap"
  BY <1>2 DEF TypeOK, PlaceBid, EnterLock, Goto
<1>3. ASSUME NEW i \in Items, NEW b \in Bidders, EnterCheckout(q, i, b) PROVE pc'[q] = "order"
  BY <1>3 DEF TypeOK, EnterCheckout, EnterLock, Goto
<1>4. CASE CompareAndSet(q) \/ InsertBid(q)
  <2>1. \/ Kept /\ pc'[q] \in {"clear", "snipe"}
        \/ pc'[q] = "release"
    BY <1>4 DEF TypeOK, CompareAndSet, InsertBid, Goto, Before
  <2>2. QED BY <2>1 DEF Before
<1>5. CASE ClearWinner(q)
  <2>1. Kept /\ pc'[q] = "insert"
    BY <1>5 DEF TypeOK, ClearWinner, Goto, SeenType, Before
  <2>2. QED BY <1>5, <2>1
<1>6. CASE AntiSnipe(q)
  <2>1. pc'[q] \in {"extend", "release"}
    BY <1>6 DEF TypeOK, AntiSnipe, Goto
  <2>2. QED BY <1>6, <2>1 DEF Before
<1>7. CASE ExtendEnd(q) \/ CreateOrder(q) \/ ReleaseLock(q) \/ CallbackThrows(q) \/ Crash(q)
  <2>1. pc'[q] \in {"idle", "release", "dead"}
    BY <1>7 DEF TypeOK, ExtendEnd, CreateOrder, ReleaseLock, CallbackThrows, Crash, Goto
  <2>2. QED BY <2>1 DEF Before
<1>8. ASSUME NEW i \in Items, Disturb(i) PROVE Same \/ pc'[q] = "idle"
  BY <1>8 DEF TypeOK, Disturb, Hold, ReleaseHold, CommitPayment, ExpireLock, Goto
<1>9. ASSUME Tick \/ UNCHANGED vars PROVE Same
  BY <1>9 DEF Tick, vars
<1>10. CASE Same \/ pc'[q] = "idle"
  BY <1>10 DEF Before
<1> HIDE DEF Same, Kept
<1>11. ASSUME NEW i \in Items, NEW b \in Bidders, NEW amount \in Amounts, PlaceBid(q, i, b, amount)
       PROVE  /\ pc'[q] \notin {"insert", "order", "extend"}
              /\ \E j \in Items, c \in Bidders, a \in Amounts : PlaceBid(q, j, c, a)
  BY <1>2, <1>11
<1>12. ASSUME NEW i \in Items, NEW b \in Bidders, EnterCheckout(q, i, b)
       PROVE  /\ pc'[q] \notin {"insert", "extend"} \cup Before
              /\ \E j \in Items, c \in Bidders : EnterCheckout(q, j, c)
  BY <1>3, <1>12 DEF Before
<1>13. QED
  BY <1>1, <1>4, <1>5, <1>6, <1>7, <1>8, <1>9, <1>10, <1>11, <1>12 DEF Next, Serve

(* Who writes the bid rows, the end, the leader and the orders.             *)
LEMMA ItemFrame ==
    ASSUME TypeOK, [Next]_vars
    PROVE  /\ bids' = bids \/ \E r \in Requests : InsertBid(r)
           /\ endAt' = endAt \/ \E r \in Requests : ExtendEnd(r)
           /\ leader' = leader \/ \E r \in Requests : CompareAndSet(r)
           /\ orders' = orders \/ \E r \in Requests : CreateOrder(r)
           /\ listing' = listing
<1>1. ASSUME NEW r \in Requests, Serve(r)
      PROVE  /\ bids' = bids \/ InsertBid(r)
             /\ endAt' = endAt \/ ExtendEnd(r)
             /\ leader' = leader \/ CompareAndSet(r)
             /\ orders' = orders \/ CreateOrder(r)
             /\ listing' = listing
  BY <1>1 DEF Serve, PlaceBid, CompareAndSet, ClearWinner, InsertBid, AntiSnipe, ExtendEnd,
              EnterCheckout, CreateOrder, ReleaseLock, CallbackThrows, Crash, sale, register
<1>2. ASSUME NEW i \in Items, Disturb(i)
      PROVE  bids' = bids /\ endAt' = endAt /\ leader' = leader /\ orders' = orders
             /\ listing' = listing
  BY <1>2 DEF Disturb, Hold, ReleaseHold, CommitPayment, ExpireLock, sale, register
<1>3. CASE Tick \/ UNCHANGED vars
  BY <1>3 DEF Tick, vars, sale, register
<1>4. QED BY <1>1, <1>2, <1>3 DEF Next

LEMMA AtMostOne ==
    ASSUME NEW x, NEW T, T \subseteq {x}
    PROVE  Cardinality(T) <= 1
<1>1. CASE T = {}
  BY <1>1, FS_EmptySet
<1>2. CASE T = {x}
  <2>1. Cardinality({x}) = 1
    BY FS_Singleton
  <2>2. QED BY <1>2, <2>1
<1>3. QED BY <1>1, <1>2

LEMMA OneWinningStep ==
    ASSUME TypeOK, Guarded, WinnersSeen, OneWinningBid, [Next]_vars
    PROVE  WinnersSeen' /\ OneWinningBid'
<1>1. CASE bids' = bids
  <2>1. \A i : Winning(i)' = Winning(i)
    BY <1>1 DEF Winning
  <2>2. OneWinningBid'
    BY <2>1, LockFrame DEF OneWinningBid
  <2>3. ASSUME NEW q \in Requests, pc'[q] = "insert", seen'[q].item \notin overrun'
        PROVE  Winning(seen'[q].item) \subseteq seen'[q].winners
    <3>1. CASE ClearWinner(q)
      BY <3>1 DEF TypeOK, ClearWinner, Goto, SeenType, Winning
    <3>2. CASE pc[q] = "insert" /\ seen'[q] = seen[q]
      BY <2>3, <3>2, LockFrame DEF WinnersSeen
    <3>3. QED BY <2>3, <3>1, <3>2, HandFrame
  <2>4. QED BY <2>1, <2>2, <2>3 DEF WinnersSeen
<1>2. ASSUME NEW r \in Requests, InsertBid(r), NEW i \in Items, i = seen[r].item
      PROVE  WinnersSeen' /\ OneWinningBid'
  <2> DEFINE result == RowsAfter(bids[i], seen[r].winners, seen[r].bidder, seen[r].amount)
  <2>1. /\ seen[r].winners \in SUBSET Nat /\ seen[r].bidder \in Bidders
        /\ seen[r].amount \in Nat /\ bids[i] \in Seq(BidType) /\ pc[r] = "insert"
    BY <1>2 DEF TypeOK, InsertBid, RequestOK, Bidding, SeenType
  <2>2. bids' = [bids EXCEPT ![i] = result] /\ overrun' = overrun
    BY <1>2 DEF InsertBid, RowsAfter
  <2> HIDE DEF result
  <2>3. result = RowsAfter(bids[i], seen[r].winners, seen[r].bidder, seen[r].amount)
    BY DEF result
  <2>4. \A k \in DOMAIN result : result[k].winning =>
            k = Len(bids[i]) + 1 \/ (k \in Winning(i) /\ k \notin seen[r].winners)
    BY <2>1, <2>3, InsertedRows DEF Winning
  <2>5. /\ bids'[i] = result
        /\ \A j \in Items : j # i => Winning(j)' = Winning(j)
    BY <2>2, <2>1 DEF TypeOK, Winning
  <2>6. i \notin overrun => Winning(i)' \subseteq {Len(bids[i]) + 1}
    <3>1. ASSUME i \notin overrun PROVE Winning(i) \subseteq seen[r].winners
      BY <1>2, <2>1, <3>1 DEF WinnersSeen
    <3>2. Winning(i)' = {k \in DOMAIN result : result[k].winning}
      BY <2>5 DEF Winning
    <3>3. QED BY <2>4, <3>1, <3>2
  <2>7. ASSUME NEW j \in Items \ overrun PROVE Cardinality(Winning(j)') <= 1
    <3>1. CASE j # i
      BY <2>5, <2>7, <3>1 DEF OneWinningBid
    <3>2. CASE j = i
      BY <2>6, <2>7, <3>2, AtMostOne
    <3>3. QED BY <3>1, <3>2
  <2>8. OneWinningBid'
    BY <2>2, <2>7 DEF OneWinningBid
  <2>9. ASSUME NEW q \in Requests, pc'[q] = "insert", NEW j \in Items, j = seen'[q].item,
               j \notin overrun'
        PROVE  Winning(j)' \subseteq seen'[q].winners
    <3>1. pc[q] = "insert" /\ seen'[q] = seen[q] /\ q # r
      BY <1>2, <2>9, <2>1 DEF TypeOK, InsertBid, Goto
    <3>2. j # i
      BY <1>2, <2>1, <2>2, <2>9, <3>1, OneAtWork DEF Working, Bidding
    <3>3. Winning(j)' = Winning(j)
      BY <2>5, <3>2
    <3>4. QED BY <2>2, <2>9, <3>1, <3>3 DEF WinnersSeen
  <2>10. ASSUME NEW q \in Requests, pc'[q] = "insert" PROVE seen'[q].item \in Items
    <3>1. pc[q] = "insert" /\ seen'[q] = seen[q]
      BY <1>2, <2>10 DEF TypeOK, InsertBid, Goto
    <3>2. QED BY <3>1 DEF TypeOK, RequestOK, Bidding, SeenType
  <2>11. WinnersSeen'
    BY <2>9, <2>10 DEF WinnersSeen
  <2>12. QED BY <2>8, <2>11
<1>3. ASSUME NEW r \in Requests, InsertBid(r) PROVE seen[r].item \in Items
  BY <1>3 DEF TypeOK, InsertBid, RequestOK, Bidding, SeenType
<1>4. QED BY <1>1, <1>2, <1>3, ItemFrame

(* An item never shows two winning bids, unless its lock once ran out.      *)
THEOREM OneWinningCorrect == Spec => []OneWinningBid
<1>1. Init => Guarded /\ WinnersSeen /\ OneWinningBid
  <2> SUFFICES ASSUME Init PROVE Guarded /\ WinnersSeen /\ OneWinningBid
    OBVIOUS
  <2>1. \A i \in Items : Winning(i) = {}
    BY DEF Init, Winning
  <2>2. OneWinningBid
    BY <2>1, FS_EmptySet DEF OneWinningBid
  <2>3. QED BY <2>2 DEF Init, Guarded, WinnersSeen, Working, Bidding
<1>2. TypeOK /\ Guarded /\ WinnersSeen /\ OneWinningBid /\ [Next]_vars
        => (Guarded /\ WinnersSeen /\ OneWinningBid)'
  BY GuardedStep, OneWinningStep
<1>3. QED BY <1>1, <1>2, TypeCorrect, PTL DEF Spec

----------------------------------------------------------------------------
(* What a request has read of its item is still so                         *)

(* An end in flight is not before the one it replaces.                      *)
EndSeen ==
    \A r \in Requests : seen[r].item \in Items \ overrun =>
        LET i == seen[r].item IN
        /\ pc[r] \in Before => seen[r].end = endAt[i]
        /\ pc[r] = "extend" /\ endAt[i] # None => seen[r].end >= endAt[i]

(* The order in flight of an auction is its leader's.                       *)
LeaderSeen ==
    \A r \in Requests : pc[r] = "order" =>
        \A i \in Items \ overrun :
            i = seen[r].item /\ listing[i].kind = "AUCTION" => leader[i] = seen[r].bidder

LEMMA LeaderStep ==
    ASSUME TypeOK, Guarded, LeaderSeen, [Next]_vars
    PROVE  /\ LeaderSeen'
           /\ \A i \in Items \ overrun :
                listing[i].kind = "AUCTION" => orders'[i] \subseteq orders[i] \cup {leader[i]}
<1>1. ASSUME NEW q \in Requests, pc'[q] = "order", NEW i \in Items \ overrun',
             i = seen'[q].item, listing[i].kind = "AUCTION"
      PROVE  leader'[i] = seen'[q].bidder
  <2>1. i \in Items \ overrun
    BY <1>1, LockFrame
  <2>2. ASSUME NEW j \in Items, NEW b \in Bidders, EnterCheckout(q, j, b)
        PROVE  leader'[i] = seen'[q].bidder
    <3>1. seen'[q] = [Nothing EXCEPT !.item = j, !.bidder = b] /\ leader' = leader
      BY <2>2 DEF TypeOK, EnterCheckout, EnterLock, Goto, register
    <3>2. seen'[q].item = j /\ seen'[q].bidder = b
      BY <3>1 DEF Nothing
    <3>3. leader[j] = b
      BY <1>1, <2>2, <3>2 DEF EnterCheckout, Entitled
    <3>4. QED BY <1>1, <3>1, <3>2, <3>3
  <2>3. ASSUME pc[q] = "order", seen'[q] = seen[q] PROVE leader'[i] = seen'[q].bidder
    <3>1. leader[i] = seen[q].bidder
      BY <1>1, <2>1, <2>3 DEF LeaderSeen
    <3>2. ASSUME NEW r \in Requests, CompareAndSet(r) PROVE leader'[i] = leader[i]
      <4>1. pc[r] = "swap" /\ r # q
        BY <2>3, <3>2 DEF CompareAndSet
      <4>2. seen[r].item # i
        BY <1>1, <2>1, <2>3, <4>1, OneAtWork DEF Working, Bidding
      <4>3. QED BY <2>1, <3>2, <4>2 DEF TypeOK, CompareAndSet, register
    <3>3. QED BY <2>3, <3>1, <3>2, ItemFrame
  <2>4. QED BY <1>1, <2>2, <2>3, HandFrame
<1>2. LeaderSeen'
  BY <1>1, ItemFrame DEF LeaderSeen
<1>3. ASSUME NEW r \in Requests, CreateOrder(r), NEW i \in Items \ overrun,
             listing[i].kind = "AUCTION"
      PROVE  orders'[i] \subseteq orders[i] \cup {leader[i]}
  <2>1. CASE seen[r].item = i
    <3>1. leader[i] = seen[r].bidder
      BY <1>3, <2>1 DEF LeaderSeen, CreateOrder
    <3>2. QED BY <1>3, <2>1, <3>1 DEF TypeOK, CreateOrder
  <2>2. CASE seen[r].item # i
    BY <1>3, <2>2 DEF TypeOK, CreateOrder
  <2>3. QED BY <2>1, <2>2
<1>4. QED BY <1>2, <1>3, ItemFrame

(* The order of an auction's winner is the leader's at its commit, unless   *)
(* the lock of the item once ran out.                                       *)
THEOREM OrderCorrect == Spec => OrderIsLeaders
<1>1. Init => Guarded /\ LeaderSeen
  BY DEF Init, Guarded, LeaderSeen, Working, Bidding
<1>2. TypeOK /\ Guarded /\ LeaderSeen /\ [Next]_vars
        => /\ (Guarded /\ LeaderSeen)'
           /\ [\A i \in Items \ overrun :
                 listing[i].kind = "AUCTION" => orders'[i] \subseteq orders[i] \cup {leader[i]}]_vars
  BY GuardedStep, LeaderStep
<1>3. QED BY <1>1, <1>2, TypeCorrect, PTL DEF Spec, OrderIsLeaders

LEMMA EndStep ==
    ASSUME TypeOK, Guarded, EndSeen, [Next]_vars
    PROVE  /\ EndSeen'
           /\ \A i \in Items \ overrun : endAt[i] # None => endAt'[i] >= endAt[i]
<1>1. ASSUME NEW q \in Requests, NEW i \in Items \ overrun', i = seen'[q].item
      PROVE  /\ pc'[q] \in Before => seen'[q].end = endAt'[i]
             /\ pc'[q] = "extend" /\ endAt'[i] # None => seen'[q].end >= endAt'[i]
  <2>1. i \in Items \ overrun
    BY <1>1, LockFrame
  <2>2. ASSUME pc[q] \in Before \cup {"extend"}, pc'[q] \in Before \cup {"extend"},
               seen'[q].item = seen[q].item
        PROVE  endAt'[i] = endAt[i]
    <3>1. ASSUME NEW r \in Requests, ExtendEnd(r) PROVE endAt'[i] = endAt[i]
      <4>1. pc[r] = "extend" /\ r # q
        BY <2>2, <3>1 DEF TypeOK, ExtendEnd, Goto, Before
      <4>2. seen[r].item # i
        BY <1>1, <2>1, <2>2, <4>1, OneAtWork DEF Working, Bidding, Before
      <4>3. QED BY <2>1, <3>1, <4>2 DEF TypeOK, ExtendEnd
    <3>2. QED BY <3>1, ItemFrame
  <2>3. ASSUME NEW j \in Items, NEW b \in Bidders, NEW amount \in Amounts,
               PlaceBid(q, j, b, amount)
        PROVE  pc'[q] = "swap" /\ seen'[q].end = endAt'[i]
    BY <1>1, <2>3 DEF TypeOK, PlaceBid, EnterLock, Goto
  <2>4. ASSUME pc'[q] \in Before PROVE seen'[q].end = endAt'[i]
    <3>1. CASE /\ pc[q] \in Before
               /\ seen'[q].item = seen[q].item /\ seen'[q].end = seen[q].end
      BY <1>1, <2>1, <2>2, <2>4, <3>1 DEF EndSeen
    <3>2. QED BY <2>3, <2>4, <3>1, HandFrame
  <2>5. ASSUME pc'[q] = "extend", endAt'[i] # None PROVE seen'[q].end >= endAt'[i]
    <3>1. CASE pc[q] = "extend" /\ seen'[q] = seen[q]
      BY <1>1, <2>1, <2>2, <2>5, <3>1 DEF EndSeen
    <3>2. CASE AntiSnipe(q)
      <4>1. /\ pc[q] = "snipe" /\ seen'[q].item = seen[q].item
            /\ InSnipeWindow(seen[q].end) /\ seen'[q].end = now + AntiSnipeExtension
        BY <2>5, <3>2 DEF TypeOK, AntiSnipe, Goto, SeenType
      <4>2. seen[q].end = endAt[i] /\ endAt'[i] = endAt[i]
        BY <1>1, <2>1, <2>2, <2>5, <4>1 DEF EndSeen, Before
      <4>3. endAt[i] \in Nat /\ now \in Nat
        BY <2>1, <2>5, <4>2, AuctionAssumption DEF TypeOK
      <4>4. QED BY <4>1, <4>2, <4>3, AuctionAssumption DEF InSnipeWindow
    <3>3. QED BY <2>5, <3>1, <3>2, HandFrame
  <2>6. QED BY <2>4, <2>5
<1>2. EndSeen'
  BY <1>1 DEF EndSeen
<1>3. ASSUME NEW r \in Requests, ExtendEnd(r), NEW i \in Items \ overrun, endAt[i] # None
      PROVE  endAt'[i] >= endAt[i]
  <2>1. CASE seen[r].item = i
    BY <1>3, <2>1 DEF TypeOK, EndSeen, ExtendEnd
  <2>2. CASE seen[r].item # i
    <3>1. endAt'[i] = endAt[i] /\ endAt[i] \in Nat
      BY <1>3, <2>2 DEF TypeOK, ExtendEnd
    <3>2. QED BY <3>1
  <2>3. QED BY <2>1, <2>2
<1>4. ASSUME endAt' = endAt, NEW i \in Items, endAt[i] # None PROVE endAt'[i] >= endAt[i]
  <2>1. endAt[i] \in Nat
    BY <1>4 DEF TypeOK
  <2>2. QED BY <1>4, <2>1
<1>5. QED BY <1>2, <1>3, <1>4, ItemFrame

(* Anti-snipe never moves an end back, unless the lock once ran out.        *)
THEOREM EndCorrect == Spec => EndNeverMovesBack
<1>1. Init => Guarded /\ EndSeen
  BY DEF Init, Guarded, EndSeen, Working, Bidding, Before
<1>2. TypeOK /\ Guarded /\ EndSeen /\ [Next]_vars
        => /\ (Guarded /\ EndSeen)'
           /\ [\A i \in Items \ overrun : endAt[i] # None => endAt'[i] >= endAt[i]]_vars
  BY GuardedStep, EndStep
<1>3. QED BY <1>1, <1>2, TypeCorrect, PTL DEF Spec, EndNeverMovesBack
----------------------------------------------------------------------------
(* What the compare-and-set keeps without the lock                         *)

(* Only a vehicle is ever ordered, and so only a vehicle is ever sold.      *)
OnlyVehiclesSell ==
    /\ \A r \in Requests : pc[r] = "order" => IsVehicle(seen[r].item)
    /\ \A i \in Items : orders[i] # {} \/ status[i] = "SOLD" => IsVehicle(i)

LEMMA OnlyVehiclesSellStep == TypeOK /\ OnlyVehiclesSell /\ [Next]_vars => OnlyVehiclesSell'
<1> SUFFICES ASSUME TypeOK, OnlyVehiclesSell, [Next]_vars PROVE OnlyVehiclesSell'
  OBVIOUS
<1>1. \A i : IsVehicle(i)' = IsVehicle(i)
  BY ItemFrame DEF IsVehicle
<1>2. ASSUME NEW q \in Requests, pc'[q] = "order" PROVE IsVehicle(seen'[q].item)
  <2>1. ASSUME NEW i \in Items, NEW b \in Bidders, EnterCheckout(q, i, b)
        PROVE  IsVehicle(seen'[q].item)
    <3>1. seen'[q] = [Nothing EXCEPT !.item = i, !.bidder = b]
      BY <2>1 DEF TypeOK, EnterCheckout, EnterLock, Goto
    <3>2. seen'[q].item = i
      BY <3>1 DEF Nothing
    <3>3. QED BY <2>1, <3>2 DEF EnterCheckout, Entitled, IsVehicle
  <2>2. CASE pc[q] = "order" /\ seen'[q] = seen[q]
    BY <2>2 DEF OnlyVehiclesSell
  <2>3. QED BY <1>2, <2>1, <2>2, HandFrame
<1>3. ASSUME NEW i \in Items, orders'[i] # {} PROVE IsVehicle(i)
  <2>1. ASSUME NEW r \in Requests, CreateOrder(r) PROVE IsVehicle(i)
    <3>1. CASE seen[r].item = i
      BY <2>1, <3>1 DEF OnlyVehiclesSell, CreateOrder
    <3>2. CASE seen[r].item # i
      <4>1. orders'[i] = orders[i]
        BY <2>1, <3>2 DEF TypeOK, CreateOrder
      <4>2. QED BY <1>3, <4>1 DEF OnlyVehiclesSell
    <3>3. QED BY <3>1, <3>2
  <2>2. CASE orders' = orders
    BY <1>3, <2>2 DEF OnlyVehiclesSell
  <2>3. QED BY <2>1, <2>2, ItemFrame
<1>4. ASSUME NEW i \in Items, status'[i] = "SOLD" PROVE IsVehicle(i)
  <2>1. status[i] = "SOLD" \/ CommitPayment(i)
    <3>1. ASSUME NEW r \in Requests, Serve(r) PROVE status' = status
      BY <3>1 DEF Serve, PlaceBid, CompareAndSet, ClearWinner, InsertBid, AntiSnipe, ExtendEnd,
                  EnterCheckout, CreateOrder, ReleaseLock, CallbackThrows, Crash, sale
    <3>2. ASSUME NEW j \in Items, Disturb(j) PROVE status[i] = "SOLD" \/ CommitPayment(i)
      <4>1. CASE CommitPayment(j)
        BY <1>4, <4>1 DEF TypeOK, CommitPayment
      <4>2. CASE ReleaseHold(j) \/ ExpireLock(j)
        BY <1>4, <4>2 DEF TypeOK, ReleaseHold, ExpireLock, sale
      <4>3. ASSUME NEW b \in Bidders, Hold(j, b) PROVE status[i] = "SOLD"
        BY <1>4, <4>3 DEF TypeOK, Hold
      <4>4. QED BY <3>2, <4>1, <4>2, <4>3 DEF Disturb
    <3>3. CASE Tick \/ UNCHANGED vars
      BY <1>4, <3>3 DEF Tick, vars, sale
    <3>4. QED BY <1>4, <3>1, <3>2, <3>3 DEF Next
  <2>2. CASE CommitPayment(i)
    BY <2>2 DEF CommitPayment, OnlyVehiclesSell
  <2>3. CASE status[i] = "SOLD"
    BY <2>3 DEF OnlyVehiclesSell
  <2>4. QED BY <2>1, <2>2, <2>3
<1>5. QED BY <1>1, <1>2, <1>3, <1>4 DEF OnlyVehiclesSell, IsVehicle

(* No bid in flight outbids the buyer of a sold vehicle: the update of the  *)
(* price asks for a LIVE vehicle, whatever the lock and the earlier read.   *)
THEOREM SoldPriceCorrect == Spec => SoldPriceFinal
<1>1. Init => OnlyVehiclesSell
  BY DEF Init, OnlyVehiclesSell
<1>2. TypeOK /\ OnlyVehiclesSell /\ [Next]_vars
        => [\A i \in Items : status[i] = "SOLD" =>
              price'[i] = price[i] /\ leader'[i] = leader[i]]_vars
  <2> SUFFICES ASSUME TypeOK, OnlyVehiclesSell, [Next]_vars, NEW i \in Items, status[i] = "SOLD"
               PROVE  price'[i] = price[i] /\ leader'[i] = leader[i]
    OBVIOUS
  <2>1. CASE register' = register
    BY <2>1 DEF register
  <2>2. ASSUME NEW r \in Requests, CompareAndSet(r), Matches(r)
        PROVE  price'[i] = price[i] /\ leader'[i] = leader[i]
    <3>1. seen[r].item # i
      BY <2>2 DEF Matches, OnlyVehiclesSell
    <3>2. QED BY <2>2, <3>1 DEF TypeOK, CompareAndSet
  <2>3. QED BY <2>1, <2>2, OnlySwapRaises
<1>3. QED BY <1>1, <1>2, TypeCorrect, OnlyVehiclesSellStep, PTL DEF Spec, SoldPriceFinal

----------------------------------------------------------------------------
(* The bid rows and the price agree                                        *)

(* A request between its compare-and-set and its insert owes the item a     *)
(* row; when no row is missing, the last one is the leader's and wins.      *)
Owing(i) == {r \in Requests : pc[r] \in {"clear", "insert"} /\ seen[r].item = i}

RowsFollow(i) ==
    LET n == Len(bids[i]) IN
    /\ n <= bidCount[i]
    /\ \A r \in Owing(i) :
        n < bidCount[i] /\ seen[r].bidder = leader[i] /\ seen[r].amount = price[i]
    /\ n = bidCount[i] /\ n > 0 =>
        /\ Winning(i) = {n}
        /\ bids[i][n].bidder = leader[i]
        /\ bids[i][n].amount = price[i]

RowsFollowPrice == \A i \in Items \ overrun : RowsFollow(i)

(* How a request comes to owe a row.                                        *)
LEMMA OwingFrame ==
    ASSUME TypeOK, [Next]_vars, NEW i, NEW q \in Owing(i)'
    PROVE  \/ CompareAndSet(q) /\ Matches(q) /\ seen[q].item = i
           \/ /\ q \in Owing(i)
              /\ seen'[q].bidder = seen[q].bidder /\ seen'[q].amount = seen[q].amount
<1>0. q \in Requests /\ pc'[q] \in {"clear", "insert"} /\ seen'[q].item = i
  BY DEF Owing
<1> DEFINE Kept == /\ q \in Owing(i)
                   /\ seen'[q].bidder = seen[q].bidder /\ seen'[q].amount = seen[q].amount
<1>1. ASSUME pc'[q] = pc[q], seen'[q] = seen[q] PROVE Kept
  BY <1>0, <1>1 DEF Owing
<1>2. ASSUME NEW r \in Requests, r # q, Serve(r) PROVE pc'[q] = pc[q] /\ seen'[q] = seen[q]
  BY <1>0, <1>2, OthersRest
<1>3. CASE ClearWinner(q)
  <2>1. /\ pc[q] = "clear" /\ seen'[q].item = seen[q].item
        /\ seen'[q].bidder = seen[q].bidder /\ seen'[q].amount = seen[q].amount
    BY <1>0, <1>3 DEF TypeOK, ClearWinner, Goto, SeenType
  <2>2. QED BY <1>0, <2>1 DEF Owing
<1>4. CASE CompareAndSet(q)
  <2>1. Matches(q)
    BY <1>0, <1>4 DEF TypeOK, CompareAndSet, Goto
  <2>2. seen'[q] = seen[q]
    BY <1>0, <1>4, <2>1 DEF TypeOK, CompareAndSet, Goto
  <2>3. QED BY <1>0, <1>4, <2>1, <2>2
<1>5. ASSUME Serve(q), ~ClearWinner(q), ~CompareAndSet(q) PROVE FALSE
  <2>1. \E p \in {"idle", "swap", "snipe", "extend", "order", "release", "dead"} : \E s :
          Goto(q, p, s)
    BY <1>5 DEF Serve, PlaceBid, EnterLock, InsertBid, AntiSnipe, ExtendEnd, EnterCheckout,
                CreateOrder, ReleaseLock, CallbackThrows, Crash
  <2>2. QED BY <1>0, <2>1 DEF TypeOK, Goto
<1>6. ASSUME NEW j \in Items, Disturb(j) PROVE pc'[q] = pc[q] /\ seen'[q] = seen[q]
  BY <1>0, <1>6, DisturbRests
<1>7. ASSUME Tick \/ UNCHANGED vars PROVE pc'[q] = pc[q] /\ seen'[q] = seen[q]
  BY <1>7 DEF Tick, vars
<1>8. QED BY <1>0, <1>1, <1>2, <1>3, <1>4, <1>5, <1>6, <1>7 DEF Next
LEMMA LastRow ==
    ASSUME NEW rows \in Seq(BidType), NEW winners \in SUBSET Nat, NEW b \in Bidders,
           NEW amount \in Nat, NEW result, result = RowsAfter(rows, winners, b, amount)
    PROVE  /\ Len(result) = Len(rows) + 1
           /\ result[Len(rows) + 1] = [bidder |-> b, amount |-> amount, winning |-> TRUE]
<1> DEFINE cleared == [k \in DOMAIN rows |-> [rows[k] EXCEPT !.winning = @ /\ k \notin winners]]
           row == [bidder |-> b, amount |-> amount, winning |-> TRUE]
<1>1. Len(rows) \in Nat /\ DOMAIN rows = 1..Len(rows) /\ \A k \in DOMAIN rows : rows[k] \in BidType
  OBVIOUS
<1>2. \A k \in DOMAIN rows : [rows[k] EXCEPT !.winning = @ /\ k \notin winners] \in BidType
  BY <1>1 DEF BidType
<1>3. cleared \in Seq(BidType) /\ Len(cleared) = Len(rows)
  BY <1>1, <1>2
<1> HIDE DEF cleared
<1>4. row \in BidType
  BY DEF BidType
<1>5. result = Append(cleared, row)
  BY DEF RowsAfter, cleared
<1> HIDE DEF row
<1>6. Len(result) = Len(rows) + 1 /\ result[Len(rows) + 1] = row
  BY <1>3, <1>4, <1>5
<1>7. QED BY <1>6 DEF row

LEMMA RowsFollowSwap ==
    ASSUME TypeOK, Guarded, RowsFollowPrice, [Next]_vars, NEW i \in Items \ overrun,
           NEW r \in Requests, CompareAndSet(r), Matches(r)
    PROVE  RowsFollow(i)'
<1>1. /\ bids' = bids /\ pc[r] = "swap" /\ seen[r].item \in Items
      /\ pc' = [pc EXCEPT ![r] = "clear"] /\ seen' = seen
  BY DEF TypeOK, CompareAndSet, Goto, RequestOK, Bidding, SeenType
<1>2. Len(bids[i]) \in Nat /\ bidCount[i] \in Nat /\ RowsFollow(i)
  BY DEF TypeOK, RowsFollowPrice
<1>3. Winning(i)' = Winning(i)
  BY <1>1 DEF Winning
<1>4. CASE seen[r].item # i
  <2>1. bidCount'[i] = bidCount[i] /\ leader'[i] = leader[i] /\ price'[i] = price[i]
    BY <1>4 DEF TypeOK, CompareAndSet
  <2>2. Owing(i)' = Owing(i)
    BY <1>1, <1>4 DEF TypeOK, Owing
  <2>3. QED BY <1>1, <1>2, <1>3, <2>1, <2>2 DEF RowsFollow
<1>5. CASE seen[r].item = i
  <2>1. /\ bidCount'[i] = bidCount[i] + 1
        /\ leader'[i] = seen[r].bidder /\ price'[i] = seen[r].amount
    BY <1>5 DEF TypeOK, CompareAndSet
  <2>2. ASSUME NEW q \in Owing(i)' PROVE q = r
    <3>1. q \in Requests /\ pc'[q] \in {"clear", "insert"} /\ seen[q].item = i
      BY <1>1 DEF Owing
    <3>2. CASE q # r
      <4>1. pc[q] \in Working /\ pc[r] \in Working
        BY <1>1, <3>1, <3>2 DEF TypeOK, Working, Bidding
      <4>2. QED BY <1>5, <3>1, <4>1, OneAtWork
    <3>3. QED BY <3>2
  <2>3. Len(bids'[i]) < bidCount'[i]
    BY <1>1, <1>2, <2>1 DEF RowsFollow
  <2>4. bidCount'[i] \in Nat
    BY <1>2, <2>1
  <2>5. QED BY <1>1, <1>2, <2>1, <2>2, <2>3, <2>4 DEF RowsFollow
<1>6. QED BY <1>4, <1>5

LEMMA RowsFollowInsert ==
    ASSUME TypeOK, Guarded, WinnersSeen, RowsFollowPrice, [Next]_vars,
           NEW i \in Items \ overrun, NEW r \in Requests, InsertBid(r)
    PROVE  RowsFollow(i)'
<1> DEFINE j == seen[r].item
           result == RowsAfter(bids[j], seen[r].winners, seen[r].bidder, seen[r].amount)
<1>1. /\ pc[r] = "insert" /\ j \in Items /\ seen[r].winners \in SUBSET Nat
      /\ seen[r].bidder \in Bidders /\ seen[r].amount \in Nat /\ bids[j] \in Seq(BidType)
  BY DEF TypeOK, InsertBid, RequestOK, Bidding, SeenType
<1>2. /\ bids' = [bids EXCEPT ![j] = result] /\ pc' = [pc EXCEPT ![r] = "snipe"] /\ seen' = seen
      /\ bidCount' = bidCount /\ leader' = leader /\ price' = price
  BY DEF TypeOK, InsertBid, RowsAfter, Goto, register
<1> HIDE DEF result
<1>3. result = RowsAfter(bids[j], seen[r].winners, seen[r].bidder, seen[r].amount)
  BY DEF result
<1>4. Owing(i)' \subseteq Owing(i) \ {r}
  BY <1>1, <1>2 DEF TypeOK, Owing
<1>5. Len(bids[i]) \in Nat /\ bidCount[i] \in Nat /\ RowsFollow(i)
  BY DEF TypeOK, RowsFollowPrice
<1>6. CASE j # i
  <2>1. bids'[i] = bids[i]
    BY <1>1, <1>2, <1>6 DEF TypeOK
  <2>2. Winning(i)' = Winning(i)
    BY <2>1 DEF Winning
  <2>3. QED BY <1>2, <1>4, <1>5, <2>1, <2>2 DEF RowsFollow
<1>7. CASE j = i
  <2> DEFINE n == Len(bids[i]) + 1
  <2>1. bids'[i] = result
    BY <1>1, <1>2, <1>7 DEF TypeOK
  <2>2. /\ Len(result) = n
        /\ result[n] = [bidder |-> seen[r].bidder, amount |-> seen[r].amount, winning |-> TRUE]
    BY <1>1, <1>3, <1>7, LastRow
  <2>3. /\ DOMAIN result = 1..n
        /\ \A k \in DOMAIN result : result[k].winning =>
              k = n \/ (k \in Winning(i) /\ k \notin seen[r].winners)
    BY <1>1, <1>3, <1>7, InsertedRows DEF Winning
  <2>4. Winning(i) \subseteq seen[r].winners
    BY <1>1, <1>7 DEF WinnersSeen
  <2>5. Winning(i)' = {k \in DOMAIN result : result[k].winning}
    BY <2>1 DEF Winning
  <2>6. n \in DOMAIN result /\ result[n].winning
    BY <1>5, <2>2, <2>3
  <2>7. Winning(i)' = {n}
    BY <2>3, <2>4, <2>5, <2>6
  <2>8. r \in Owing(i)
    BY <1>1, <1>7 DEF Owing
  <2>9. Len(bids[i]) < bidCount[i] /\ seen[r].bidder = leader[i] /\ seen[r].amount = price[i]
    BY <1>5, <2>8 DEF RowsFollow
  <2>10. Owing(i)' = {}
    <3>1. ASSUME NEW q \in Owing(i), q # r PROVE FALSE
      BY <1>1, <1>7, <3>1, OneAtWork DEF Owing, Working, Bidding
    <3>2. QED BY <1>4, <3>1
  <2>11. n <= bidCount[i]
    BY <1>5, <2>9
  <2>12. bids'[i][n].bidder = leader[i] /\ bids'[i][n].amount = price[i]
    BY <2>1, <2>2, <2>9
  <2>13. Len(bids'[i]) = n
    BY <2>1, <2>2
  <2> HIDE DEF n
  <2>14. QED BY <1>2, <2>7, <2>10, <2>11, <2>12, <2>13 DEF RowsFollow
<1>8. QED BY <1>6, <1>7

LEMMA RowsFollowStep ==
    ASSUME TypeOK, Guarded, WinnersSeen, RowsFollowPrice, [Next]_vars
    PROVE  RowsFollowPrice'
<1> SUFFICES ASSUME NEW i \in Items \ overrun' PROVE RowsFollow(i)'
  BY DEF RowsFollowPrice
<1>1. i \in Items \ overrun
  BY LockFrame
<1>2. ASSUME register' = register, bids' = bids PROVE RowsFollow(i)'
  <2>1. Winning(i)' = Winning(i) /\ bidCount' = bidCount /\ leader' = leader /\ price' = price
    BY <1>2 DEF Winning, register
  <2>2. RowsFollow(i)
    BY <1>1 DEF RowsFollowPrice
  <2>3. ASSUME NEW q \in Requests, CompareAndSet(q), Matches(q) PROVE FALSE
    <3>1. seen[q].item \in Items
      BY <2>3 DEF TypeOK, CompareAndSet, RequestOK, Bidding, SeenType
    <3>2. bidCount'[seen[q].item] = bidCount[seen[q].item] + 1 /\ bidCount[seen[q].item] \in Nat
      BY <2>3, <3>1 DEF TypeOK, CompareAndSet
    <3>3. QED BY <2>1, <3>2
  <2>4. ASSUME NEW q \in Owing(i)'
        PROVE  /\ q \in Owing(i)
               /\ seen'[q].bidder = seen[q].bidder /\ seen'[q].amount = seen[q].amount
    <3>1. q \in Requests
      BY DEF Owing
    <3>2. QED BY <2>3, <3>1, OwingFrame
  <2>5. QED BY <1>2, <2>1, <2>2, <2>4 DEF RowsFollow
<1>3. ASSUME NEW r \in Requests, CompareAndSet(r), Matches(r) PROVE RowsFollow(i)'
  BY <1>1, <1>3, RowsFollowSwap
<1>4. ASSUME NEW r \in Requests, InsertBid(r) PROVE RowsFollow(i)'
  BY <1>1, <1>4, RowsFollowInsert
<1>5. QED BY <1>2, <1>3, <1>4, OnlySwapRaises, ItemFrame

(* When nobody bids and every accepted bid has its row, the winning row is  *)
(* the leader's at the current price, unless the lock once ran out.         *)
THEOREM WinningBidCorrect == Spec => []WinningBidLeads
<1>1. Init => Guarded /\ WinnersSeen /\ RowsFollowPrice
  BY DEF Init, Guarded, WinnersSeen, RowsFollowPrice, RowsFollow, Owing, Working, Bidding
<1>2. TypeOK /\ Guarded /\ WinnersSeen /\ OneWinningBid /\ RowsFollowPrice /\ [Next]_vars
        => (Guarded /\ WinnersSeen /\ RowsFollowPrice)'
  BY GuardedStep, OneWinningStep, RowsFollowStep
<1>3. TypeOK /\ RowsFollowPrice => WinningBidLeads
  <2> SUFFICES ASSUME TypeOK, RowsFollowPrice, NEW i \in Items \ overrun,
                      bidCount[i] = Len(bids[i]), bidCount[i] > 0
               PROVE  /\ Winning(i) = {bidCount[i]}
                      /\ bids[i][bidCount[i]].bidder = leader[i]
                      /\ bids[i][bidCount[i]].amount = price[i]
    BY DEF WinningBidLeads
  <2>1. RowsFollow(i)
    BY DEF RowsFollowPrice
  <2>2. QED BY <2>1 DEF RowsFollow
<1>4. QED BY <1>1, <1>2, <1>3, TypeCorrect, OneWinningCorrect, PTL DEF Spec
=============================================================================
