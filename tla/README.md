# RepoX: a TLA+ verification of the marketplace backend

RepoX sells repossessed vehicles for banks. The backend is a NestJS API that
runs as two or more identical pods (README.md:293) against one Postgres
(Prisma, READ COMMITTED), one Redis (Redlock locks, counters, Socket.io
fan-out) and Razorpay. Nothing in a pod's memory matters to another pod: all
shared state is in rows and Redis keys, and what goes wrong goes wrong
*between two awaits*. The models take that as their grain: a request is a
process, each await on Redis, Postgres or Razorpay ends a step, and what the
request read before the await is kept in a local record and used after it.

## 1. Inventory

| Component (source) | State | Operations | Hard behaviour | What makes it correct |
|---|---|---|---|---|
| Vehicle holds: `vehicles.service.ts`, `holds-cron.service.ts` | Vehicle.status, heldById, heldUntil, soldToId | hold, releaseExpiredHolds (cron), create, update | two buyers in the same millisecond; a sweep that works from ids it read earlier, on every pod | a running hold is never taken over; an expired hold ends; a sold vehicle stays sold |
| Orders: `orders.service.ts`, `orders-cron.service.ts` | Order, Payment, Invoice, Bank counters | startCheckout, verifyPayment, expireOverdueOrders (cron) | check-then-insert; Razorpay call in a transaction in a lock; payment without a lock against two cron jobs | one payable order per buyer; the payment transaction is all or nothing and counted once; one owner per vehicle |
| Lock: `redis.service.ts` | `lock:vehicle:<id>` with a TTL of 5 s | withLock: acquire with retries, run, release in `finally` | owner outlives its TTL; owner dies | mutual exclusion while the TTL suffices; nobody is locked out for ever |
| Bids: `bids.service.ts` | Vehicle.currentBidPaise, currentBidderId, bidCount, auctionEndAt; Bid rows | bidOnVehicle, bidOnLot | compare-and-set, then a second transaction for the rows, then anti-snipe from a stale read | the price only rises; the bid rows agree with the leader; the end never moves back |
| Webhook: `payments.webhook.controller.ts` | PaymentWebhookEvent, Payment.status and razorpayPaymentId | captured, failed, refund events | lost, duplicated and reordered delivery; races verify-payment | the books agree with the charges; idempotence |
| Pickup: `pickup.service.ts`, `qr.service.ts` | Order.status, OTP hash and deadline | scan, complete | scan racing complete | a collected order stays collected |
| Catalogue: `banks.module.ts`, `vehicles.service.ts`, `lots.service.ts` | Bank.isVerified, vehiclesListed; Vehicle.status, prices, saleType, lotId; Lot.vehicleCount; LotAccessRequest, LotApprovedBidder | bank create and update; vehicle create and update; lot create, requestAccess, approveBidder | two lots claiming a vehicle; a price change racing the first bid; a crash between an insert and its counter | a lot holds what it says; bids freeze prices; no counter overstates |
| RFQs: `rfqs.service.ts` | Rfq.status, acceptedResponseId; RfqResponse rows | create, respond, acceptResponse | a quote crossing an acceptance or the closing day | the status tells whether there are answers; the accepted quote is one of them; after the closing day all is settled |
| Money: `money.ts`, `fee.service.ts`, `admin.module.ts` | FeeSetting rows, the totals of Order and Payment | computeOrderTotals, getFeeForTier, upsertFee | integer division; a fee that changes while a checkout runs | rounding is bounded, the total is the sum of its parts and what Razorpay collects |
| Throttle: `redis.service.ts`, its callers, `admin.module.ts` | the keys `fraud:hold:` and `fraud:bid:`, FraudAlert rows | incrWindow, resolveFraudAlert | attempts at the edges of two windows | no window sees more attempts than the threshold |
| Sessions: `auth.service.ts`, `jwt.strategy.ts`, `roles.guard.ts` | User rows, RefreshToken rows | register, login, refresh, logout | refresh replayed, raced with itself, logout or deactivation | a spent token has no further successor; a closed account stays out |
| KYC, administration: `users.module.ts`, `admin.module.ts` | User.isActive, kycStatus, KycDocument rows | submitKyc, reviewKyc, deactivateUser, createBankStaff | a submission overlapping the review; a crash between closing an account and killing its tokens | what was approved stays on file |
| Profile, realtime, activity log, HTTP surface | single columns, messages, append-only rows | | | not modelled, see section 7 |

Interactions: hold, checkout and bids share the lock `vehicle:<id>`;
verifyPayment, the webhook, pickup and both cron jobs write the same rows
without it. Cron jobs run every minute on every pod. The back
office (catalogue, accounts, RFQs, fees) takes no lock at all: its handlers read,
await, and write by id.

The hazards of this code, each at its line, are in `PROJECT.json`.

## 2. The models

### VehicleSale: the core

`VehicleSale.tla` models hold, checkout, payment and both cron sweeps.

| Code | Model |
|---|---|
| `withLock` (redis.service.ts:97-118) | `LockedRequest` (the HTTP request arrives), `AcquireLock`, `LockRefused` (retries used up), `ReleaseLock` (the `finally`), `ExpireLock` (the TTL), `Crash`, `CallbackThrows` |
| `hold` (vehicles.service.ts:192-277) | `now` is read when the callback starts (in `AcquireLock`), the conditional `updateMany` is `HoldVehicle` with its WHERE clause `CanHold` |
| `startCheckout` (orders.service.ts:49-174) | `ReadVehicle` (row and gates `BuyNowGate`, `AuctionGate`), `CheckExisting` (duplicate check and the deadline), `CreateOrder` (the transaction, at its commit) |
| `verifyPayment` (orders.service.ts:182-316) | `ReadOrder` (row and checks), then `CommitPayment`, `RejectSignature` or `RollbackPayment` |
| `releaseExpiredHolds` (vehicles.service.ts:283-307) | `FindExpiredHolds` then `ReleaseHolds`; `SweepFails` if the job throws or the pod dies between |
| `expireOverdueOrders` (orders.service.ts:361-374) | `ExpireOverdueOrders`, one UPDATE |

State: the sale columns of `vehicle`, the `order` rows, one `payment` per order
(checkout creates exactly one), the set `invoiced`, the `bank` counters, the
`lock` keys; per request its `pc`, what it asks (`ask`) and what it has read
(`seen`); per sweep the ids it `found`. `cut` is a history variable: the vehicles that a
sweep released though they were sold, or held anew, since it read them. No step reads it;
`OneTimelyBuyer` speaks of the other vehicles.

Abstractions, and why they are safe here:

- A Prisma transaction is one step at its commit. Its statements write single
  rows by id (or one conditional update) and nothing reads uncommitted rows;
  conflicts are row locks, which order transactions, and unique keys, which
  are in the guards (`invoiced`, `RollbackPayment`).
- The price, sale type, current bid and auction end of a vehicle are constant
  in a behaviour (`listing`). Who may change them, and when, is the business of
  the bids and catalogue modules. `Init` picks any listing of `Listings`; all vehicles
  begin `LIVE`. A listing of type LOT can be asked for and is always refused.
- A refused request whose refusal changes no row leaves no trace: a
  fraud-throttled hold, a missing vehicle, a repeated verification of a paid
  order.
- Statuses of pickup and the webhook's writes are `Settlement`'s; `PAYMENT_PENDING` and `PAID` are in the schema
  and no code writes them to a row.
- Time is a counter shared by the pods; `HoldTime` stands for HOLD_MINUTES.
  Comparisons are those of the code, strict where it is strict; NULL compares
  to nothing.
- `CreateOrder` takes a fresh row id; `Orders` bounds how many there are.
- After a crash the browser is told nothing; a request slot is reused.

`VehicleLock.tla` is the abstract specification of `withLock`: for each vehicle
the callbacks that run, begun only when none does, and ended. `Callbacks` maps
the state of `VehicleSale` to it, and `OneCallbackAtATime` says that `VehicleSale`
implements it. That is promised, and checked, only while a lock outlives its work:
a callback that throws, a pod that dies inside it and the TTL of a dead pod's lock then
happen in every order, the TTL of a running one does not.

### Auction

`Auction.tla` models both bid handlers of `bids.service.ts`, which are the same
but for the gate (a vehicle must be LIVE, a private lot must have approved
the bidder), the increment and the status in the compare-and-set.

| Code | Model |
|---|---|
| lock, read, checks (72-98, 183-214) | `PlaceBid`, with `BiddingOpen` and `MinRequired` |
| `updateMany` on price and status (100-115) | `CompareAndSet`, its WHERE clause `Matches` |
| the transaction on Bid rows (117-128) | `ClearWinner`, then `InsertBid` at its commit |
| anti-snipe (130-139) | `AntiSnipe` (the clock is read), `ExtendEnd` (the write) |
| the lock's end | `ReleaseLock`, `CallbackThrows`, `Crash`, `ExpireLock` |
| what else moves the row | `Hold`, `ReleaseHold`, `EnterCheckout`, `CreateOrder`, `CommitPayment` |

The row transaction takes two steps because under READ COMMITTED its UPDATE
sees the rows committed when *it* starts: another bid's row may be committed
between the UPDATE and the commit. `seen` keeps the price and end that the
handler read, and the rows that the UPDATE saw. `overrun` is a history variable:
the items whose lock once ran out under a live owner. Properties that need the lock speak
of the other items; `RaisesOnly` and `SoldPriceFinal` speak of all.

Abstractions: taking the lock and the first read are one step, since holding
the lock for longer before reading only keeps others out; a refused bid changes
nothing and leaves no trace; the steps of hold, sweep, checkout and payment are
those of `VehicleSale`, coarsened (a hold may end at any time, a sweep
may reset even a sold vehicle, which `sale_resurrect` shows it does). A lot
stays LIVE, since no code closes one. `AntiSnipeWindow <= AntiSnipeExtension` is how
env.example sets the two; `EndNeverMovesBack` would fail otherwise. The new end is
the bid's time plus the extension (line 135), not the old end plus it.

`AuctionRegister.tla` is the abstract specification: price, leader and bid count
of an item change together, and the price only upwards by the least increment.
`RaisesOnly` says that `Auction` implements it, however locks fail.

### Settlement

`Settlement.tla` follows an order from its checkout to the handover. It leaves
to `VehicleSale` the vehicle and the bank, and adds what that module leaves out.

| Code | Model |
|---|---|
| `webhook` (payments.webhook.controller.ts:33-67) | `ReceiveEvent`, `InsertEvent` (unique eventId), `MarkProcessed` |
| `process` (69-132) | `ReadPayment` with `ToWrite`, `WritePayment` |
| `verifyPayment` (orders.service.ts:182-290) | `ReadOrder`, `CommitPayment`, `RejectSignature` |
| `expireOverdueOrders` | `ExpireOverdueOrders` |
| `scan` (pickup.service.ts:40-105) | `ReadPass`, `IssueOtp` |
| `complete` (110-155) | `CheckOtp`, `HandOver` |
| an exception, a rollback, a dead pod | `HandlerEnds` |
| Razorpay (external) | `Attempt`, `Refund`; `Sent` is what it may report |

An event is delivered any number of times, in any order or never. The webhook
knows it by `EventId`, the key of line 46: `body.event_id`, else the payment id,
else the first 64 characters of the body. The model takes any function from
events to ids, so that events may share a row of `inbox`: a capture, a refund and
the events that `process` ignores (type `other`, such as an authorization), which still
occupy and mark the row. Razorpay charges an order at most once and signs
only what it charged (production mode: in mock mode every signature passes). An OTP is
present or absent with its deadline; a code that does not match is refused without a
trace. An order begins as checkout leaves it, HELD until `HoldTime`.

### Accounts

`Accounts.tla` models who may act at all: sessions, the guards in front of
every request, identity documents and what an administrator does to a user.

| Code | Model |
|---|---|
| `register` (auth.service.ts:22-51) | `Register` finds no user, `InsertUser` inserts one or meets the unique key |
| `login` | `Login`, when the password is right and the user active |
| `refresh` (85-105) | `Refresh` with its checks `Honoured`, `Rotate` revokes by id |
| `issueTokens` (124-161) | `IssueTokens`, the last step of the three |
| `logout` | `Logout`, of one token or of all |
| `JwtStrategy.validate`, `RolesGuard` | `Authenticated`, `RoleAllows`, in `Admit`, the arrival of every other request |
| `submitKyc` (users.module.ts) | `ReadKyc`, then the transaction: `DeleteDocuments` sees the committed rows, `CommitKyc` |
| `reviewKyc`, `createBankStaff` (admin.module.ts) | `ReviewKyc`, `CreateBankStaff` |
| `deactivateUser` | `DeactivateUser` closes the account, `KillTokens` revokes its tokens |
| an exception, a dead pod | `Drop` |

Users are named by the e-mail address, their unique key. A wrong password
leaves no trace. An access token is not aged: every request looks its user up,
so an old one can do nothing that a fresh one cannot. `token[t].from` is
history: the token that was exchanged for `t`.

### Catalogue

`Catalogue.tla` models what banks list and bundle, while buyers hold, bid and pay.

| Code | Model |
|---|---|
| bank create, update (banks.module.ts) | `CreateBank`, `UpdateBank` (the verification) |
| `VehiclesService.create` (vehicles.service.ts:99-148) | `ReadBank`, `InsertVehicle` (unique registration number), `CountVehicle` |
| `VehiclesService.update` (150-173) | `ReadVehicleRow` reads `bidCount`, `UpdateVehicle` writes what is left of the request |
| `LotsService.create` (lots.service.ts:50-105) | `ReadMembers` with `Eligible`, `CreateLot` moves the vehicles by id |
| `requestAccess`, `approveBidder` | `RequestAccess`, `ApproveBidder` |
| hold, sweep, bid, payment | `HoldVehicle`, `ReleaseVehicle`, `BidOnVehicle`, `SellVehicle`, each in one step |

The buyers' steps are those of `VehicleSale` and `Auction`, coarsened: a hold
may end at any time and a sweep may reset even a sold vehicle, so every change
of the row that those modules allow is allowed here. `update` writes one
price, standing for the reserve and buy-now prices, which freeze together, and
may set any status of `Changes`: the code checks none.

### Procurement

`Procurement.tla` models requests for quotation: `PostRfq` is `create`,
`ReadForQuote` and `CommitQuote` are `respond` (rfqs.service.ts:85-115),
`ReadForAcceptance` and `CommitAcceptance` are `acceptResponse` (122-150), with
the guards `TakesQuotes` and `Acceptable`; `AbandonRfq` is a failing await. Time is
a calendar of days, and a quote on the closing day is in time. The statuses CLOSED, EXPIRED and FULFILLED are in the
schema and the guards, and no code writes them.

### HoldThrottle

`HoldThrottle.tla` models `incrWindow` (redis.service.ts:83-93), whose INCR and
EXPIRE are one MULTI, with its callers (vehicles.service.ts:192-212,
bids.service.ts:56-68): `AdmitAttempt`, and `RefuseAttempt`, which counts and may raise
an alert. `ResolveAlert` is the administrator's. Redis is assumed not to
evict keys before they expire. `admitted` is history. Every attempt renews the window, a
refused one too, so that a user who keeps trying stays out; hence the counter
may exceed the number of attempts of the last minute, and the property is
about attempts that pass.

### Pricing

`Pricing.tla` models `computeOrderTotals` (money.ts:17-55) as `Totals` with
`RoundToPaise`, `getFeeForTier` as `FeeForTier`, `upsertFee` as `UpsertFee`, and
the part of `startCheckout` that uses them (orders.service.ts:94-149):
`ReadFee`, `CreateRazorpayOrder` (Razorpay keeps the order even if the
transaction rolls back), `CommitBill`, `AbortCheckout`. Percentages are whole
hundredths of a percent, as `Math.round(percent * 100)` makes them.

### MCBackOffice: composition

`Catalogue`, `Procurement`, `HoldThrottle` and `Pricing` share no row and no
key, so a behaviour of all of them is an interleaving of one of each, and a
property of one sees nothing of the others. `MCBackOffice` composes them so: a
constant `part` says which one moves while the others rest. So the run has the states of the four parts added, not multiplied.

## 3. Runs

The `sale_` runs use `MCVehicleSale` (two buyers, one vehicle with a constant
listing chosen from the ones the module defines), `auction` uses `MCAuction`, the `settle`
runs `MCSettlement`.

| Run | Bounds | Shows |
|---|---|---|
| `sale_lock` | 2 requests, 1 sweep, no early TTL | `OneHeldOrderPerBuyer`, `OrderFollowsHold`, `DeadlineWithinHold`, `OneCallbackAtATime`, `OneTimelyBuyer` |
| `sale_ttl` | as above, locks may expire under their owner, `MaxTime` 2 | `TypeOK`, `BankCountsInvoices`, `BankRecoversInvoices`, `ReadyIffInvoiced`, `SaleHasInvoice`, `HoldNeverStolen`: what does not depend on the lock |
| `sale_live` | 1 order, `FairSpec`, no symmetry | `ExpiredHoldEnds`, `OverdueOrderSettles`, `LockIsFreed`, `EveryRequestEnds` |
| `sale_twice` | no sweep | **violated** `NeverSoldTwice` |
| `sale_resurrect` | | **violated** `SoldStaysSold` |
| `auction` | 2 requests, 2 bidders, amounts 1 to 3, clock to 4, an auction, a hybrid listing or a private lot | `TypeOK`, `OneWinningBid`, `WinningBidLeads`, `RaisesOnly`, `SoldPriceFinal`, `EndNeverMovesBack`, `OrderIsLeaders` |
| `settle` | one order, 2 attempts, 3 handlers, clock to 2; one capture has an event id of its own, all other events of a payment share its id | `TypeOK`, `SoldIffInvoiced`, `PickupNotUndone`, `BooksMatchCharge`, `ProcessedIsBooked` |
| `settle_expired` | 2 handlers, events share the payment's id | **violated** `ExpiresUnpaidOnly` |
| `settle_collected` | as above | **violated** `CollectedIsFinal` |
| `settle_dropped` | as above | **violated** `OnlyReplaysDropped` |
| `accounts` | a user and an administrator, 2 refresh tokens, a document, 2 requests, clock to 1 | `TypeOK`, `DeactivatedStaysOut`, `TokensRotate`, `ApprovalSettles` |
| `desk` | see below | `DeskTypeOK`, `ListedNeverOverstated`, `LotsConsistent`, `NoNewHoldInLot`, `BidFreezesPrice`, `StatusTellsAnswers`, `ClosingDaySettles`, `AdmittedPerWindow`, `OrderAddsUp` |

Why the bounds suffice for the sale: the properties relate at most two orders, two buyers
and one vehicle (vehicles share nothing but the bank counters, which grow per
order); every race the code can run is between two requests, or a request and
a sweep, so two requests and one sweep reach each pair; `HoldTime` 1 and a
clock up to 2 (`sale_ttl`, `sale_live`) reach before, at and after a deadline, and
up to 4 (the others) those of a second hold too. `Requests`, `Orders` and
`Sweepers` are symmetry sets, in the safety runs only.

For the auction: a bid depends on the one item's row alone, so two bids, or a
bid and a checkout, are every pair; three amounts let an accepted bid be
outbid twice; the window and extension of 2 and an end at 3 let a bid fall
before, in and past the window, and an extended auction be extended again.

For the settlement: orders share no row, so one is enough; two attempts are a
failed and a captured one; three handlers are every triple of verifications,
deliveries, scans and handovers. Symmetry is over `Requests`; the two attempts differ in
their event ids, which `settle` mixes so that a capture that shares its id and one that does not
are both there.

For the accounts: the properties speak of one user, and only an administrator
acts on another, so these two users are every pair; two requests are
every race (refresh with refresh, submission with review, login with
deactivation); two tokens are one and its successor. `RefreshTime` 0 and a clock
to 1 reach a token before and after its end. The proofs hold for any number.

For the desk, by part. Catalogue: one vehicle, two banks that may list it, two private
lots that may claim it, two clerks, two prices. Rows of different
vehicles meet only in counters and in the membership of a lot: those are what
the proofs, for any number of vehicles, add to the run. Procurement: two
requests and two quotes, so that a quote may be accepted for the wrong request
and an accepted one be replaced, and closing days before, at and after the days that pass.
HoldThrottle: a threshold of 2 in a window of 2 seconds and a clock to 5, past two windows.
Pricing: two checkouts with fees changing meanwhile, prices and
percentages that round down, up and not at all.

`CHECK_DEADLOCK FALSE` where used: with the clock at its bound and the order
ids used up, everything may really be over.

Fairness (`Fairness`): every await ends, since Postgres, Redis and
Razorpay clients time out, so `Serve` is weakly fair; Redis expires a key after
its TTL; cron jobs run every minute on every pod (`@Cron(EVERY_MINUTE)`), so a
sweep that finds something is eventually tried, and one that keeps being tried
does not fail for ever between its two statements (strong fairness of
`ReleaseHolds`). Neither the arrival of requests, nor the clock, nor crashes
are fair.

## 4. What the violated properties say

- `NeverSoldTwice` (README.md:35-36). `verifyPayment` looks at the status of
  the order it read, never at `heldUntil`, and updates the vehicle by id. The
  first buyer's hold runs out, the second holds, checks out and pays; the
  first, whose order the expiry job has not reached, pays too.
- `SoldStaysSold` (vehicles.service.ts:280). The sweep reads a lapsed hold, the
  payment commits, the sweep's update by id sets the vehicle `LIVE`.
- `ExpiresUnpaidOnly` (orders.service.ts:358). `payment.captured` sets the
  Payment row and nothing else; the order stays HELD, the browser's call then finds
  no pending payment, and the job expires the order.
- `CollectedIsFinal` (pickup.service.ts:56). A scan reads the order, hashes its
  OTP while another handler hands the vehicle over, and writes PICKUP_IN_PROGRESS.
- `OnlyReplaysDropped` (README.md:270-271). Without `event_id` an authorization is
  stored under the payment's id and marked processed; the capture that follows finds
  that row and is answered as its replay.

The models contain more races that a line of the repository speaks against. They have no run of their
own; the properties that do hold are checked with them in place, and say what remains:

| Race | Against | What remains |
|---|---|---|
| a sweep that read a lapsed hold ends the hold taken since (vehicles.service.ts:292) | README.md:47, "sweeps expired holds" | theorem `HoldRunsCorrect`: nothing else ends a hold early |
| two refreshes that overlap both find the token good and both issue a successor (auth.service.ts:87) | README.md:81, "rotating"; auth.service.ts:101 | `TokensRotate`: none later; theorem `SuccessorCorrect` |
| a submission that read the status before the review replaces the documents of an approved user (users.module.ts:73) | users.module.ts:70, "already approved" | `ApprovalSettles`: an approval stands once no submission is in flight |
| an update that read `bidCount` before the first bid writes its price under it (vehicles.service.ts:164) | line 158, "financial fields are frozen" | `BidFreezesPrice`: the price stays once such updates are over |
| two lots created at once find a vehicle free; the second takes it, the first still counts it (lots.service.ts:90) | line 63, "already in a lot" | `LotsConsistent`: no lot has more than it counts, or another bank's |
| a verification that read a HELD order pays it although the job has expired it since (orders.service.ts:250) | line 358 | `ReadyIffInvoiced`, `SoldIffInvoiced` |
| two deliveries of one event that overlap are both applied (payments.webhook.controller.ts:51) | README.md:270-271 | `BooksMatchCharge` |

`OneTimelyBuyer` says what the design does ensure: two buyers never both have an order within
its deadline, unless a sweep has cut the vehicle.

## 5. Proofs

`VehicleSaleProofs.tla` proves, for any sets and any `HoldTime`:

- `TypeCorrect`: `Spec => []TypeOK`. `TypeOK` is inductive as it stands: it
  includes what a request has read by the time it reaches its `pc`
  (`RequestOK`) and that a lock's owner is inside `withLock` (`LockOK`).
- `LedgerCorrect` and `ReadyCorrect`: `BankCountsInvoices` and `ReadyIffInvoiced`, from the
  inductive `Ledger`. Needs `Orders` finite; does not need the lock.
- `RecoveredCorrect`: `BankRecoversInvoices`. `BaseKept`: the price of an order never
  changes once it is created; `RecoveredStep`: a payment adds the price of the one
  order it invoices (`SumRemove` of `LedgerSums`), and every other step
  leaves the invoices and their prices alone (`SumSame`).
- `SaleCorrect`: `SaleHasInvoice`, from the fact that only `CommitPayment`
  writes `soldTo`.
- `OneHeldCorrect`: `OneHeldOrderPerBuyer`, assuming `~LockMayExpire`. The
  strengthening is `Guarded` (whoever is inside `withLock` owns the lock) and
  `PricedAlone` (whoever is past the duplicate check has no open order).
- `LockCorrect`: `OneCallbackAtATime`, the refinement of `VehicleLock`, assuming
  `~LockMayExpire`. Initial states map to initial states, and `SerialStep` maps each step
  to a step or a stutter: a step moves one request (`OneMoves`), only `AcquireLock` starts a
  callback (`RunningFrame`), and by `Guarded` no other then runs.
- `HoldCorrect`: `HoldNeverStolen`, from `ReadPast` (a hold works with a time that has
  passed). Does not need the lock.
- `FollowsCorrect` and `DeadlineCorrect`: `OrderFollowsHold` and `DeadlineWithinHold`,
  assuming `~LockMayExpire`. `HoldInHand`: a checkout past its gates still has the hold
  it read, or nobody has one; `Settled`: a hold that has read the clock finds only
  orders created before; `Recent` bounds every deadline by the clock.
- `TimelyCorrect`: `OneTimelyBuyer`, assuming `~LockMayExpire`. Behind a timely order
  stands the buyer's own hold, or the vehicle is sold (`TimelyHeld`, `CheckoutHeld`);
  `HoldWaits`: no other hold gets in before; `SweepCuts`: a sweep that ends that hold cuts the
  vehicle. `RowMoves` lists what any step does to a row.
- `SweptCorrect`, `HoldRunsCorrect` and `PromptSaleCorrect`: under what conditions promises that section
  4 shows broken would hold. `SweepsInTime` says that every sweep still finds its vehicles expired, or
  released by another, when it writes; `PaidInTime`, that every payment that commits finds its order HELD
  and in time. Both are assumptions on behaviours, which the code does not enforce: the first would
  follow if the sweep's update repeated the conditions of its read. With `SweepsInTime`, `SoldStaysSold` and
  `HoldRunsItsTime` hold. With both, and locks that outlive their work, `NeverSoldTwice` holds: behind an invoice
  the vehicle is sold and no other buyer has a timely order for it or is about to create one
  (`SaleClosed`, `OnlyFor`), since `OneTimelyBuyer` holds when the invoice is written.

`LedgerSums.tla` has what these proofs need about sums over finite sets, where
the library has the definitions (`MapThenSumSet`) and no theorem. The library's sum picks elements
one by one, through a function defined by recursion on the set. The library's induction
theorems cannot be used here; `SubsetInduction` replaces them for subsets of a finite set, stating the
property as a set of subsets instead of an operator, from the well-foundedness of the
numbers (`LeastNatural`). With it `SumUnfolds`, `SumNat`, `SumSame` and
`SumRemove` hold for any finite set, whatever order elements are picked in.

`AuctionProofs.tla` proves, for any sets, increments and clock, under
`AuctionAssumption`:

- `TypeCorrect`: `TypeOK`, with what a request has in hand at each pc.
- `RegisterCorrect`: `Spec => RaisesOnly`. `OnlySwapRaises` shows that every step
  but a matching `CompareAndSet` stutters on the register; `BidsEnough`, that a
  bid in flight has passed the minimum for the price it read, which the WHERE
  clause pins to the price it replaces. No fact about the lock is used.
- `OneWinningCorrect`, `OrderCorrect` and `EndCorrect`: `OneWinningBid`, `OrderIsLeaders`
  and `EndNeverMovesBack`. All rest on `Guarded`: unless the lock of an item
  once ran out, whoever works on the item owns its lock, hence works alone
  (`OneAtWork`); so what was read is still so: `WinnersSeen`, `LeaderSeen`, `EndSeen`.
- `WinningBidCorrect`: `WinningBidLeads`, with `RowsFollowPrice`: a bid between its
  compare-and-set and its insert owes the item a row, so the rows never outnumber
  the accepted bids, and when none is missing the last one is the leader's.
- `SoldPriceCorrect`: `SoldPriceFinal`, with `OnlyVehiclesSell`. Does not need the lock.

`SettlementProofs.tla` proves every property of the run `settle`, for any orders,
attempts and handlers, under `SettlementAssumption`:

- `TypeCorrect`: `TypeOK`.
- `SoldCorrect` and `PickupCorrect`: `SoldIffInvoiced` and `PickupNotUndone`, with
  `PickupsInvoiced` (a scan or handover in flight has read a sold order): an
  invoice is never deleted, so what they read of it stays true.
- `BooksCorrect` and `InboxCorrect`: `BooksMatchCharge` and `ProcessedIsBooked`, for any `EventId`, with `Books`:
  an order is charged once (`OneCapture`), handlers act on what Razorpay really
  did (`Sincere`), a refund being written has found its payment (`RefundKnown`),
  a capture being marked is booked (`MarkBooked`). `PaymentFrame` lists what may
  become of a Payment row; from it, a charge once named is never replaced.
- `DroppedCorrect`: if every capture has an event id of its own, `OnlyReplaysDropped` holds.
- `CollectedCorrect` and `ExpiresCorrect` say, as `SweptCorrect` and `PromptSaleCorrect` do for
  the sale, what alone breaks the two promises of section 4: with `ScansInTime` (a scan still finds
  its order scannable when it writes) `CollectedIsFinal` holds, and with `CapturesFollowSale` (the
  webhook books a capture only after the sale) `ExpiresUnpaidOnly`. Both are
  assumptions on behaviours that the code does not enforce. `OrderFrame` says how a step
  changes an order.

`AccountsProofs.tla` proves every property of the run `accounts`, for any users,
tokens, documents and requests, under `AccountsAssumption`:

- `TypeCorrect`: `TypeOK`, by itself inductive with `RequestOK`.
- `DeactivatedCorrect` and `ApprovalCorrect`: `DeactivatedStaysOut` and
  `ApprovalSettles`, step by step: a closed account passes no guard, and only a
  request that was let in before writes; no lemma on history is needed.
- `SuccessorCorrect`: if every refresh that revokes a token finds it unrevoked (`RotatesFresh`, an
  assumption on behaviours), `OneSuccessor` holds. `Exchange`: then one request at a time
  works on the successor of a token, and on none that has one.
- `RotationCorrect`: `TokensRotate`, with the invariant `Rotation`: only a refresh
  has a token in hand, and whoever is about to issue its successor has revoked it.

`CatalogueProofs.tla` proves every property of the catalogue for any banks, lots,
vehicles and requests, the last two finite in number so that they can be
counted (`CatalogueAssumption`):

- `CatalogueTypeCorrect`, `ListedCorrect`, `LotsCorrect`: `CatalogueTypeOK`,
  `ListedNeverOverstated` and `LotsConsistent` are inductive together with
  `MembersOwn`: whoever is about to create a lot holds vehicles of the bank it is
  for, since a vehicle never changes its bank. `LotsKept`, `ListedKept` and
  `RequestsKept` say once what leaves each part right; a step cites them.
- `NoNewHoldCorrect` and `PriceCorrect`: `NoNewHoldInLot` and `BidFreezesPrice`, from
  `RowMoves` (what any step may do to a vehicle) and `RequestMoves` (which updates
  a step may start).

`ProcurementProofs.tla` proves `ProcurementTypeOK`, `StatusTellsAnswers`
(`StatusCorrect`) and `ClosingDaySettles` (`ClosingCorrect`), from `QInv`: quotes
answer requests that exist, and an acceptance in flight holds an answer to its request.

`BackOfficeProofs.tla` proves, of `HoldThrottle`, `AdmittedPerWindow` (`WindowCorrect`), from `WInv`:
an attempt that passed keeps its key alive for a window (`Kept`), so the key
counts at least the attempts that passed within the last one (`Counted`); and of
`Pricing`, `OrderAddsUp` (`TotalsCorrect`) for all prices and
percentages: `PInv` says of the totals in a till what the property says of an order,
and that two tills never have one number. `DeskTypeCorrect` (`DeskTypeOK`) and `DeskCorrect` carry what is
proved of each part to the module that `desk` checks. The step between, the lemma
`DeskRefinesParts`, holds by the way the parts are composed and says nothing about the code.

`RequestFrame` and `RowFrame` (`HandFrame` and `ItemFrame` for the auction) state once
how a step can change a request and a row.

So every safety property of the passing runs is proved, and the runs show them on
small instances. Of each violated property it is proved under what condition it would hold. Only
model-checked: the liveness properties of `sale_live`, since neither fairness nor ENABLED is
within the prover's reach.

## 6. Plan

1. `VehicleSale`, `Auction`, `Settlement`, `Accounts`, `Catalogue`, `Procurement`,
   `HoldThrottle`, `Pricing`, the abstract `AuctionRegister` and `VehicleLock`, with their runs and
   proofs: done as above.
2. Left for `Settlement`: a refund reported before its capture, and the pickup statuses in the
   duplicate check of checkout, which needs one module with checkout and pickup.
3. Liveness of the other components, which state no fairness yet: only
   `VehicleSale` has jobs and locks whose progress matters.

## 7. Not modelled

- Realtime pushes and the activity log: no server decision reads them.
- The HTTP surface: validation, throttling by address and error formatting of one request. Roles and
  authentication are in `Accounts`.
- Users: `updateProfile`, saved vehicles, read marks of notifications. They set
  columns that nothing decides on. So does `watcherCount` of a vehicle.
- Bank dashboards and lists of all kinds (they only read), QR images, the seed
  (its administrators and fees are initial states of `Accounts` and `Pricing`) and deployment files.
- Passwords and the signatures and ages of access tokens; amounts in the catalogue, which
  are compared only in `Auction`.

Code read on the way that no property speaks of, and that a reader may want to
know: an accepted quote may be replaced by another acceptance while the request is not
fulfilled (rfqs.service.ts:122-150), and a quote after the acceptance puts the request back to
RESPONDED (line 111); a lot may take a vehicle that is on hold (lots.service.ts:58), after which
only new holds are refused; a crash between a vehicle's insert and its bank's counter leaves the
counter behind for good; a failed event or a bad signature overwrites CAPTURED in the Payment row,
which still names the capture; `update` takes any status; a review
approves the documents on file, not those the reviewer saw (admin.module.ts:106).
