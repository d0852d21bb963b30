---------------------------- MODULE Settlement ----------------------------
(***************************************************************************)
(* An order from its checkout to the handover of the vehicle: what the     *)
(* buyer's browser (verifyPayment), Razorpay's webhook, the expiry job and *)
(* the bank's counter (pickup.service.ts) do to its rows. None of them     *)
(* takes a lock, and all but the expiry job update by id what they read    *)
(* earlier.                                                                *)
(*                                                                         *)
(* Razorpay is external: it charges, it refunds, and it delivers an event  *)
(* late, in any order, several times or never.                             *)
(***************************************************************************)
EXTENDS Integers

CONSTANTS
    Orders,         \* orders that checkout has created
    Charges,        \* razorpayPaymentIds: attempts of buyers to pay (bound)
    OrderOf,        \* [Charges -> Orders]
    Requests,       \* slots for handlers in flight (bound)
    HoldTime,       \* HOLD_MINUTES
    OtpTime,        \* the 10 minutes of an OTP
    MaxTime,        \* bound on the clock
    EventIds,       \* keys of PaymentWebhookEvent rows
    EventId,        \* [Events -> EventIds], see below
    None            \* SQL NULL

(* What Razorpay may report of an attempt; process() does nothing about     *)
(* types other than the first three.                                        *)
Events == [type : {"captured", "failed", "refund", "other"}, charge : Charges]

(* The controller keys an event by its event_id, by the payment id if the   *)
(* body has none, and by the body's first 64 characters if it has neither:  *)
(* any two events may have one id.                                          *)

ASSUME SettlementAssumption ==
    /\ OrderOf \in [Charges -> Orders]
    /\ HoldTime \in Nat
    /\ OtpTime \in Nat
    /\ MaxTime \in Nat
    /\ EventId \in [Events -> EventIds]
    /\ None \notin Orders \cup Charges \cup Events \cup Nat

VARIABLES
    now,
    charge,     \* Razorpay's side of each attempt
    order,      \* status and pickupOtpExpiresAt
    payment,    \* status and razorpayPaymentId of the order's Payment row
    invoiced,   \* the orders that have an Invoice row
    inbox,      \* PaymentWebhookEvent: NEW if there is no row yet
    pc,
    seen

rows == <<order, payment, invoiced, inbox>>
vars == <<now, charge, order, payment, invoiced, inbox, pc, seen>>

OrderType == [status : {"HELD", "READY_FOR_PICKUP", "PICKUP_IN_PROGRESS", "COLLECTED", "EXPIRED"},
              otpUntil : Nat \cup {None}]

PaymentType == [status : {"INITIATED", "CAPTURED", "FAILED", "REFUNDED"},
                charge : Charges \cup {None}]

(* verify, inside verifyPayment; insert, process, write, mark, inside the   *)
(* webhook; scan, inside scan(); hand, inside complete().                   *)
PCs == {"idle", "verify", "insert", "process", "write", "mark", "scan", "hand"}

SeenType == [order : Orders \cup {None}, event : Events \cup {None}, charge : Charges \cup {None}]

Nothing == [order |-> None, event |-> None, charge |-> None]

Init ==
    /\ now = 0
    /\ charge = [p \in Charges |-> "NONE"]
    /\ order = [o \in Orders |-> [status |-> "HELD", otpUntil |-> None]]
    /\ payment = [o \in Orders |-> [status |-> "INITIATED", charge |-> None]]
    /\ invoiced = {}
    /\ inbox = [i \in EventIds |-> "NEW"]
    /\ pc = [r \in Requests |-> "idle"]
    /\ seen = [r \in Requests |-> Nothing]

Goto(r, p, s) ==
    /\ pc' = [pc EXCEPT ![r] = p]
    /\ seen' = [seen EXCEPT ![r] = s]

Answer(r) == Goto(r, "idle", Nothing)

SetPayment(o, status, p) == payment' = [payment EXCEPT ![o] = [status |-> status, charge |-> p]]

----------------------------------------------------------------------------
(* Razorpay (external)                                                     *)

(* An attempt fails, or is captured: an order is charged once.              *)
Attempt(p) ==
    /\ charge[p] = "NONE"
    /\ \A q \in Charges : OrderOf[q] = OrderOf[p] => charge[q] \in {"NONE", "FAILED"}
    /\ \E outcome \in {"FAILED", "CAPTURED"} : charge' = [charge EXCEPT ![p] = outcome]
    /\ UNCHANGED <<now, rows, pc, seen>>

Refund(p) ==
    /\ charge[p] = "CAPTURED"
    /\ charge' = [charge EXCEPT ![p] = "REFUNDED"]
    /\ UNCHANGED <<now, rows, pc, seen>>

Captured(p) == charge[p] \in {"CAPTURED", "REFUNDED"}

(* Razorpay has something to report, to which its HMAC is put.              *)
Sent(e) ==
    \/ e.type = "captured" /\ Captured(e.charge)
    \/ e.type = "failed" /\ charge[e.charge] = "FAILED"
    \/ e.type = "refund" /\ charge[e.charge] = "REFUNDED"
    \/ e.type = "other" /\ charge[e.charge] # "NONE"

----------------------------------------------------------------------------
(* PaymentsWebhookController.webhook                                       *)

(* An event arrives, perhaps again. One whose id has been processed is      *)
(* answered at once as a replay, whichever event that was.                  *)
ReceiveEvent(r, e) ==
    /\ pc[r] = "idle"
    /\ Sent(e)
    /\ inbox[EventId[e]] # "PROCESSED"
    /\ Goto(r, IF inbox[EventId[e]] = "NEW" THEN "insert" ELSE "process", [Nothing EXCEPT !.event = e])
    /\ UNCHANGED <<now, charge, rows>>

(* Mutant: the event is recorded as processed before it is.                 *)
InsertProcessed(r) ==
    LET i == EventId[seen[r].event] IN
    /\ pc[r] = "insert"
    /\ IF inbox[i] = "NEW"
       THEN inbox' = [inbox EXCEPT ![i] = "PROCESSED"] /\ Goto(r, "process", seen[r])
       ELSE UNCHANGED inbox /\ Answer(r)
    /\ UNCHANGED <<now, charge, order, payment, invoiced>>

(* eventId is unique: of two first deliveries at once, one gets a 500.      *)
InsertEvent(r) ==
    LET i == EventId[seen[r].event] IN
    /\ pc[r] = "insert"
    /\ IF inbox[i] = "NEW"
       THEN inbox' = [inbox EXCEPT ![i] = "RECEIVED"] /\ Goto(r, "process", seen[r])
       ELSE UNCHANGED inbox /\ Answer(r)
    /\ UNCHANGED <<now, charge, order, payment, invoiced>>

(* Is there something for process() to write? A refund is looked up by      *)
(* payment id, the others by order.                                         *)
ToWrite(e) ==
    LET row == payment[OrderOf[e.charge]] IN
    \/ e.type = "captured" /\ row.status # "CAPTURED"
    \/ e.type = "failed"
    \/ e.type = "refund" /\ row.charge = e.charge

ReadPayment(r) ==
    /\ pc[r] = "process"
    /\ Goto(r, IF ToWrite(seen[r].event) THEN "write" ELSE "mark", seen[r])
    /\ UNCHANGED <<now, charge, rows>>

(* The update is by the row's id, whatever it has become.                   *)
WritePayment(r) ==
    LET e == seen[r].event
        o == OrderOf[e.charge] IN
    /\ pc[r] = "write"
    /\ \/ e.type = "captured" /\ SetPayment(o, "CAPTURED", e.charge)
       \/ e.type = "failed" /\ SetPayment(o, "FAILED", payment[o].charge)
       \/ e.type = "refund" /\ SetPayment(o, "REFUNDED", payment[o].charge)
    /\ Goto(r, "mark", seen[r])
    /\ UNCHANGED <<now, charge, order, invoiced, inbox>>

(* The row is marked for all events of its id.                              *)
MarkProcessed(r) ==
    /\ pc[r] = "mark"
    /\ inbox' = [inbox EXCEPT ![EventId[seen[r].event]] = "PROCESSED"]
    /\ Answer(r)
    /\ UNCHANGED <<now, charge, order, payment, invoiced>>

----------------------------------------------------------------------------
(* OrdersService.verifyPayment                                             *)

Payable(o) ==
    /\ order[o].status \notin {"EXPIRED", "READY_FOR_PICKUP"}
    /\ payment[o].status = "INITIATED"

(* Mutant: the signature is not looked at.                                  *)
ReadOrderUnsigned(r, p) ==
    LET o == OrderOf[p] IN
    /\ pc[r] = "idle"
    /\ Payable(o)
    /\ Goto(r, "verify", [order |-> o, event |-> None, charge |-> p])
    /\ UNCHANGED <<now, charge, rows>>

(* The read, the checks, and the signature: Razorpay signs what it charged. *)
ReadOrder(r, p) ==
    LET o == OrderOf[p] IN
    /\ pc[r] = "idle"
    /\ Payable(o)
    /\ Goto(r, "verify", [order |-> o, event |-> None,
                          charge |-> IF Captured(p) THEN p ELSE None])
    /\ UNCHANGED <<now, charge, rows>>

RejectSignature(r) ==
    LET o == seen[r].order IN
    /\ pc[r] = "verify" /\ seen[r].charge = None
    /\ SetPayment(o, "FAILED", payment[o].charge)
    /\ Answer(r)
    /\ UNCHANGED <<now, charge, order, invoiced, inbox>>

(* Mutant: no unique key on the invoice's orderId.                          *)
CommitPaymentTwice(r) ==
    LET o == seen[r].order IN
    /\ pc[r] = "verify" /\ seen[r].charge # None
    /\ SetPayment(o, "CAPTURED", seen[r].charge)
    /\ order' = [order EXCEPT ![o].status = "READY_FOR_PICKUP"]
    /\ invoiced' = invoiced \cup {o}
    /\ Answer(r)
    /\ UNCHANGED <<now, charge, inbox>>

(* The transaction, which the unique key of the invoice can roll back.      *)
(* Vehicle and bank, which it also writes, are VehicleSale's.               *)
CommitPayment(r) ==
    LET o == seen[r].order IN
    /\ pc[r] = "verify" /\ seen[r].charge # None
    /\ o \notin invoiced
    /\ SetPayment(o, "CAPTURED", seen[r].charge)
    /\ order' = [order EXCEPT ![o].status = "READY_FOR_PICKUP"]
    /\ invoiced' = invoiced \cup {o}
    /\ Answer(r)
    /\ UNCHANGED <<now, charge, inbox>>

----------------------------------------------------------------------------
(* OrdersService.expireOverdueOrders, the cron job                         *)

Overdue(o) == order[o].status = "HELD" /\ HoldTime < now

ExpireOverdueOrders ==
    /\ \E o \in Orders : Overdue(o)
    /\ order' = [o \in Orders |-> IF Overdue(o) THEN [order[o] EXCEPT !.status = "EXPIRED"]
                                  ELSE order[o]]
    /\ UNCHANGED <<now, charge, payment, invoiced, inbox, pc, seen>>

----------------------------------------------------------------------------
(* PickupService                                                           *)

(* Mutant: only a collected order is refused.                               *)
ScannableAny(o) == order[o].status # "COLLECTED"

Scannable(o) == order[o].status \in {"READY_FOR_PICKUP", "PICKUP_IN_PROGRESS"}

(* scan() reads the order; while it hashes the OTP ...                      *)
ReadPass(r, o) ==
    /\ pc[r] = "idle"
    /\ Scannable(o)
    /\ Goto(r, "scan", [Nothing EXCEPT !.order = o])
    /\ UNCHANGED <<now, charge, rows>>

(* ... others may change it before it writes.                               *)
IssueOtp(r) ==
    /\ pc[r] = "scan"
    /\ order' = [order EXCEPT ![seen[r].order] = [status |-> "PICKUP_IN_PROGRESS",
                                                  otpUntil |-> now + OtpTime]]
    /\ Answer(r)
    /\ UNCHANGED <<now, charge, payment, invoiced, inbox>>

(* complete() reads the order and compares the OTP the staff types in; one  *)
(* that does not match leaves no trace.                                     *)
CheckOtp(r, o) ==
    /\ pc[r] = "idle"
    /\ order[o].status = "PICKUP_IN_PROGRESS"
    /\ order[o].otpUntil # None /\ now <= order[o].otpUntil
    /\ Goto(r, "hand", [Nothing EXCEPT !.order = o])
    /\ UNCHANGED <<now, charge, rows>>

(* Mutant: the OTP is spent and the status forgotten.                       *)
SpendOtp(r) ==
    /\ pc[r] = "hand"
    /\ order' = [order EXCEPT ![seen[r].order].otpUntil = None]
    /\ Answer(r)
    /\ UNCHANGED <<now, charge, payment, invoiced, inbox>>

HandOver(r) ==
    /\ pc[r] = "hand"
    /\ order' = [order EXCEPT ![seen[r].order] = [status |-> "COLLECTED", otpUntil |-> None]]
    /\ Answer(r)
    /\ UNCHANGED <<now, charge, payment, invoiced, inbox>>

(* A statement throws, a transaction rolls back, or the pod dies.           *)
HandlerEnds(r) ==
    /\ pc[r] # "idle"
    /\ Answer(r)
    /\ UNCHANGED <<now, charge, rows>>

Tick ==
    /\ now < MaxTime
    /\ now' = now + 1
    /\ UNCHANGED <<charge, rows, pc, seen>>

----------------------------------------------------------------------------
Webhook(r) ==
    \/ \E e \in Events : ReceiveEvent(r, e)
    \/ InsertEvent(r) \/ ReadPayment(r) \/ WritePayment(r) \/ MarkProcessed(r)

Verify(r) ==
    \/ \E p \in Charges : ReadOrder(r, p)
    \/ RejectSignature(r) \/ CommitPayment(r)

Pickup(r) ==
    \/ \E o \in Orders : ReadPass(r, o) \/ CheckOtp(r, o)
    \/ IssueOtp(r) \/ HandOver(r)

Razorpay == \E p \in Charges : Attempt(p) \/ Refund(p)

Next ==
    \/ \E r \in Requests : Webhook(r) \/ Verify(r) \/ Pickup(r) \/ HandlerEnds(r)
    \/ Razorpay
    \/ ExpireOverdueOrders
    \/ Tick

Spec == Init /\ [][Next]_vars

----------------------------------------------------------------------------
(* Properties                                                              *)

RequestOK(r) ==
    /\ pc[r] \in {"verify", "scan", "hand"} => seen[r].order # None
    /\ pc[r] \in {"insert", "process", "write", "mark"} => seen[r].event # None
    /\ seen[r].charge # None => OrderOf[seen[r].charge] = seen[r].order

(* The rows hold what the schema declares, an OTP's deadline belongs to a   *)
(* pickup in progress, and handlers have read what they go on with.         *)
TypeOK ==
    /\ now \in 0..MaxTime
    /\ charge \in [Charges -> {"NONE", "FAILED", "CAPTURED", "REFUNDED"}]
    /\ order \in [Orders -> OrderType]
    /\ payment \in [Orders -> PaymentType]
    /\ invoiced \subseteq Orders
    /\ inbox \in [EventIds -> {"NEW", "RECEIVED", "PROCESSED"}]
    /\ pc \in [Requests -> PCs]
    /\ seen \in [Requests -> SeenType]
    /\ \A r \in Requests : RequestOK(r)
    /\ \A o \in Orders : order[o].status = "PICKUP_IN_PROGRESS" => order[o].otpUntil # None

Sold == {"READY_FOR_PICKUP", "PICKUP_IN_PROGRESS", "COLLECTED"}

(* A vehicle is handed over, or on its way, exactly when the order has its  *)
(* invoice, whichever verifications, scans and expiries overlap.            *)
SoldIffInvoiced == \A o \in Orders : order[o].status \in Sold <=> o \in invoiced

(* A verification that arrives late or twice does not undo a pickup: the    *)
(* whole transaction is rolled back by the invoice's unique key.            *)
PickupNotUndone ==
    [][\A o \in Orders : order[o].status \in Sold => order'[o].status # "READY_FOR_PICKUP"
                                                     \/ order'[o] = order[o]]_vars

(* The books name the attempt that Razorpay charged, from whichever side    *)
(* they heard of it first and whatever overwrites the status later; they    *)
(* never name a failed one. An invoice never stands without it, and only    *)
(* what Razorpay refunded is booked as refunded.                            *)
BooksMatchCharge ==
    \A o \in Orders :
        /\ payment[o].charge # None => Captured(payment[o].charge) /\ OrderOf[payment[o].charge] = o
        /\ payment[o].status \in {"CAPTURED", "REFUNDED"} \/ o \in invoiced =>
              payment[o].charge # None
        /\ payment[o].status = "REFUNDED" => charge[payment[o].charge] = "REFUNDED"

Capture(p) == [type |-> "captured", charge |-> p]

OwnId(e) == \A f \in Events : EventId[f] = EventId[e] => f = e

(* No crash and no replay loses a capture that has an event id of its own,  *)
(* whatever ids the other events share: once marked as processed, it is in  *)
(* the books (payments.webhook.controller.ts:57-66).                        *)
ProcessedIsBooked ==
    \A p \in Charges : OwnId(Capture(p)) /\ inbox[EventId[Capture(p)]] = "PROCESSED" =>
        payment[OrderOf[p]].charge = p

(* README.md:270-271, "every event is persisted by Razorpay's event_id to   *)
(* prevent replay": a capture that the webhook would answer as a replay,    *)
(* and that no handler is busy with, has been booked.                       *)
OnlyReplaysDropped ==
    \A p \in Charges :
        /\ Sent(Capture(p)) /\ inbox[EventId[Capture(p)]] = "PROCESSED"
        /\ \A r \in Requests : seen[r].event # Capture(p)
        => payment[OrderOf[p]].charge = p

(* orders.service.ts:358, the job is to "sweep orders whose hold elapsed    *)
(* without payment success".                                                *)
ExpiresUnpaidOnly ==
    [][\A o \in Orders : order[o].status # "EXPIRED" /\ order'[o].status = "EXPIRED" =>
         payment[o].status # "CAPTURED"]_vars

(* pickup.service.ts:55-57 refuses a scan with "Vehicle already collected": *)
(* a collected order is closed.                                             *)
CollectedIsFinal ==
    [][\A o \in Orders : order[o].status = "COLLECTED" => order'[o].status = "COLLECTED"]_vars
=============================================================================
