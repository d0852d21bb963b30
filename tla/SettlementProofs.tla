-------------------------- MODULE SettlementProofs --------------------------
(***************************************************************************)
(* Proofs about Settlement, for any orders, attempts and handlers: what    *)
(* was sold is what was invoiced, a pickup is not undone, and the books    *)
(* agree with what Razorpay charged.                                       *)
(***************************************************************************)
EXTENDS Settlement, TLAPS

InWebhook == {"insert", "process", "write", "mark"}

LEMMA NothingTyped == Nothing \in SeenType
BY DEF Nothing, SeenType

LEMMA AnswerTyped ==
    ASSUME TypeOK, NEW r \in Requests, Answer(r)
    PROVE  /\ pc' \in [Requests -> PCs] /\ seen' \in [Requests -> SeenType]
           /\ \A q \in Requests : q # r => pc'[q] = pc[q] /\ seen'[q] = seen[q]
           /\ pc'[r] = "idle" /\ seen'[r] = Nothing
BY NothingTyped DEF TypeOK, Answer, Goto, PCs

(* Every column keeps its type, and every handler has what it goes on with. *)
THEOREM TypeCorrect == Spec => []TypeOK
<1>1. Init => TypeOK
  BY NothingTyped, SettlementAssumption
  DEF Init, TypeOK, OrderType, PaymentType, PCs, RequestOK, Nothing
<1>2. TypeOK /\ [Next]_vars => TypeOK'
  <2> SUFFICES ASSUME TypeOK, [Next]_vars PROVE TypeOK'
    OBVIOUS
  <2>1. ASSUME NEW r \in Requests, NEW e \in Events, ReceiveEvent(r, e) PROVE TypeOK'
    <3>1. [Nothing EXCEPT !.event = e] \in SeenType
      BY DEF Nothing, SeenType
    <3>2. pc' \in [Requests -> PCs] /\ seen' \in [Requests -> SeenType]
      BY <2>1, <3>1 DEF TypeOK, ReceiveEvent, Goto, PCs
    <3>3. \A q \in Requests : RequestOK(q)'
      BY <2>1, SettlementAssumption DEF TypeOK, ReceiveEvent, Goto, RequestOK, Nothing, Events, SeenType
    <3>4. QED BY <2>1, <3>2, <3>3 DEF TypeOK, ReceiveEvent, rows
  <2>2. ASSUME NEW r \in Requests, InsertEvent(r) \/ ReadPayment(r) PROVE TypeOK'
    <3>1. pc' \in [Requests -> PCs] /\ seen' \in [Requests -> SeenType]
      BY <2>2, NothingTyped DEF TypeOK, InsertEvent, ReadPayment, Answer, Goto, PCs
    <3>2. \A q \in Requests : RequestOK(q)'
      BY <2>2 DEF TypeOK, InsertEvent, ReadPayment, Answer, Goto, RequestOK, Nothing
    <3>3. seen[r].event \in Events
      BY <2>2 DEF TypeOK, InsertEvent, ReadPayment, RequestOK, SeenType
    <3>4. QED BY <2>2, <3>1, <3>2, <3>3 DEF TypeOK, InsertEvent, ReadPayment, rows
  <2>3. ASSUME NEW r \in Requests, WritePayment(r) PROVE TypeOK'
    <3>1. pc' \in [Requests -> PCs] /\ seen' \in [Requests -> SeenType]
      BY <2>3 DEF TypeOK, WritePayment, Goto, PCs
    <3>2. \A q \in Requests : RequestOK(q)'
      BY <2>3 DEF TypeOK, WritePayment, Goto, RequestOK
    <3>3. seen[r].event.charge \in Charges /\ OrderOf[seen[r].event.charge] \in Orders
      BY <2>3, SettlementAssumption DEF TypeOK, WritePayment, RequestOK, SeenType, Events
    <3>4. payment' \in [Orders -> PaymentType]
      BY <2>3, <3>3 DEF TypeOK, WritePayment, SetPayment, PaymentType
    <3>5. QED BY <2>3, <3>1, <3>2, <3>4 DEF TypeOK, WritePayment
  <2>4. ASSUME NEW r \in Requests, MarkProcessed(r) PROVE TypeOK'
    <3>1. inbox' \in [EventIds -> {"NEW", "RECEIVED", "PROCESSED"}]
      BY <2>4 DEF TypeOK, MarkProcessed
    <3>2. Answer(r)
      BY <2>4 DEF MarkProcessed
    <3>3. \A q \in Requests : RequestOK(q)'
      BY <3>2, AnswerTyped DEF TypeOK, RequestOK, Nothing
    <3>4. QED BY <2>4, <3>1, <3>2, <3>3, AnswerTyped DEF TypeOK, MarkProcessed
  <2>5. ASSUME NEW r \in Requests, NEW p \in Charges, ReadOrder(r, p) PROVE TypeOK'
    <3>1. OrderOf[p] \in Orders /\ p # None
      BY SettlementAssumption
    <3>2. pc' \in [Requests -> PCs] /\ seen' \in [Requests -> SeenType]
      BY <2>5, <3>1 DEF TypeOK, ReadOrder, Goto, PCs, SeenType
    <3>3. \A q \in Requests : RequestOK(q)'
      BY <2>5, <3>1, SettlementAssumption DEF TypeOK, ReadOrder, Goto, RequestOK, SeenType
    <3>4. QED BY <2>5, <3>2, <3>3 DEF TypeOK, ReadOrder, rows
  <2>6. ASSUME NEW r \in Requests, RejectSignature(r) \/ CommitPayment(r) PROVE TypeOK'
    <3>1. /\ seen[r].order \in Orders
          /\ CommitPayment(r) => seen[r].charge \in Charges
      BY <2>6 DEF TypeOK, RejectSignature, CommitPayment, RequestOK, SeenType
    <3>2. payment' \in [Orders -> PaymentType]
      BY <2>6, <3>1 DEF TypeOK, RejectSignature, CommitPayment, SetPayment, PaymentType
    <3>3. /\ order' \in [Orders -> OrderType] /\ invoiced' \subseteq Orders
          /\ \A o \in Orders : order'[o].status = "PICKUP_IN_PROGRESS" => order'[o].otpUntil # None
      BY <2>6, <3>1 DEF TypeOK, RejectSignature, CommitPayment, OrderType
    <3>4. Answer(r)
      BY <2>6 DEF RejectSignature, CommitPayment
    <3>5. QED
      BY <2>6, <3>2, <3>3, <3>4, AnswerTyped
      DEF TypeOK, RejectSignature, CommitPayment, RequestOK, Nothing
  <2>7. ASSUME NEW r \in Requests, NEW o \in Orders, ReadPass(r, o) \/ CheckOtp(r, o) PROVE TypeOK'
    <3>1. [Nothing EXCEPT !.order = o] \in SeenType /\ o # None
      BY SettlementAssumption DEF Nothing, SeenType
    <3>2. pc' \in [Requests -> PCs] /\ seen' \in [Requests -> SeenType]
      BY <2>7, <3>1 DEF TypeOK, ReadPass, CheckOtp, Goto, PCs
    <3>3. \A q \in Requests : RequestOK(q)'
      BY <2>7, <3>1 DEF TypeOK, ReadPass, CheckOtp, Goto, RequestOK, Nothing
    <3>4. QED BY <2>7, <3>2, <3>3 DEF TypeOK, ReadPass, CheckOtp, rows
  <2>8. ASSUME NEW r \in Requests, IssueOtp(r) \/ HandOver(r) PROVE TypeOK'
    <3>1. now + OtpTime \in Nat
      BY SettlementAssumption DEF TypeOK
    <3>2. seen[r].order \in Orders
      BY <2>8 DEF TypeOK, IssueOtp, HandOver, RequestOK, SeenType
    <3>3. /\ order' \in [Orders -> OrderType]
          /\ \A o \in Orders : order'[o].status = "PICKUP_IN_PROGRESS" => order'[o].otpUntil # None
      <4>1. CASE IssueOtp(r)
        BY <3>1, <3>2, <4>1, SettlementAssumption DEF TypeOK, IssueOtp, OrderType
      <4>2. CASE HandOver(r)
        BY <3>2, <4>2 DEF TypeOK, HandOver, OrderType
      <4>3. QED BY <2>8, <4>1, <4>2
    <3>4. Answer(r)
      BY <2>8 DEF IssueOtp, HandOver
    <3>5. QED
      BY <2>8, <3>3, <3>4, AnswerTyped DEF TypeOK, IssueOtp, HandOver, RequestOK, Nothing
  <2>9. ASSUME NEW r \in Requests, HandlerEnds(r) PROVE TypeOK'
    BY <2>9, AnswerTyped DEF TypeOK, HandlerEnds, RequestOK, Nothing, rows
  <2>10. CASE Razorpay
    BY <2>10 DEF TypeOK, Razorpay, Attempt, Refund, RequestOK, rows
  <2>11. CASE ExpireOverdueOrders
    BY <2>11 DEF TypeOK, ExpireOverdueOrders, Overdue, OrderType, RequestOK
  <2>12. CASE Tick
    BY <2>12, SettlementAssumption DEF TypeOK, Tick, RequestOK, rows
  <2>13. CASE UNCHANGED vars
    BY <2>13 DEF TypeOK, vars, RequestOK
  <2>14. QED
    BY <2>1, <2>2, <2>3, <2>4, <2>5, <2>6, <2>7, <2>8, <2>9, <2>10, <2>11, <2>12, <2>13
    DEF Next, Webhook, Verify, Pickup
<1>3. QED BY <1>1, <1>2, PTL DEF Spec

----------------------------------------------------------------------------
(* Orders                                                                  *)

(* Whoever is about to move a pickup on has read an order that was sold.    *)
PickupsInvoiced ==
    \A r \in Requests : pc[r] \in {"scan", "hand"} => seen[r].order \in invoiced

LEMMA OrderStep ==
    ASSUME TypeOK, SoldIffInvoiced, PickupsInvoiced, [Next]_vars
    PROVE  /\ SoldIffInvoiced' /\ PickupsInvoiced'
           /\ \A o \in Orders : order[o].status \in Sold =>
                  order'[o].status # "READY_FOR_PICKUP" \/ order'[o] = order[o]
<1> DEFINE Local ==
        /\ SoldIffInvoiced' /\ PickupsInvoiced'
        /\ \A o \in Orders : order[o].status \in Sold =>
               order'[o].status # "READY_FOR_PICKUP" \/ order'[o] = order[o]
<1>1. ASSUME order' = order, invoiced' = invoiced,
             \A q \in Requests : pc'[q] \in {"scan", "hand"} => seen'[q].order \in invoiced
      PROVE  Local
  BY <1>1 DEF SoldIffInvoiced, PickupsInvoiced
<1>2. ASSUME NEW r \in Requests, Webhook(r) \/ HandlerEnds(r) PROVE Local
  <2>1. order' = order /\ invoiced' = invoiced
    BY <1>2 DEF Webhook, ReceiveEvent, InsertEvent, ReadPayment, WritePayment, MarkProcessed,
                HandlerEnds, rows
  <2>2. /\ pc'[r] \notin {"scan", "hand"}
        /\ \A q \in Requests : q # r => pc'[q] = pc[q] /\ seen'[q] = seen[q]
    BY <1>2 DEF TypeOK, Webhook, ReceiveEvent, InsertEvent, ReadPayment, WritePayment,
                MarkProcessed, HandlerEnds, Answer, Goto
  <2>3. QED BY <1>1, <2>1, <2>2 DEF PickupsInvoiced
<1>3. ASSUME NEW r \in Requests, NEW p \in Charges, ReadOrder(r, p) PROVE Local
  <2>1. order' = order /\ invoiced' = invoiced
    BY <1>3 DEF ReadOrder, rows
  <2>2. \A q \in Requests : pc'[q] = "verify" \/ (pc'[q] = pc[q] /\ seen'[q] = seen[q])
    BY <1>3 DEF TypeOK, ReadOrder, Goto
  <2>3. QED BY <1>1, <2>1, <2>2 DEF PickupsInvoiced
<1>4. ASSUME NEW r \in Requests, RejectSignature(r) PROVE Local
  <2>1. order' = order /\ invoiced' = invoiced /\ Answer(r)
    BY <1>4 DEF RejectSignature
  <2>2. QED BY <1>1, <2>1, AnswerTyped DEF PickupsInvoiced
<1>5. ASSUME NEW r \in Requests, CommitPayment(r), NEW o \in Orders, o = seen[r].order PROVE Local
  <2>1. /\ o \notin invoiced /\ order[o].status \notin Sold
        /\ order' = [order EXCEPT ![o].status = "READY_FOR_PICKUP"]
        /\ invoiced' = invoiced \cup {o} /\ Answer(r)
    BY <1>5 DEF CommitPayment, SoldIffInvoiced
  <2>2. order'[o].status = "READY_FOR_PICKUP" /\ \A q \in Orders : q # o => order'[q] = order[q]
    BY <2>1 DEF TypeOK, OrderType
  <2>3. SoldIffInvoiced'
    BY <2>1, <2>2 DEF SoldIffInvoiced, Sold
  <2>4. PickupsInvoiced'
    BY <2>1, AnswerTyped DEF PickupsInvoiced
  <2>5. QED BY <2>1, <2>2, <2>3, <2>4
<1>6. ASSUME NEW r \in Requests, NEW o \in Orders, ReadPass(r, o) \/ CheckOtp(r, o) PROVE Local
  <2>1. order' = order /\ invoiced' = invoiced
    BY <1>6 DEF ReadPass, CheckOtp, rows
  <2>2. o \in invoiced
    BY <1>6 DEF ReadPass, CheckOtp, Scannable, SoldIffInvoiced, Sold
  <2>3. \A q \in Requests : seen'[q].order = o \/ (pc'[q] = pc[q] /\ seen'[q] = seen[q])
    BY <1>6 DEF TypeOK, ReadPass, CheckOtp, Goto, Nothing
  <2>4. QED BY <1>1, <2>1, <2>2, <2>3 DEF PickupsInvoiced
<1>7. ASSUME NEW r \in Requests, IssueOtp(r) \/ HandOver(r), NEW o \in Orders, o = seen[r].order
      PROVE  Local
  <2>1. o \in invoiced /\ invoiced' = invoiced /\ Answer(r)
    BY <1>7 DEF IssueOtp, HandOver, PickupsInvoiced
  <2>2. /\ order'[o].status \in {"PICKUP_IN_PROGRESS", "COLLECTED"}
        /\ \A q \in Orders : q # o => order'[q] = order[q]
    BY <1>7 DEF TypeOK, IssueOtp, HandOver
  <2>3. SoldIffInvoiced'
    BY <2>1, <2>2 DEF SoldIffInvoiced, Sold
  <2>4. PickupsInvoiced'
    BY <2>1, AnswerTyped DEF PickupsInvoiced
  <2>5. QED BY <2>2, <2>3, <2>4
<1>8. ASSUME NEW r \in Requests
      PROVE  CommitPayment(r) \/ IssueOtp(r) \/ HandOver(r) => seen[r].order \in Orders
  BY DEF CommitPayment, IssueOtp, HandOver, TypeOK, RequestOK, SeenType
<1>9. ASSUME ExpireOverdueOrders PROVE Local
  <2>1. \A o \in Orders : \/ order'[o] = order[o]
                          \/ order[o].status = "HELD" /\ order'[o].status = "EXPIRED"
    <3> SUFFICES ASSUME NEW o \in Orders
                 PROVE  \/ order'[o] = order[o]
                        \/ order[o].status = "HELD" /\ order'[o].status = "EXPIRED"
      OBVIOUS
    <3>1. CASE Overdue(o)
      <4>1. order'[o] = [order[o] EXCEPT !.status = "EXPIRED"]
        BY <1>9, <3>1 DEF ExpireOverdueOrders
      <4>2. QED BY <3>1, <4>1 DEF TypeOK, OrderType, Overdue
    <3>2. CASE ~Overdue(o)
      BY <1>9, <3>2 DEF ExpireOverdueOrders
    <3>3. QED BY <3>1, <3>2
  <2>2. invoiced' = invoiced /\ pc' = pc /\ seen' = seen
    BY <1>9 DEF ExpireOverdueOrders
  <2>3. QED BY <2>1, <2>2 DEF SoldIffInvoiced, PickupsInvoiced, Sold
<1>10. ASSUME Razorpay \/ Tick \/ UNCHANGED vars PROVE Local
  <2>1. order' = order /\ invoiced' = invoiced /\ pc' = pc /\ seen' = seen
    BY <1>10 DEF Razorpay, Attempt, Refund, Tick, vars, rows
  <2>2. QED BY <1>1, <2>1 DEF PickupsInvoiced
<1> HIDE DEF Local
<1>11. ASSUME NEW r \in Requests, Verify(r) PROVE Local
  BY <1>3, <1>4, <1>5, <1>8, <1>11 DEF Verify
<1>12. ASSUME NEW r \in Requests, Pickup(r) PROVE Local
  BY <1>6, <1>7, <1>8, <1>12 DEF Pickup
<1>13. Local
  BY <1>2, <1>9, <1>10, <1>11, <1>12 DEF Next
<1>14. QED BY <1>13 DEF Local

(* An order is on its way to its buyer exactly when it has been invoiced.   *)
THEOREM SoldCorrect == Spec => []SoldIffInvoiced
<1>1. Init => SoldIffInvoiced /\ PickupsInvoiced
  BY DEF Init, SoldIffInvoiced, PickupsInvoiced, Sold
<1>2. TypeOK /\ SoldIffInvoiced /\ PickupsInvoiced /\ [Next]_vars
        => SoldIffInvoiced' /\ PickupsInvoiced'
  BY OrderStep
<1>3. QED BY <1>1, <1>2, TypeCorrect, PTL DEF Spec

(* And no late verification puts it back to where a pickup begins.          *)
THEOREM PickupCorrect == Spec => PickupNotUndone
<1>1. Init => SoldIffInvoiced /\ PickupsInvoiced
  BY DEF Init, SoldIffInvoiced, PickupsInvoiced, Sold
<1>2. TypeOK /\ SoldIffInvoiced /\ PickupsInvoiced /\ [Next]_vars
        => /\ SoldIffInvoiced' /\ PickupsInvoiced'
           /\ [\A o \in Orders : order[o].status \in Sold =>
                  order'[o].status # "READY_FOR_PICKUP" \/ order'[o] = order[o]]_vars
  BY OrderStep
<1>3. QED BY <1>1, <1>2, TypeCorrect, PTL DEF Spec, PickupNotUndone

----------------------------------------------------------------------------
(* Books                                                                   *)

(* An order is charged once, handlers act on what Razorpay really did, a    *)
(* refund about to be written has found its payment, and a capture about    *)
(* to be marked as processed is in the books.                               *)
OneCapture ==
    \A p, q \in Charges : OrderOf[p] = OrderOf[q] /\ Captured(p) /\ Captured(q) => p = q

Sincere ==
    \A r \in Requests : /\ seen[r].event # None => Sent(seen[r].event)
                        /\ seen[r].charge # None => Captured(seen[r].charge)

RefundKnown ==
    \A r \in Requests : pc[r] = "write" /\ seen[r].event.type = "refund" =>
        payment[OrderOf[seen[r].event.charge]].charge = seen[r].event.charge

MarkBooked ==
    \A r \in Requests : pc[r] = "mark" /\ seen[r].event.type = "captured" =>
        payment[OrderOf[seen[r].event.charge]].charge = seen[r].event.charge

Books == OneCapture /\ Sincere /\ RefundKnown /\ MarkBooked

LEMMA ChargeFrame ==
    ASSUME TypeOK, OneCapture, [Next]_vars
    PROVE  /\ \A p \in Charges : Captured(p) => Captured(p)'
           /\ \A p \in Charges : charge[p] = "REFUNDED" => charge'[p] = "REFUNDED"
           /\ \A e \in Events : Sent(e) => Sent(e)'
           /\ OneCapture'
<1>1. CASE charge' = charge
  BY <1>1 DEF Captured, Sent, OneCapture
<1>2. ASSUME NEW p \in Charges, Attempt(p) \/ Refund(p)
      PROVE  /\ \A q \in Charges : q # p => charge'[q] = charge[q]
             /\ \/ charge[p] = "NONE" /\ charge'[p] \in {"FAILED", "CAPTURED"}
                   /\ \A q \in Charges : OrderOf[q] = OrderOf[p] => ~Captured(q)
                \/ charge[p] = "CAPTURED" /\ charge'[p] = "REFUNDED"
  BY <1>2 DEF TypeOK, Attempt, Refund, Captured
<1>3. CASE Razorpay
  <2>1. PICK p \in Charges : Attempt(p) \/ Refund(p)
    BY <1>3 DEF Razorpay
  <2>2. /\ \A q \in Charges : Captured(q) => Captured(q)'
        /\ \A q \in Charges : charge[q] = "REFUNDED" => charge'[q] = "REFUNDED"
        /\ \A e \in Events : Sent(e) => Sent(e)'
    BY <1>2, <2>1 DEF Captured, Sent, Events
  <2>3. OneCapture'
    BY <1>2, <2>1 DEF OneCapture, Captured
  <2>4. QED BY <2>2, <2>3
<1>4. \A r \in Requests : Webhook(r) \/ Verify(r) \/ Pickup(r) \/ HandlerEnds(r) => charge' = charge
  BY DEF Webhook, ReceiveEvent, InsertEvent, ReadPayment, WritePayment, MarkProcessed, Verify,
         ReadOrder, RejectSignature, CommitPayment, Pickup, ReadPass, CheckOtp, IssueOtp,
         HandOver, HandlerEnds
<1>5. QED BY <1>1, <1>3, <1>4 DEF Next, ExpireOverdueOrders, Tick, vars

(* How a handler comes to a pc, and by what it has then read.               *)
LEMMA HandlerFrame ==
    ASSUME TypeOK, [Next]_vars, NEW q \in Requests
    PROVE  /\ \/ seen'[q] = seen[q]
              \/ seen'[q].event = None /\ seen'[q].charge = None
              \/ \E e \in Events : ReceiveEvent(q, e)
              \/ \E p \in Charges : ReadOrder(q, p)
           /\ pc'[q] = "write" =>
                ReadPayment(q) \/ (pc[q] = "write" /\ seen'[q] = seen[q])
           /\ pc'[q] = "mark" =>
                ReadPayment(q) \/ WritePayment(q) \/ (pc[q] = "mark" /\ seen'[q] = seen[q])
<1> DEFINE Here == \/ pc'[q] = pc[q] /\ seen'[q] = seen[q]
                   \/ /\ pc'[q] \notin {"write", "mark"}
                      /\ seen'[q].event = None /\ seen'[q].charge = None
           Handler(r) == Webhook(r) \/ Verify(r) \/ Pickup(r) \/ HandlerEnds(r)
<1>1. ASSUME NEW r \in Requests, r # q, Handler(r) PROVE Here
  BY <1>1 DEF TypeOK, Webhook, ReceiveEvent, InsertEvent, ReadPayment, WritePayment,
              MarkProcessed, Verify, ReadOrder, RejectSignature, CommitPayment, Pickup, ReadPass,
              CheckOtp, IssueOtp, HandOver, HandlerEnds, Answer, Goto
<1>2. ASSUME MarkProcessed(q) \/ RejectSignature(q) \/ CommitPayment(q) \/ IssueOtp(q)
                \/ HandOver(q) \/ HandlerEnds(q)
      PROVE  Here
  <2>1. Answer(q)
    BY <1>2 DEF MarkProcessed, RejectSignature, CommitPayment, IssueOtp, HandOver, HandlerEnds
  <2>2. QED BY <2>1, AnswerTyped DEF Nothing
<1>3. ASSUME NEW o \in Orders, ReadPass(q, o) \/ CheckOtp(q, o) PROVE Here
  BY <1>3 DEF TypeOK, ReadPass, CheckOtp, Goto, Nothing
<1>4. ASSUME NEW e \in Events, ReceiveEvent(q, e) PROVE pc'[q] \notin {"write", "mark"}
  BY <1>4 DEF TypeOK, ReceiveEvent, Goto
<1>5. ASSUME NEW p \in Charges, ReadOrder(q, p) PROVE pc'[q] \notin {"write", "mark"}
  BY <1>5 DEF TypeOK, ReadOrder, Goto
<1>6. ASSUME InsertEvent(q)
      PROVE  /\ pc'[q] \notin {"write", "mark"}
             /\ seen'[q] = seen[q] \/ (seen'[q].event = None /\ seen'[q].charge = None)
  BY <1>6 DEF TypeOK, InsertEvent, Answer, Goto, Nothing
<1>7. ASSUME ReadPayment(q) \/ WritePayment(q)
      PROVE  seen'[q] = seen[q] /\ (WritePayment(q) => pc'[q] = "mark")
  BY <1>7 DEF TypeOK, ReadPayment, WritePayment, Goto
<1>8. ASSUME Razorpay \/ ExpireOverdueOrders \/ Tick \/ UNCHANGED vars PROVE Here
  BY <1>8 DEF Razorpay, Attempt, Refund, ExpireOverdueOrders, Tick, vars
<1>9. Here => \/ pc'[q] = pc[q] /\ seen'[q] = seen[q]
              \/ /\ pc'[q] \notin {"write", "mark"}
                 /\ seen'[q].event = None /\ seen'[q].charge = None
  OBVIOUS
<1>10. Handler(q) =>
          \/ MarkProcessed(q) \/ RejectSignature(q) \/ CommitPayment(q) \/ IssueOtp(q)
          \/ HandOver(q) \/ HandlerEnds(q) \/ InsertEvent(q) \/ ReadPayment(q) \/ WritePayment(q)
          \/ \E o \in Orders : ReadPass(q, o) \/ CheckOtp(q, o)
          \/ \E e \in Events : ReceiveEvent(q, e)
          \/ \E p \in Charges : ReadOrder(q, p)
  BY DEF Webhook, Verify, Pickup
<1>11. (\E r \in Requests : Handler(r)) \/ Razorpay \/ ExpireOverdueOrders \/ Tick \/ UNCHANGED vars
  BY DEF Next
<1> HIDE DEF Here, Handler
<1>12. QED
  BY <1>1, <1>2, <1>3, <1>4, <1>5, <1>6, <1>7, <1>8, <1>9, <1>10, <1>11

(* What may become of a Payment row.                                        *)
LEMMA PaymentFrame ==
    ASSUME TypeOK, Sincere, RefundKnown, [Next]_vars, NEW o \in Orders
    PROVE  \/ payment'[o] = payment[o]
           \/ \E p \in Charges : /\ Captured(p) /\ OrderOf[p] = o
                                 /\ payment'[o] = [status |-> "CAPTURED", charge |-> p]
           \/ payment'[o] = [status |-> "FAILED", charge |-> payment[o].charge]
           \/ /\ payment[o].charge # None /\ charge[payment[o].charge] = "REFUNDED"
              /\ payment'[o] = [status |-> "REFUNDED", charge |-> payment[o].charge]
<1> DEFINE Local ==
        \/ payment'[o] = payment[o]
        \/ \E p \in Charges : /\ Captured(p) /\ OrderOf[p] = o
                              /\ payment'[o] = [status |-> "CAPTURED", charge |-> p]
        \/ payment'[o] = [status |-> "FAILED", charge |-> payment[o].charge]
        \/ /\ payment[o].charge # None /\ charge[payment[o].charge] = "REFUNDED"
           /\ payment'[o] = [status |-> "REFUNDED", charge |-> payment[o].charge]
<1>1. ASSUME NEW r \in Requests, WritePayment(r), NEW e, e = seen[r].event PROVE Local
  <2>1. /\ e \in Events /\ e.charge \in Charges /\ OrderOf[e.charge] \in Orders /\ Sent(e)
        /\ e.charge # None
        /\ e.type = "refund" => payment[OrderOf[e.charge]].charge = e.charge
    BY <1>1, SettlementAssumption
    DEF TypeOK, RequestOK, SeenType, Events, WritePayment, Sincere, RefundKnown
  <2>2. CASE OrderOf[e.charge] # o
    BY <1>1, <2>1, <2>2 DEF TypeOK, WritePayment, SetPayment
  <2>3. CASE OrderOf[e.charge] = o
    <3>1. CASE e.type = "captured"
      BY <1>1, <2>1, <2>3, <3>1 DEF TypeOK, WritePayment, SetPayment, Sent
    <3>2. CASE e.type = "failed"
      BY <1>1, <2>1, <2>3, <3>2 DEF TypeOK, WritePayment, SetPayment
    <3>3. CASE e.type = "refund"
      BY <1>1, <2>1, <2>3, <3>3 DEF TypeOK, WritePayment, SetPayment, Sent
    <3>4. e.type \in {"captured", "failed", "refund"}
      BY <1>1 DEF WritePayment
    <3>5. QED BY <3>1, <3>2, <3>3, <3>4
  <2>4. QED BY <2>2, <2>3
<1>2. ASSUME NEW r \in Requests, RejectSignature(r) PROVE Local
  BY <1>2 DEF TypeOK, RejectSignature, SetPayment
<1>3. ASSUME NEW r \in Requests, CommitPayment(r) PROVE Local
  <2>1. /\ seen[r].charge \in Charges /\ Captured(seen[r].charge)
        /\ OrderOf[seen[r].charge] = seen[r].order
    BY <1>3 DEF TypeOK, RequestOK, SeenType, CommitPayment, Sincere
  <2>2. QED BY <1>3, <2>1 DEF TypeOK, CommitPayment, SetPayment
<1>4. ASSUME payment' = payment PROVE Local
  BY <1>4
<1>5. ASSUME NEW r \in Requests, Webhook(r) \/ Verify(r) \/ Pickup(r) \/ HandlerEnds(r)
      PROVE  payment' = payment \/ WritePayment(r) \/ RejectSignature(r) \/ CommitPayment(r)
  BY <1>5 DEF Webhook, ReceiveEvent, InsertEvent, ReadPayment, MarkProcessed, Verify, ReadOrder,
              Pickup, ReadPass, CheckOtp, IssueOtp, HandOver, HandlerEnds, rows
<1>6. ASSUME Razorpay \/ ExpireOverdueOrders \/ Tick \/ UNCHANGED vars PROVE payment' = payment
  BY <1>6 DEF Razorpay, Attempt, Refund, ExpireOverdueOrders, Tick, vars, rows
<1> HIDE DEF Local
<1>7. Local
  BY <1>1, <1>2, <1>3, <1>4, <1>5, <1>6 DEF Next
<1>8. QED BY <1>7 DEF Local

LEMMA BooksStep ==
    ASSUME TypeOK, Books, BooksMatchCharge, [Next]_vars
    PROVE  /\ BooksMatchCharge'
           /\ \A o \in Orders : payment[o].charge # None => payment'[o].charge = payment[o].charge
<1> USE DEF Books
<1>1. ASSUME NEW o \in Orders
      PROVE  /\ payment'[o].charge # None =>
                  /\ Captured(payment'[o].charge) /\ OrderOf[payment'[o].charge] = o
                  /\ payment'[o].charge \in Charges
             /\ payment'[o].status \in {"CAPTURED", "REFUNDED"} => payment'[o].charge # None
             /\ payment'[o].status = "REFUNDED" =>
                  charge[payment'[o].charge] = "REFUNDED"
             /\ payment[o].charge # None => payment'[o].charge = payment[o].charge
  <2> DEFINE row == payment'[o]
  <2>0. \/ row = payment[o]
        \/ \E p \in Charges : /\ Captured(p) /\ OrderOf[p] = o
                              /\ row = [status |-> "CAPTURED", charge |-> p]
        \/ row = [status |-> "FAILED", charge |-> payment[o].charge]
        \/ /\ payment[o].charge # None /\ charge[payment[o].charge] = "REFUNDED"
           /\ row = [status |-> "REFUNDED", charge |-> payment[o].charge]
    BY PaymentFrame
  <2> HIDE DEF row
  <2>1. CASE row.charge = payment[o].charge
    <3>1. /\ row.status \in {"CAPTURED", "REFUNDED"} => row.charge # None
          /\ row.status = "REFUNDED" => charge[row.charge] = "REFUNDED"
      BY <2>0, <2>1, SettlementAssumption DEF BooksMatchCharge
    <3>2. QED BY <2>1, <3>1 DEF BooksMatchCharge, TypeOK, PaymentType, row
  <2>2. ASSUME NEW p \in Charges, Captured(p), OrderOf[p] = o,
               row = [status |-> "CAPTURED", charge |-> p]
        PROVE  row.charge = p /\ p # None /\ row.status = "CAPTURED"
                  /\ (payment[o].charge # None => payment[o].charge = p)
    <3>1. p # None
      BY SettlementAssumption
    <3>2. payment[o].charge # None => payment[o].charge = p
      BY <2>2 DEF OneCapture, BooksMatchCharge, TypeOK, PaymentType
    <3>3. QED BY <2>2, <3>1, <3>2
  <2>3. CASE row.charge # payment[o].charge
    <3>1. PICK p \in Charges : /\ Captured(p) /\ OrderOf[p] = o
                              /\ row = [status |-> "CAPTURED", charge |-> p]
      BY <2>0, <2>3
    <3>2. QED BY <2>2, <3>1 DEF row
  <2>4. QED BY <2>1, <2>3
<1>2. ASSUME NEW o \in Orders, payment'[o].charge # None
      PROVE  /\ charge'[payment'[o].charge] \in {"CAPTURED", "REFUNDED"}
             /\ payment'[o].status = "REFUNDED" => charge'[payment'[o].charge] = "REFUNDED"
  <2>1. PICK p : p = payment'[o].charge
    OBVIOUS
  <2>2. /\ Captured(p) /\ p \in Charges
        /\ payment'[o].status = "REFUNDED" => charge[p] = "REFUNDED"
    BY <1>1, <1>2, <2>1
  <2>3. QED BY <2>1, <2>2, ChargeFrame DEF Captured
<1>3. ASSUME NEW o \in Orders, o \in invoiced' PROVE payment'[o].charge # None
  <2>1. CASE o \in invoiced
    BY <1>1, <2>1 DEF BooksMatchCharge
  <2>2. ASSUME NEW r \in Requests, CommitPayment(r), o \notin invoiced
        PROVE  payment'[o].charge # None
    <3>1. o = seen[r].order /\ seen[r].charge # None
      BY <1>3, <2>2 DEF CommitPayment
    <3>2. payment'[o] = [status |-> "CAPTURED", charge |-> seen[r].charge]
      BY <2>2, <3>1 DEF TypeOK, CommitPayment, SetPayment
    <3>3. QED BY <3>1, <3>2
  <2>3. ASSUME NEW r \in Requests, Webhook(r) \/ Verify(r) \/ Pickup(r) \/ HandlerEnds(r)
        PROVE  invoiced' = invoiced \/ CommitPayment(r)
    BY <2>3 DEF Webhook, ReceiveEvent, InsertEvent, ReadPayment, WritePayment, MarkProcessed,
                Verify, ReadOrder, RejectSignature, Pickup, ReadPass, CheckOtp, IssueOtp, HandOver,
                HandlerEnds, rows
  <2>4. CASE Razorpay \/ ExpireOverdueOrders \/ Tick \/ UNCHANGED vars
    BY <1>3, <2>1, <2>4 DEF Razorpay, Attempt, Refund, ExpireOverdueOrders, Tick, vars, rows
  <2>5. QED BY <1>3, <2>1, <2>2, <2>3, <2>4 DEF Next
<1>4. QED
  <2>1. ASSUME NEW o \in Orders, NEW p, p = payment'[o].charge
        PROVE  /\ p # None => charge'[p] \in {"CAPTURED", "REFUNDED"} /\ OrderOf[p] = o
               /\ payment'[o].status \in {"CAPTURED", "REFUNDED"} \/ o \in invoiced' => p # None
               /\ payment'[o].status = "REFUNDED" => charge'[p] = "REFUNDED"
    BY <1>1, <1>2, <1>3, <2>1
  <2>2. QED BY <1>1, <2>1 DEF BooksMatchCharge, Captured

LEMMA BooksInductive ==
    ASSUME TypeOK, Books, BooksMatchCharge, ProcessedIsBooked, [Next]_vars
    PROVE  Books' /\ ProcessedIsBooked'
<1> USE DEF Books
<1>1. OneCapture'
  BY ChargeFrame
<1>2. ASSUME NEW q \in Requests, NEW e, e = seen'[q].event, e # None PROVE Sent(e)'
  <2>1. ASSUME NEW f \in Events, ReceiveEvent(q, f) PROVE f = e /\ Sent(f)
    BY <1>2, <2>1 DEF TypeOK, ReceiveEvent, Goto, Nothing
  <2>2. ASSUME NEW p \in Charges, ReadOrder(q, p) PROVE FALSE
    BY <1>2, <2>2 DEF TypeOK, ReadOrder, Goto
  <2>3. CASE seen'[q] = seen[q]
    BY <1>2, <2>3, ChargeFrame DEF Sincere, TypeOK, SeenType
  <2>4. QED BY <1>2, <2>1, <2>2, <2>3, HandlerFrame, ChargeFrame
<1>3. ASSUME NEW q \in Requests, NEW c, c = seen'[q].charge, c # None PROVE Captured(c)'
  <2>1. ASSUME NEW f \in Events, ReceiveEvent(q, f) PROVE FALSE
    BY <1>3, <2>1 DEF TypeOK, ReceiveEvent, Goto, Nothing
  <2>2. ASSUME NEW p \in Charges, ReadOrder(q, p) PROVE c = p /\ Captured(p)
    BY <1>3, <2>2 DEF TypeOK, ReadOrder, Goto
  <2>3. CASE seen'[q] = seen[q]
    BY <1>3, <2>3, ChargeFrame DEF Sincere, TypeOK, SeenType
  <2>4. QED BY <1>3, <2>1, <2>2, <2>3, HandlerFrame, ChargeFrame
<1>4. Sincere'
  <2>1. ASSUME NEW q \in Requests, NEW e, e = seen'[q].event, NEW c, c = seen'[q].charge
        PROVE  (e # None => Sent(e)') /\ (c # None => Captured(c)')
    BY <1>2, <1>3, <2>1
  <2>2. QED BY <2>1 DEF Sincere, Sent, Captured
<1>5. ASSUME NEW q \in Requests, pc[q] \in InWebhook, NEW e, e = seen[q].event
      PROVE  e \in Events /\ e.charge \in Charges /\ OrderOf[e.charge] \in Orders
  BY <1>5, SettlementAssumption DEF TypeOK, RequestOK, SeenType, Events, InWebhook
<1>6. ASSUME NEW q \in Requests, pc'[q] = "write", NEW e, e = seen'[q].event, e.type = "refund"
      PROVE  payment'[OrderOf[e.charge]].charge = e.charge
  <2>1. /\ pc[q] \in {"process", "write"} /\ seen'[q] = seen[q]
        /\ pc[q] = "process" => ReadPayment(q)
    BY <1>6, HandlerFrame DEF TypeOK, ReadPayment, Goto
  <2>2. e.charge \in Charges /\ OrderOf[e.charge] \in Orders /\ e.charge # None
    BY <1>5, <1>6, <2>1, SettlementAssumption DEF InWebhook
  <2>3. payment[OrderOf[e.charge]].charge = e.charge
    <3>1. CASE pc[q] = "write"
      BY <1>6, <2>1, <3>1 DEF RefundKnown
    <3>2. CASE ReadPayment(q)
      BY <1>6, <2>1, <2>2, <3>2 DEF TypeOK, ReadPayment, ToWrite, Goto
    <3>3. QED BY <2>1, <3>1, <3>2
  <2>4. QED BY <2>2, <2>3, BooksStep
<1>7. RefundKnown'
  BY <1>6 DEF RefundKnown
<1>8. ASSUME NEW q \in Requests, pc'[q] = "mark", NEW e, e = seen'[q].event, e.type = "captured"
      PROVE  payment'[OrderOf[e.charge]].charge = e.charge
  <2>1. /\ pc[q] \in {"process", "write", "mark"} /\ seen'[q] = seen[q]
        /\ pc[q] = "process" => ReadPayment(q)
        /\ pc[q] = "write" => WritePayment(q)
    BY <1>8, HandlerFrame DEF TypeOK, ReadPayment, WritePayment, Goto
  <2>2. /\ e.charge \in Charges /\ OrderOf[e.charge] \in Orders /\ e.charge # None
        /\ e # None
    BY <1>5, <1>8, <2>1, SettlementAssumption DEF InWebhook
  <2>3. CASE pc[q] = "mark"
    <3>1. payment[OrderOf[e.charge]].charge = e.charge
      BY <1>8, <2>1, <2>3 DEF MarkBooked
    <3>2. QED BY <2>2, <3>1, BooksStep
  <2>4. CASE ReadPayment(q)
    <3>1. payment[OrderOf[e.charge]].status = "CAPTURED"
      BY <1>8, <2>1, <2>4 DEF TypeOK, ReadPayment, ToWrite, Goto
    <3>2. /\ payment[OrderOf[e.charge]].charge \in Charges
          /\ Captured(payment[OrderOf[e.charge]].charge)
          /\ OrderOf[payment[OrderOf[e.charge]].charge] = OrderOf[e.charge]
      BY <2>2, <3>1 DEF BooksMatchCharge, TypeOK, PaymentType
    <3>3. Captured(e.charge)
      BY <1>8, <2>1, <2>2 DEF Sincere, Sent
    <3>4. payment[OrderOf[e.charge]].charge = e.charge
      BY <2>2, <3>2, <3>3 DEF OneCapture
    <3>5. QED BY <2>2, <3>4, BooksStep
  <2>5. CASE WritePayment(q)
    <3>1. SetPayment(OrderOf[e.charge], "CAPTURED", e.charge)
      BY <1>8, <2>1, <2>5 DEF WritePayment
    <3>2. payment'[OrderOf[e.charge]] = [status |-> "CAPTURED", charge |-> e.charge]
      BY <2>2, <3>1 DEF TypeOK, SetPayment
    <3>3. QED BY <3>2
  <2>6. QED BY <2>1, <2>3, <2>4, <2>5
<1>9. MarkBooked'
  BY <1>8 DEF MarkBooked
<1>10. ASSUME NEW p \in Charges, NEW e, e = Capture(p), OwnId(e), NEW i, i = EventId[e],
              inbox'[i] = "PROCESSED"
       PROVE  payment'[OrderOf[p]].charge = p
  <2>1. /\ e \in Events /\ i \in EventIds /\ OrderOf[p] \in Orders /\ p # None
        /\ e.type = "captured" /\ e.charge = p
    BY <1>10, SettlementAssumption DEF Events, Capture
  <2>2. ASSUME NEW r \in Requests, MarkProcessed(r), e = seen[r].event
        PROVE  payment[OrderOf[p]].charge = p
    BY <2>1, <2>2 DEF MarkProcessed, MarkBooked
  <2>3. ASSUME inbox[i] = "PROCESSED" PROVE payment[OrderOf[p]].charge = p
    BY <1>10, <2>3 DEF ProcessedIsBooked
  <2>4. ASSUME NEW r \in Requests, MarkProcessed(r) \/ InsertEvent(r), inbox[i] # "PROCESSED"
        PROVE  MarkProcessed(r) /\ e = seen[r].event
    <3>1. /\ pc[r] \in InWebhook
          /\ MarkProcessed(r) => inbox' = [inbox EXCEPT ![EventId[seen[r].event]] = "PROCESSED"]
          /\ InsertEvent(r) => \/ inbox' = inbox
                               \/ inbox' = [inbox EXCEPT ![EventId[seen[r].event]] = "RECEIVED"]
      BY <2>4 DEF MarkProcessed, InsertEvent, InWebhook
    <3>2. PICK f \in Events : f = seen[r].event
      BY <1>5, <3>1
    <3>3. EventId[f] = i /\ MarkProcessed(r)
      BY <1>10, <2>1, <2>4, <3>1, <3>2 DEF TypeOK
    <3>4. QED BY <1>10, <3>2, <3>3 DEF OwnId
  <2>5. \/ inbox' = inbox
        \/ \E r \in Requests : MarkProcessed(r) \/ InsertEvent(r)
    <3>1. ASSUME NEW r \in Requests, Webhook(r) \/ Verify(r) \/ Pickup(r) \/ HandlerEnds(r)
          PROVE  inbox' = inbox \/ MarkProcessed(r) \/ InsertEvent(r)
      BY <3>1 DEF Webhook, ReceiveEvent, ReadPayment, WritePayment, Verify, ReadOrder,
                  RejectSignature, CommitPayment, Pickup, ReadPass, CheckOtp, IssueOtp,
                  HandOver, HandlerEnds, rows
    <3>2. ASSUME Razorpay \/ ExpireOverdueOrders \/ Tick \/ UNCHANGED vars PROVE inbox' = inbox
      BY <3>2 DEF Razorpay, Attempt, Refund, ExpireOverdueOrders, Tick, vars, rows
    <3>3. QED BY <3>1, <3>2 DEF Next
  <2>6. payment[OrderOf[p]].charge = p
    BY <1>10, <2>2, <2>3, <2>4, <2>5
  <2>7. QED BY <2>1, <2>6, BooksStep
<1>11. ProcessedIsBooked'
  BY <1>10 DEF ProcessedIsBooked, OwnId, Capture
<1>12. QED BY <1>1, <1>4, <1>7, <1>9, <1>11

LEMMA BooksInit == Init => Books /\ BooksMatchCharge /\ ProcessedIsBooked
<1> SUFFICES ASSUME Init PROVE Books /\ BooksMatchCharge /\ ProcessedIsBooked
  OBVIOUS
<1>1. Books
  BY DEF Init, Books, OneCapture, Captured, Sincere, Nothing, RefundKnown, MarkBooked
<1>2. BooksMatchCharge
  BY DEF Init, BooksMatchCharge
<1>3. ProcessedIsBooked
  BY SettlementAssumption DEF Init, ProcessedIsBooked, Events, Capture
<1>4. QED BY <1>1, <1>2, <1>3

(* The books name the attempt that was charged, whoever told them and in    *)
(* whatever order.                                                          *)
THEOREM BooksCorrect == Spec => []BooksMatchCharge
<1>1. TypeOK /\ Books /\ BooksMatchCharge /\ ProcessedIsBooked /\ [Next]_vars
        => Books' /\ BooksMatchCharge' /\ ProcessedIsBooked'
  BY BooksStep, BooksInductive
<1>2. QED BY <1>1, BooksInit, TypeCorrect, PTL DEF Spec

(* A capture whose event id is its own is in the books once it was marked   *)
(* as processed, whichever ids all other events share.                      *)
THEOREM InboxCorrect == Spec => []ProcessedIsBooked
<1>1. TypeOK /\ Books /\ BooksMatchCharge /\ ProcessedIsBooked /\ [Next]_vars
        => Books' /\ BooksMatchCharge' /\ ProcessedIsBooked'
  BY BooksStep, BooksInductive
<1>2. QED BY <1>1, BooksInit, TypeCorrect, PTL DEF Spec

(* README.md:270-271: it is events that share an id, and nothing else, that *)
(* make the webhook drop a capture as a replay of something else.           *)
THEOREM DroppedCorrect ==
    ASSUME \A p \in Charges : OwnId(Capture(p))
    PROVE  Spec => []OnlyReplaysDropped
<1>1. ProcessedIsBooked => OnlyReplaysDropped
  BY DEF ProcessedIsBooked, OnlyReplaysDropped
<1>2. QED BY <1>1, InboxCorrect, PTL

----------------------------------------------------------------------------
(* Where the two documented promises go wrong                              *)

(* A scan finds its order still scannable when it writes the OTP.           *)
ScansInTime == \A r \in Requests : IssueOtp(r) => Scannable(seen[r].order)

(* How a step changes an order.                                             *)
LEMMA OrderFrame ==
    ASSUME TypeOK, [Next]_vars, NEW o \in Orders
    PROVE  \/ order'[o] = order[o]
           \/ \E r \in Requests : CommitPayment(r) /\ o = seen[r].order
           \/ \E r \in Requests : IssueOtp(r) /\ o = seen[r].order
           \/ order'[o].status = "COLLECTED"
           \/ ExpireOverdueOrders /\ Overdue(o)
<1>1. ASSUME NEW r \in Requests, CommitPayment(r) \/ IssueOtp(r)
      PROVE  order'[o] = order[o] \/ o = seen[r].order
  BY <1>1 DEF TypeOK, CommitPayment, IssueOtp
<1>2. ASSUME NEW r \in Requests, HandOver(r)
      PROVE  order'[o] = order[o] \/ order'[o].status = "COLLECTED"
  BY <1>2 DEF TypeOK, HandOver
<1>3. ASSUME NEW r \in Requests, Webhook(r) \/ Verify(r) \/ Pickup(r) \/ HandlerEnds(r)
      PROVE  order' = order \/ CommitPayment(r) \/ IssueOtp(r) \/ HandOver(r)
  BY <1>3 DEF Webhook, ReceiveEvent, InsertEvent, ReadPayment, WritePayment, MarkProcessed, Verify,
              ReadOrder, RejectSignature, Pickup, ReadPass, CheckOtp, HandlerEnds, rows
<1>4. CASE ExpireOverdueOrders
  <2>1. CASE Overdue(o)
    BY <1>4, <2>1
  <2>2. CASE ~Overdue(o)
    BY <1>4, <2>2 DEF ExpireOverdueOrders
  <2>3. QED BY <2>1, <2>2
<1>5. CASE Razorpay \/ Tick \/ UNCHANGED vars
  BY <1>5 DEF Razorpay, Attempt, Refund, Tick, vars, rows
<1>6. QED BY <1>1, <1>2, <1>3, <1>4, <1>5 DEF Next

(* pickup.service.ts:55-57: nothing but a scan that writes what it read too *)
(* long ago reopens a collected order; no verification, no expiry and no    *)
(* second handover does.                                                    *)
THEOREM CollectedCorrect == Spec /\ [][ScansInTime]_vars => CollectedIsFinal
<1>1. Init => SoldIffInvoiced /\ PickupsInvoiced
  BY DEF Init, SoldIffInvoiced, PickupsInvoiced, Sold
<1>2. TypeOK /\ SoldIffInvoiced /\ PickupsInvoiced /\ [Next]_vars
        => SoldIffInvoiced' /\ PickupsInvoiced'
  BY OrderStep
<1>3. TypeOK /\ SoldIffInvoiced /\ [Next]_vars /\ [ScansInTime]_vars
        => [\A o \in Orders : order[o].status = "COLLECTED" => order'[o].status = "COLLECTED"]_vars
  <2> SUFFICES ASSUME TypeOK, SoldIffInvoiced, [Next]_vars, [ScansInTime]_vars, vars' # vars,
                      NEW o \in Orders, order[o].status = "COLLECTED"
               PROVE  order'[o].status = "COLLECTED"
    OBVIOUS
  <2>1. ASSUME NEW r \in Requests, CommitPayment(r), o = seen[r].order PROVE FALSE
    BY <2>1 DEF CommitPayment, SoldIffInvoiced, Sold
  <2>2. ASSUME NEW r \in Requests, IssueOtp(r), o = seen[r].order PROVE FALSE
    BY <2>2 DEF ScansInTime, Scannable
  <2>3. QED BY <2>1, <2>2, OrderFrame DEF Overdue
<1>4. QED BY <1>1, <1>2, <1>3, TypeCorrect, PTL DEF Spec, CollectedIsFinal

(* The webhook books a capture only once verification has sold the order.   *)
CapturesFollowSale ==
    \A r \in Requests : WritePayment(r) /\ seen[r].event.type = "captured" =>
        OrderOf[seen[r].event.charge] \in invoiced

CapturedSold == \A o \in Orders : payment[o].status = "CAPTURED" => o \in invoiced

LEMMA CapturedStep ==
    ASSUME TypeOK, CapturedSold, [Next]_vars, CapturesFollowSale
    PROVE  CapturedSold'
<1> SUFFICES ASSUME NEW o \in Orders, payment'[o].status = "CAPTURED" PROVE o \in invoiced'
  BY DEF CapturedSold
<1>1. invoiced \subseteq invoiced'
  BY DEF Next, Webhook, ReceiveEvent, InsertEvent, ReadPayment, WritePayment, MarkProcessed, Verify,
         ReadOrder, RejectSignature, CommitPayment, Pickup, ReadPass, CheckOtp, IssueOtp, HandOver,
         HandlerEnds, Razorpay, Attempt, Refund, ExpireOverdueOrders, Tick, vars, rows
<1>2. ASSUME NEW r \in Requests, WritePayment(r), NEW e, e = seen[r].event
      PROVE  payment'[o] = payment[o] \/ o \in invoiced
  <2>1. e \in Events
    BY <1>2 DEF TypeOK, RequestOK, SeenType, WritePayment
  <2>2. CASE OrderOf[e.charge] # o
    BY <1>2, <2>2 DEF TypeOK, WritePayment, SetPayment
  <2>3. CASE OrderOf[e.charge] = o /\ e.type # "captured"
    BY <1>2, <2>1, <2>3 DEF TypeOK, WritePayment, SetPayment
  <2>4. CASE OrderOf[e.charge] = o /\ e.type = "captured"
    BY <1>2, <2>4 DEF CapturesFollowSale
  <2>5. QED BY <2>2, <2>3, <2>4
<1>3. ASSUME NEW r \in Requests, RejectSignature(r) PROVE payment'[o] = payment[o]
  BY <1>3 DEF TypeOK, RejectSignature, SetPayment
<1>4. ASSUME NEW r \in Requests, CommitPayment(r)
      PROVE  payment'[o] = payment[o] \/ o \in invoiced'
  BY <1>4 DEF TypeOK, CommitPayment, SetPayment
<1>5. ASSUME NEW r \in Requests, Webhook(r) \/ Verify(r) \/ Pickup(r) \/ HandlerEnds(r)
      PROVE  payment' = payment \/ WritePayment(r) \/ RejectSignature(r) \/ CommitPayment(r)
  BY <1>5 DEF Webhook, ReceiveEvent, InsertEvent, ReadPayment, MarkProcessed, Verify, ReadOrder,
              Pickup, ReadPass, CheckOtp, IssueOtp, HandOver, HandlerEnds, rows
<1>6. CASE Razorpay \/ ExpireOverdueOrders \/ Tick \/ UNCHANGED vars
  BY <1>6 DEF Razorpay, Attempt, Refund, ExpireOverdueOrders, Tick, vars, rows, CapturedSold
<1>7. payment'[o] = payment[o] \/ o \in invoiced \/ o \in invoiced'
  BY <1>2, <1>3, <1>4, <1>5, <1>6 DEF Next
<1>8. QED BY <1>1, <1>7 DEF CapturedSold

(* orders.service.ts:358: the job never expires a paid order, were it not   *)
(* for captures that the webhook books before verification has run.         *)
THEOREM ExpiresCorrect == Spec /\ [][CapturesFollowSale]_vars => ExpiresUnpaidOnly
<1>1. Init => SoldIffInvoiced /\ PickupsInvoiced /\ CapturedSold
  BY DEF Init, SoldIffInvoiced, PickupsInvoiced, CapturedSold, Sold
<1>2. TypeOK /\ SoldIffInvoiced /\ PickupsInvoiced /\ CapturedSold /\ [Next]_vars
             /\ [CapturesFollowSale]_vars
        => SoldIffInvoiced' /\ PickupsInvoiced' /\ CapturedSold'
  <2>1. CapturedSold /\ UNCHANGED vars => CapturedSold'
    BY DEF CapturedSold, vars, rows
  <2>2. QED BY <2>1, OrderStep, CapturedStep
<1>3. TypeOK /\ SoldIffInvoiced /\ CapturedSold /\ [Next]_vars
        => [\A o \in Orders : order[o].status # "EXPIRED" /\ order'[o].status = "EXPIRED" =>
              payment[o].status # "CAPTURED"]_vars
  <2> SUFFICES ASSUME TypeOK, SoldIffInvoiced, CapturedSold, [Next]_vars, NEW o \in Orders,
                      order[o].status # "EXPIRED", order'[o].status = "EXPIRED",
                      payment[o].status = "CAPTURED"
               PROVE  FALSE
    OBVIOUS
  <2>1. order[o].status \in Sold
    BY DEF CapturedSold, SoldIffInvoiced
  <2>2. ASSUME NEW r \in Requests, CommitPayment(r) \/ IssueOtp(r) PROVE order'[o].status # "EXPIRED"
    BY <2>2 DEF TypeOK, CommitPayment, IssueOtp, OrderType
  <2>3. QED BY <2>1, <2>2, OrderFrame DEF Overdue, Sold
<1>4. QED BY <1>1, <1>2, <1>3, TypeCorrect, PTL DEF Spec, ExpiresUnpaidOnly
=============================================================================
