---------------------------- MODULE Procurement ----------------------------
(***************************************************************************)
(* Requests for quotation (rfqs.service.ts): a dealer posts one, banks     *)
(* answer it with quotes, the dealer accepts a quote.                      *)
(*                                                                         *)
(* respond and acceptResponse read the request's row, check it, await, and *)
(* write it by id. No code sets the statuses DRAFT, CLOSED, EXPIRED and    *)
(* FULFILLED: what ends a request is its closing day.                      *)
(***************************************************************************)
EXTENDS Integers, FiniteSets

CONSTANTS
    Customers,      \* users that may call create
    Wholesale,      \* those of tier DEALER or ENTERPRISE
    Rfqs,           \* request ids
    Quotes,         \* ids of RfqResponse rows (bound)
    RfqSlots,       \* slots for handlers in flight (bound)
    ClosingDays,    \* closesAt as posted; NoDay for none
    LastDay,        \* bound on the calendar
    NoDay,
    NoOne           \* no row, no quote, no user

ASSUME ProcurementAssumption ==
    /\ Wholesale \subseteq Customers
    /\ ClosingDays \subseteq Nat \cup {NoDay}
    /\ NoDay \notin Nat
    /\ LastDay \in Nat
    /\ NoOne \notin Customers \cup Rfqs \cup Quotes

VARIABLES
    today,
    rfq,        \* Rfq rows, NoRfq where there is none
    quote,      \* RfqResponse rows: the request each answers, NoOne if there is none
    stage,      \* where each handler is
    draft       \* what it has read

procurementVars == <<today, rfq, quote, stage, draft>>

RfqStatuses == {"DRAFT", "OPEN", "RESPONDED", "ACCEPTED", "FULFILLED", "CLOSED", "EXPIRED"}

RfqType == [buyer    : Customers,
            closesAt : Nat \cup {NoDay},
            status   : RfqStatuses,
            accepted : Quotes \cup {NoOne}]     \* acceptedResponseId

NoRfq == [buyer |-> NoOne, closesAt |-> NoDay, status |-> "DRAFT", accepted |-> NoOne]

DraftType == [rfq : Rfqs \cup {NoOne}, quote : Quotes \cup {NoOne}]

Blank == [rfq |-> NoOne, quote |-> NoOne]

ProcurementInit ==
    /\ today = 0
    /\ rfq = [q \in Rfqs |-> NoRfq]
    /\ quote = [a \in Quotes |-> NoOne]
    /\ stage = [h \in RfqSlots |-> "idle"]
    /\ draft = [h \in RfqSlots |-> Blank]

Proceed(h, s, d) ==
    /\ stage' = [stage EXCEPT ![h] = s]
    /\ draft' = [draft EXCEPT ![h] = d]

Finish(h) == Proceed(h, "idle", Blank)

(* create: retail buyers may not.                                           *)
PostRfq(q, u, closesAt) ==
    /\ u \in Wholesale
    /\ rfq[q] = NoRfq
    /\ rfq' = [rfq EXCEPT ![q] = [buyer |-> u, closesAt |-> closesAt, status |-> "OPEN",
                                  accepted |-> NoOne]]
    /\ UNCHANGED <<today, quote, stage, draft>>

(* Mutant: closesAt is not looked at.                                       *)
TakesLateQuotes(q) == rfq[q] # NoRfq /\ rfq[q].status \notin {"CLOSED", "EXPIRED"}

TakesQuotes(q) ==
    /\ rfq[q] # NoRfq
    /\ rfq[q].status \notin {"CLOSED", "EXPIRED"}
    /\ rfq[q].closesAt # NoDay => today <= rfq[q].closesAt

(* respond finds the request open, ...                                      *)
ReadForQuote(h, q) ==
    /\ stage[h] = "idle" /\ TakesQuotes(q)
    /\ Proceed(h, "quote", [rfq |-> q, quote |-> NoOne])
    /\ UNCHANGED <<today, rfq, quote>>

(* ... then commits the quote and the status, accepted request or not.      *)
CommitQuote(h, a) ==
    /\ stage[h] = "quote" /\ quote[a] = NoOne
    /\ quote' = [quote EXCEPT ![a] = draft[h].rfq]
    /\ rfq' = [rfq EXCEPT ![draft[h].rfq].status = "RESPONDED"]
    /\ Finish(h)
    /\ UNCHANGED today

(* Mutant: any quote may be accepted for any request.                       *)
AcceptableAny(q, a) == quote[a] # NoOne /\ rfq[q] # NoRfq

Acceptable(q, a) ==
    /\ rfq[q] # NoRfq
    /\ quote[a] = q
    /\ rfq[q].status \notin {"CLOSED", "FULFILLED"}

(* acceptResponse finds the quote among the answers to u's request, ...     *)
ReadForAcceptance(h, u, q, a) ==
    /\ stage[h] = "idle" /\ rfq[q].buyer = u /\ Acceptable(q, a)
    /\ Proceed(h, "accept", [rfq |-> q, quote |-> a])
    /\ UNCHANGED <<today, rfq, quote>>

(* Mutant: an accepted request no longer names a quote.                     *)
AcceptNothing(h) ==
    /\ stage[h] = "accept"
    /\ rfq' = [rfq EXCEPT ![draft[h].rfq].status = "ACCEPTED"]
    /\ Finish(h)
    /\ UNCHANGED <<today, quote>>

(* ... then names it, whatever was accepted or quoted since.                *)
CommitAcceptance(h) ==
    /\ stage[h] = "accept"
    /\ rfq' = [rfq EXCEPT ![draft[h].rfq].status = "ACCEPTED",
                          ![draft[h].rfq].accepted = draft[h].quote]
    /\ Finish(h)
    /\ UNCHANGED <<today, quote>>

(* An await throws or the pod dies.                                         *)
AbandonRfq(h) ==
    /\ stage[h] # "idle"
    /\ Finish(h)
    /\ UNCHANGED <<today, rfq, quote>>

NextDay ==
    /\ today < LastDay
    /\ today' = today + 1
    /\ UNCHANGED <<rfq, quote, stage, draft>>

Handle(h) ==
    \/ \E q \in Rfqs : ReadForQuote(h, q)
    \/ \E a \in Quotes : CommitQuote(h, a)
    \/ \E u \in Customers, q \in Rfqs, a \in Quotes : ReadForAcceptance(h, u, q, a)
    \/ CommitAcceptance(h) \/ AbandonRfq(h)

ProcurementNext ==
    \/ \E q \in Rfqs, u \in Customers, d \in ClosingDays : PostRfq(q, u, d)
    \/ \E h \in RfqSlots : Handle(h)
    \/ NextDay

ProcurementSpec == ProcurementInit /\ [][ProcurementNext]_procurementVars

----------------------------------------------------------------------------
(* Properties                                                              *)

HandlerOK(h) ==
    /\ stage[h] \in {"quote", "accept"} => draft[h].rfq # NoOne /\ rfq[draft[h].rfq] # NoRfq
    /\ stage[h] = "accept" => draft[h].quote # NoOne

(* The columns hold what their declarations say; handlers past their read   *)
(* work on rows that exist.                                                 *)
ProcurementTypeOK ==
    /\ today \in Nat
    /\ rfq \in [Rfqs -> RfqType \cup {NoRfq}]
    /\ quote \in [Quotes -> Rfqs \cup {NoOne}]
    /\ stage \in [RfqSlots -> {"idle", "quote", "accept"}]
    /\ draft \in [RfqSlots -> DraftType]
    /\ \A h \in RfqSlots : HandlerOK(h)

Answers(q) == {a \in Quotes : quote[a] = q}

(* rfqs.service.ts:97-113, 141-144: however quotes and acceptances cross,   *)
(* a request shows OPEN exactly as long as nobody has answered it, ACCEPTED *)
(* never without a quote, and the quote it names is an answer to it.        *)
StatusTellsAnswers ==
    \A q \in Rfqs : rfq[q] # NoRfq =>
      /\ rfq[q].status = "OPEN" <=> Answers(q) = {}
      /\ rfq[q].status = "ACCEPTED" => rfq[q].accepted # NoOne
      /\ rfq[q].accepted # NoOne => rfq[q].accepted \in Answers(q)

(* rfqs.service.ts:93-95, "RFQ has expired": a late quote may reopen an     *)
(* accepted request, but once the closing day is over and the quotes under  *)
(* way then are done, it gets no other and an accepted one stays accepted.  *)
Over(q) ==
    /\ rfq[q].closesAt # NoDay /\ rfq[q].closesAt < today
    /\ \A h \in RfqSlots : stage[h] = "quote" => draft[h].rfq # q

ClosingDaySettles ==
    [][\A q \in Rfqs : Over(q) =>
         /\ Over(q)' /\ Answers(q)' = Answers(q)
         /\ rfq[q].status = "ACCEPTED" => rfq'[q].status = "ACCEPTED"]_procurementVars
============================================================================
