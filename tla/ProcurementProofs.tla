------------------------- MODULE ProcurementProofs -------------------------
(***************************************************************************)
(* Proofs about Procurement, for any requests, quotes and handlers.        *)
(***************************************************************************)
EXTENDS Procurement, TLAPS

(* The row of a posted request has a buyer.                                 *)
LEMMA Posted ==
    ASSUME ProcurementTypeOK, NEW q \in Rfqs
    PROVE  /\ rfq[q] # NoRfq <=> rfq[q] \in RfqType
           /\ rfq[q] # NoRfq <=> rfq[q].buyer # NoOne
           /\ rfq[q] = NoRfq => rfq[q].closesAt = NoDay
  BY ProcurementAssumption DEF ProcurementTypeOK, RfqType, NoRfq

(* The invariant: besides what the properties say, only posted requests     *)
(* have answers, and a handler that is about to accept a quote holds an     *)
(* answer to the request it holds.                                          *)
AnswersPosted == \A a \in Quotes : quote[a] # NoOne => rfq[quote[a]] # NoRfq

AcceptsAnswer == \A h \in RfqSlots : stage[h] = "accept" => quote[draft[h].quote] = draft[h].rfq

QInv == ProcurementTypeOK /\ AnswersPosted /\ AcceptsAnswer /\ StatusTellsAnswers

LEMMA QInvInit == ProcurementInit => QInv
  BY ProcurementAssumption
  DEF ProcurementInit, QInv, ProcurementTypeOK, StatusTellsAnswers, AnswersPosted, AcceptsAnswer,
      Blank, DraftType, HandlerOK

(* Steps that leave the rows alone.                                         *)
LEMMA RowsUnchanged ==
    ASSUME QInv, UNCHANGED <<rfq, quote>>
    PROVE  StatusTellsAnswers' /\ AnswersPosted'
  BY DEF QInv, StatusTellsAnswers, AnswersPosted, Answers

LEMMA PostStep ==
    ASSUME QInv, NEW q \in Rfqs, NEW u \in Customers, NEW d \in ClosingDays, PostRfq(q, u, d)
    PROVE  QInv'
  <1> DEFINE new == [buyer |-> u, closesAt |-> d, status |-> "OPEN", accepted |-> NoOne]
  <1>1. new \in RfqType /\ new # NoRfq /\ new.status = "OPEN" /\ new.accepted = NoOne
    BY ProcurementAssumption DEF RfqType, RfqStatuses, NoRfq
  <1>2. /\ rfq' = [rfq EXCEPT ![q] = new] /\ rfq[q] = NoRfq
        /\ UNCHANGED <<today, quote, stage, draft>>
    BY DEF PostRfq
  <1> HIDE DEF new
  <1>3. rfq'[q] = new /\ \A p \in Rfqs : p # q => rfq'[p] = rfq[p]
    BY <1>2 DEF QInv, ProcurementTypeOK
  <1>4. ASSUME NEW h \in RfqSlots PROVE HandlerOK(h)'
    BY <1>1, <1>2, <1>3 DEF QInv, ProcurementTypeOK, HandlerOK, DraftType
  <1>5. ProcurementTypeOK'
    BY <1>1, <1>2, <1>4 DEF QInv, ProcurementTypeOK
  <1>6. AnswersPosted' /\ AcceptsAnswer'
    BY <1>1, <1>2, <1>3 DEF QInv, AnswersPosted, AcceptsAnswer, ProcurementTypeOK
  <1>7. Answers(q) = {} /\ \A p \in Rfqs : Answers(p)' = Answers(p)
    BY <1>2, ProcurementAssumption DEF QInv, AnswersPosted, Answers
  <1>8. StatusTellsAnswers'
    BY <1>1, <1>3, <1>7 DEF QInv, StatusTellsAnswers
  <1> QED
    BY <1>5, <1>6, <1>8 DEF QInv

(* A handler that only changes what it holds.                               *)
LEMMA HandlerMoves ==
    ASSUME QInv, NEW h \in RfqSlots, NEW s \in {"idle", "quote", "accept"}, NEW d \in DraftType,
           s \in {"quote", "accept"} => d.rfq # NoOne /\ rfq[d.rfq] # NoRfq,
           s = "accept" => d.quote # NoOne /\ quote[d.quote] = d.rfq,
           Proceed(h, s, d), UNCHANGED <<rfq, quote>>, today' \in Nat
    PROVE  QInv'
  <1>1. ASSUME NEW z \in RfqSlots
        PROVE  /\ z = h => stage'[z] = s /\ draft'[z] = d
               /\ z # h => stage'[z] = stage[z] /\ draft'[z] = draft[z]
    BY DEF Proceed, QInv, ProcurementTypeOK
  <1>2. ASSUME NEW z \in RfqSlots PROVE HandlerOK(z)'
    BY <1>1 DEF QInv, ProcurementTypeOK, HandlerOK
  <1>3. ProcurementTypeOK'
    BY <1>2 DEF Proceed, QInv, ProcurementTypeOK
  <1>4. AcceptsAnswer'
    BY <1>1 DEF QInv, AcceptsAnswer
  <1> QED
    BY <1>3, <1>4, RowsUnchanged DEF QInv

LEMMA BlankOK == Blank \in DraftType
  BY DEF Blank, DraftType

LEMMA QuoteStep ==
    ASSUME QInv, NEW h \in RfqSlots, NEW a \in Quotes, CommitQuote(h, a)
    PROVE  QInv'
  <1>0. PICK q \in Rfqs : q = draft[h].rfq
    BY DEF CommitQuote, QInv, ProcurementTypeOK, HandlerOK, DraftType
  <1>1. rfq[q] # NoRfq /\ rfq[q] \in RfqType
    BY <1>0, Posted DEF CommitQuote, QInv, ProcurementTypeOK, HandlerOK, DraftType
  <1>2. /\ quote[a] = NoOne /\ quote' = [quote EXCEPT ![a] = q]
        /\ rfq' = [rfq EXCEPT ![q].status = "RESPONDED"]
        /\ stage' = [stage EXCEPT ![h] = "idle"] /\ draft' = [draft EXCEPT ![h] = Blank]
        /\ today' = today
    BY <1>0 DEF CommitQuote, Finish, Proceed
  <1>3. /\ rfq'[q] = [rfq[q] EXCEPT !.status = "RESPONDED"]
        /\ \A p \in Rfqs : p # q => rfq'[p] = rfq[p]
        /\ quote'[a] = q /\ \A b \in Quotes : b # a => quote'[b] = quote[b]
    BY <1>1, <1>2 DEF QInv, ProcurementTypeOK
  <1>4. /\ rfq'[q] \in RfqType /\ rfq'[q].status = "RESPONDED"
        /\ rfq'[q].accepted = rfq[q].accepted /\ rfq'[q].buyer = rfq[q].buyer
    BY <1>1, <1>3 DEF RfqType, RfqStatuses
  <1>5. rfq'[q] # NoRfq
    BY <1>1, <1>4, ProcurementAssumption DEF RfqType, NoRfq
  <1>6. ASSUME NEW z \in RfqSlots PROVE HandlerOK(z)'
    BY <1>1, <1>2, <1>3, <1>5 DEF QInv, ProcurementTypeOK, HandlerOK, DraftType
  <1>7. ProcurementTypeOK'
    BY <1>1, <1>2, <1>4, <1>6, BlankOK DEF QInv, ProcurementTypeOK
  <1>8. AnswersPosted'
    BY <1>1, <1>3, <1>5 DEF QInv, AnswersPosted, ProcurementTypeOK
  <1>9. AcceptsAnswer'
    <2> SUFFICES ASSUME NEW z \in RfqSlots, stage'[z] = "accept"
                 PROVE  quote'[draft'[z].quote] = draft'[z].rfq
      BY DEF AcceptsAnswer
    <2>1. z # h /\ stage[z] = "accept" /\ draft'[z] = draft[z]
      BY <1>2 DEF QInv, ProcurementTypeOK
    <2>2. draft[z].quote \in Quotes /\ draft[z].rfq # NoOne /\ quote[draft[z].quote] = draft[z].rfq
      BY <2>1 DEF QInv, ProcurementTypeOK, HandlerOK, DraftType, AcceptsAnswer
    <2> QED
      BY <1>2, <1>3, <2>1, <2>2
  <1>10. /\ a \in Answers(q)'
         /\ \A p \in Rfqs : p # q => Answers(p)' = Answers(p)
         /\ Answers(q) \subseteq Answers(q)'
    BY <1>1, <1>2, <1>3, ProcurementAssumption DEF Answers
  <1>11. StatusTellsAnswers'
    <2> SUFFICES ASSUME NEW p \in Rfqs, rfq'[p] # NoRfq
                 PROVE  /\ rfq'[p].status = "OPEN" <=> Answers(p)' = {}
                        /\ rfq'[p].status = "ACCEPTED" => rfq'[p].accepted # NoOne
                        /\ rfq'[p].accepted # NoOne => rfq'[p].accepted \in Answers(p)'
      BY DEF StatusTellsAnswers
    <2>1. CASE p = q
      <3>1. Answers(q)' # {}
        BY <1>10
      <3>2. rfq[q].accepted # NoOne => rfq[q].accepted \in Answers(q)
        BY <1>1 DEF QInv, StatusTellsAnswers
      <3> QED
        BY <1>4, <1>10, <2>1, <3>1, <3>2
    <2>2. CASE p # q
      <3>1. rfq'[p] = rfq[p] /\ Answers(p)' = Answers(p)
        BY <1>3, <1>10, <2>2
      <3> QED
        BY <3>1 DEF QInv, StatusTellsAnswers
    <2> QED
      BY <2>1, <2>2
  <1> QED
    BY <1>7, <1>8, <1>9, <1>11 DEF QInv

LEMMA AcceptStep ==
    ASSUME QInv, NEW h \in RfqSlots, CommitAcceptance(h)
    PROVE  QInv'
  <1>0. PICK q \in Rfqs, a \in Quotes : q = draft[h].rfq /\ a = draft[h].quote
    BY DEF CommitAcceptance, QInv, ProcurementTypeOK, HandlerOK, DraftType
  <1>1. rfq[q] # NoRfq /\ rfq[q] \in RfqType /\ quote[a] = q
    BY <1>0, Posted DEF CommitAcceptance, QInv, ProcurementTypeOK, HandlerOK, DraftType, AcceptsAnswer
  <1>2. /\ rfq' = [rfq EXCEPT ![q].status = "ACCEPTED", ![q].accepted = a]
        /\ stage' = [stage EXCEPT ![h] = "idle"] /\ draft' = [draft EXCEPT ![h] = Blank]
        /\ UNCHANGED <<today, quote>>
    BY <1>0 DEF CommitAcceptance, Finish, Proceed
  <1>3. /\ rfq'[q] = [rfq[q] EXCEPT !.status = "ACCEPTED", !.accepted = a]
        /\ \A p \in Rfqs : p # q => rfq'[p] = rfq[p]
    BY <1>1, <1>2 DEF QInv, ProcurementTypeOK
  <1>4. /\ rfq'[q] \in RfqType /\ rfq'[q].status = "ACCEPTED"
        /\ rfq'[q].accepted = a /\ rfq'[q].buyer = rfq[q].buyer
    BY <1>1, <1>3 DEF RfqType, RfqStatuses
  <1>5. rfq'[q] # NoRfq
    BY <1>1, <1>4, ProcurementAssumption DEF RfqType, NoRfq
  <1>6. ASSUME NEW z \in RfqSlots PROVE HandlerOK(z)'
    <2>1. CASE z = h
      <3>1. stage'[z] = "idle"
        BY <1>2, <2>1 DEF QInv, ProcurementTypeOK
      <3> QED
        BY <3>1 DEF HandlerOK
    <2>2. CASE z # h
      <3>1. stage'[z] = stage[z] /\ draft'[z] = draft[z] /\ HandlerOK(z)
        BY <1>2, <2>2 DEF QInv, ProcurementTypeOK
      <3>2. draft[z].rfq \in Rfqs \cup {NoOne}
        BY DEF QInv, ProcurementTypeOK, DraftType
      <3> QED
        BY <1>3, <1>5, <3>1, <3>2 DEF HandlerOK
    <2> QED
      BY <2>1, <2>2
  <1>7. ProcurementTypeOK'
    <2>1. rfq' \in [Rfqs -> RfqType \cup {NoRfq}]
      BY <1>2, <1>3, <1>4 DEF QInv, ProcurementTypeOK
    <2> QED
      BY <1>2, <1>6, <2>1, BlankOK DEF QInv, ProcurementTypeOK
  <1>8. AnswersPosted' /\ AcceptsAnswer'
    <2>1. ASSUME NEW x \in Quotes, quote'[x] # NoOne PROVE rfq'[quote'[x]] # NoRfq
      <3>1. quote'[x] = quote[x]
        BY <1>2
      <3>2. quote[x] \in Rfqs /\ rfq[quote[x]] # NoRfq
        BY <2>1, <3>1 DEF QInv, ProcurementTypeOK, AnswersPosted
      <3> QED
        BY <1>3, <1>5, <3>1, <3>2
    <2>2. ASSUME NEW z \in RfqSlots, stage'[z] = "accept"
          PROVE  quote'[draft'[z].quote] = draft'[z].rfq
      <3>1. z # h /\ stage[z] = "accept" /\ draft'[z] = draft[z]
        BY <1>2, <2>2 DEF QInv, ProcurementTypeOK
      <3> QED
        BY <1>2, <3>1 DEF QInv, AcceptsAnswer
    <2> QED
      BY <2>1, <2>2 DEF AnswersPosted, AcceptsAnswer
  <1>9. a \in Answers(q)' /\ \A p \in Rfqs : Answers(p)' = Answers(p)
    BY <1>1, <1>2 DEF Answers
  <1>10. StatusTellsAnswers'
    <2> SUFFICES ASSUME NEW p \in Rfqs, rfq'[p] # NoRfq
                 PROVE  /\ rfq'[p].status = "OPEN" <=> Answers(p)' = {}
                        /\ rfq'[p].status = "ACCEPTED" => rfq'[p].accepted # NoOne
                        /\ rfq'[p].accepted # NoOne => rfq'[p].accepted \in Answers(p)'
      BY DEF StatusTellsAnswers
    <2>1. CASE p = q
      <3>1. Answers(q)' # {} /\ a # NoOne
        BY <1>0, <1>9, ProcurementAssumption
      <3> QED
        BY <1>4, <1>9, <2>1, <3>1
    <2>2. CASE p # q
      <3>1. rfq'[p] = rfq[p] /\ Answers(p)' = Answers(p)
        BY <1>3, <1>9, <2>2
      <3> QED
        BY <3>1 DEF QInv, StatusTellsAnswers
    <2> QED
      BY <2>1, <2>2
  <1> QED
    BY <1>7, <1>8, <1>10 DEF QInv

LEMMA QInvStep == QInv /\ [ProcurementNext]_procurementVars => QInv'
  <1> SUFFICES ASSUME QInv, [ProcurementNext]_procurementVars PROVE QInv'
    OBVIOUS
  <1>1. ASSUME NEW q \in Rfqs, NEW u \in Customers, NEW d \in ClosingDays, PostRfq(q, u, d)
        PROVE  QInv'
    BY <1>1, PostStep
  <1>2. ASSUME NEW h \in RfqSlots, NEW q \in Rfqs, ReadForQuote(h, q) PROVE QInv'
    <2>1. [rfq |-> q, quote |-> NoOne] \in DraftType /\ q # NoOne
      BY ProcurementAssumption DEF DraftType
    <2>2. rfq[q] # NoRfq /\ Proceed(h, "quote", [rfq |-> q, quote |-> NoOne])
      BY <1>2 DEF ReadForQuote, TakesQuotes
    <2>3. UNCHANGED <<rfq, quote>> /\ today' \in Nat
      BY <1>2 DEF ReadForQuote, QInv, ProcurementTypeOK
    <2> QED
      BY <2>1, <2>2, <2>3, HandlerMoves
  <1>3. ASSUME NEW h \in RfqSlots, NEW a \in Quotes, CommitQuote(h, a) PROVE QInv'
    BY <1>3, QuoteStep
  <1>4. ASSUME NEW h \in RfqSlots, NEW u \in Customers, NEW q \in Rfqs, NEW a \in Quotes,
               ReadForAcceptance(h, u, q, a)
        PROVE  QInv'
    <2>1. [rfq |-> q, quote |-> a] \in DraftType /\ q # NoOne /\ a # NoOne
      BY ProcurementAssumption DEF DraftType
    <2>2. rfq[q] # NoRfq /\ quote[a] = q /\ Proceed(h, "accept", [rfq |-> q, quote |-> a])
      BY <1>4 DEF ReadForAcceptance, Acceptable
    <2>3. UNCHANGED <<rfq, quote>> /\ today' \in Nat
      BY <1>4 DEF ReadForAcceptance, QInv, ProcurementTypeOK
    <2> QED
      BY <2>1, <2>2, <2>3, HandlerMoves
  <1>5. ASSUME NEW h \in RfqSlots, CommitAcceptance(h) PROVE QInv'
    BY <1>5, AcceptStep
  <1>6. ASSUME NEW h \in RfqSlots, AbandonRfq(h) PROVE QInv'
    <2>1. Proceed(h, "idle", Blank) /\ UNCHANGED <<rfq, quote>> /\ today' \in Nat
      BY <1>6 DEF AbandonRfq, Finish, QInv, ProcurementTypeOK
    <2> QED
      BY <2>1, BlankOK, HandlerMoves
  <1>7. CASE NextDay \/ UNCHANGED procurementVars
    <2>1. UNCHANGED <<rfq, quote, stage, draft>> /\ today' \in Nat
      BY <1>7 DEF NextDay, procurementVars, QInv, ProcurementTypeOK
    <2>2. ProcurementTypeOK' /\ AcceptsAnswer'
      BY <2>1 DEF QInv, ProcurementTypeOK, HandlerOK, AcceptsAnswer
    <2> QED
      BY <2>1, <2>2, RowsUnchanged DEF QInv
  <1> QED
    BY <1>1, <1>2, <1>3, <1>4, <1>5, <1>6, <1>7 DEF ProcurementNext, Handle

LEMMA QInvCorrect == ProcurementSpec => []QInv
  BY QInvInit, QInvStep, PTL DEF ProcurementSpec

(* Requests, quotes and handlers are well typed (schema.prisma:629-677).    *)
THEOREM ProcurementTypeCorrect == ProcurementSpec => []ProcurementTypeOK
  <1>1. QInv => ProcurementTypeOK
    BY DEF QInv
  <1> QED
    BY <1>1, QInvCorrect, PTL

(* rfqs.service.ts:97-113, 141-144: the status of a request tells whether   *)
(* it has answers, and the quote it names is one of them.                   *)
THEOREM StatusCorrect == ProcurementSpec => []StatusTellsAnswers
  <1>1. QInv => StatusTellsAnswers
    BY DEF QInv
  <1> QED
    BY <1>1, QInvCorrect, PTL

LEMMA SettlesStep ==
    ASSUME QInv, ProcurementNext, NEW q \in Rfqs, Over(q)
    PROVE  /\ Over(q)' /\ Answers(q)' = Answers(q)
           /\ rfq[q].status = "ACCEPTED" => rfq'[q].status = "ACCEPTED"
  <1> DEFINE Goal == /\ Over(q)' /\ Answers(q)' = Answers(q)
                     /\ rfq[q].status = "ACCEPTED" => rfq'[q].status = "ACCEPTED"
  <1>1. /\ rfq[q].closesAt # NoDay /\ rfq[q].closesAt < today /\ today \in Nat
        /\ rfq[q] \in RfqType /\ rfq[q].closesAt \in Nat /\ rfq[q] # NoRfq
        /\ \A h \in RfqSlots : stage[h] = "quote" => draft[h].rfq # q
    BY Posted DEF Over, QInv, ProcurementTypeOK, RfqType
  <1>2. ASSUME NEW p \in Rfqs, NEW u \in Customers, NEW d \in ClosingDays, PostRfq(p, u, d)
        PROVE  Goal
    <2>1. p # q /\ rfq'[q] = rfq[q] /\ UNCHANGED <<today, quote, stage, draft>>
      BY <1>1, <1>2 DEF PostRfq, QInv, ProcurementTypeOK
    <2> QED
      BY <1>1, <2>1 DEF Over, Answers
  <1>3. ASSUME NEW h \in RfqSlots, NEW p \in Rfqs, ReadForQuote(h, p) PROVE Goal
    <2>1. p # q
      BY <1>1, <1>3 DEF ReadForQuote, TakesQuotes
    <2>2. \A z \in RfqSlots : stage'[z] = "quote" => draft'[z].rfq # q
      BY <1>1, <1>3, <2>1 DEF ReadForQuote, Proceed, QInv, ProcurementTypeOK
    <2> QED
      BY <1>1, <1>3, <2>2 DEF ReadForQuote, Over, Answers
  <1>4. ASSUME NEW h \in RfqSlots, NEW a \in Quotes, CommitQuote(h, a) PROVE Goal
    <2>1. draft[h].rfq \in Rfqs /\ draft[h].rfq # q
      BY <1>1, <1>4 DEF CommitQuote, QInv, ProcurementTypeOK, HandlerOK, DraftType
    <2>2. rfq'[q] = rfq[q] /\ today' = today
      BY <1>4, <2>1 DEF CommitQuote, QInv, ProcurementTypeOK
    <2>3. Answers(q)' = Answers(q)
      BY <1>4, <2>1, ProcurementAssumption DEF CommitQuote, Answers, QInv, ProcurementTypeOK
    <2>4. \A z \in RfqSlots : stage'[z] = "quote" => draft'[z].rfq # q
      BY <1>1, <1>4 DEF CommitQuote, Finish, Proceed, QInv, ProcurementTypeOK
    <2> QED
      BY <1>1, <2>2, <2>3, <2>4 DEF Over
  <1>5. ASSUME NEW h \in RfqSlots, NEW u \in Customers, NEW p \in Rfqs, NEW a \in Quotes,
               ReadForAcceptance(h, u, p, a)
        PROVE  Goal
    <2>1. \A z \in RfqSlots : stage'[z] = "quote" => draft'[z].rfq # q
      BY <1>1, <1>5 DEF ReadForAcceptance, Proceed, QInv, ProcurementTypeOK
    <2> QED
      BY <1>1, <1>5, <2>1 DEF ReadForAcceptance, Over, Answers
  <1>6. ASSUME NEW h \in RfqSlots, CommitAcceptance(h) PROVE Goal
    <2> DEFINE p == draft[h].rfq
    <2>1. p \in Rfqs /\ rfq[p] \in RfqType
      BY <1>6, Posted DEF CommitAcceptance, QInv, ProcurementTypeOK, HandlerOK, DraftType
    <2>2. rfq' = [rfq EXCEPT ![p].status = "ACCEPTED", ![p].accepted = draft[h].quote]
      BY <1>6 DEF CommitAcceptance
    <2> HIDE DEF p
    <2>3. /\ rfq'[q].closesAt = rfq[q].closesAt
          /\ rfq[q].status = "ACCEPTED" => rfq'[q].status = "ACCEPTED"
      <3>1. CASE p = q
        BY <2>1, <2>2, <3>1 DEF QInv, ProcurementTypeOK, RfqType
      <3>2. CASE p # q
        BY <2>1, <2>2, <3>2 DEF QInv, ProcurementTypeOK
      <3> QED
        BY <3>1, <3>2
    <2>4. \A z \in RfqSlots : stage'[z] = "quote" => draft'[z].rfq # q
      BY <1>1, <1>6 DEF CommitAcceptance, Finish, Proceed, QInv, ProcurementTypeOK
    <2>5. UNCHANGED <<today, quote>>
      BY <1>6 DEF CommitAcceptance
    <2> QED
      BY <1>1, <2>3, <2>4, <2>5 DEF Over, Answers
  <1>7. ASSUME NEW h \in RfqSlots, AbandonRfq(h) PROVE Goal
    <2>1. \A z \in RfqSlots : stage'[z] = "quote" => draft'[z].rfq # q
      BY <1>1, <1>7 DEF AbandonRfq, Finish, Proceed, QInv, ProcurementTypeOK
    <2> QED
      BY <1>1, <1>7, <2>1 DEF AbandonRfq, Over, Answers
  <1>8. CASE NextDay
    BY <1>1, <1>8 DEF NextDay, Over, Answers
  <1> QED
    BY <1>2, <1>3, <1>4, <1>5, <1>6, <1>7, <1>8 DEF ProcurementNext, Handle

(* rfqs.service.ts:93-95: after the closing day, and once the quotes under  *)
(* way then are done, a request gets no quote and its acceptance stands.    *)
THEOREM ClosingCorrect == ProcurementSpec => ClosingDaySettles
  <1>1. QInv /\ [ProcurementNext]_procurementVars =>
          [\A q \in Rfqs : Over(q) =>
             /\ Over(q)' /\ Answers(q)' = Answers(q)
             /\ rfq[q].status = "ACCEPTED" => rfq'[q].status = "ACCEPTED"]_procurementVars
    BY SettlesStep
  <1> QED
    BY <1>1, QInvCorrect, PTL DEF ProcurementSpec, ClosingDaySettles
============================================================================
