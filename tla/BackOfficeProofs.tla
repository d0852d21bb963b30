-------------------------- MODULE BackOfficeProofs --------------------------
(***************************************************************************)
(* Proofs about HoldThrottle, for any keys, thresholds and window; about   *)
(* Pricing, for any fees, prices and number of checkouts; and about the    *)
(* four parts of MCBackOffice side by side.                                *)
(***************************************************************************)
EXTENDS MCBackOffice, CatalogueProofs, ProcurementProofs, FiniteSetTheorems, SequenceTheorems, TLAPS

----------------------------------------------------------------------------
(* HoldThrottle                                                            *)

(* The invariant: an attempt keeps its key alive for a window, and the key  *)
(* counts at least the attempts that passed within the last one.            *)
Kept(k) ==
    \A i \in DOMAIN admitted[k] :
      admitted[k][i] <= clock /\ admitted[k][i] + Window <= counter[k].until

Counted(k) ==
    Cardinality(InWindow(k)) <= Current(k) /\ Cardinality(InWindow(k)) <= Threshold[k]

WInv == ThrottleTypeOK /\ \A k \in Keys : Kept(k) /\ Counted(k)

LEMMA InWindowFinite ==
    ASSUME ThrottleTypeOK, NEW k \in Keys
    PROVE  /\ IsFiniteSet(InWindow(k)) /\ Cardinality(InWindow(k)) \in Nat
           /\ Current(k) \in Nat /\ counter[k].until \in Nat
           /\ DOMAIN admitted[k] = 1 .. Len(admitted[k]) /\ Len(admitted[k]) \in Nat
           /\ \A i \in DOMAIN admitted[k] : admitted[k][i] \in Nat
  <1>1. admitted[k] \in Seq(Nat) /\ counter[k] \in CounterType
    BY DEF ThrottleTypeOK
  <1>2. /\ DOMAIN admitted[k] = 1 .. Len(admitted[k]) /\ Len(admitted[k]) \in Nat
        /\ \A i \in DOMAIN admitted[k] : admitted[k][i] \in Nat
    BY <1>1
  <1>3. IsFiniteSet(1 .. Len(admitted[k]))
    BY <1>2, FS_Interval
  <1>4. InWindow(k) \in SUBSET (1 .. Len(admitted[k]))
    BY <1>2 DEF InWindow
  <1>5. IsFiniteSet(InWindow(k))
    BY <1>3, <1>4, FS_Subset
  <1>6. Cardinality(InWindow(k)) \in Nat
    BY <1>5, FS_CardinalityType
  <1> QED
    BY <1>1, <1>2, <1>5, <1>6 DEF Current, CounterType

LEMMA WInvInit == ThrottleInit => WInv
  <1> SUFFICES ASSUME ThrottleInit PROVE WInv
    OBVIOUS
  <1>1. ThrottleTypeOK
    BY DEF ThrottleInit, ThrottleTypeOK, CounterType
  <1>2. ASSUME NEW k \in Keys PROVE Kept(k) /\ Counted(k)
    <2>1. admitted[k] = <<>> /\ counter[k] = [count |-> 0, until |-> 0] /\ clock = 0
      BY DEF ThrottleInit
    <2>2. InWindow(k) = {}
      BY <2>1 DEF InWindow
    <2>3. Cardinality(InWindow(k)) = 0 /\ Current(k) = 0 /\ Threshold[k] \in Nat
      BY <2>1, <2>2, FS_EmptySet, ThrottleAssumption DEF Current
    <2> QED
      BY <2>1, <2>3 DEF Kept, Counted
  <1> QED
    BY <1>1, <1>2 DEF WInv

(* The counter after an attempt.                                            *)
LEMMA Incremented ==
    ASSUME ThrottleTypeOK, NEW k \in Keys, IncrWindow(k), clock' = clock
    PROVE  /\ counter' \in [Keys -> CounterType]
           /\ Current(k)' = Current(k) + 1
           /\ counter'[k].until = clock + Window
           /\ \A j \in Keys : j # k => counter'[j] = counter[j] /\ Current(j)' = Current(j)
  <1>1. Current(k) \in Nat /\ clock \in Nat /\ Window \in Nat /\ Window > 0
    BY InWindowFinite, ThrottleAssumption DEF ThrottleTypeOK
  <1>2. PICK c \in CounterType : c.count = Current(k) + 1 /\ c.until = clock + Window
                                 /\ counter' = [counter EXCEPT ![k] = c]
    <2>1. [count |-> Current(k) + 1, until |-> clock + Window] \in CounterType
      BY <1>1 DEF CounterType
    <2> QED
      BY <2>1 DEF IncrWindow
  <1>3. counter'[k] = c /\ counter' \in [Keys -> CounterType]
        /\ \A j \in Keys : j # k => counter'[j] = counter[j]
    BY <1>2 DEF ThrottleTypeOK
  <1>4. clock' < counter'[k].until
    BY <1>1, <1>2, <1>3
  <1>5. Current(k)' = counter'[k].count
    BY <1>4 DEF Current
  <1>6. \A j \in Keys : j # k => Current(j)' = Current(j)
    BY <1>3 DEF Current
  <1>7. Current(k)' = Current(k) + 1
    BY <1>2, <1>3, <1>5
  <1>8. counter'[k].until = clock + Window
    BY <1>2, <1>3
  <1>9. counter' \in [Keys -> CounterType]
    BY <1>2 DEF ThrottleTypeOK
  <1> QED
    BY <1>3, <1>6, <1>7, <1>8, <1>9

LEMMA AdmitStep ==
    ASSUME WInv, NEW k \in Keys, AdmitAttempt(k)
    PROVE  WInv'
  <1> DEFINE n == Len(admitted[k])
  <1>1. /\ ThrottleTypeOK /\ clock \in Nat /\ clock' = clock /\ alerts' = alerts
        /\ Current(k) + 1 <= Threshold[k] /\ Threshold[k] \in Nat
        /\ IncrWindow(k) /\ Window \in Nat /\ Window > 0
        /\ admitted' = [admitted EXCEPT ![k] = Append(admitted[k], clock)]
    <2>1. /\ Current(k) + 1 <= Threshold[k] /\ IncrWindow(k)
          /\ clock' = clock /\ alerts' = alerts
          /\ admitted' = [admitted EXCEPT ![k] = Append(admitted[k], clock)]
      BY DEF AdmitAttempt, Passes
    <2>2. Threshold[k] \in Nat /\ Window \in Nat /\ Window > 0
      BY ThrottleAssumption
    <2> QED
      BY <2>1, <2>2 DEF WInv, ThrottleTypeOK
  <1>2. admitted[k] \in Seq(Nat) /\ n \in Nat
    BY <1>1 DEF ThrottleTypeOK
  <1>3. /\ admitted'[k] = Append(admitted[k], clock) /\ admitted'[k] \in Seq(Nat)
        /\ \A j \in Keys : j # k => admitted'[j] = admitted[j]
    BY <1>1, <1>2 DEF ThrottleTypeOK
  <1>4. /\ DOMAIN admitted'[k] = 1 .. n + 1
        /\ \A i \in 1 .. n : admitted'[k][i] = admitted[k][i]
        /\ admitted'[k][n + 1] = clock
    BY <1>1, <1>2, <1>3
  <1>5. ThrottleTypeOK'
    <2>1. admitted' \in [Keys -> Seq(Nat)]
      BY <1>1, <1>3 DEF ThrottleTypeOK
    <2>2. counter' \in [Keys -> CounterType]
      BY <1>1, Incremented
    <2> QED
      BY <1>1, <2>1, <2>2 DEF ThrottleTypeOK
  <1>6. ASSUME NEW j \in Keys, j # k PROVE Kept(j)' /\ Counted(j)'
    <2>1. admitted'[j] = admitted[j] /\ counter'[j] = counter[j] /\ Current(j)' = Current(j)
      BY <1>1, <1>3, <1>6, Incremented
    <2>2. InWindow(j)' = InWindow(j)
      BY <1>1, <2>1 DEF InWindow
    <2> QED
      BY <1>1, <2>1, <2>2 DEF WInv, Kept, Counted
  <1>7. Kept(k)'
    <2>1. counter'[k].until = clock + Window
      BY <1>1, Incremented
    <2>2. ASSUME NEW i \in 1 .. n + 1
          PROVE  admitted'[k][i] <= clock /\ admitted'[k][i] + Window <= clock + Window
      <3>1. CASE i = n + 1
        BY <1>1, <1>4, <3>1
      <3>2. CASE i # n + 1
        <4>1. i \in 1 .. n /\ i \in DOMAIN admitted[k]
          BY <1>2, <3>2
        <4>2. admitted[k][i] <= clock /\ admitted[k][i] \in Nat
          BY <1>1, <4>1, InWindowFinite DEF WInv, Kept
        <4> QED
          BY <1>1, <1>4, <4>1, <4>2
      <3> QED
        BY <3>1, <3>2
    <2> QED
      BY <1>1, <1>4, <2>1, <2>2 DEF Kept
  <1>8. Counted(k)'
    <2>1. InWindow(k)' \subseteq InWindow(k) \cup {n + 1}
      <3>1. InWindow(k)' = {i \in 1 .. n + 1 : admitted'[k][i] > clock - Window}
        BY <1>1, <1>4 DEF InWindow
      <3>2. InWindow(k) = {i \in 1 .. n : admitted[k][i] > clock - Window}
        BY <1>2 DEF InWindow
      <3>3. \A i \in 1 .. n + 1 : i \in 1 .. n \/ i = n + 1
        BY <1>2
      <3> QED
        BY <1>4, <3>1, <3>2, <3>3
    <2>2. IsFiniteSet(InWindow(k)) /\ Cardinality(InWindow(k)) \in Nat /\ Current(k) \in Nat
      BY <1>1, InWindowFinite
    <2>3. /\ IsFiniteSet(InWindow(k) \cup {n + 1})
          /\ Cardinality(InWindow(k) \cup {n + 1}) <= Cardinality(InWindow(k)) + 1
          /\ Cardinality(InWindow(k) \cup {n + 1}) \in Nat
      <3>1. /\ IsFiniteSet(InWindow(k) \cup {n + 1})
            /\ Cardinality(InWindow(k) \cup {n + 1}) =
                 IF n + 1 \in InWindow(k) THEN Cardinality(InWindow(k))
                 ELSE Cardinality(InWindow(k)) + 1
        BY <2>2, FS_AddElement
      <3> QED
        BY <2>2, <3>1
    <2>4. Cardinality(InWindow(k)') <= Cardinality(InWindow(k) \cup {n + 1})
          /\ IsFiniteSet(InWindow(k)')
      BY <2>1, <2>3, FS_Subset
    <2>5. Cardinality(InWindow(k)') \in Nat
      BY <2>4, FS_CardinalityType
    <2>6. Cardinality(InWindow(k)) <= Current(k) /\ Current(k)' = Current(k) + 1
      BY <1>1, Incremented DEF WInv, Counted
    <2>7. Cardinality(InWindow(k)') <= Current(k) + 1
      BY <2>2, <2>3, <2>4, <2>5, <2>6
    <2>8. Cardinality(InWindow(k)') <= Threshold[k]
      BY <1>1, <2>2, <2>5, <2>7
    <2> QED
      BY <2>6, <2>7, <2>8 DEF Counted
  <1> QED
    BY <1>5, <1>6, <1>7, <1>8 DEF WInv

LEMMA RefuseStep ==
    ASSUME WInv, NEW k \in Keys, RefuseAttempt(k)
    PROVE  WInv'
  <1>1. /\ ThrottleTypeOK /\ clock \in Nat /\ UNCHANGED <<clock, admitted>>
        /\ IncrWindow(k) /\ Window \in Nat /\ Window > 0 /\ Current(k) \in Nat
    BY ThrottleAssumption, InWindowFinite DEF RefuseAttempt, WInv, ThrottleTypeOK
  <1>2. ThrottleTypeOK'
    <2>1. [key |-> k, attempts |-> Current(k) + 1, status |-> "OPEN"] \in AlertType
      BY <1>1 DEF AlertType, AlertStatuses
    <2>2. alerts' \subseteq AlertType
      BY <1>1, <2>1 DEF RefuseAttempt, ThrottleTypeOK
    <2>3. counter' \in [Keys -> CounterType]
      BY <1>1, Incremented
    <2> QED
      BY <1>1, <2>2, <2>3 DEF ThrottleTypeOK
  <1>3. ASSUME NEW j \in Keys PROVE Kept(j)' /\ Counted(j)'
    <2>1. InWindow(j)' = InWindow(j)
      BY <1>1 DEF InWindow
    <2>2. /\ \A i \in DOMAIN admitted[j] : admitted[j][i] \in Nat
          /\ Cardinality(InWindow(j)) \in Nat /\ Current(j) \in Nat
      BY <1>1, InWindowFinite
    <2>3. Kept(j) /\ Counted(j)
      BY DEF WInv
    <2>4. CASE j = k
      <3>1. Current(k)' = Current(k) + 1 /\ counter'[k].until = clock + Window
        BY <1>1, Incremented
      <3>2. Kept(k)'
        BY <1>1, <2>2, <2>3, <2>4, <3>1 DEF Kept
      <3>3. Counted(k)'
        BY <1>1, <2>1, <2>2, <2>3, <2>4, <3>1 DEF Counted
      <3> QED
        BY <2>4, <3>2, <3>3
    <2>5. CASE j # k
      <3>1. counter'[j] = counter[j] /\ Current(j)' = Current(j)
        BY <1>1, <2>5, Incremented
      <3> QED
        BY <1>1, <2>1, <2>3, <3>1 DEF Kept, Counted
    <2> QED
      BY <2>4, <2>5
  <1> QED
    BY <1>2, <1>3 DEF WInv

(* An expired key has no attempt left in the window.                        *)
LEMMA SecondStep ==
    ASSUME WInv, NextSecond
    PROVE  WInv'
  <1>1. /\ ThrottleTypeOK /\ clock \in Nat /\ clock' = clock + 1 /\ Window \in Nat
        /\ UNCHANGED <<counter, admitted, alerts>>
    BY ThrottleAssumption DEF NextSecond, WInv, ThrottleTypeOK
  <1>2. ThrottleTypeOK'
    BY <1>1 DEF ThrottleTypeOK
  <1>3. ASSUME NEW k \in Keys PROVE Kept(k)' /\ Counted(k)'
    <2>1. /\ \A i \in DOMAIN admitted[k] : admitted[k][i] \in Nat
          /\ IsFiniteSet(InWindow(k)) /\ Cardinality(InWindow(k)) \in Nat
          /\ Current(k) \in Nat /\ counter[k].until \in Nat /\ Threshold[k] \in Nat
      BY <1>1, InWindowFinite, ThrottleAssumption
    <2>2. Kept(k)'
      BY <1>1, <2>1 DEF WInv, Kept
    <2>3. InWindow(k)' \subseteq InWindow(k)
      BY <1>1, <2>1 DEF InWindow
    <2>4. Cardinality(InWindow(k)') <= Cardinality(InWindow(k)) /\ IsFiniteSet(InWindow(k)')
      BY <2>1, <2>3, FS_Subset
    <2>5. Cardinality(InWindow(k)') \in Nat
      BY <2>4, FS_CardinalityType
    <2>6. CASE clock + 1 < counter[k].until
      <3>1. Current(k)' = Current(k)
        BY <1>1, <2>1, <2>6 DEF Current
      <3> QED
        BY <1>1, <2>1, <2>2, <2>4, <2>5, <3>1 DEF WInv, Counted
    <2>7. CASE ~(clock + 1 < counter[k].until)
      <3>1. InWindow(k)' = {}
        BY <1>1, <2>1, <2>7 DEF InWindow, WInv, Kept
      <3>2. Cardinality(InWindow(k)') = 0 /\ Current(k)' = 0
        BY <1>1, <2>7, <3>1, FS_EmptySet DEF Current
      <3> QED
        BY <2>1, <2>2, <3>2 DEF Counted
    <2> QED
      BY <2>6, <2>7
  <1> QED
    BY <1>2, <1>3 DEF WInv

LEMMA WInvStep == WInv /\ [ThrottleNext]_throttleVars => WInv'
  <1> SUFFICES ASSUME WInv, [ThrottleNext]_throttleVars PROVE WInv'
    OBVIOUS
  <1>1. ASSUME NEW k \in Keys, AdmitAttempt(k) PROVE WInv'
    BY <1>1, AdmitStep
  <1>2. ASSUME NEW k \in Keys, RefuseAttempt(k) PROVE WInv'
    BY <1>2, RefuseStep
  <1>3. ASSUME NEW a \in alerts, NEW status \in AlertStatuses, ResolveAlert(a, status) PROVE WInv'
    <2>1. [a EXCEPT !.status = status] \in AlertType
      BY <1>3 DEF WInv, ThrottleTypeOK, AlertType
    <2>2. ThrottleTypeOK'
      BY <1>3, <2>1 DEF ResolveAlert, WInv, ThrottleTypeOK
    <2> QED
      BY <1>3, <2>2 DEF ResolveAlert, WInv, Kept, Counted, InWindow, Current
  <1>4. CASE NextSecond
    BY <1>4, SecondStep
  <1>5. CASE UNCHANGED throttleVars
    BY <1>5 DEF throttleVars, WInv, ThrottleTypeOK, Kept, Counted, InWindow, Current
  <1> QED
    BY <1>1, <1>2, <1>3, <1>4, <1>5 DEF ThrottleNext

LEMMA WInvCorrect == ThrottleSpec => []WInv
  BY WInvInit, WInvStep, PTL DEF ThrottleSpec

(* Counters, admissions and alerts are well typed (schema.prisma:722-740).  *)
THEOREM ThrottleTypeCorrect == ThrottleSpec => []ThrottleTypeOK
  <1>1. WInv => ThrottleTypeOK
    BY DEF WInv
  <1> QED
    BY <1>1, WInvCorrect, PTL

(* redis.service.ts:83-93: at any moment no more attempts than the          *)
(* threshold have passed within the last window.                            *)
THEOREM WindowCorrect == ThrottleSpec => []AdmittedPerWindow
  <1>1. WInv => AdmittedPerWindow
    BY DEF WInv, Counted, AdmittedPerWindow
  <1> QED
    BY <1>1, WInvCorrect, PTL

----------------------------------------------------------------------------
(* Pricing                                                                 *)

(* money.ts:39-43: rounding is to the nearest paisa, and a percentage of an *)
(* amount is a natural number.                                              *)
LEMMA Rounding ==
    ASSUME NEW x \in Nat
    PROVE  /\ RoundToPaise(x) \in Nat
           /\ Off(10000 * RoundToPaise(x), x) <= 5000
  <1> DEFINE q == (x + 5000) \div 10000
             r == (x + 5000) % 10000
  <1>1. q \in Int /\ r \in Int /\ 0 <= r /\ r <= 9999 /\ x + 5000 = 10000 * q + r
    OBVIOUS
  <1>2. q >= 0
    BY <1>1
  <1> HIDE DEF q, r
  <1>3. 10000 * q - x <= 5000 /\ x - 10000 * q <= 5000
    BY <1>1
  <1>4. Off(10000 * q, x) <= 5000
    BY <1>1, <1>3 DEF Off
  <1> QED
    BY <1>1, <1>2, <1>4 DEF RoundToPaise, q

LEMMA PercentOf ==
    ASSUME NEW x \in Nat, NEW p \in Nat
    PROVE  x * p \in Nat
  OBVIOUS

(* What makes an order add up, before it is one.                            *)
AddsUp(o) ==
    /\ Off(10000 * o.fee, o.base * o.percent) <= 5000
    /\ Off(10000 * o.gst, o.fee * o.gstPercent) <= 5000
    /\ o.total = o.base + o.fee + o.gst
    /\ o.payment = o.total

LEMMA TotalsAddUp ==
    ASSUME NEW base \in Nat, NEW p \in Nat, NEW g \in Nat
    PROVE  Totals(base, p, g) \in BillType /\ AddsUp(Totals(base, p, g))
  <1> DEFINE fe == RoundToPaise(base * p)
             gs == RoundToPaise(fe * g)
  <1>1. base * p \in Nat
    BY PercentOf
  <1>2. fe \in Nat /\ Off(10000 * fe, base * p) <= 5000
    BY <1>1, Rounding
  <1>3. fe * g \in Nat
    BY <1>2, PercentOf
  <1>4. gs \in Nat /\ Off(10000 * gs, fe * g) <= 5000
    BY <1>3, Rounding
  <1>5. Totals(base, p, g) = [base |-> base, percent |-> p, fee |-> fe, gstPercent |-> g,
                              gst |-> gs, total |-> base + fe + gs, payment |-> base + fe + gs]
    BY DEF Totals
  <1> HIDE DEF fe, gs
  <1>6. base + fe + gs \in Nat
    BY <1>2, <1>4
  <1> QED
    BY <1>2, <1>4, <1>5, <1>6 DEF BillType, AddsUp

(* A bill is never taken for none: its base price is not negative.          *)
LEMMA BillIsSome == NoBill \notin BillType
  BY DEF NoBill, BillType

LEMMA FeeOK ==
    ASSUME PricingTypeOK, NEW t \in Tiers \cup {NoTier}
    PROVE  FeeForTier(t).percent \in Nat /\ FeeForTier(t).gst \in Nat
  <1> DEFINE u == IF t = NoTier THEN "RETAIL" ELSE t
  <1>1. u \in Tiers
    BY PricingAssumption
  <1>2. fee[u] \in FeeType \cup {NoFee}
    BY <1>1 DEF PricingTypeOK
  <1>3. FeeForTier(t) = IF fee[u] = NoFee THEN [percent |-> DefaultFee[u], gst |-> DefaultGst]
                        ELSE fee[u]
    BY DEF FeeForTier
  <1> HIDE DEF u
  <1>4. DefaultFee[u] \in Nat /\ DefaultGst \in Nat
    BY <1>1, PricingAssumption
  <1> QED
    BY <1>2, <1>3, <1>4 DEF FeeType

(* The invariant: checkouts in flight add up already, and Razorpay was told *)
(* their total; no two have one number.                                     *)
PInv ==
    /\ PricingTypeOK
    /\ OrderAddsUp
    /\ \A s \in Tills : ringing[s] # NoNumber =>
         /\ AddsUp(till[s])
         /\ gateway[ringing[s]] \in {Absent, till[s].total}
    /\ \A s, z \in Tills : ringing[s] = ringing[z] /\ ringing[s] # NoNumber => s = z

LEMMA PInvInit == PricingInit => PInv
  <1> SUFFICES ASSUME PricingInit PROVE PInv
    OBVIOUS
  <1>1. fee \in [Tiers -> FeeType \cup {NoFee}]
    <2>1. CASE fee = [t \in Tiers |-> NoFee]
      BY <2>1
    <2>2. CASE fee = [t \in Tiers |-> [percent |-> DefaultFee[t], gst |-> DefaultGst]]
      <3>1. \A t \in Tiers : DefaultFee[t] \in Nat
        BY PricingAssumption
      <3>2. DefaultGst \in Nat
        BY PricingAssumption
      <3> QED
        BY <2>2, <3>1, <3>2 DEF FeeType
    <2> QED
      BY <2>1, <2>2 DEF PricingInit
  <1>2. PricingTypeOK
    BY <1>1 DEF PricingInit, PricingTypeOK
  <1> QED
    BY <1>2, PricingAssumption DEF PricingInit, PInv, OrderAddsUp

LEMMA PInvStep == PInv /\ [PricingNext]_pricingVars => PInv'
  <1> SUFFICES ASSUME PInv, [PricingNext]_pricingVars PROVE PInv'
    OBVIOUS
  <1> USE PricingAssumption, BillIsSome
  <1>1. ASSUME NEW t \in Tiers, NEW p \in Percents, NEW g \in Percents \cup {Absent},
               UpsertFee(t, p, g)
        PROVE  PInv'
    <2>1. fee'[t] \in FeeType /\ p \in Nat
      BY <1>1 DEF UpsertFee, FeeType, PInv, PricingTypeOK, Absent
    <2>2. fee' \in [Tiers -> FeeType \cup {NoFee}]
      BY <1>1, <2>1 DEF UpsertFee, PInv, PricingTypeOK
    <2> QED
      BY <1>1, <2>2 DEF UpsertFee, PInv, PricingTypeOK, OrderAddsUp
  <1>2. ASSUME NEW s \in Tills, NEW b \in OrderNumbers, NEW t \in Tiers \cup {NoTier},
               NEW base \in BasePrices, ReadFee(s, b, t, base)
        PROVE  PInv'
    <2> DEFINE new == Totals(base, FeeForTier(t).percent, FeeForTier(t).gst)
    <2>1. FeeForTier(t).percent \in Nat /\ FeeForTier(t).gst \in Nat /\ base \in Nat
      BY FeeOK DEF PInv
    <2>2. new \in BillType /\ AddsUp(new)
      <3> HIDE DEF new
      <3>1. PICK p, g : p = FeeForTier(t).percent /\ g = FeeForTier(t).gst
        OBVIOUS
      <3>2. new = Totals(base, p, g) /\ p \in Nat /\ g \in Nat
        BY <2>1, <3>1 DEF new
      <3>3. Totals(base, p, g) \in BillType /\ AddsUp(Totals(base, p, g))
        BY <2>1, <3>2, TotalsAddUp
      <3> QED
        BY <3>2, <3>3
    <2>3. /\ till' = [till EXCEPT ![s] = new]
          /\ ringing' = [ringing EXCEPT ![s] = b]
          /\ gateway[b] = Absent /\ \A z \in Tills : ringing[z] # b
          /\ UNCHANGED <<fee, gateway, bill>>
      BY <1>2 DEF ReadFee
    <2> HIDE DEF new
    <2>4. PricingTypeOK'
      BY <2>2, <2>3 DEF PInv, PricingTypeOK
    <2>5. OrderAddsUp'
      BY <2>3 DEF PInv, OrderAddsUp
    <2>6. ASSUME NEW z \in Tills, ringing'[z] # NoNumber
          PROVE  AddsUp(till'[z]) /\ gateway'[ringing'[z]] \in {Absent, till'[z].total}
      BY <2>2, <2>3, <2>6 DEF PInv, PricingTypeOK
    <2>7. ASSUME NEW x \in Tills, NEW z \in Tills, ringing'[x] = ringing'[z], ringing'[x] # NoNumber
          PROVE  x = z
      BY <2>3, <2>7 DEF PInv, PricingTypeOK
    <2>8. (\A z \in Tills : ringing[z] # NoNumber =>
             AddsUp(till[z]) /\ gateway[ringing[z]] \in {Absent, till[z].total})'
      BY <2>6 DEF AddsUp
    <2> QED
      BY <2>4, <2>5, <2>7, <2>8 DEF PInv
  <1>3. ASSUME NEW s \in Tills, CreateRazorpayOrder(s) PROVE PInv'
    <2>1. ringing[s] \in OrderNumbers /\ till[s] \in BillType /\ till[s].total \in Nat
      BY <1>3 DEF CreateRazorpayOrder, PInv, PricingTypeOK, BillType
    <2>2. /\ gateway[ringing[s]] = Absent
          /\ gateway' = [gateway EXCEPT ![ringing[s]] = till[s].total]
          /\ UNCHANGED <<fee, till, ringing, bill>>
      BY <1>3 DEF CreateRazorpayOrder
    <2>3. PricingTypeOK'
      BY <2>1, <2>2 DEF PInv, PricingTypeOK
    <2>4. bill[ringing[s]] = NoBill
      BY <2>1, <2>2 DEF PInv, PricingTypeOK, OrderAddsUp, BillType, Absent
    <2>5. OrderAddsUp'
      BY <2>1, <2>2, <2>4 DEF PInv, PricingTypeOK, OrderAddsUp
    <2>6. (\A z \in Tills : ringing[z] # NoNumber =>
             AddsUp(till[z]) /\ gateway[ringing[z]] \in {Absent, till[z].total})'
      BY <2>1, <2>2 DEF PInv, PricingTypeOK
    <2> QED
      BY <2>2, <2>3, <2>5, <2>6 DEF PInv
  <1>4. ASSUME NEW s \in Tills, CommitBill(s) PROVE PInv'
    <2>1. ringing[s] \in OrderNumbers /\ till[s] \in BillType /\ AddsUp(till[s])
      BY <1>4 DEF CommitBill, PInv, PricingTypeOK
    <2>2. gateway[ringing[s]] = till[s].total
      BY <1>4 DEF CommitBill, PInv
    <2>3. /\ bill' = [bill EXCEPT ![ringing[s]] = till[s]]
          /\ till' = [till EXCEPT ![s] = NoBill]
          /\ ringing' = [ringing EXCEPT ![s] = NoNumber]
          /\ UNCHANGED <<fee, gateway>>
      BY <1>4 DEF CommitBill, CloseTill
    <2>4. PricingTypeOK'
      BY <2>1, <2>3 DEF PInv, PricingTypeOK
    <2>5. OrderAddsUp'
      BY <2>1, <2>2, <2>3 DEF PInv, PricingTypeOK, OrderAddsUp, AddsUp
    <2>6. (\A z \in Tills : ringing[z] # NoNumber =>
             AddsUp(till[z]) /\ gateway[ringing[z]] \in {Absent, till[z].total})'
      BY <2>3 DEF PInv, PricingTypeOK
    <2>7. (\A x, z \in Tills : ringing[x] = ringing[z] /\ ringing[x] # NoNumber => x = z)'
      BY <2>3 DEF PInv, PricingTypeOK
    <2> QED
      BY <2>4, <2>5, <2>6, <2>7 DEF PInv
  <1>5. ASSUME NEW s \in Tills, AbortCheckout(s) PROVE PInv'
    BY <1>5 DEF AbortCheckout, CloseTill, PInv, PricingTypeOK, OrderAddsUp
  <1>6. CASE UNCHANGED pricingVars
    BY <1>6 DEF pricingVars, PInv, PricingTypeOK, OrderAddsUp
  <1> QED
    BY <1>1, <1>2, <1>3, <1>4, <1>5, <1>6 DEF PricingNext, Checkout

LEMMA PInvCorrect == PricingSpec => []PInv
  BY PInvInit, PInvStep, PTL DEF PricingSpec

(* Fees, checkouts and orders are well typed (schema.prisma:518-571).       *)
THEOREM PricingTypeCorrect == PricingSpec => []PricingTypeOK
  <1>1. PInv => PricingTypeOK
    BY DEF PInv
  <1> QED
    BY <1>1, PInvCorrect, PTL

(* money.ts:39: whatever the percentages and prices, and however fees       *)
(* change meanwhile, an order adds up to the paisa and is what Razorpay     *)
(* collects.                                                                *)
THEOREM TotalsCorrect == PricingSpec => []OrderAddsUp
  <1>1. PInv => OrderAddsUp
    BY DEF PInv
  <1> QED
    BY <1>1, PInvCorrect, PTL

----------------------------------------------------------------------------
(* Side by side                                                            *)

(* Every step of the back office is one of a single part, or none.          *)
LEMMA DeskStep ==
    [Next]_<<part, catalogueVars, procurementVars, throttleVars, pricingVars>>
        => /\ [CatalogueNext]_catalogueVars
           /\ [ProcurementNext]_procurementVars
           /\ [ThrottleNext]_throttleVars
           /\ [PricingNext]_pricingVars
BY DEF Next

(* A behaviour of the composition moves one part only; each part, seen      *)
(* alone, then behaves as specified. This follows from the composition.     *)
LEMMA DeskRefinesParts ==
    Spec => CatalogueSpec /\ ProcurementSpec /\ ThrottleSpec /\ PricingSpec
  <1>1. Init => CatalogueInit /\ ProcurementInit /\ ThrottleInit /\ PricingInit
    BY DEF Init
  <1> QED
    BY <1>1, DeskStep, PTL DEF Spec, CatalogueSpec, ProcurementSpec, ThrottleSpec, PricingSpec

(* Hence the rows of all four are well typed.                               *)
THEOREM DeskTypeCorrect == Spec => []DeskTypeOK
  <1>1. CatalogueTypeOK /\ ProcurementTypeOK /\ ThrottleTypeOK /\ PricingTypeOK => DeskTypeOK
    BY DEF DeskTypeOK
  <1> QED
    BY <1>1, DeskRefinesParts, CatalogueTypeCorrect, ProcurementTypeCorrect, ThrottleTypeCorrect,
       PricingTypeCorrect, PTL

(* And each part keeps, beside the others, what it keeps alone.             *)
THEOREM DeskCorrect ==
    Spec => /\ [](ListedNeverOverstated /\ LotsConsistent /\ StatusTellsAnswers)
            /\ [](AdmittedPerWindow /\ OrderAddsUp)
            /\ NoNewHoldInLot /\ BidFreezesPrice /\ ClosingDaySettles
  BY DeskRefinesParts, ListedCorrect, LotsCorrect, StatusCorrect, WindowCorrect, TotalsCorrect,
     NoNewHoldCorrect, PriceCorrect, ClosingCorrect, PTL
============================================================================
