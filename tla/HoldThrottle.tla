---------------------------- MODULE HoldThrottle ----------------------------
(***************************************************************************)
(* The counter that throttles holds and bids (RedisService.incrWindow, its *)
(* callers in vehicles.service.ts:192-212 and bids.service.ts:56-68) and   *)
(* the fraud alerts it raises (admin.module.ts:163-173).                   *)
(*                                                                         *)
(* INCR and EXPIRE are sent as one MULTI, so that they are one step; what  *)
(* follows them touches nothing that another attempt looks at, so that it  *)
(* belongs to the same step. Redis keeps its keys until they expire.       *)
(***************************************************************************)
EXTENDS Integers, FiniteSets, Sequences

CONSTANTS
    Keys,           \* fraud:hold:<user>, fraud:bid:<user>
    Threshold,      \* FRAUD_HOLD_ATTEMPTS_PER_MIN, FRAUD_BID_ATTEMPTS_PER_MIN, by key
    Window,         \* 60 seconds
    MaxCount,       \* bound on a counter
    LastSecond      \* bound on the clock

ASSUME ThrottleAssumption ==
    /\ Threshold \in [Keys -> Nat]
    /\ Window \in Nat \ {0}
    /\ MaxCount \in Nat
    /\ LastSecond \in Nat

VARIABLES
    clock,
    counter,    \* the value of each key and the second it expires at
    admitted,   \* history: when attempts passed
    alerts      \* FraudAlert rows; equal ones are one

throttleVars == <<clock, counter, admitted, alerts>>

CounterType == [count : Nat, until : Nat]

AlertStatuses == {"OPEN", "INVESTIGATING", "RESOLVED", "FALSE_POSITIVE"}

AlertType == [key : Keys, attempts : Nat, status : AlertStatuses]

ThrottleInit ==
    /\ clock = 0
    /\ counter = [k \in Keys |-> [count |-> 0, until |-> 0]]
    /\ admitted = [k \in Keys |-> <<>>]
    /\ alerts = {}

Current(k) == IF clock < counter[k].until THEN counter[k].count ELSE 0

(* Mutant: only the first attempt sets the expiry: a window that is fixed.  *)
IncrFixedWindow(k) ==
    counter' = [counter EXCEPT ![k] =
                  [count |-> Current(k) + 1,
                   until |-> IF Current(k) = 0 THEN clock + Window ELSE counter[k].until]]

(* incrWindow: INCR, and EXPIRE every time.                                 *)
IncrWindow(k) ==
    counter' = [counter EXCEPT ![k] = [count |-> Current(k) + 1, until |-> clock + Window]]

(* attempts > threshold is refused.                                         *)
Passes(k) == Current(k) + 1 <= Threshold[k]

(* An attempt within the threshold goes on to the lock.                     *)
AdmitAttempt(k) ==
    /\ Passes(k)
    /\ IncrWindow(k)
    /\ admitted' = [admitted EXCEPT ![k] = Append(@, clock)]
    /\ UNCHANGED <<clock, alerts>>

(* One beyond it is counted all the same, raises an alert (unless that      *)
(* insert throws) and is refused.                                           *)
RefuseAttempt(k) ==
    /\ ~Passes(k) /\ Current(k) < MaxCount
    /\ IncrWindow(k)
    /\ \/ alerts' = alerts \cup {[key |-> k, attempts |-> Current(k) + 1, status |-> "OPEN"]}
       \/ UNCHANGED alerts
    /\ UNCHANGED <<clock, admitted>>

(* resolveFraudAlert sets any status and has no effect on the counter.      *)
ResolveAlert(a, status) ==
    /\ alerts' = (alerts \ {a}) \cup {[a EXCEPT !.status = status]}
    /\ UNCHANGED <<clock, counter, admitted>>

NextSecond ==
    /\ clock < LastSecond
    /\ clock' = clock + 1
    /\ UNCHANGED <<counter, admitted, alerts>>

ThrottleNext ==
    \/ \E k \in Keys : AdmitAttempt(k) \/ RefuseAttempt(k)
    \/ \E a \in alerts, status \in AlertStatuses : ResolveAlert(a, status)
    \/ NextSecond

ThrottleSpec == ThrottleInit /\ [][ThrottleNext]_throttleVars

----------------------------------------------------------------------------
(* Properties                                                              *)

(* Counters, admissions and alerts are well typed.                          *)
ThrottleTypeOK ==
    /\ clock \in Nat
    /\ counter \in [Keys -> CounterType]
    /\ admitted \in [Keys -> Seq(Nat)]
    /\ alerts \subseteq AlertType

InWindow(k) == {i \in DOMAIN admitted[k] : admitted[k][i] > clock - Window}

(* redis.service.ts:83, "Sliding-window counter": no stretch of a window's  *)
(* length, wherever it begins, sees more attempts pass than the threshold.  *)
AdmittedPerWindow ==
    \A k \in Keys : Cardinality(InWindow(k)) <= Threshold[k]
============================================================================
