--------------------------- MODULE MCSettlement ---------------------------
(* Small instances of Settlement for TLC: every attempt is of one order.    *)
EXTENDS Settlement, TLC

CONSTANTS o1, p1

OneOrder == [p \in Charges |-> o1]

\* Bodies without event_id: the events of a payment share its id.
PaymentId == [e \in Events |-> e.charge]

\* The capture of p1 alone has one, so that the refund and the events that
\* process() ignores still share an id.
MixedId == [PaymentId EXCEPT ![Capture(p1)] = Capture(p1)]
MixedIds == {MixedId[e] : e \in Events}

Symmetry == Permutations(Requests)
=============================================================================
