---- MODULE MCBackOffice ----
(***************************************************************************)
(* Catalogue, Procurement, HoldThrottle and Pricing side by side for TLC.  *)
(* They share no row and no key, so that a behaviour of all of them is an  *)
(* interleaving of one behaviour of each: it is enough to let one move     *)
(* while the others rest in their initial states.                          *)
(***************************************************************************)
EXTENDS Catalogue, Procurement, HoldThrottle, Pricing, TLC

VARIABLE part       \* the one that moves

Parts == {"catalogue", "procurement", "throttle", "pricing"}

Init ==
    /\ part \in Parts
    /\ CatalogueInit /\ ProcurementInit /\ ThrottleInit /\ PricingInit
    /\ part # "pricing" => \A t \in Tiers : fee[t] = NoFee     \* one resting state will do

Next ==
    /\ UNCHANGED part
    /\ \/ /\ part = "catalogue" /\ CatalogueNext
          /\ UNCHANGED <<procurementVars, throttleVars, pricingVars>>
       \/ /\ part = "procurement" /\ ProcurementNext
          /\ UNCHANGED <<catalogueVars, throttleVars, pricingVars>>
       \/ /\ part = "throttle" /\ ThrottleNext
          /\ UNCHANGED <<catalogueVars, procurementVars, pricingVars>>
       \/ /\ part = "pricing" /\ PricingNext
          /\ UNCHANGED <<catalogueVars, procurementVars, throttleVars>>

Spec == Init /\ [][Next]_<<part, catalogueVars, procurementVars, throttleVars, pricingVars>>

(* Each part is well typed.                                                 *)
DeskTypeOK == CatalogueTypeOK /\ ProcurementTypeOK /\ ThrottleTypeOK /\ PricingTypeOK

Symmetry ==
    Permutations(Requests) \cup Permutations(Banks) \cup Permutations(Lots)

\* Hundredths of a percent: no fee, an odd one and the most.
DeskPercents == {0, 333, 10000}
DeskDefaultFee == [t \in Tiers |-> 250]
DeskClosingDays == {NoDay, 0, 1}
DeskThreshold == [k \in Keys |-> 2]
====
