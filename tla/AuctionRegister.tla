-------------------------- MODULE AuctionRegister --------------------------
(***************************************************************************)
(* What bidding promises, whatever runs concurrently: the price of an item *)
(* is a register that moves up only, by at least the minimum increment,    *)
(* one accepted bid at a time, and the leader is the bidder of that bid.   *)
(***************************************************************************)
EXTENDS Integers

CONSTANTS Items, Bidders, Amounts, MinStep, None

VARIABLES price, leader, bidCount

vars == <<price, leader, bidCount>>

Init ==
    /\ price = [i \in Items |-> 0]
    /\ leader = [i \in Items |-> None]
    /\ bidCount = [i \in Items |-> 0]

(* A first bid is any positive amount the opening price admits.             *)
Raise(i, b, amount) ==
    /\ amount >= (IF price[i] = 0 THEN 1 ELSE price[i] + MinStep)
    /\ price' = [price EXCEPT ![i] = amount]
    /\ leader' = [leader EXCEPT ![i] = b]
    /\ bidCount' = [bidCount EXCEPT ![i] = @ + 1]

Next == \E i \in Items, b \in Bidders, amount \in Amounts : Raise(i, b, amount)

Spec == Init /\ [][Next]_vars
=============================================================================
