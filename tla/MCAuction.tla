---- MODULE MCAuction ----
(* Small instances of Auction for TLC.                                      *)
EXTENDS Auction, TLC

CONSTANTS b1, b2

(* An auction with an end, a listing on auction and on sale without one, and *)
(* a private lot that only one buyer may bid on.                             *)
Auctioned == [kind |-> "AUCTION", opening |-> 1, end |-> 3, admitted |-> {}]
Hybrid == [kind |-> "HYBRID", opening |-> 1, end |-> None, admitted |-> {}]
PrivateLot == [kind |-> "LOT", opening |-> 2, end |-> 1, admitted |-> {b1}]

AllListings == {Auctioned, Hybrid, PrivateLot}

Symmetry == Permutations(Requests)
====
