---- MODULE MCVehicleSale ----
(* Small instances of VehicleSale for TLC.                                  *)
EXTENDS VehicleSale, TLC

CONSTANTS b1, b2

(* One listing per sale type that the code treats differently, and a buy-now *)
(* listing whose price the bank never set.                                   *)
BuyNow == [saleType |-> "BUY_NOW", price |-> 5, bid |-> 0, bidder |-> None, endAt |-> None]
Auctioned == [saleType |-> "AUCTION", price |-> 0, bid |-> 7, bidder |-> b1, endAt |-> 1]
Unpriced == [saleType |-> "HYBRID", price |-> 0, bid |-> 3, bidder |-> b2, endAt |-> 1]
InLot == [saleType |-> "LOT", price |-> 5, bid |-> 0, bidder |-> None, endAt |-> None]

OnlyBuyNow == {BuyNow}
AllListings == {BuyNow, Auctioned, Unpriced, InLot}

Symmetry == Permutations(Requests) \cup Permutations(Orders) \cup Permutations(Sweepers)
====
