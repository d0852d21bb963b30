------------------------------ MODULE Pricing ------------------------------
(***************************************************************************)
(* What a buyer pays: the fee of each tier, which an administrator may     *)
(* change at any time (admin.module.ts:131-151, fee.service.ts), and the   *)
(* totals a checkout computes from it (money.ts, orders.service.ts:94-147).*)
(*                                                                         *)
(* Amounts are whole paise and percentages hundredths of a percent, as in  *)
(* the columns of the database. Razorpay is told the amount inside the     *)
(* transaction that inserts order and payment, and keeps what it was told  *)
(* if that rolls back.                                                     *)
(***************************************************************************)
EXTENDS Integers

CONSTANTS
    Tiers,          \* BuyerTier
    OrderNumbers,   \* generated pickup passes (bound)
    Tills,          \* slots for checkouts in flight (bound)
    BasePrices,     \* basePricePaise (bound)
    Percents,       \* the percentages an administrator may set (bound)
    DefaultFee,     \* FEE_RETAIL, FEE_DEALER, FEE_ENTERPRISE of the environment
    DefaultGst,     \* GST_PERCENT
    NoTier,         \* the tier of a user who has none
    NoNumber        \* no order number

ASSUME PricingAssumption ==
    /\ BasePrices \subseteq Nat
    /\ Percents \subseteq Nat
    /\ DefaultFee \in [Tiers -> Nat]
    /\ DefaultGst \in Nat
    /\ NoNumber \notin OrderNumbers
    /\ "RETAIL" \in Tiers /\ NoTier \notin Tiers

VARIABLES
    fee,        \* FeeSetting rows, NoFee where there is none
    till,       \* what each checkout in flight is going to insert
    ringing,    \* the order number of that, NoNumber for none
    gateway,    \* the amount of each Razorpay order, Absent where there is none
    bill        \* Order rows with the amount of their payment, NoBill where there is none

pricingVars == <<fee, till, ringing, gateway, bill>>

Absent == -1
NoFee == [percent |-> -1, gst |-> -1]
NoBill == [base |-> -1, percent |-> -1, fee |-> -1, gstPercent |-> -1, gst |-> -1,
           total |-> -1, payment |-> -1]

FeeType == [percent : Nat, gst : Nat]

BillType == [base : Nat, percent : Nat, fee : Nat, gstPercent : Nat, gst : Nat,
             total : Nat, payment : Nat]

----------------------------------------------------------------------------
(* Money.computeOrderTotals                                                *)

(* Mutant: rounded down.                                                    *)
TruncateToPaise(x) == x \div 10000

(* Half a paisa is rounded up.                                              *)
RoundToPaise(x) == (x + 5000) \div 10000

Totals(base, percent, gstPercent) ==
    LET platformFee == RoundToPaise(base * percent)
        gstOnFee == RoundToPaise(platformFee * gstPercent)
        total == base + platformFee + gstOnFee
    IN  [base |-> base, percent |-> percent, fee |-> platformFee, gstPercent |-> gstPercent,
         gst |-> gstOnFee, total |-> total, payment |-> total]

----------------------------------------------------------------------------
PricingInit ==
    /\ fee \in {[t \in Tiers |-> NoFee],
                [t \in Tiers |-> [percent |-> DefaultFee[t], gst |-> DefaultGst]]}
    /\ till = [s \in Tills |-> NoBill]
    /\ ringing = [s \in Tills |-> NoNumber]
    /\ gateway = [b \in OrderNumbers |-> Absent]
    /\ bill = [b \in OrderNumbers |-> NoBill]

(* A new row has a tax of 18 percent, an old one keeps its own, unless one  *)
(* is given.                                                                *)
UpsertFee(t, percent, gst) ==
    /\ fee' = [fee EXCEPT ![t] =
                 [percent |-> percent,
                  gst |-> IF gst # Absent THEN gst ELSE IF @ = NoFee THEN 1800 ELSE @.gst]]
    /\ UNCHANGED <<till, ringing, gateway, bill>>

(* The row decides if there is one. A user without a tier pays as RETAIL.   *)
FeeForTier(tier) ==
    LET t == IF tier = NoTier THEN "RETAIL" ELSE tier IN
    IF fee[t] = NoFee THEN [percent |-> DefaultFee[t], gst |-> DefaultGst] ELSE fee[t]

(* A checkout reads the fee, computes the totals and draws a number, ...    *)
ReadFee(s, b, tier, base) ==
    /\ ringing[s] = NoNumber
    /\ gateway[b] = Absent /\ \A other \in Tills : ringing[other] # b
    /\ till' = [till EXCEPT ![s] = Totals(base, FeeForTier(tier).percent, FeeForTier(tier).gst)]
    /\ ringing' = [ringing EXCEPT ![s] = b]
    /\ UNCHANGED <<fee, gateway, bill>>

(* ... within its transaction asks Razorpay for the total, ...              *)
CreateRazorpayOrder(s) ==
    /\ ringing[s] # NoNumber /\ gateway[ringing[s]] = Absent
    /\ gateway' = [gateway EXCEPT ![ringing[s]] = till[s].total]
    /\ UNCHANGED <<fee, till, ringing, bill>>

CloseTill(s) ==
    /\ till' = [till EXCEPT ![s] = NoBill]
    /\ ringing' = [ringing EXCEPT ![s] = NoNumber]

(* ... and commits order and payment, whatever the fee is by then.          *)
CommitBill(s) ==
    /\ ringing[s] # NoNumber /\ gateway[ringing[s]] # Absent
    /\ bill' = [bill EXCEPT ![ringing[s]] = till[s]]
    /\ CloseTill(s)
    /\ UNCHANGED <<fee, gateway>>

(* Razorpay refuses, the transaction times out or the pod dies.             *)
AbortCheckout(s) ==
    /\ ringing[s] # NoNumber
    /\ CloseTill(s)
    /\ UNCHANGED <<fee, gateway, bill>>

Checkout(s) ==
    \/ \E b \in OrderNumbers, t \in Tiers \cup {NoTier}, p \in BasePrices : ReadFee(s, b, t, p)
    \/ CreateRazorpayOrder(s) \/ CommitBill(s) \/ AbortCheckout(s)

PricingNext ==
    \/ \E t \in Tiers, p \in Percents, g \in Percents \cup {Absent} : UpsertFee(t, p, g)
    \/ \E s \in Tills : Checkout(s)

PricingSpec == PricingInit /\ [][PricingNext]_pricingVars

----------------------------------------------------------------------------
(* Properties                                                              *)

(* The columns hold what their declarations say; a checkout in flight has   *)
(* its totals.                                                              *)
PricingTypeOK ==
    /\ fee \in [Tiers -> FeeType \cup {NoFee}]
    /\ till \in [Tills -> BillType \cup {NoBill}]
    /\ ringing \in [Tills -> OrderNumbers \cup {NoNumber}]
    /\ gateway \in [OrderNumbers -> Nat \cup {Absent}]
    /\ bill \in [OrderNumbers -> BillType \cup {NoBill}]
    /\ \A s \in Tills : ringing[s] # NoNumber => till[s] # NoBill

Off(x, y) == IF x >= y THEN x - y ELSE y - x

(* money.ts:39, "round-half-up at the final paise": the fee and the tax of  *)
(* an order are each within half a paisa of the percentages it records,     *)
(* its parts make up its total, and the payment and what Razorpay collects  *)
(* are that total, however fees change while it is being made.              *)
OrderAddsUp ==
    \A b \in OrderNumbers : LET o == bill[b] IN
      o # NoBill =>
        /\ Off(10000 * o.fee, o.base * o.percent) <= 5000
        /\ Off(10000 * o.gst, o.fee * o.gstPercent) <= 5000
        /\ o.total = o.base + o.fee + o.gst
        /\ o.payment = o.total
        /\ gateway[b] = o.total
============================================================================
