------------------------------- MODULE Sales -------------------------------
(***************************************************************************)
(* What checkout promises about stock, whatever runs beside it: each bag   *)
(* is sold at most once, in one indivisible step, only when the shelf      *)
(* covers every line, and the shelf falls by exactly what the bag holds.   *)
(* Everything else that touches the shelf (cancellations, adjustments) is  *)
(* a single anonymous step that leaves the sales alone.                    *)
(*                                                                         *)
(* Module Orders implements this specification; see OrdersProofs.          *)
(***************************************************************************)
EXTENDS Integers

CONSTANTS
    Variant,    \* the product variants, one inventory row each
    Customer,   \* the customers, each with one bag
    Line,       \* the lines of all the bags
    OwnerOf,    \* [Line -> Customer]: whose bag a line is in
    VariantOf,  \* [Line -> Variant]: what it buys
    Qty,        \* [Line -> positive integer]: how many
    Opening     \* [Variant -> Nat]: opening stock

VARIABLES
    shelf,      \* [Variant -> Nat]: what can still be sold
    sold        \* the customers whose bag has become an order

salesVars == <<shelf, sold>>

Bag(c) == {l \in Line : OwnerOf[l] = c}

\* What bag c takes of variant v, for a bag with one line per variant.
Wanted(c, v) ==
    IF \E l \in Bag(c) : VariantOf[l] = v
    THEN Qty[CHOOSE l \in Bag(c) : VariantOf[l] = v]
    ELSE 0

Init ==
    /\ shelf = Opening
    /\ sold = {}

Sell(c) ==
    /\ c \notin sold
    /\ \A v \in Variant : Wanted(c, v) <= shelf[v]
    /\ shelf' = [v \in Variant |-> shelf[v] - Wanted(c, v)]
    /\ sold' = sold \cup {c}

StaffMovesStock ==
    /\ shelf' \in [Variant -> Nat]
    /\ UNCHANGED sold

Next ==
    \/ \E c \in Customer : Sell(c)
    \/ StaffMovesStock

Spec == Init /\ [][Next]_salesVars

=============================================================================
