---------------------------- MODULE MCCheckout -----------------------------
(***************************************************************************)
(* Small instances of Checkout for TLC.                                    *)
(***************************************************************************)
EXTENDS Checkout, TLC

CONSTANTS dress

\* A dress sold in two parts, two left in the one size there is.
Part(p)  == [variant |-> dress, part |-> p]
Parts    == {Part("top"), Part("skirt")}
Articles == Parts \cup {Part(Whole)}
PartsGroup == {Parts}
TwoLeft  == dress :> 2
Symmetry == Permutations(Handler) \cup Permutations(Customer)

\* "Two parts of a set in the same size are two lines, not one doubled"
\* (cart.routes.ts): what is in the bags of a part was asked for.
PartsStayApart == \A a \in Article : InBags(a) + bought[a] <= put[a]

=============================================================================
