----------------------------- MODULE MCCarrier -----------------------------
(***************************************************************************)
(* A small instance of Carrier for TLC.                                    *)
(***************************************************************************)
EXTENDS Carrier, TLC

CONSTANTS bluedart, delhivery, xpressbees

Rates == bluedart :> 1 @@ delhivery :> 2 @@ xpressbees :> 2
Times == bluedart :> 5 @@ delhivery :> 3 @@ xpressbees :> 4

Symmetry == Permutations(Handler)

=============================================================================
