------------------------------ MODULE MCOrders ------------------------------
(***************************************************************************)
(* Small instances of Orders for TLC.                                      *)
(***************************************************************************)
EXTENDS Orders, FiniteSetsExt, TLC

CONSTANTS v1, v2, c1, c2, l1, l2, l3

\* Two bags that share a variant: c1 buys v1 and v2, c2 buys two of v2.
SharedOwnerOf   == l1 :> c1 @@ l2 :> c1 @@ l3 :> c2
SharedVariantOf == l1 :> v1 @@ l2 :> v2 @@ l3 :> v2
SharedQty       == l1 :> 1  @@ l2 :> 1  @@ l3 :> 2
SharedOpening   == v1 :> 1  @@ v2 :> 3

OneOff     == {-1}
EmptyShelf == {0}

=============================================================================
