---------------------------- MODULE MCGiftCards ----------------------------
(***************************************************************************)
(* Small instances of GiftCards for TLC.                                   *)
(***************************************************************************)
EXTENDS GiftCards, TLC

Symmetry == Permutations(Card) \cup Permutations(Order) \cup Permutations(Handler)

=============================================================================
