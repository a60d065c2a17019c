----------------------------- MODULE MCRefunds -----------------------------
(***************************************************************************)
(* Small instances of Refunds for TLC.                                     *)
(***************************************************************************)
EXTENDS Refunds, TLC

Symmetry == Permutations(Admin)

=============================================================================
