----------------------------- MODULE MCMessages -----------------------------
(***************************************************************************)
(* A small instance of Messages for TLC.                                   *)
(***************************************************************************)
EXTENDS Messages

=============================================================================
