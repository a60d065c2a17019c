----------------------------- MODULE Processes -----------------------------
(***************************************************************************)
(* Calls that run side by side: what each does next, and what it works     *)
(* with, between one statement and the next.                               *)
(***************************************************************************)
CONSTANT None     \* no value

VARIABLES
    pc,           \* what each call does next
    job           \* what each works with

Goto(w, where, j) ==
    /\ pc'  = [pc EXCEPT ![w] = where]
    /\ job' = [job EXCEPT ![w] = j]

=============================================================================
