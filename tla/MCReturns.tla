----------------------------- MODULE MCReturns -----------------------------
(***************************************************************************)
(* A small instance of Returns for TLC.                                    *)
(***************************************************************************)
EXTENDS Returns, TLC

CONSTANTS top, skirt

\* Two of one garment and one of another.
TwoAndOne == (top :> 2) @@ (skirt :> 1)

Symmetry == Permutations(Worker) \cup Permutations(Request)

\* Every property but TypeOK is conditional on it: what can follow a race is
\* explored no further than the state it leads to.
Unraced == ~raced

=============================================================================
