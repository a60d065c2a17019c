---------------------------- MODULE MCShipments ----------------------------
(***************************************************************************)
(* A small instance of Shipments for TLC.                                  *)
(***************************************************************************)
EXTENDS Shipments, TLC

CONSTANT top

\* Two of one garment.
Two == (top :> 2)

Symmetry == Permutations(Worker) \cup Permutations(Parcel)

\* The properties say nothing, but for TypeOK and the trail's, of what can
\* follow a race: it is explored no further than the state it leads to.
Unraced == ~raced

=============================================================================
