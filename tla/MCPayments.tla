----------------------------- MODULE MCPayments -----------------------------
(***************************************************************************)
(* Small instances of Payments for TLC.                                    *)
(***************************************************************************)
EXTENDS Payments, TLC

CONSTANTS o1, a1, a2, p1

\* One order whose customer may start the payment twice and pay on either.
TwoStartsOrderOf   == a1 :> o1 @@ a2 :> o1

\* There is one charge, on the first start.
OneChargeAttemptOf == p1 :> a1

\* No body has an id of its own: the payment's id stands in for it.
PaymentIds  == Charge
PaymentIdOf == [e \in Event |-> e.charge]

=============================================================================
