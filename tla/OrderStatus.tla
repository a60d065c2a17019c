---------------------------- MODULE OrderStatus ----------------------------
(***************************************************************************)
(* The status of an order and the moves staff may make, shared by every    *)
(* module that reads or writes it.                                         *)
(***************************************************************************)

Status  == {"PENDING_PAYMENT", "PAID", "PROCESSING", "SHIPPED", "DELIVERED", "CANCELLED"}

\* ALLOWED_TRANSITIONS.
AllowedTransitions(status) ==
    CASE status = "PENDING_PAYMENT" -> {"PAID", "CANCELLED"}
      [] status = "PAID"            -> {"PROCESSING", "CANCELLED"}
      [] status = "PROCESSING"      -> {"SHIPPED", "CANCELLED"}
      [] status = "SHIPPED"         -> {"DELIVERED"}
      [] OTHER                      -> {}

=============================================================================
