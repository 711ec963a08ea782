-------------------------- MODULE MCEmailDelivery --------------------------
(***************************************************************************)
(* Small instances of EmailDelivery.                                       *)
(***************************************************************************)
EXTENDS EmailDelivery

CONSTANTS n1, n2, w1, w2

=============================================================================
