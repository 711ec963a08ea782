----------------------------- MODULE MCPayments -----------------------------
(***************************************************************************)
(* Three reports and two batches: a batch of two with one left over, which *)
(* another batch can take.                                                 *)
(***************************************************************************)
EXTENDS Payments, TLC

CONSTANTS r1, r2, r3, b1, b2

Interchangeable == Permutations({r1, r2, r3}) \cup Permutations({b1, b2})

=============================================================================
