------------------------------ MODULE MCPayments ------------------------------
(* Payments on a small instance. *)
EXTENDS Payments, TLC

CONSTANTS k1, k2, b1, b2

Buy(k, b) == [key |-> k, body |-> b]

\* Two purchases that fight over one key, and one that is never valid.
MixedPurchases == {Buy(k1, b1), Buy(k1, b2), Buy(k2, BadBody)}
=============================================================================
