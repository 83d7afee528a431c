----------------------------- MODULE MCPayments -----------------------------
(* Small instances of Payments for TLC. *)
EXTENDS Payments

CONSTANTS p1, c1, c2

MCOnePayment == {p1}
MCTwoCalls == {c1, c2}
=============================================================================
