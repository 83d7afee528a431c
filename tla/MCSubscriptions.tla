--------------------------- MODULE MCSubscriptions ---------------------------
(* Small instances of Subscriptions for TLC. *)
EXTENDS Subscriptions, TLC

CONSTANTS s1, s2, c1, c2, low, high

MCOneSub == {s1}
MCTwoSubs == {s1, s2}
MCTwoCalls == {c1, c2}
MCOneCall == {c1}
MCPrices == {low, high}
MCOnePrice == [s \in Subs |-> low]
=============================================================================
