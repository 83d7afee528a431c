----------------------------- MODULE MCAccounts -----------------------------
(* Instances of Accounts for TLC. *)
EXTENDS AccountPages, TLC

CONSTANTS t1, t2

MCTabs == {t1, t2}
MCSymmetry == Permutations(MCTabs)

=============================================================================
