----------------------------- MODULE MCCampaign -----------------------------
(* A small instance of Campaign for TLC: two calls, addresses that do not fit in one batch. *)
EXTENDS Campaign, TLC

CONSTANTS p1, p2, e1, e2, e3

MCSymmetry == Permutations(Sends) \cup Permutations(Emails)
=============================================================================
