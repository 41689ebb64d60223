----------------------------- MODULE MCAccounts -----------------------------
(* Instance of Accounts for TLC. *)
EXTENDS Accounts, TLC

CONSTANTS p1, p2, o1, o2, a1, e1, e2, e3, s1

\* The two owners of the seed have addresses of their own; e3 is anybody's.
MCSeedEmail == o1 :> e1 @@ o2 :> e2

MCSymmetry == Permutations(Calls)
=============================================================================
