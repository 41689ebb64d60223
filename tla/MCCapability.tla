---------------------------- MODULE MCCapability ----------------------------
(* Small instances of Capability for TLC: a share link and a calendar feed. *)
EXTENDS Capability, TLC

CONSTANTS p1, p2, p3, i1, i2, i3, t1, t2, t3, t4

MCSymmetry == Permutations(Calls) \cup Permutations(Rows) \cup Permutations(Tokens)
=============================================================================
