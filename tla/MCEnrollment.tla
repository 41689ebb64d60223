---------------------------- MODULE MCEnrollment ----------------------------
(* A small instance of Enrollment for TLC: one free seat, students who come and go. *)
EXTENDS Enrollment, TLC

CONSTANTS p1, p2, p3, s1, s2, s3, c1, e1, e2, e3

MCCapacities == 1..2
Ended(s, how) == [student |-> s, section |-> c1, status |-> how]

\* No history; a completed pair; a student who sits in the section and one who dropped.
MCHistories == {[i \in Rows |-> NoRow],
                [i \in Rows |-> IF i = e1 THEN Ended(s1, "completed") ELSE NoRow],
                [i \in Rows |-> CASE i = e1 -> Ended(s1, "dropped")
                                  [] i = e2 -> Ended(s2, "active")
                                  [] OTHER  -> NoRow]}
MCSymmetry == Permutations(Calls)
=============================================================================
