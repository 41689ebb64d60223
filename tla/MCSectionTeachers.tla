-------------------------- MODULE MCSectionTeachers --------------------------
(* A small instance of SectionTeachers for TLC. *)
EXTENDS SectionTeachers

CONSTANTS p1, p2, t1, t2, t3, k1, k2, k3, k4
=============================================================================
