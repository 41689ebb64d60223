---------------------------- MODULE MCReschedule ----------------------------
(* A small instance of Reschedule for TLC: one seeded lesson and one id to book. *)
EXTENDS Reschedule, TLC

CONSTANTS p1, p2, l1, l2, c1, t1, t2, r1, u1, q1, q2

\* Back-to-back ranges, and overlapping ones.
MCSlots == {<<0, 2>>, <<2, 4>>}
MCRoomSlots == {<<0, 2>>, <<1, 3>>}
MCAttends == [u \in Users |-> Sections]
MCTeacherOf == [c \in Sections |-> t1]
Seed(t, s) == [section |-> c1, teacher |-> t, room |-> NoRoom, slot |-> s, status |-> "scheduled"]

\* One lesson, and an id left to book.
MCSeeds == {[l \in Lessons |-> IF l = l1 THEN Seed(t1, <<0, 2>>) ELSE NoRow]}

\* The same, or two overlapping lessons made when different teachers led the section.
MCRoomSeeds == MCSeeds \cup
    {[l \in Lessons |-> IF l = l1 THEN Seed(t1, <<0, 2>>) ELSE Seed(t2, <<1, 3>>)]}

MCSymmetry == Permutations(Jobs) \cup Permutations(Requests)
=============================================================================
