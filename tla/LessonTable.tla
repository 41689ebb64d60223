---------------------------- MODULE LessonTable ----------------------------
(***************************************************************************)
(* The lesson table of one tenant as the scheduling code sees it: the row  *)
(* type, the half-open time ranges, and the two GiST exclusion constraints *)
(* that Postgres enforces on every INSERT and UPDATE.                      *)
(*                                                                         *)
(* Data kept: the columns the constraints and the conflict pre-check read. *)
(* Titles, notes and meeting links do not influence any decision here.     *)
(***************************************************************************)
EXTENDS Naturals

CONSTANTS
    Lessons,    \* lesson ids
    Sections,   \* class sections
    Teachers,   \* staff a lesson can be assigned to
    Rooms,      \* values of lesson.location
    Slots,      \* [start, end) ranges a lesson can be given
    NoTeacher,  \* NULL teacher_id
    NoRoom,     \* NULL location
    NoRow       \* the id names no row

\* lesson.status: the scheduling handlers write only these two values.
LessonStatus == {"scheduled", "canceled"}

LessonRow == [section : Sections,
              teacher : Teachers \cup {NoTeacher},
              room    : Rooms \cup {NoRoom},
              slot    : Slots,
              status  : LessonStatus]

\* ck_lesson_time_order: a range ends after it starts.
ASSUME SlotsAssumption == Slots \subseteq {s \in Nat \X Nat : s[1] < s[2]}

ASSUME NullAssumption == /\ NoTeacher \notin Teachers
                         /\ NoRoom \notin Rooms
                         /\ NoRow \notin LessonRow

Tables == [Lessons -> LessonRow \cup {NoRow}]

-----------------------------------------------------------------------------
\* tstzrange(a, b, '[)') && tstzrange(c, d, '[)'): back-to-back ranges do not overlap.
Overlap(s, t) == s[1] < t[2] /\ t[1] < s[2]

\* The rows both constraints apply to.
Live(a) == a # NoRow /\ a.status # "canceled"

\* lesson_no_teacher_overlap: a NULL teacher is exempt, and only within one section.
TeacherCollision(a, b) == /\ a.section = b.section
                          /\ a.teacher = b.teacher
                          /\ a.teacher # NoTeacher
                          /\ Overlap(a.slot, b.slot)

\* lesson_no_room_overlap: a NULL location is exempt, and only within one section.
RoomCollision(a, b) == /\ a.section = b.section
                       /\ a.room = b.room
                       /\ a.room # NoRoom
                       /\ Overlap(a.slot, b.slot)

Collide(a, b) == /\ Live(a)
                 /\ Live(b)
                 /\ TeacherCollision(a, b) \/ RoomCollision(a, b)

\* The exclusion check Postgres makes when row r is about to be stored under id l.
Admits(table, l, r) == \A m \in Lessons \ {l} : ~Collide(r, table[m])

\* checkTeacherConflict: some other live lesson of the teacher in this section overlaps s.
TeacherBusy(table, l, sec, t, s) ==
    \E m \in Lessons \ {l} : /\ Live(table[m])
                             /\ table[m].section = sec
                             /\ table[m].teacher = t
                             /\ Overlap(table[m].slot, s)

\* No two rows the constraints apply to collide.
CollisionFree(table) ==
    \A l, m \in Lessons : l # m => ~Collide(table[l], table[m])
=============================================================================
