----------------------------- MODULE LessonBook -----------------------------
(***************************************************************************)
(* What scheduling promises, with every operation in one step: lessons are *)
(* booked, moved and cancelled without a collision; a reschedule request   *)
(* is answered once, and granting it moves its lesson in the same step; a  *)
(* user never holds more than MaxOpen pending requests.                    *)
(*                                                                         *)
(* Reschedule.tla is the detailed specification of the handlers, and is    *)
(* checked and proved to implement this one.                               *)
(***************************************************************************)
EXTENDS LessonTable, FiniteSets

CONSTANTS
    Users,      \* portal accounts
    Requests,   \* reschedule_request ids
    Attends,    \* Attends[u]: sections in which a student linked to u is actively enrolled
    TeacherOf,  \* TeacherOf[c]: class_section.teacher_id
    MaxOpen,    \* MAX_OPEN_RESCHEDULE_REQUESTS_PER_USER
    Seeds       \* lesson tables the materializer may have left behind

VARIABLES lesson, request

bookVars == <<lesson, request>>

RequestStatus == {"pending", "approved", "rejected", "canceled"}

RequestRow == [lesson : Lessons,
               by     : Users,
               slot   : Slots,
               status : RequestStatus]

ASSUME BookAssumption == /\ Attends \in [Users -> SUBSET Sections]
                         /\ TeacherOf \in [Sections -> Teachers \cup {NoTeacher}]
                         /\ MaxOpen \in Nat
                         /\ IsFiniteSet(Requests)
                         /\ Seeds \subseteq {t \in Tables : CollisionFree(t)}
                         /\ NoRow \notin RequestRow

\* Requests of u that wait for an answer.
Open(u) == {q \in Requests : /\ request[q] # NoRow
                             /\ request[q].by = u
                             /\ request[q].status = "pending"}

Pending(q) == request[q] # NoRow /\ request[q].status = "pending"

BookTypeOK == /\ lesson \in Tables
              /\ request \in [Requests -> RequestRow \cup {NoRow}]

BookInit == /\ lesson \in Seeds
            /\ request = [q \in Requests |-> NoRow]

-----------------------------------------------------------------------------
NewLesson(c, s) == [section |-> c, teacher |-> TeacherOf[c], room |-> NoRoom,
                    slot |-> s, status |-> "scheduled"]

Moved(l, s) == [lesson[l] EXCEPT !.slot = s]

Book(l, c, s) == /\ lesson[l] = NoRow
                 /\ TeacherOf[c] # NoTeacher
                 /\ Admits(lesson, l, NewLesson(c, s))
                 /\ lesson' = [lesson EXCEPT ![l] = NewLesson(c, s)]
                 /\ UNCHANGED request

Move(l, s) == /\ lesson[l] # NoRow
              /\ lesson[l].teacher # NoTeacher
              /\ Admits(lesson, l, Moved(l, s))
              /\ lesson' = [lesson EXCEPT ![l] = Moved(l, s)]
              /\ UNCHANGED request

\* A cancelled lesson keeps its row.
Cancel(L) == /\ \A l \in L : lesson[l] # NoRow
             /\ lesson' = [l \in Lessons |->
                             IF l \in L THEN [lesson[l] EXCEPT !.status = "canceled"]
                                        ELSE lesson[l]]
             /\ UNCHANGED request

AssignRoom(l, r) == /\ lesson[l] # NoRow
                    /\ Admits(lesson, l, [lesson[l] EXCEPT !.room = r])
                    /\ lesson' = [lesson EXCEPT ![l].room = r]
                    /\ UNCHANGED request

Ask(q, u, l, s) == /\ request[q] = NoRow
                   /\ lesson[l] # NoRow
                   /\ lesson[l].section \in Attends[u]
                   /\ Cardinality(Open(u)) < MaxOpen
                   /\ request' = [request EXCEPT ![q] =
                                    [lesson |-> l, by |-> u, slot |-> s, status |-> "pending"]]
                   /\ UNCHANGED lesson

\* The answer and the move are one step.
Grant(q) == /\ Pending(q)
            /\ LET l == request[q].lesson
                   r == Moved(l, request[q].slot)
               IN  /\ lesson[l] # NoRow
                   /\ lesson[l].teacher # NoTeacher
                   /\ Admits(lesson, l, r)
                   /\ lesson' = [lesson EXCEPT ![l] = r]
            /\ request' = [request EXCEPT ![q].status = "approved"]

Close(q, answer) == /\ Pending(q)
                    /\ request' = [request EXCEPT ![q].status = answer]
                    /\ UNCHANGED lesson

BookNext == \/ \E l \in Lessons, c \in Sections, s \in Slots : Book(l, c, s)
            \/ \E l \in Lessons, s \in Slots : Move(l, s)
            \/ \E L \in SUBSET Lessons : Cancel(L)
            \/ \E l \in Lessons, r \in Rooms \cup {NoRoom} : AssignRoom(l, r)
            \/ \E q \in Requests, u \in Users, l \in Lessons, s \in Slots : Ask(q, u, l, s)
            \/ \E q \in Requests : Grant(q)
            \/ \E q \in Requests, a \in {"rejected", "canceled"} : Close(q, a)

BookSpec == BookInit /\ [][BookNext]_bookVars

-----------------------------------------------------------------------------
\* No two live lessons of a section share a teacher or a room at overlapping times:
\* what the conflict pre-checks and the exclusion constraints of 0022 exist for.
NoDoubleBooking == CollisionFree(lesson)

\* A portal user holds at most MaxOpen pending requests, however many of the user's
\* create handlers run at once (the advisory lock of createRescheduleRequestCore).
OpenRequestsCapped == \A u \in Users : Cardinality(Open(u)) <= MaxOpen
=============================================================================
