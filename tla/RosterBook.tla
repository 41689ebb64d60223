----------------------------- MODULE RosterBook -----------------------------
(***************************************************************************)
(* What the roster of a section promises, with every operation in one      *)
(* step: a student is seated only where a seat is free, in the row the     *)
(* pair already has if it has one; leaving drops the active row; the       *)
(* capacity may change at any time, and moves nobody.                      *)
(*                                                                         *)
(* Enrollment.tla is the detailed specification of the Server Actions, and *)
(* is checked and proved to implement this one.                            *)
(***************************************************************************)
EXTENDS Naturals, FiniteSets

CONSTANTS
    Students,   \* students the callers may manage (actorOwnsStudent)
    Sections,   \* sections the callers may manage (actorOwnsSection)
    Rows,       \* enrollment ids
    Capacities, \* values sectionSchema and ck_section_capacity admit
    Histories,  \* enrollment tables left by earlier calls
    NoRow       \* the id names no row

VARIABLES
    row,        \* the enrollment table
    capacity    \* class_section.capacity

rosterVars == <<row, capacity>>

EnrollmentRow == [student : Students, section : Sections,
                  status  : {"active", "dropped", "completed"}]

Tables == [Rows -> EnrollmentRow \cup {NoRow}]

IsActive(table, i) == table[i] # NoRow /\ table[i].status = "active"

PairRows(table, st, c) ==
    {i \in Rows : table[i] # NoRow /\ table[i].student = st /\ table[i].section = c}

ActivePair(table, st, c) == {i \in PairRows(table, st, c) : table[i].status = "active"}

\* The students sitting in section c.
Active(table, c) == {i \in Rows : IsActive(table, i) /\ table[i].section = c}

\* uq_enrollment_student_section: one active row of a pair.
UniqueActive(table) ==
    \A i, j \in Rows :
        (/\ IsActive(table, i)
         /\ IsActive(table, j)
         /\ table[i].student = table[j].student
         /\ table[i].section = table[j].section) => i = j

ASSUME RosterAssumption == /\ Capacities \subseteq 1..15
                           /\ IsFiniteSet(Rows)
                           /\ NoRow \notin EnrollmentRow \cup Students \cup Sections \cup Rows
                           /\ Histories \subseteq {t \in Tables : UniqueActive(t)}

RosterBegin == /\ row \in Histories
               /\ capacity \in [Sections -> Capacities]

-----------------------------------------------------------------------------
\* The check of the seat and the write are one step.
Seat(i, st, c) ==
    /\ ActivePair(row, st, c) = {}
    /\ Cardinality(Active(row, c)) < capacity[c]
    /\ IF PairRows(row, st, c) = {} THEN row[i] = NoRow ELSE i \in PairRows(row, st, c)
    /\ row' = [row EXCEPT ![i] = [student |-> st, section |-> c, status |-> "active"]]
    /\ UNCHANGED capacity

Leave(i) == /\ IsActive(row, i)
            /\ row' = [row EXCEPT ![i].status = "dropped"]
            /\ UNCHANGED capacity

Resize(c, n) == /\ capacity' = [capacity EXCEPT ![c] = n]
                /\ UNCHANGED row

RosterNext == \/ \E i \in Rows, st \in Students, c \in Sections : Seat(i, st, c)
              \/ \E i \in Rows : Leave(i)
              \/ \E c \in Sections, n \in Capacities : Resize(c, n)

\* The roster as its users see it: enrollStudent, unenrollStudent and updateSection behave
\* as if each ran alone, whatever they read before and under the lock.
RosterSpec == RosterBegin /\ [][RosterNext]_rosterVars
=============================================================================
