----------------------------- MODULE Enrollment -----------------------------
(***************************************************************************)
(* The roster of class sections.  enrollStudent serialises the enrollers   *)
(* of a section on its class_section row (SELECT ... FOR UPDATE), re-reads *)
(* the pair and re-counts inside the lock, and then reactivates an old row *)
(* or inserts one; unenrollStudent and updateSection run beside it.        *)
(*                                                                         *)
(* Each call executes one statement at a time; the enroll transaction's    *)
(* only write is its last step, so it is published there.                  *)
(***************************************************************************)
EXTENDS RosterBook

CONSTANT Calls  \* calls in flight at one time

VARIABLE call   \* call[p]: where call p stands, with its local variables

vars == <<row, capacity, call>>

Stages == {"idle", "enroll_lock", "enroll_pair", "enroll_count", "enroll_write", "drop"}

Call == [stage   : Stages,
         student : Students \cup {NoRow},
         section : Sections \cup {NoRow},
         limit   : Capacities \cup {0},
         reuse   : Rows \cup {NoRow},
         left    : SUBSET Rows]

Idle == [stage |-> "idle", student |-> NoRow, section |-> NoRow,
         limit |-> 0, reuse |-> NoRow, left |-> {}]

-----------------------------------------------------------------------------
TypeOK == /\ row \in Tables
          /\ capacity \in [Sections -> Capacities]
          /\ call \in [Calls -> Call]

Init == /\ RosterBegin
        /\ call = [p \in Calls |-> Idle]

-----------------------------------------------------------------------------
At(p, stage)   == call[p].stage = stage
Goto(p, stage) == call' = [call EXCEPT ![p].stage = stage]
Finish(p)      == call' = [call EXCEPT ![p] = Idle]

\* Calls whose transaction has the FOR UPDATE lock of section c.
Holds(p, c) == /\ call[p].section = c
               /\ call[p].stage \in {"enroll_pair", "enroll_count", "enroll_write"}

SectionFree(p, c) == \A o \in Calls \ {p} : ~Holds(o, c)

-----------------------------------------------------------------------------
(* enrollStudent *)

\* The fast return outside the transaction; an active pair needs nothing.
EnrollPeek(p, st, c) ==
    /\ At(p, "idle")
    /\ ActivePair(row, st, c) = {}
    /\ call' = [call EXCEPT ![p] = [Idle EXCEPT !.stage = "enroll_lock",
                                                !.student = st, !.section = c]]
    /\ UNCHANGED <<row, capacity>>

\* Mutant: a plain SELECT reads the capacity and locks nothing.
EnrollLockPlain(p) ==
    /\ At(p, "enroll_lock")
    /\ call' = [call EXCEPT ![p].stage = "enroll_pair",
                            ![p].limit = capacity[call[p].section]]
    /\ UNCHANGED <<row, capacity>>

EnrollLock(p) ==
    /\ At(p, "enroll_lock")
    /\ SectionFree(p, call[p].section)
    /\ call' = [call EXCEPT ![p].stage = "enroll_pair",
                            ![p].limit = capacity[call[p].section]]
    /\ UNCHANGED <<row, capacity>>

\* Mutant: a dropped student gets a second row.
EnrollPairNoReuse(p) ==
    /\ At(p, "enroll_pair")
    /\ IF ActivePair(row, call[p].student, call[p].section) # {}
       THEN Finish(p)
       ELSE Goto(p, "enroll_count")
    /\ UNCHANGED <<row, capacity>>

\* Under the lock: an active row ends the call, an old one is kept for reuse.
EnrollPair(p) ==
    LET mine == PairRows(row, call[p].student, call[p].section)
    IN  /\ At(p, "enroll_pair")
        /\ \/ /\ ActivePair(row, call[p].student, call[p].section) # {}
              /\ Finish(p)
           \/ /\ ActivePair(row, call[p].student, call[p].section) = {}
              /\ \E i \in IF mine = {} THEN {NoRow} ELSE mine :
                    call' = [call EXCEPT ![p].stage = "enroll_count", ![p].reuse = i]
        /\ UNCHANGED <<row, capacity>>

EnrollCount(p) ==
    /\ At(p, "enroll_count")
    /\ IF Cardinality(Active(row, call[p].section)) < call[p].limit
       THEN Goto(p, "enroll_write")
       ELSE Finish(p)
    /\ UNCHANGED <<row, capacity>>

\* Reactivate or insert, and commit; the partial unique index refuses a second active row.
EnrollWrite(p, i) ==
    LET st == call[p].student
        c  == call[p].section
    IN  /\ At(p, "enroll_write")
        /\ IF call[p].reuse = NoRow THEN row[i] = NoRow ELSE i = call[p].reuse
        /\ row' = IF ActivePair(row, st, c) \ {i} = {}
                  THEN [row EXCEPT ![i] =
                          [student |-> st, section |-> c, status |-> "active"]]
                  ELSE row
        /\ Finish(p)
        /\ UNCHANGED capacity

-----------------------------------------------------------------------------
(* unenrollStudent: reads the active rows, then drops them one by one by id *)

UnenrollRead(p, st, c) ==
    /\ At(p, "idle")
    /\ ActivePair(row, st, c) # {}
    /\ call' = [call EXCEPT ![p] = [Idle EXCEPT !.stage = "drop",
                                                !.left = ActivePair(row, st, c)]]
    /\ UNCHANGED <<row, capacity>>

UnenrollDrop(p, i) ==
    /\ At(p, "drop")
    /\ i \in call[p].left
    /\ row' = [row EXCEPT ![i].status = "dropped"]
    /\ IF call[p].left = {i}
       THEN Finish(p)
       ELSE call' = [call EXCEPT ![p].left = @ \ {i}]
    /\ UNCHANGED capacity

\* Mutant: the capacity is stored one too low, down to 0.
UpdateSectionShort(c, n) ==
    /\ \A p \in Calls : ~Holds(p, c)
    /\ capacity' = [capacity EXCEPT ![c] = n - 1]
    /\ UNCHANGED <<row, call>>

\* Mutant: the enroller's lock is on something else than the row this UPDATE changes.
UpdateSectionUnlocked(c, n) ==
    /\ capacity' = [capacity EXCEPT ![c] = n]
    /\ UNCHANGED <<row, call>>

\* updateSection: its UPDATE waits for the section's row lock.
UpdateSection(c, n) ==
    /\ \A p \in Calls : ~Holds(p, c)
    /\ capacity' = [capacity EXCEPT ![c] = n]
    /\ UNCHANGED <<row, call>>

\* The server process dies under call p; its transaction is rolled back.
Crash(p) == /\ ~At(p, "idle")
            /\ Finish(p)
            /\ UNCHANGED <<row, capacity>>

Next == \/ \E p \in Calls, st \in Students, c \in Sections :
              EnrollPeek(p, st, c) \/ UnenrollRead(p, st, c)
        \/ \E p \in Calls : \/ EnrollLock(p) \/ EnrollPair(p) \/ EnrollCount(p)
                            \/ Crash(p)
        \/ \E p \in Calls, i \in Rows : EnrollWrite(p, i) \/ UnenrollDrop(p, i)
        \/ \E c \in Sections, n \in Capacities : UpdateSection(c, n)

Spec == Init /\ [][Next]_vars

-----------------------------------------------------------------------------
\* A step that adds a student to a section leaves it within the capacity the section has
\* then, whatever calls ran side by side (the race CR3 of enrollStudent closes).  A lower
\* capacity set later may leave a section over-full; nobody is added to it.
NeverOverfilled ==
    [][\A c \in Sections :
          ~(Active(row', c) \subseteq Active(row, c))
             => Cardinality(Active(row', c)) <= capacity'[c]]_vars

\* A new row appears only for a pair that has none: a student who dropped is reactivated
\* in the old row, so the drop history of a pair is one row that comes and goes.
OldRowsReused ==
    [][\A i, j \in Rows :
          /\ row[i] = NoRow /\ row'[i] # NoRow
          /\ row[j] # NoRow
          => ~(row[j].student = row'[i].student /\ row[j].section = row'[i].section)]_vars

\* Under the lock the pair read says what is true at the write, so the partial unique index
\* never refuses the write: a double click ends in the same row, not in a raw 23505 error.
WriteNeverRefused ==
    \A p \in Calls : At(p, "enroll_write") =>
        ActivePair(row, call[p].student, call[p].section) = {}
=============================================================================
