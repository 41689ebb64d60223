-------------------------- MODULE Enrollment_proofs --------------------------
(***************************************************************************)
(* The roster's properties for any number of calls, students, sections and *)
(* rows.  The argument is the lock's: a call that holds a section's row    *)
(* lock knows its capacity, and from the pair read (the count) on it knows *)
(* that its student has no active row (that a seat is free); nobody else   *)
(* can take the seat, other calls can only free one.                       *)
(***************************************************************************)
EXTENDS Enrollment, FiniteSetTheorems, TLAPS

Locked  == {"enroll_pair", "enroll_count", "enroll_write"}
Checked == {"enroll_count", "enroll_write"}

\* A call's local variables are set as its stage needs them.
CallsPrepared ==
    \A p \in Calls :
        /\ call[p].stage \in Locked \cup {"enroll_lock"}
              => call[p].student \in Students /\ call[p].section \in Sections
        /\ \A i \in call[p].left : row[i] # NoRow

\* SELECT ... FOR UPDATE: one call at a time holds a section.
OneHolder == \A p, o \in Calls, c \in Sections : Holds(p, c) /\ Holds(o, c) => p = o

LimitCurrent == \A p \in Calls :
    call[p].stage \in Locked => call[p].limit = capacity[call[p].section]

PairCurrent == \A p \in Calls :
    call[p].stage \in Checked =>
        /\ ActivePair(row, call[p].student, call[p].section) = {}
        /\ IF call[p].reuse = NoRow
           THEN PairRows(row, call[p].student, call[p].section) = {}
           ELSE call[p].reuse \in PairRows(row, call[p].student, call[p].section)

SeatFree == \A p \in Calls :
    At(p, "enroll_write") =>
        Cardinality(Active(row, call[p].section)) < call[p].limit

\* The inductive invariant.
Roster == /\ TypeOK
          /\ UniqueActive(row)
          /\ CallsPrepared
          /\ OneHolder
          /\ LimitCurrent
          /\ PairCurrent
          /\ SeatFree

-----------------------------------------------------------------------------
\* The students of a section are finitely many.
LEMMA ActiveFinite ==
    ASSUME NEW t, NEW c
    PROVE  /\ IsFiniteSet(Active(t, c))
           /\ Cardinality(Active(t, c)) \in Nat
<1>1. Active(t, c) \subseteq Rows  BY DEF Active
<1>2. IsFiniteSet(Active(t, c))  BY <1>1, FS_Subset, RosterAssumption
<1> QED  BY <1>2, FS_CardinalityType

\* The table after enrollStudent's write of row i, and after unenrollStudent's drop of it.
Written(t, i, st, c) == [t EXCEPT ![i] = [student |-> st, section |-> c, status |-> "active"]]
Dropped(t, i)        == [t EXCEPT ![i].status = "dropped"]

\* enrollStudent's write keeps one active row of a pair, and adds to one section only.
LEMMA WriteTable ==
    ASSUME NEW t \in Tables, NEW i \in Rows, NEW st \in Students, NEW c \in Sections,
           UniqueActive(t),
           ActivePair(t, st, c) = {},
           t[i] = NoRow \/ i \in PairRows(t, st, c)
    PROVE  /\ Written(t, i, st, c) \in Tables
           /\ UniqueActive(Written(t, i, st, c))
           /\ Active(Written(t, i, st, c), c) \subseteq Active(t, c) \cup {i}
           /\ \A d \in Sections \ {c} : Active(Written(t, i, st, c), d) = Active(t, d)
           /\ \A s \in Students, d \in Sections \ {c} : PairRows(Written(t, i, st, c), s, d) = PairRows(t, s, d)
           /\ \A s \in Students, d \in Sections \ {c} : ActivePair(Written(t, i, st, c), s, d) = ActivePair(t, s, d)
           /\ \A j \in Rows : t[j] # NoRow => Written(t, i, st, c)[j] # NoRow
<1> DEFINE r == [student |-> st, section |-> c, status |-> "active"]
           u == Written(t, i, st, c)
<1>1. r \in EnrollmentRow /\ r # NoRow  BY RosterAssumption DEF EnrollmentRow
<1>2. u \in Tables  BY <1>1 DEF Tables, Written
<1>3. \A j \in Rows : u[j] = IF j = i THEN r ELSE t[j]  BY DEF Tables, Written
<1>4. \A j \in Rows : IsActive(t, j) => ~(t[j].student = st /\ t[j].section = c)
  BY DEF IsActive, ActivePair, PairRows
<1>5. UniqueActive(u)
  <2> SUFFICES ASSUME NEW j \in Rows, NEW k \in Rows, IsActive(u, j), IsActive(u, k),
                      u[j].student = u[k].student, u[j].section = u[k].section, j # k
               PROVE  FALSE
    BY DEF UniqueActive
  <2>1. CASE j = i  BY <2>1, <1>1, <1>3, <1>4 DEF IsActive
  <2>2. CASE k = i  BY <2>2, <1>1, <1>3, <1>4 DEF IsActive
  <2>3. CASE j # i /\ k # i  BY <2>3, <1>3 DEF IsActive, UniqueActive
  <2> QED  BY <2>1, <2>2, <2>3
<1>6. Active(u, c) \subseteq Active(t, c) \cup {i}  BY <1>3 DEF Active, IsActive
<1>7. \A d \in Sections \ {c} : Active(u, d) = Active(t, d)
  BY <1>1, <1>3 DEF Active, IsActive, PairRows
<1>8. \A s \in Students, d \in Sections \ {c} : PairRows(u, s, d) = PairRows(t, s, d)
  BY <1>1, <1>3 DEF PairRows
<1>9. \A s \in Students, d \in Sections \ {c} : ActivePair(u, s, d) = ActivePair(t, s, d)
  BY <1>1, <1>3 DEF ActivePair, PairRows
<1>10. \A j \in Rows : t[j] # NoRow => u[j] # NoRow  BY <1>1, <1>3
<1> QED  BY <1>2, <1>5, <1>6, <1>7, <1>8, <1>9, <1>10

\* The roster table before and after unenrollStudent drops row i.
LEMMA DropTable ==
    ASSUME NEW t \in Tables, NEW i \in Rows, t[i] # NoRow, UniqueActive(t)
    PROVE  /\ Dropped(t, i) \in Tables
           /\ UniqueActive(Dropped(t, i))
           /\ \A c \in Sections : Active(Dropped(t, i), c) \subseteq Active(t, c)
           /\ \A s \in Students, c \in Sections : PairRows(Dropped(t, i), s, c) = PairRows(t, s, c)
           /\ \A s \in Students, c \in Sections : ActivePair(Dropped(t, i), s, c) \subseteq ActivePair(t, s, c)
           /\ \A j \in Rows : t[j] # NoRow => Dropped(t, i)[j] # NoRow
<1> DEFINE r == [t[i] EXCEPT !.status = "dropped"]
           u == Dropped(t, i)
<1>1. t[i] \in EnrollmentRow  BY DEF Tables
<1>2. /\ r \in EnrollmentRow /\ r # NoRow /\ r.status = "dropped"
      /\ r.student = t[i].student /\ r.section = t[i].section
  BY <1>1, RosterAssumption DEF EnrollmentRow
<1>3. u \in Tables  BY <1>2 DEF Tables, Dropped
<1>4. \A j \in Rows : u[j] = IF j = i THEN r ELSE t[j]  BY DEF Tables, Dropped
<1>5. UniqueActive(u)
  <2>1. \A j \in Rows : IsActive(u, j) => IsActive(t, j) /\ u[j] = t[j]
    BY <1>2, <1>4 DEF IsActive
  <2> QED  BY <2>1 DEF UniqueActive
<1>6. \A c \in Sections : Active(u, c) \subseteq Active(t, c)
  BY <1>2, <1>4 DEF Active, IsActive
<1>7. \A s \in Students, c \in Sections : PairRows(u, s, c) = PairRows(t, s, c)
  BY <1>2, <1>4 DEF PairRows
<1>8. \A s \in Students, c \in Sections : ActivePair(u, s, c) \subseteq ActivePair(t, s, c)
  BY <1>2, <1>4 DEF ActivePair, PairRows
<1>9. \A j \in Rows : t[j] # NoRow => u[j] # NoRow  BY <1>2, <1>4
<1> QED  BY <1>3, <1>5, <1>6, <1>7, <1>8, <1>9

-----------------------------------------------------------------------------
LEMMA IdleIsCall == Idle \in Call
BY RosterAssumption DEF Idle, Call, Stages

LEMMA RosterInit == Init => Roster
<1> SUFFICES ASSUME Init PROVE Roster
  OBVIOUS
<1>1. row \in Tables /\ UniqueActive(row)  BY RosterAssumption DEF Init, RosterBegin
<1>2. TypeOK  BY <1>1, IdleIsCall DEF Init, RosterBegin, TypeOK
<1>3. \A p \in Calls : call[p] = Idle  BY DEF Init
<1>4. CallsPrepared /\ OneHolder /\ LimitCurrent /\ PairCurrent /\ SeatFree
  BY <1>3 DEF CallsPrepared, OneHolder, LimitCurrent, PairCurrent, SeatFree, Holds, At,
              Idle, Locked, Checked
<1> QED  BY <1>1, <1>2, <1>4 DEF Roster

\* A call that starts, waits or ends disturbs no other call.
LEMMA OutsideLock ==
    ASSUME Roster, NEW p \in Calls, NEW r \in Call,
           call' = [call EXCEPT ![p] = r], UNCHANGED <<row, capacity>>,
           r.stage \notin Locked,
           r.stage = "enroll_lock" => r.student \in Students /\ r.section \in Sections,
           \A i \in r.left : row[i] # NoRow
    PROVE  Roster'
<1> USE DEF Roster
<1>1. \A o \in Calls : call'[o] = IF o = p THEN r ELSE call[o]  BY DEF TypeOK
<1>2. TypeOK'  BY <1>1 DEF TypeOK
<1>3. UniqueActive(row)'  BY DEF UniqueActive, IsActive
<1>4. CallsPrepared'  BY <1>1 DEF CallsPrepared, Locked
<1>5. OneHolder'  BY <1>1 DEF OneHolder, Holds, Locked
<1>6. LimitCurrent'  BY <1>1 DEF LimitCurrent
<1>7. PairCurrent'  BY <1>1 DEF PairCurrent, Locked, Checked, ActivePair, PairRows
<1>8. SeatFree'  BY <1>1 DEF SeatFree, At, Locked, Active, IsActive
<1> QED  BY <1>2, <1>3, <1>4, <1>5, <1>6, <1>7, <1>8

\* A call that gets or keeps its section's lock.
LEMMA InsideLock ==
    ASSUME Roster, NEW p \in Calls, NEW r \in Call,
           call' = [call EXCEPT ![p] = r], UNCHANGED <<row, capacity>>,
           call[p].stage \in Locked \cup {"enroll_lock"},
           call[p].stage = "enroll_lock" => SectionFree(p, call[p].section),
           r.stage \in Locked,
           r.student = call[p].student, r.section = call[p].section, r.left = call[p].left,
           r.limit = capacity[r.section],
           r.stage \in Checked =>
               /\ ActivePair(row, r.student, r.section) = {}
               /\ IF r.reuse = NoRow
                  THEN PairRows(row, r.student, r.section) = {}
                  ELSE r.reuse \in PairRows(row, r.student, r.section),
           r.stage = "enroll_write" => Cardinality(Active(row, r.section)) < r.limit
    PROVE  Roster'
<1> USE DEF Roster
<1>1. \A o \in Calls : call'[o] = IF o = p THEN r ELSE call[o]  BY DEF TypeOK
<1>2. TypeOK'  BY <1>1 DEF TypeOK
<1>3. UniqueActive(row)'  BY DEF UniqueActive, IsActive
<1>4. CallsPrepared'  BY <1>1 DEF CallsPrepared, Locked
<1>5. OneHolder'
  <2>1. \A o \in Calls \ {p}, c \in Sections : ~(Holds(o, c) /\ c = call[p].section)
    BY DEF OneHolder, SectionFree, Holds, Locked
  <2> QED  BY <1>1, <2>1 DEF OneHolder, Holds, Locked
<1>6. LimitCurrent'  BY <1>1 DEF LimitCurrent
<1>7. PairCurrent'  BY <1>1 DEF PairCurrent, Locked, Checked, ActivePair, PairRows
<1>8. SeatFree'
  <2> SUFFICES ASSUME NEW o \in Calls, call'[o].stage = "enroll_write"
               PROVE  Cardinality(Active(row, call'[o].section)) < call'[o].limit
    BY DEF SeatFree, At, Active, IsActive
  <2>1. CASE o = p  BY <2>1, <1>1
  <2>2. CASE o # p  BY <2>2, <1>1 DEF SeatFree, At
  <2> QED  BY <2>1, <2>2
<1> QED  BY <1>2, <1>3, <1>4, <1>5, <1>6, <1>7, <1>8

\* What enrollStudent's write does to the table, and what a holder of the lock may assume.
LEMMA WriteFacts ==
    ASSUME Roster, NEW p \in Calls, NEW i \in Rows, EnrollWrite(p, i)
    PROVE  /\ call[p].student \in Students /\ call[p].section \in Sections
           /\ ActivePair(row, call[p].student, call[p].section) = {}
           /\ row[i] = NoRow =>
                 PairRows(row, call[p].student, call[p].section) = {}
           /\ row[i] # NoRow =>
                 i \in PairRows(row, call[p].student, call[p].section)
           /\ row' = [row EXCEPT ![i] = [student |-> call[p].student,
                                         section |-> call[p].section, status |-> "active"]]
           /\ Cardinality(Active(row, call[p].section)) < capacity[call[p].section]
<1> USE DEF Roster
<1>1. call[p].stage = "enroll_write"  BY DEF EnrollWrite, At
<1>2. call[p].student \in Students /\ call[p].section \in Sections
  BY <1>1 DEF CallsPrepared, Locked
<1>3. /\ ActivePair(row, call[p].student, call[p].section) = {}
      /\ IF call[p].reuse = NoRow
         THEN PairRows(row, call[p].student, call[p].section) = {}
         ELSE call[p].reuse \in PairRows(row, call[p].student, call[p].section)
  BY <1>1 DEF PairCurrent, Checked
<1>4. IF call[p].reuse = NoRow THEN row[i] = NoRow ELSE i = call[p].reuse
  BY DEF EnrollWrite
<1>5. /\ row[i] = NoRow => PairRows(row, call[p].student, call[p].section) = {}
      /\ row[i] # NoRow => i \in PairRows(row, call[p].student, call[p].section)
  BY <1>3, <1>4 DEF PairRows
<1>6. row' = [row EXCEPT ![i] = [student |-> call[p].student,
                                 section |-> call[p].section, status |-> "active"]]
  BY <1>3 DEF EnrollWrite
<1>7. Cardinality(Active(row, call[p].section)) < capacity[call[p].section]
  BY <1>1 DEF SeatFree, LimitCurrent, At, Locked
<1> QED  BY <1>2, <1>3, <1>5, <1>6, <1>7

-----------------------------------------------------------------------------
LEMMA RosterStep == Roster /\ [Next]_vars => Roster'
<1> SUFFICES ASSUME Roster, [Next]_vars PROVE Roster'
  OBVIOUS
<1> USE DEF Roster
<1>1. ASSUME NEW p \in Calls, NEW st \in Students, NEW c \in Sections, EnrollPeek(p, st, c)
      PROVE  Roster'
  <2> DEFINE r == [Idle EXCEPT !.stage = "enroll_lock", !.student = st, !.section = c]
  <2>1. r \in Call /\ r.stage = "enroll_lock" /\ r.student = st /\ r.section = c /\ r.left = {}
    BY RosterAssumption DEF Idle, Call, Stages
  <2>2. call' = [call EXCEPT ![p] = r] /\ UNCHANGED <<row, capacity>>
    BY <1>1 DEF EnrollPeek
  <2> QED  BY <2>1, <2>2, OutsideLock DEF Locked
<1>2. ASSUME NEW p \in Calls, NEW st \in Students, NEW c \in Sections, UnenrollRead(p, st, c)
      PROVE  Roster'
  <2> DEFINE r == [Idle EXCEPT !.stage = "drop", !.left = ActivePair(row, st, c)]
  <2>1. ActivePair(row, st, c) \subseteq Rows /\ \A i \in ActivePair(row, st, c) : row[i] # NoRow
    BY DEF ActivePair, PairRows
  <2>2. r \in Call /\ r.stage = "drop" /\ r.left = ActivePair(row, st, c)
    BY <2>1, RosterAssumption DEF Idle, Call, Stages
  <2>3. call' = [call EXCEPT ![p] = r] /\ UNCHANGED <<row, capacity>>
    BY <1>2 DEF UnenrollRead
  <2> QED  BY <2>1, <2>2, <2>3, OutsideLock DEF Locked
<1>3. ASSUME NEW p \in Calls, Finish(p), UNCHANGED <<row, capacity>>
      PROVE  Roster'
  BY <1>3, IdleIsCall, OutsideLock DEF Finish, Idle, Locked
<1>4. ASSUME NEW p \in Calls, EnrollLock(p)
      PROVE  Roster'
  <2> DEFINE r == [call[p] EXCEPT !.stage = "enroll_pair", !.limit = capacity[call[p].section]]
  <2>1. call[p] \in Call /\ call[p].stage = "enroll_lock" /\ call[p].section \in Sections
    BY <1>4 DEF EnrollLock, At, TypeOK, CallsPrepared
  <2>2. /\ r \in Call /\ r.stage = "enroll_pair" /\ r.limit = capacity[r.section]
        /\ r.student = call[p].student /\ r.section = call[p].section /\ r.left = call[p].left
    BY <2>1 DEF TypeOK, Call, Stages
  <2>3. call' = [call EXCEPT ![p] = r] /\ UNCHANGED <<row, capacity>>
    BY <1>4 DEF EnrollLock, TypeOK
  <2>4. SectionFree(p, call[p].section)  BY <1>4 DEF EnrollLock
  <2> QED  BY <2>1, <2>2, <2>3, <2>4, InsideLock DEF Locked, Checked
<1>5. ASSUME NEW p \in Calls, EnrollPair(p)
      PROVE  Roster'
  <2> DEFINE st == call[p].student
             c == call[p].section
  <2>1. call[p] \in Call /\ call[p].stage = "enroll_pair" /\ call[p].limit = capacity[c]
    BY <1>5 DEF EnrollPair, At, TypeOK, LimitCurrent, Locked
  <2>2. CASE Finish(p)  BY <2>2, <1>5, <1>3 DEF EnrollPair
  <2>3. CASE ~Finish(p)
    <3>1. ActivePair(row, st, c) = {}  BY <2>3, <1>5 DEF EnrollPair
    <3>2. PICK i \in IF PairRows(row, st, c) = {} THEN {NoRow} ELSE PairRows(row, st, c) :
            call' = [call EXCEPT ![p].stage = "enroll_count", ![p].reuse = i]
      BY <2>3, <1>5 DEF EnrollPair
    <3> DEFINE r == [call[p] EXCEPT !.stage = "enroll_count", !.reuse = i]
    <3>3. i \in Rows \cup {NoRow} /\ (i = NoRow => PairRows(row, st, c) = {})
          /\ (i # NoRow => i \in PairRows(row, st, c))
      BY RosterAssumption DEF PairRows
    <3>4. /\ r \in Call /\ r.stage = "enroll_count" /\ r.limit = capacity[r.section]
          /\ r.student = st /\ r.section = c /\ r.left = call[p].left /\ r.reuse = i
      BY <2>1, <3>3 DEF Call, Stages
    <3>5. call' = [call EXCEPT ![p] = r] /\ UNCHANGED <<row, capacity>>
      BY <3>2, <1>5 DEF EnrollPair, TypeOK
    <3> QED  BY <2>1, <3>1, <3>3, <3>4, <3>5, InsideLock DEF Locked, Checked
  <2> QED  BY <2>2, <2>3
<1>6. ASSUME NEW p \in Calls, EnrollCount(p)
      PROVE  Roster'
  <2> DEFINE r == [call[p] EXCEPT !.stage = "enroll_write"]
  <2>1. /\ call[p] \in Call /\ call[p].stage = "enroll_count"
        /\ call[p].limit = capacity[call[p].section]
    BY <1>6 DEF EnrollCount, At, TypeOK, LimitCurrent, Locked
  <2>2. CASE Finish(p)  BY <2>2, <1>6, <1>3 DEF EnrollCount
  <2>3. CASE ~Finish(p)
    <3>1. /\ Cardinality(Active(row, call[p].section)) < call[p].limit
          /\ Goto(p, "enroll_write") /\ UNCHANGED <<row, capacity>>
      BY <2>3, <1>6 DEF EnrollCount
    <3>2. /\ r \in Call /\ r.stage = "enroll_write" /\ r.limit = capacity[r.section]
          /\ r.student = call[p].student /\ r.section = call[p].section
          /\ r.left = call[p].left /\ r.reuse = call[p].reuse /\ r.limit = call[p].limit
      BY <2>1 DEF Call, Stages
    <3>3. call' = [call EXCEPT ![p] = r]  BY <3>1 DEF Goto, TypeOK
    <3>4. /\ ActivePair(row, r.student, r.section) = {}
          /\ IF r.reuse = NoRow
             THEN PairRows(row, r.student, r.section) = {}
             ELSE r.reuse \in PairRows(row, r.student, r.section)
      BY <2>1, <3>2 DEF PairCurrent, Checked
    <3> QED  BY <2>1, <3>1, <3>2, <3>3, <3>4, InsideLock DEF Locked, Checked
  <2> QED  BY <2>2, <2>3
<1>7. ASSUME NEW p \in Calls, Crash(p)
      PROVE  Roster'
  BY <1>7, <1>3 DEF Crash
<1>8. ASSUME NEW p \in Calls, NEW i \in Rows, EnrollWrite(p, i)
      PROVE  Roster'
  <2> DEFINE st == call[p].student
             c == call[p].section
  <2>1. /\ st \in Students /\ c \in Sections
        /\ ActivePair(row, st, c) = {}
        /\ row[i] = NoRow \/ i \in PairRows(row, st, c)
        /\ row' = Written(row, i, st, c)
    BY <1>8, WriteFacts DEF Written
  <2>2. row \in Tables /\ UniqueActive(row)  BY DEF TypeOK
  <2>3. /\ row' \in Tables /\ UniqueActive(row')
        /\ \A d \in Sections \ {c} : Active(row', d) = Active(row, d)
        /\ \A s \in Students, d \in Sections \ {c} : PairRows(row', s, d) = PairRows(row, s, d)
        /\ \A s \in Students, d \in Sections \ {c} : ActivePair(row', s, d) = ActivePair(row, s, d)
        /\ \A j \in Rows : row[j] # NoRow => row'[j] # NoRow
    BY <2>1, <2>2, WriteTable
  <2>4. /\ \A o \in Calls : call'[o] = IF o = p THEN Idle ELSE call[o]
        /\ call[p].stage = "enroll_write"
        /\ UNCHANGED capacity
    BY <1>8 DEF EnrollWrite, Finish, At, TypeOK
  <2>5. \A o \in Calls \ {p} : call[o].stage \in Locked =>
           call[o].student \in Students /\ call[o].section \in Sections \ {c}
    BY <2>4 DEF OneHolder, Holds, CallsPrepared, Locked
  <2>6. TypeOK'  BY <1>8, <2>3, <2>4, IdleIsCall DEF EnrollWrite, Finish, TypeOK
  <2>7. CallsPrepared'
    <3> SUFFICES ASSUME NEW o \in Calls
                 PROVE  /\ call'[o].stage \in Locked \cup {"enroll_lock"} =>
                             call'[o].student \in Students /\ call'[o].section \in Sections
                        /\ \A j \in call'[o].left : row'[j] # NoRow
      BY DEF CallsPrepared
    <3>1. CASE o = p  BY <3>1, <2>4 DEF Idle, Locked
    <3>2. CASE o # p
      <4>1. call[o].left \subseteq Rows  BY DEF TypeOK, Call
      <4> QED  BY <3>2, <4>1, <2>3, <2>4 DEF CallsPrepared
    <3> QED  BY <3>1, <3>2
  <2>8. OneHolder'  BY <2>4 DEF OneHolder, Holds, Idle
  <2>9. LimitCurrent'  BY <2>4 DEF LimitCurrent, Idle, Locked
  <2>10. PairCurrent'  BY <2>3, <2>4, <2>5 DEF PairCurrent, Idle, Locked, Checked
  <2>11. SeatFree'  BY <2>3, <2>4, <2>5 DEF SeatFree, At, Idle, Locked
  <2> QED  BY <2>3, <2>6, <2>7, <2>8, <2>9, <2>10, <2>11
<1>9. ASSUME NEW p \in Calls, NEW i \in Rows, UnenrollDrop(p, i)
      PROVE  Roster'
  <2>1. /\ row \in Tables /\ UniqueActive(row) /\ row[i] # NoRow
        /\ row' = Dropped(row, i)
        /\ UNCHANGED capacity
    BY <1>9 DEF UnenrollDrop, TypeOK, CallsPrepared, Dropped
  <2>2. /\ row' \in Tables /\ UniqueActive(row')
        /\ \A c \in Sections : Active(row', c) \subseteq Active(row, c)
        /\ \A s \in Students, c \in Sections : PairRows(row', s, c) = PairRows(row, s, c)
        /\ \A s \in Students, c \in Sections : ActivePair(row', s, c) \subseteq ActivePair(row, s, c)
        /\ \A j \in Rows : row[j] # NoRow => row'[j] # NoRow
    BY <2>1, DropTable
  <2> DEFINE r == IF call[p].left = {i} THEN Idle ELSE [call[p] EXCEPT !.left = @ \ {i}]
  <2>3. call[p] \in Call /\ call[p].stage = "drop"  BY <1>9 DEF UnenrollDrop, At, TypeOK
  <2>4. r \in Call /\ r.stage \in {"idle", "drop"} /\ r.left \subseteq call[p].left
    <3>1. CASE call[p].left = {i}  BY <3>1, IdleIsCall DEF Idle
    <3>2. CASE call[p].left # {i}  BY <3>2, <2>3 DEF Call, Stages
    <3> QED  BY <3>1, <3>2
  <2>5. call' = [call EXCEPT ![p] = r]  BY <1>9 DEF UnenrollDrop, Finish, TypeOK
  <2>6. \A o \in Calls : call'[o] = IF o = p THEN r ELSE call[o]  BY <2>5 DEF TypeOK
  <2>7. TypeOK'  BY <2>1, <2>2, <2>4, <2>5 DEF TypeOK
  <2>8. CallsPrepared'
    <3> SUFFICES ASSUME NEW o \in Calls
                 PROVE  /\ call'[o].stage \in Locked \cup {"enroll_lock"} =>
                             call'[o].student \in Students /\ call'[o].section \in Sections
                        /\ \A j \in call'[o].left : row'[j] # NoRow
      BY DEF CallsPrepared
    <3>1. call[o].left \subseteq Rows  BY DEF TypeOK, Call
    <3>2. CASE o = p  BY <3>1, <3>2, <2>2, <2>4, <2>6 DEF CallsPrepared, Locked
    <3>3. CASE o # p  BY <3>1, <3>3, <2>2, <2>6 DEF CallsPrepared
    <3> QED  BY <3>2, <3>3
  <2>9. OneHolder'  BY <2>4, <2>6 DEF OneHolder, Holds
  <2>10. LimitCurrent'  BY <2>1, <2>4, <2>6 DEF LimitCurrent, Locked
  <2>11. PairCurrent'
    <3> SUFFICES ASSUME NEW o \in Calls, call'[o].stage \in Checked
                 PROVE  /\ ActivePair(row', call'[o].student, call'[o].section) = {}
                        /\ IF call'[o].reuse = NoRow
                           THEN PairRows(row', call'[o].student, call'[o].section) = {}
                           ELSE call'[o].reuse \in PairRows(row', call'[o].student, call'[o].section)
      BY DEF PairCurrent
    <3>1. o # p /\ call'[o] = call[o]  BY <2>4, <2>6 DEF Checked
    <3>2. call[o].student \in Students /\ call[o].section \in Sections
      BY <3>1 DEF CallsPrepared, Locked, Checked
    <3>3. ActivePair(row', call[o].student, call[o].section) \subseteq
            ActivePair(row, call[o].student, call[o].section)
      BY <3>2, <2>2
    <3>4. PairRows(row', call[o].student, call[o].section) =
            PairRows(row, call[o].student, call[o].section)
      BY <3>2, <2>2
    <3> QED  BY <3>1, <3>3, <3>4 DEF PairCurrent
  <2>12. SeatFree'
    <3> SUFFICES ASSUME NEW o \in Calls, call'[o].stage = "enroll_write"
                 PROVE  Cardinality(Active(row', call'[o].section)) < call'[o].limit
      BY DEF SeatFree, At
    <3>1. o # p /\ call'[o] = call[o]  BY <2>4, <2>6
    <3>2. call[o].section \in Sections  BY <3>1 DEF CallsPrepared, Locked
    <3>3. Cardinality(Active(row', call[o].section)) <= Cardinality(Active(row, call[o].section))
      BY <3>2, <2>2, ActiveFinite, FS_Subset
    <3>4. /\ Cardinality(Active(row', call[o].section)) \in Nat
          /\ Cardinality(Active(row, call[o].section)) \in Nat
      BY ActiveFinite
    <3>5. call[o] \in Call  BY DEF TypeOK
    <3>6. call[o].limit \in Nat
      <4>1. Capacities \cup {0} \subseteq Nat  BY RosterAssumption
      <4>2. call[o].limit \in Capacities \cup {0}  BY <3>5 DEF Call
      <4> QED  BY <4>1, <4>2
    <3>7. Cardinality(Active(row, call[o].section)) < call[o].limit
      BY <3>1 DEF SeatFree, At
    <3> QED  BY <3>1, <3>3, <3>4, <3>6, <3>7
  <2> QED  BY <2>2, <2>7, <2>8, <2>9, <2>10, <2>11, <2>12
<1>10. ASSUME NEW c \in Sections, NEW n \in Capacities, UpdateSection(c, n)
       PROVE  Roster'
  <2>1. /\ \A p \in Calls : ~Holds(p, c)
        /\ capacity' = [capacity EXCEPT ![c] = n]
        /\ UNCHANGED <<row, call>>
    BY <1>10 DEF UpdateSection
  <2>2. TypeOK' /\ UniqueActive(row)'  BY <2>1 DEF TypeOK, UniqueActive, IsActive
  <2>3. LimitCurrent'  BY <2>1 DEF LimitCurrent, Holds, Locked, TypeOK
  <2>4. CallsPrepared' /\ OneHolder'  BY <2>1 DEF CallsPrepared, OneHolder, Holds
  <2>5. PairCurrent' /\ SeatFree'
    BY <2>1 DEF PairCurrent, SeatFree, At, ActivePair, PairRows, Active, IsActive
  <2> QED  BY <2>2, <2>3, <2>4, <2>5
<1>11. CASE UNCHANGED vars
  <2>1. UNCHANGED <<row, capacity, call>>  BY <1>11 DEF vars
  <2> QED
    BY <2>1 DEF TypeOK, UniqueActive, CallsPrepared, OneHolder, LimitCurrent, PairCurrent,
                SeatFree, At, Holds, ActivePair, PairRows, Active, IsActive
<1> QED
  BY <1>1, <1>2, <1>4, <1>5, <1>6, <1>7, <1>8, <1>9, <1>10, <1>11 DEF Next

\* The roster's inductive invariant holds in every reachable state.
THEOREM RosterInvariant == Spec => []Roster
<1>1. Init => Roster  BY RosterInit
<1>2. Roster /\ [Next]_vars => Roster'  BY RosterStep
<1> QED  BY <1>1, <1>2, PTL DEF Spec

-----------------------------------------------------------------------------
\* enrollStudent, unenrollStudent and updateSection keep the tables and the callers' local
\* variables well typed, whatever they do side by side.
THEOREM TypeCorrect == Spec => []TypeOK
<1>1. Roster => TypeOK  BY DEF Roster
<1> QED  BY <1>1, RosterInvariant, PTL

\* Nobody is added to a section beyond the capacity it has then.
THEOREM NeverOverfull == Spec => NeverOverfilled
<1>1. ASSUME Roster, [Next]_vars, NEW c \in Sections, ~(Active(row', c) \subseteq Active(row, c))
      PROVE  Cardinality(Active(row', c)) <= capacity'[c]
  <2> USE <1>1 DEF Roster
  <2>1. row' # row  OBVIOUS
  <2>2. ~\E p \in Calls, i \in Rows : UnenrollDrop(p, i)
    <3> SUFFICES ASSUME NEW p \in Calls, NEW i \in Rows, UnenrollDrop(p, i) PROVE FALSE
      OBVIOUS
    <3>1. /\ row \in Tables /\ UniqueActive(row) /\ row[i] # NoRow
          /\ row' = Dropped(row, i)
      BY DEF UnenrollDrop, TypeOK, CallsPrepared, Dropped
    <3> QED  BY <3>1, DropTable
  <2>3. PICK p \in Calls, i \in Rows : EnrollWrite(p, i)
    BY <2>1, <2>2 DEF Next, vars, EnrollPeek, UnenrollRead, EnrollLock, EnrollPair, EnrollCount,
                      Crash, UpdateSection
  <2> DEFINE st == call[p].student
             d  == call[p].section
  <2>4. /\ row \in Tables /\ st \in Students /\ d \in Sections
        /\ ActivePair(row, st, d) = {}
        /\ row[i] = NoRow \/ i \in PairRows(row, st, d)
        /\ row' = Written(row, i, st, d)
        /\ Cardinality(Active(row, d)) < capacity[d]
    BY <2>3, WriteFacts DEF Written, TypeOK
  <2>5. /\ Active(row', d) \subseteq Active(row, d) \cup {i}
        /\ \A e \in Sections \ {d} : Active(row', e) = Active(row, e)
    BY <2>4, WriteTable
  <2>6. c = d  BY <2>5
  <2>7. /\ IsFiniteSet(Active(row, d)) /\ Cardinality(Active(row, d)) \in Nat
        /\ Cardinality(Active(row', d)) \in Nat
    BY ActiveFinite
  <2>8. /\ IsFiniteSet(Active(row, d) \cup {i})
        /\ Cardinality(Active(row, d) \cup {i}) <= Cardinality(Active(row, d)) + 1
    BY <2>7, FS_AddElement
  <2>9. Cardinality(Active(row', d)) <= Cardinality(Active(row, d) \cup {i})
    BY <2>5, <2>8, FS_Subset
  <2>10. Cardinality(Active(row, d) \cup {i}) \in Nat  BY <2>8, FS_CardinalityType
  <2>11. capacity' = capacity /\ capacity[d] \in Nat
    BY <2>3, <2>4, RosterAssumption DEF EnrollWrite, TypeOK
  <2> QED  BY <2>4, <2>6, <2>7, <2>8, <2>9, <2>10, <2>11
<1>2. Roster /\ [Next]_vars =>
        [\A c \in Sections :
           ~(Active(row', c) \subseteq Active(row, c))
              => Cardinality(Active(row', c)) <= capacity'[c]]_vars
  BY <1>1
<1> QED  BY <1>2, RosterInvariant, PTL DEF Spec, NeverOverfilled

\* A new row appears only for a pair that has none.
THEOREM ReactivatedInPlace == Spec => OldRowsReused
<1>1. ASSUME Roster, [Next]_vars, NEW i \in Rows, NEW j \in Rows,
             row[i] = NoRow, row'[i] # NoRow, row[j] # NoRow
      PROVE  ~(row[j].student = row'[i].student /\ row[j].section = row'[i].section)
  <2> USE <1>1 DEF Roster
  <2>1. row' # row /\ row \in Tables  BY DEF TypeOK
  <2>2. ~\E p \in Calls, k \in Rows : UnenrollDrop(p, k)
    <3> SUFFICES ASSUME NEW p \in Calls, NEW k \in Rows, UnenrollDrop(p, k) PROVE FALSE
      OBVIOUS
    <3>1. row[k] # NoRow /\ row' = Dropped(row, k)
      BY DEF UnenrollDrop, TypeOK, CallsPrepared, Dropped
    <3>2. i # k  BY <3>1
    <3> QED  BY <3>1, <3>2, <2>1 DEF Dropped, Tables
  <2>3. PICK p \in Calls, k \in Rows : EnrollWrite(p, k)
    BY <2>1, <2>2 DEF Next, vars, EnrollPeek, UnenrollRead, EnrollLock, EnrollPair, EnrollCount,
                      Crash, UpdateSection
  <2> DEFINE st == call[p].student
             d  == call[p].section
  <2>4. /\ row[k] = NoRow => PairRows(row, st, d) = {}
        /\ row' = [row EXCEPT ![k] = [student |-> st, section |-> d, status |-> "active"]]
    BY <2>3, WriteFacts
  <2>5. i = k /\ row'[i].student = st /\ row'[i].section = d  BY <2>1, <2>4 DEF Tables
  <2>6. j \notin PairRows(row, st, d)  BY <2>4, <2>5
  <2> QED  BY <2>5, <2>6 DEF PairRows
<1>2. Roster /\ [Next]_vars =>
        [\A i, j \in Rows :
           /\ row[i] = NoRow /\ row'[i] # NoRow
           /\ row[j] # NoRow
           => ~(row[j].student = row'[i].student /\ row[j].section = row'[i].section)]_vars
  BY <1>1
<1> QED  BY <1>2, RosterInvariant, PTL DEF Spec, OldRowsReused

\* The unique index never refuses enrollStudent's write.
THEOREM NoRefusedWrite == Spec => []WriteNeverRefused
<1>1. Roster => WriteNeverRefused
  BY DEF Roster, PairCurrent, WriteNeverRefused, At, Checked
<1> QED  BY <1>1, RosterInvariant, PTL

\* A student has at most one active enrollment in a section.
THEOREM OneActiveRow == Spec => []UniqueActive(row)
<1>1. Roster => UniqueActive(row)  BY DEF Roster
<1> QED  BY <1>1, RosterInvariant, PTL

-----------------------------------------------------------------------------
(* The refinement of RosterBook *)

\* A row that unenrollStudent is about to drop was active when it was read, and no call
\* completes an enrollment since.
LeftLive == \A p \in Calls : \A i \in call[p].left : row[i].status # "completed"

\* LeftLive is kept by a step that writes no row but as "active" or "dropped".
LEMMA LeftStep == Roster /\ LeftLive /\ [Next]_vars => LeftLive'
<1> SUFFICES ASSUME Roster, LeftLive, [Next]_vars,
                    NEW o \in Calls, NEW j \in call'[o].left
             PROVE  row'[j].status # "completed"
  BY DEF LeftLive
<1> USE DEF Roster
<1>1. /\ row \in Tables /\ call \in [Calls -> Call]
      /\ \A p \in Calls : call[p].left \subseteq Rows
  BY DEF TypeOK, Call
<1>2. ASSUME UNCHANGED row, NEW p \in Calls, Finish(p)
      PROVE  row'[j].status # "completed"
  BY <1>1, <1>2 DEF Finish, Idle, LeftLive
<1>3. ASSUME NEW p \in Calls, NEW st \in Students, NEW c \in Sections,
             EnrollPeek(p, st, c) \/ UnenrollRead(p, st, c)
      PROVE  row'[j].status # "completed"
  BY <1>1, <1>3 DEF EnrollPeek, UnenrollRead, Idle, ActivePair, LeftLive
<1>4. ASSUME NEW p \in Calls, EnrollLock(p) \/ EnrollPair(p) \/ EnrollCount(p) \/ Crash(p)
      PROVE  row'[j].status # "completed"
  <2>1. UNCHANGED row  BY <1>4 DEF EnrollLock, EnrollPair, EnrollCount, Crash
  <2>2. CASE Finish(p)  BY <1>2, <2>1, <2>2
  <2>3. CASE ~Finish(p)
    <3>1. call'[o].left = call[o].left
      BY <1>1, <1>4, <2>3 DEF EnrollLock, EnrollPair, EnrollCount, Crash, Goto, Call
    <3> QED  BY <2>1, <3>1 DEF LeftLive
  <2> QED  BY <2>2, <2>3
<1>5. ASSUME NEW p \in Calls, NEW i \in Rows, EnrollWrite(p, i)
      PROVE  row'[j].status # "completed"
  <2>1. /\ j \in call[o].left /\ j \in Rows
        /\ row' = [row EXCEPT ![i] = [student |-> call[p].student,
                                      section |-> call[p].section, status |-> "active"]]
    BY <1>1, <1>5, WriteFacts DEF EnrollWrite, Finish, Idle
  <2>2. CASE j = i  BY <1>1, <2>1, <2>2 DEF Tables
  <2>3. CASE j # i  BY <1>1, <2>1, <2>3 DEF Tables, LeftLive
  <2> QED  BY <2>2, <2>3
<1>6. ASSUME NEW p \in Calls, NEW i \in Rows, UnenrollDrop(p, i)
      PROVE  row'[j].status # "completed"
  <2>1. row' = [row EXCEPT ![i].status = "dropped"] /\ i \in call[p].left /\ row[i] # NoRow
    BY <1>6 DEF UnenrollDrop, CallsPrepared
  <2>2. j \in call[o].left /\ j \in Rows
    BY <1>1, <1>6 DEF UnenrollDrop, Finish, Idle, Call
  <2>3. row[i] \in EnrollmentRow  BY <1>1, <2>1 DEF Tables
  <2>4. CASE j = i  BY <1>1, <2>1, <2>3, <2>4 DEF Tables, EnrollmentRow
  <2>5. CASE j # i  BY <1>1, <2>1, <2>2, <2>5 DEF Tables, LeftLive
  <2> QED  BY <2>4, <2>5
<1>7. ASSUME NEW c \in Sections, NEW n \in Capacities, UpdateSection(c, n)
      PROVE  row'[j].status # "completed"
  BY <1>7 DEF UpdateSection, LeftLive
<1>8. CASE UNCHANGED vars  BY <1>8 DEF vars, LeftLive
<1> QED  BY <1>3, <1>4, <1>5, <1>6, <1>7, <1>8 DEF Next

\* A statement of an action is the roster's step, or leaves the roster as it is.
LEMMA StepOfRoster == Roster /\ LeftLive /\ [Next]_vars => [RosterNext]_rosterVars
<1> SUFFICES ASSUME Roster, LeftLive, [Next]_vars PROVE [RosterNext]_rosterVars
  OBVIOUS
<1> USE DEF Roster
<1>1. ASSUME UNCHANGED <<row, capacity>> PROVE [RosterNext]_rosterVars
  BY <1>1 DEF rosterVars
<1>2. ASSUME NEW p \in Calls, NEW st \in Students, NEW c \in Sections,
             EnrollPeek(p, st, c) \/ UnenrollRead(p, st, c)
      PROVE  [RosterNext]_rosterVars
  BY <1>1, <1>2 DEF EnrollPeek, UnenrollRead
<1>3. ASSUME NEW p \in Calls, EnrollLock(p) \/ EnrollPair(p) \/ EnrollCount(p) \/ Crash(p)
      PROVE  [RosterNext]_rosterVars
  BY <1>1, <1>3 DEF EnrollLock, EnrollPair, EnrollCount, Crash
<1>4. ASSUME NEW p \in Calls, NEW i \in Rows, EnrollWrite(p, i)
      PROVE  [RosterNext]_rosterVars
  <2>1. PICK st \in Students, c \in Sections : st = call[p].student /\ c = call[p].section
    BY <1>4, WriteFacts
  <2>2. UNCHANGED capacity  BY <1>4 DEF EnrollWrite
  <2>3. PairRows(row, st, c) = {} => row[i] = NoRow
    BY <1>4, <2>1, WriteFacts
  <2>4. PairRows(row, st, c) # {} => i \in PairRows(row, st, c)
    BY <1>4, <2>1, WriteFacts
  <2>5. Seat(i, st, c)
    BY <1>4, <2>1, <2>2, <2>3, <2>4, WriteFacts DEF Seat
  <2> QED  BY <2>5 DEF RosterNext
<1>5. ASSUME NEW p \in Calls, NEW i \in Rows, UnenrollDrop(p, i)
      PROVE  [RosterNext]_rosterVars
  <2>1. /\ row' = [row EXCEPT ![i].status = "dropped"] /\ UNCHANGED capacity
        /\ row[i] # NoRow /\ row[i].status # "completed" /\ row \in Tables
    BY <1>5 DEF UnenrollDrop, CallsPrepared, LeftLive, TypeOK
  <2>2. row[i] \in EnrollmentRow  BY <2>1 DEF Tables
  <2>3. CASE row[i].status = "active"
    <3>1. Leave(i)  BY <2>1, <2>3 DEF Leave, IsActive
    <3> QED  BY <3>1 DEF RosterNext
  <2>4. CASE row[i].status = "dropped"
    <3>1. [row[i] EXCEPT !.status = "dropped"] = row[i]
      BY <2>2, <2>4 DEF EnrollmentRow
    <3>2. row' = row  BY <2>1, <3>1 DEF Tables
    <3> QED  BY <1>1, <2>1, <3>2
  <2> QED  BY <2>1, <2>2, <2>3, <2>4 DEF EnrollmentRow
<1>6. ASSUME NEW c \in Sections, NEW n \in Capacities, UpdateSection(c, n)
      PROVE  [RosterNext]_rosterVars
  <2>1. Resize(c, n)  BY <1>6 DEF UpdateSection, Resize
  <2> QED  BY <2>1 DEF RosterNext
<1>7. CASE UNCHANGED vars  BY <1>1, <1>7 DEF vars
<1> QED  BY <1>2, <1>3, <1>4, <1>5, <1>6, <1>7 DEF Next

\* enrollStudent, unenrollStudent and updateSection implement the roster: what was read before
\* and under the lock lets every write be the one step an undisturbed call would make.
THEOREM ImplementsRoster == Spec => RosterSpec
<1>1. Init => RosterBegin  BY DEF Init
<1>2. Init => LeftLive  BY DEF Init, LeftLive, Idle
<1>3. Roster /\ LeftLive /\ [Next]_vars => LeftLive'  BY LeftStep
<1>4. Roster /\ LeftLive /\ [Next]_vars => [RosterNext]_rosterVars  BY StepOfRoster
<1> QED  BY <1>1, <1>2, <1>3, <1>4, RosterInvariant, PTL DEF Spec, RosterSpec
=============================================================================
