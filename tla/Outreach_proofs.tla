--------------------------- MODULE Outreach_proofs ---------------------------
(***************************************************************************)
(* What leaves the school: the reminders and pushes, the changes an        *)
(* assistant makes through the MCP server, the drafts that a provider      *)
(* writes, and what a parent reads. Each of the five has its own inductive *)
(* invariant, for any number of people, calls, tokens and hours.           *)
(***************************************************************************)
EXTENDS Teaching_proofs, Reminders, PushDevices, McpDesk, Drafting, ParentPortal

-----------------------------------------------------------------------------
(* The reminders of a lesson. A row is written within the lead of the      *)
(* lesson it announces, so that it is pruned only after the lesson began,  *)
(* when no scan finds the lesson again; of the scans that write a row with *)
(* the same key the index lets one through, and that one alone pushes.     *)

ScanStages == {"lessons", "recipients", "loop", "insert", "push", "prune", "done"}
ScanRow == [stage : ScanStages, offset : Offsets, start : StartHours \cup {Nothing},
            todo : SUBSET People, user : People \cup {Nothing}, seen : SUBSET People]
Notice == [key : Keys, about : StartHours, at : 0..LastHour, read : BOOLEAN]

ReminderShape ==
    /\ hour \in 0..LastHour
    /\ notices \subseteq Notice
    /\ pushes \in [Keys -> Nat]
    /\ scan \in [Calls -> {NoScan} \cup ScanRow]

\* A row was written within the lead of the lesson it announces.
WrittenInTime == \A n \in notices :
    n.about = n.key.start /\ n.at <= hour /\ n.key.start <= n.at + Minutes(n.key.offset)

\* What a scan with local variables s is about lies ahead, and whom it is through with has a row.
OnItsWay(s) ==
    /\ s.start # Nothing => hour < s.start /\ s.start <= hour + Minutes(s.offset)
    /\ s.start = Nothing => s.todo = {} /\ s.seen = {}
    /\ s.stage \in {"recipients", "insert", "push"} => s.start # Nothing
    /\ s.stage \in {"lessons", "recipients"} => s.seen = {}
    /\ s.stage = "insert" => s.user \in People
    /\ \A u \in s.seen \ s.todo : Taken(KeyOf(s.offset, s.start, u))

\* Due to be pushed by c, whose row is new.
Pushing(c, k) == /\ scan[c].stage = "push"
                 /\ scan[c].user \in People
                 /\ k = KeyOf(scan[c].offset, scan[c].start, scan[c].user)

PushedWithRow ==
    /\ \A c \in Calls : scan[c].stage = "push" => \E k \in Keys : Pushing(c, k)
    /\ \A c \in Calls, k \in Keys : Pushing(c, k) => pushes[k] = 0 /\ Taken(k)
    /\ \A c, d \in Calls, k \in Keys : Pushing(c, k) /\ Pushing(d, k) => c = d
    /\ \A k \in Keys : pushes[k] # 0 => Taken(k) \/ k.start <= hour

\* The inductive invariant.
Reminded == /\ ReminderShape
            /\ WrittenInTime
            /\ \A c \in Calls : scan[c].stage # "idle" => OnItsWay(scan[c])
            /\ PushedWithRow
            /\ PushedAtMostOnce

-----------------------------------------------------------------------------
LEMMA HoursAreNat ==
    /\ \A h \in 0..LastHour : h \in Nat
    /\ \A h \in StartHours : h \in Nat
    /\ \A k \in Keys : k.start \in Nat
<1>1. LastHour \in Nat  BY ReminderAssumption
<1>2. \A h \in StartHours : h \in Nat  BY ReminderAssumption
<1>3. \A k \in Keys : k.start \in StartHours  BY DEF Keys
<1> QED  BY <1>1, <1>2, <1>3

LEMMA InitReminded == InitReminders => Reminded
BY ReminderAssumption
DEF InitReminders, Reminded, ReminderShape, WrittenInTime, PushedWithRow, PushedAtMostOnce, Pushing,
    NoScan

LEMMA KeyOfPerson ==
    ASSUME NEW o \in Offsets, NEW h \in StartHours, NEW u \in People
    PROVE  KeyOf(o, h, u) \in Keys /\ KeyOf(o, h, u).start = h /\ KeyOf(o, h, u).offset = o
           /\ KeyOf(o, h, u).user = u
BY DEF KeyOf, Keys

LEMMA ScanningIsRow ==
    ASSUME Reminded, NEW c \in Calls, scan[c].stage # "idle"
    PROVE  scan[c] \in ScanRow /\ OnItsWay(scan[c]) /\ hour \in Nat
<1>1. scan[c] \in {NoScan} \cup ScanRow /\ NoScan.stage = "idle"
  BY DEF Reminded, ReminderShape, NoScan
<1> QED  BY <1>1 DEF Reminded, ReminderShape

\* A scan that goes on without writing anything.
LEMMA ScanStep ==
    ASSUME Reminded, NEW c \in Calls, NEW s \in {NoScan} \cup ScanRow, Continue(c, s),
           UNCHANGED <<hour, notices, pushes>>,
           s.stage # "push", s.stage # "idle" => OnItsWay(s)
    PROVE  Reminded'
<1>1. /\ scan' \in [Calls -> {NoScan} \cup ScanRow] /\ scan'[c] = s
      /\ \A d \in Calls \ {c} : scan'[d] = scan[d]
  BY DEF Reminded, ReminderShape, Continue
<1>2. \A d \in Calls, k \in Keys : Pushing(d, k)' => Pushing(d, k) /\ d # c
  BY <1>1 DEF Pushing
<1>3. \A d \in Calls \ {c}, k \in Keys : Pushing(d, k) => Pushing(d, k)'
  BY <1>1 DEF Pushing
<1>4. PushedWithRow'
  BY <1>1, <1>2, <1>3 DEF Reminded, PushedWithRow, Taken
<1>5. \A d \in Calls : (scan[d].stage # "idle" => OnItsWay(scan[d]))'
  BY <1>1 DEF Reminded, OnItsWay, Taken
<1> QED
  BY <1>1, <1>4, <1>5 DEF Reminded, ReminderShape, WrittenInTime, PushedAtMostOnce

LEMMA EndScanStep ==
    ASSUME Reminded, NEW c \in Calls, EndScan(c)
    PROVE  Reminded'
<1>1. NoScan.stage = "idle"  BY DEF NoScan
<1> QED  BY <1>1, ScanStep DEF EndScan

LEMMA StartScanStep ==
    ASSUME Reminded, NEW c \in Calls, StartScan(c)
    PROVE  Reminded'
<1> DEFINE s == [stage |-> "lessons", offset |-> "24h", start |-> Nothing,
                 todo |-> {}, user |-> Nothing, seen |-> {}]
<1>1. s \in ScanRow /\ s.stage = "lessons" /\ OnItsWay(s)
  BY DEF ScanRow, ScanStages, Offsets, OnItsWay
<1>2. Continue(c, s) /\ UNCHANGED <<hour, notices, pushes>>  BY DEF StartScan
<1> HIDE DEF s
<1> QED  BY <1>1, <1>2, ScanStep

LEMMA ReadLessonsStep ==
    ASSUME Reminded, NEW c \in Calls, ReadLessons(c)
    PROVE  Reminded'
<1> DEFINE s == scan[c]
<1>1. s \in ScanRow /\ OnItsWay(s) /\ s.stage = "lessons" /\ hour \in Nat
  BY ScanningIsRow DEF ReadLessons
<1>2. ASSUME NEW h \in StartHours, hour < h, h <= hour + Minutes(s.offset),
             Continue(c, [s EXCEPT !.stage = "recipients", !.start = h])
      PROVE  Reminded'
  <2> DEFINE r == [s EXCEPT !.stage = "recipients", !.start = h]
  <2>1. /\ r \in ScanRow /\ r.stage = "recipients" /\ r.start = h /\ r.offset = s.offset
        /\ r.todo = s.todo /\ r.seen = s.seen
    BY <1>1 DEF ScanRow, ScanStages
  <2>2. Continue(c, r)  BY <1>2
  <2> HIDE DEF r
  <2>3. h # Nothing  BY ReminderAssumption
  <2>4. OnItsWay(r)  BY <1>1, <1>2, <2>1, <2>3 DEF OnItsWay
  <2> QED  BY <2>1, <2>2, <2>4, ScanStep DEF ReadLessons
<1>3. ASSUME Continue(c, [s EXCEPT !.stage = "loop"])
      PROVE  Reminded'
  <2> DEFINE r == [s EXCEPT !.stage = "loop"]
  <2>1. /\ r \in ScanRow /\ r.stage = "loop" /\ r.start = s.start /\ r.offset = s.offset
        /\ r.todo = s.todo /\ r.seen = s.seen
    BY <1>1 DEF ScanRow, ScanStages
  <2>2. Continue(c, r)  BY <1>3
  <2> HIDE DEF r
  <2>3. OnItsWay(r)  BY <1>1, <2>1 DEF OnItsWay
  <2> QED  BY <2>1, <2>2, <2>3, ScanStep DEF ReadLessons
<1> QED  BY <1>2, <1>3 DEF ReadLessons

LEMMA ReadRecipientsStep ==
    ASSUME Reminded, NEW c \in Calls, ReadRecipients(c)
    PROVE  Reminded'
<1> DEFINE s == scan[c]
<1>1. s \in ScanRow /\ OnItsWay(s) /\ s.stage = "recipients"
  BY ScanningIsRow DEF ReadRecipients
<1>2. PICK g \in SUBSET Guardians :
        Continue(c, [s EXCEPT !.stage = "loop", !.todo = g \cup ({LessonTeacher} \ {Nothing}),
                              !.seen = g \cup ({LessonTeacher} \ {Nothing})])
  BY DEF ReadRecipients
<1> DEFINE who == g \cup ({LessonTeacher} \ {Nothing})
           r == [s EXCEPT !.stage = "loop", !.todo = who, !.seen = who]
<1>3. who \in SUBSET People  BY DEF People
<1>4. /\ r \in ScanRow /\ r.stage = "loop" /\ r.start = s.start /\ r.offset = s.offset
      /\ r.todo = who /\ r.seen = who
  BY <1>1, <1>3 DEF ScanRow, ScanStages
<1>5. Continue(c, r)  BY <1>2
<1> HIDE DEF r, who
<1>6. OnItsWay(r)  BY <1>1, <1>4 DEF OnItsWay
<1> QED  BY <1>4, <1>5, <1>6, ScanStep DEF ReadRecipients

LEMMA CheckKeyStep ==
    ASSUME Reminded, NEW c \in Calls, NEW u \in People, CheckKey(c, u)
    PROVE  Reminded'
<1> DEFINE s == scan[c]
<1>1. s \in ScanRow /\ OnItsWay(s) /\ s.stage = "loop" /\ u \in s.todo
  BY ScanningIsRow DEF CheckKey
<1>2. CASE Taken(KeyOf(s.offset, s.start, u))
  <2> DEFINE r == [s EXCEPT !.todo = @ \ {u}]
  <2>1. /\ r \in ScanRow /\ r.stage = "loop" /\ r.start = s.start /\ r.offset = s.offset
        /\ r.todo = s.todo \ {u} /\ r.seen = s.seen
    BY <1>1 DEF ScanRow, ScanStages
  <2>2. Continue(c, r)  BY <1>2 DEF CheckKey
  <2> HIDE DEF r
  <2>3. OnItsWay(r)  BY <1>1, <1>2, <2>1 DEF OnItsWay
  <2> QED  BY <2>1, <2>2, <2>3, ScanStep DEF CheckKey
<1>3. CASE ~Taken(KeyOf(s.offset, s.start, u))
  <2> DEFINE r == [s EXCEPT !.stage = "insert", !.user = u]
  <2>1. /\ r \in ScanRow /\ r.stage = "insert" /\ r.start = s.start /\ r.offset = s.offset
        /\ r.todo = s.todo /\ r.seen = s.seen /\ r.user = u
    BY <1>1 DEF ScanRow, ScanStages
  <2>2. Continue(c, r)  BY <1>3 DEF CheckKey
  <2> HIDE DEF r
  <2>3. OnItsWay(r)  BY <1>1, <2>1 DEF OnItsWay
  <2> QED  BY <2>1, <2>2, <2>3, ScanStep DEF CheckKey
<1> QED  BY <1>2, <1>3

LEMMA NextOffsetStep ==
    ASSUME Reminded, NEW c \in Calls, NextOffset(c)
    PROVE  Reminded'
<1> DEFINE s == scan[c]
<1>1. s \in ScanRow /\ OnItsWay(s) /\ s.stage = "loop" /\ s.todo = {}
  BY ScanningIsRow DEF NextOffset
<1>2. CASE s.offset = "24h"
  <2> DEFINE r == [s EXCEPT !.stage = "lessons", !.offset = "1h", !.start = Nothing, !.seen = {}]
  <2>1. /\ r \in ScanRow /\ r.stage = "lessons" /\ r.start = Nothing /\ r.todo = {}
        /\ r.seen = {}
    BY <1>1 DEF ScanRow, ScanStages, Offsets
  <2>2. Continue(c, r)  BY <1>2 DEF NextOffset
  <2> HIDE DEF r
  <2>3. OnItsWay(r)  BY <2>1 DEF OnItsWay
  <2> QED  BY <2>1, <2>2, <2>3, ScanStep DEF NextOffset
<1>3. CASE s.offset # "24h"
  <2> DEFINE r == [s EXCEPT !.stage = "prune"]
  <2>1. /\ r \in ScanRow /\ r.stage = "prune" /\ r.start = s.start /\ r.offset = s.offset
        /\ r.todo = s.todo /\ r.seen = s.seen
    BY <1>1 DEF ScanRow, ScanStages
  <2>2. Continue(c, r)  BY <1>3 DEF NextOffset
  <2> HIDE DEF r
  <2>3. OnItsWay(r)  BY <1>1, <2>1 DEF OnItsWay
  <2> QED  BY <2>1, <2>2, <2>3, ScanStep DEF NextOffset
<1> QED  BY <1>2, <1>3

\* The key is free, so nobody was pushed for it and nobody else is about to: of a lesson that
\* lies ahead no row was pruned.
LEMMA InsertNoticeStep ==
    ASSUME Reminded, NEW c \in Calls, InsertNotice(c)
    PROVE  Reminded'
<1> DEFINE s == scan[c]
           rest == [s EXCEPT !.todo = @ \ {s.user}, !.stage = "loop", !.user = Nothing]
<1>1. /\ s \in ScanRow /\ OnItsWay(s) /\ s.stage = "insert" /\ hour \in 0..LastHour
      /\ s.offset \in Offsets /\ s.start \in StartHours /\ s.user \in People
  BY ScanningIsRow DEF InsertNotice, OnItsWay, ScanRow, Reminded, ReminderShape
<1>2. PICK k \in Keys : /\ k = KeyOf(s.offset, s.start, s.user)
                        /\ k.start = s.start /\ k.offset = s.offset /\ k.user = s.user
  BY <1>1, KeyOfPerson
<1>3. /\ rest \in ScanRow /\ rest.stage = "loop" /\ rest.start = s.start
      /\ rest.offset = s.offset /\ rest.todo = s.todo \ {s.user} /\ rest.seen = s.seen
      /\ rest.user = Nothing
  BY <1>1 DEF ScanRow, ScanStages
<1>4. CASE Taken(k)
  <2>1. Continue(c, rest) /\ UNCHANGED <<hour, notices, pushes>>
    BY <1>2, <1>4 DEF InsertNotice
  <2> HIDE DEF rest
  <2>2. OnItsWay(rest)  BY <1>1, <1>2, <1>3, <1>4 DEF OnItsWay
  <2> QED  BY <1>3, <2>1, <2>2, ScanStep
<1>5. CASE ~Taken(k)
  <2> DEFINE r == [rest EXCEPT !.stage = "push", !.user = s.user]
             n == [key |-> k, about |-> s.start, at |-> hour, read |-> FALSE]
  <2>1. /\ Continue(c, r) /\ notices' = notices \cup {n} /\ UNCHANGED <<hour, pushes>>
    BY <1>2, <1>5 DEF InsertNotice
  <2>2. /\ r \in ScanRow /\ r.stage = "push" /\ r.start = s.start /\ r.offset = s.offset
        /\ r.todo = s.todo \ {s.user} /\ r.seen = s.seen /\ r.user = s.user
    BY <1>1, <1>3 DEF ScanRow, ScanStages
  <2>3. n \in Notice /\ n.key = k /\ n.about = s.start /\ n.at = hour
    BY <1>1, <1>2 DEF Notice
  <2>4. \A u : u \in r.seen \ r.todo => u \in s.seen \ s.todo \/ u = s.user  BY <2>2
  <2> HIDE DEF r, n, rest
  <2>5. /\ scan' \in [Calls -> {NoScan} \cup ScanRow] /\ scan'[c] = r
        /\ \A d \in Calls \ {c} : scan'[d] = scan[d]
    BY <2>1, <2>2 DEF Reminded, ReminderShape, Continue
  <2>6. Taken(k)' /\ \A j : Taken(j) => Taken(j)'
    <3>1. n \in notices' /\ notices \subseteq notices'  BY <2>1
    <3> QED  BY <2>3, <3>1 DEF Taken
  <2>7. hour < k.start /\ k.start <= hour + Minutes(k.offset)  BY <1>1, <1>2 DEF OnItsWay
  <2>8. pushes[k] = 0 /\ \A d \in Calls : ~Pushing(d, k)
    <3>1. hour \in Nat /\ k.start \in Nat  BY <1>1, HoursAreNat
    <3> QED  BY <1>2, <1>5, <2>7, <3>1 DEF Reminded, PushedWithRow
  <2>9. ReminderShape'
    BY <2>1, <2>3, <2>5 DEF Reminded, ReminderShape
  <2>10. WrittenInTime'
    BY <1>1, <1>2, <2>1, <2>3, <2>7 DEF Reminded, WrittenInTime
  <2>11. \A d \in Calls : (scan[d].stage # "idle" => OnItsWay(scan[d]))'
    <3>1. \A u \in s.seen \ s.todo : Taken(KeyOf(r.offset, r.start, u))
      BY <1>1, <2>2 DEF OnItsWay
    <3>2. /\ r.start # Nothing => hour < r.start /\ r.start <= hour + Minutes(r.offset)
          /\ r.start # Nothing /\ r.stage = "push"
      BY <1>1, <2>2 DEF OnItsWay
    <3>3. KeyOf(r.offset, r.start, s.user) = k  BY <1>2, <2>2
    <3>4. \A u \in scan'[c].seen \ scan'[c].todo :
            \E m \in notices' : m.key = KeyOf(scan'[c].offset, scan'[c].start, u)
      BY <2>4, <2>5, <2>6, <3>1, <3>3 DEF Taken
    <3>5. OnItsWay(scan[c])'  BY <2>1, <2>5, <3>2, <3>4 DEF OnItsWay, Taken
    <3> QED  BY <2>1, <2>5, <2>6, <3>5 DEF Reminded, OnItsWay
  <2>12. \A j \in Keys : Pushing(c, j)' <=> j = k
    BY <1>1, <1>2, <2>2, <2>5 DEF Pushing
  <2>13. \A d \in Calls \ {c}, j \in Keys : Pushing(d, j)' <=> Pushing(d, j)
    BY <2>5 DEF Pushing
  <2>14. PushedWithRow'
    <3>1. \A d \in Calls \ {c} : (scan[d].stage = "push" => \E j \in Keys : Pushing(d, j))'
      BY <2>5, <2>13 DEF Reminded, PushedWithRow
    <3>2. \A d \in Calls, j \in Keys : Pushing(d, j)' => pushes'[j] = 0 /\ Taken(j)'
      BY <2>1, <2>6, <2>8, <2>12, <2>13 DEF Reminded, PushedWithRow
    <3>3. \A d, e \in Calls, j \in Keys : Pushing(d, j)' /\ Pushing(e, j)' => d = e
      BY <2>8, <2>12, <2>13 DEF Reminded, PushedWithRow
    <3>4. \A j \in Keys : pushes'[j] # 0 => Taken(j)' \/ j.start <= hour'
      BY <2>1, <2>6 DEF Reminded, PushedWithRow
    <3> QED  BY <1>2, <2>12, <3>1, <3>2, <3>3, <3>4 DEF PushedWithRow
  <2> QED
    BY <2>1, <2>9, <2>10, <2>11, <2>14 DEF Reminded, PushedAtMostOnce
<1> QED  BY <1>4, <1>5

LEMMA PushReminderStep ==
    ASSUME Reminded, NEW c \in Calls, PushReminder(c)
    PROVE  Reminded'
<1> DEFINE s == scan[c]
           r == [s EXCEPT !.stage = "loop", !.user = Nothing]
<1>1. s \in ScanRow /\ OnItsWay(s) /\ s.stage = "push" /\ hour \in Nat
  BY ScanningIsRow DEF PushReminder
<1>2. PICK k \in Keys : Pushing(c, k)  BY <1>1 DEF Reminded, PushedWithRow
<1>3. /\ k = KeyOf(s.offset, s.start, s.user) /\ pushes[k] = 0 /\ Taken(k)
      /\ \A d \in Calls : Pushing(d, k) => d = c
      /\ \A j \in Keys : Pushing(c, j) => j = k
  BY <1>2 DEF Pushing, Reminded, PushedWithRow
<1>4. pushes' = [pushes EXCEPT ![k] = @ + 1] /\ Continue(c, r) /\ UNCHANGED <<hour, notices>>
  BY <1>3 DEF PushReminder
<1>5. /\ r \in ScanRow /\ r.stage = "loop" /\ r.start = s.start /\ r.offset = s.offset
      /\ r.todo = s.todo /\ r.seen = s.seen
  BY <1>1 DEF ScanRow, ScanStages
<1> HIDE DEF r
<1>6. /\ scan' \in [Calls -> {NoScan} \cup ScanRow] /\ scan'[c] = r
      /\ \A d \in Calls \ {c} : scan'[d] = scan[d]
  BY <1>4, <1>5 DEF Reminded, ReminderShape, Continue
<1>7. /\ pushes' \in [Keys -> Nat] /\ pushes'[k] = 1
      /\ \A j \in Keys \ {k} : pushes'[j] = pushes[j]
  BY <1>3, <1>4 DEF Reminded, ReminderShape
<1>8. ReminderShape' /\ WrittenInTime'
  BY <1>4, <1>6, <1>7 DEF Reminded, ReminderShape, WrittenInTime
<1>9. \A j : Taken(j)' <=> Taken(j)  BY <1>4 DEF Taken
<1>10. \A d \in Calls : (scan[d].stage # "idle" => OnItsWay(scan[d]))'
  <2>1. OnItsWay(scan[c])'  BY <1>1, <1>4, <1>5, <1>6, <1>9 DEF OnItsWay
  <2> QED  BY <1>4, <1>6, <1>9, <2>1 DEF Reminded, OnItsWay
<1>11. PushedWithRow'
  <2>1. \A d \in Calls, j \in Keys : Pushing(d, j)' <=> d # c /\ Pushing(d, j)
    BY <1>5, <1>6 DEF Pushing
  <2>2. \A d \in Calls, j \in Keys : Pushing(d, j)' => j # k
    BY <1>3, <2>1
  <2> QED
    BY <1>3, <1>4, <1>5, <1>6, <1>7, <1>9, <2>1, <2>2 DEF Reminded, PushedWithRow
<1>12. PushedAtMostOnce'
  BY <1>7 DEF Reminded, PushedAtMostOnce
<1> QED  BY <1>8, <1>10, <1>11, <1>12 DEF Reminded

ScanEnds(s, r) == /\ s.stage = "prune" /\ r.stage = "done"
                  /\ r.start = s.start /\ r.offset = s.offset /\ r.todo = s.todo /\ r.seen = s.seen

\* The rows change while every key of a lesson ahead that is taken stays so, and a scan at most
\* comes to its end.
LEMMA NoticesStep ==
    ASSUME Reminded, notices' \subseteq Notice, WrittenInTime',
           \A k \in Keys : Taken(k) => Taken(k)' \/ k.start <= hour,
           UNCHANGED <<hour, pushes>>,
           scan' \in [Calls -> {NoScan} \cup ScanRow],
           \A d \in Calls : scan'[d] = scan[d] \/ ScanEnds(scan[d], scan'[d])
    PROVE  Reminded'
<1>1. ReminderShape'  BY DEF Reminded, ReminderShape
<1>2. \A k \in Keys : Taken(k) /\ hour < k.start => Taken(k)'
  <2>1. hour \in Nat /\ \A k \in Keys : k.start \in Nat
    BY HoursAreNat DEF Reminded, ReminderShape
  <2> QED  BY <2>1
<1>3. \A d \in Calls : (scan[d].stage # "idle" => OnItsWay(scan[d]))'
  <2> SUFFICES ASSUME NEW d \in Calls, scan'[d].stage # "idle"
               PROVE  OnItsWay(scan[d])'
    OBVIOUS
  <2>1. scan[d].stage # "idle"  BY DEF ScanEnds
  <2>2. scan[d] \in ScanRow /\ OnItsWay(scan[d])  BY <2>1, ScanningIsRow
  <2>3. /\ scan'[d].start = scan[d].start /\ scan'[d].offset = scan[d].offset
        /\ scan'[d].todo = scan[d].todo /\ scan'[d].seen = scan[d].seen
        /\ scan'[d] = scan[d] \/ scan'[d].stage = "done"
    BY DEF ScanEnds
  <2>4. ASSUME NEW u \in scan[d].seen \ scan[d].todo
        PROVE  \E n \in notices' : n.key = KeyOf(scan[d].offset, scan[d].start, u)
    <3>1. /\ scan[d].start \in StartHours /\ hour < scan[d].start /\ u \in People
          /\ scan[d].offset \in Offsets
      BY <2>2 DEF OnItsWay, ScanRow
    <3>2. PICK k \in Keys : k = KeyOf(scan[d].offset, scan[d].start, u) /\ hour < k.start
      BY <3>1, KeyOfPerson
    <3>3. Taken(k)  BY <2>2, <3>2 DEF OnItsWay
    <3> QED  BY <1>2, <3>2, <3>3 DEF Taken
  <2>5. \A u \in scan'[d].seen \ scan'[d].todo :
          \E n \in notices' : n.key = KeyOf(scan'[d].offset, scan'[d].start, u)
    BY <2>3, <2>4
  <2> QED  BY <2>2, <2>3, <2>5 DEF OnItsWay, Taken
<1>4. PushedWithRow'
  <2>1. \A d \in Calls, k \in Keys : Pushing(d, k)' <=> Pushing(d, k)  BY DEF Pushing, ScanEnds
  <2>2. \A d \in Calls, k \in Keys : Pushing(d, k) => Taken(k)'
    <3> SUFFICES ASSUME NEW d \in Calls, NEW k \in Keys, Pushing(d, k) PROVE Taken(k)'
      OBVIOUS
    <3>1. scan[d] \in ScanRow /\ OnItsWay(scan[d]) /\ scan[d].stage = "push"
      BY ScanningIsRow DEF Pushing
    <3>2. hour < k.start
      BY <3>1, KeyOfPerson DEF OnItsWay, Pushing, ScanRow
    <3> QED  BY <1>2, <3>2 DEF Reminded, PushedWithRow
  <2>3. \A d \in Calls : scan'[d].stage = "push" => scan[d].stage = "push"  BY DEF ScanEnds
  <2> QED  BY <2>1, <2>2, <2>3 DEF Reminded, PushedWithRow
<1> QED  BY <1>1, <1>3, <1>4 DEF Reminded, PushedAtMostOnce

\* What is pruned was written longer ago than the longest lead, so its lesson has begun.
LEMMA PruneNoticesStep ==
    ASSUME Reminded, NEW c \in Calls, PruneNotices(c)
    PROVE  Reminded'
<1>1. scan[c] \in ScanRow /\ scan[c].stage = "prune" /\ hour \in Nat
  BY ScanningIsRow DEF PruneNotices
<1>2. LET r == [scan[c] EXCEPT !.stage = "done"] IN r \in ScanRow /\ ScanEnds(scan[c], r)
  BY <1>1 DEF ScanRow, ScanStages, ScanEnds
<1>3. /\ notices' = notices \ PruneOld(hour) /\ UNCHANGED <<hour, pushes>>
      /\ scan' = [scan EXCEPT ![c] = [scan[c] EXCEPT !.stage = "done"]]
  BY DEF PruneNotices, Continue
<1>4. /\ scan' \in [Calls -> {NoScan} \cup ScanRow]
      /\ \A d \in Calls : scan'[d] = scan[d] \/ ScanEnds(scan[d], scan'[d])
  BY <1>1, <1>2, <1>3 DEF Reminded, ReminderShape
<1>5. notices' \subseteq Notice /\ WrittenInTime'
  BY <1>3 DEF Reminded, ReminderShape, WrittenInTime
<1>6. \A k \in Keys : Taken(k) => Taken(k)' \/ k.start <= hour
  <2> SUFFICES ASSUME NEW k \in Keys, NEW n \in notices, n.key = k, n \notin notices'
               PROVE  k.start <= hour
    BY DEF Taken
  <2>1. n.at < hour - Retention  BY <1>3 DEF PruneOld
  <2>2. n \in Notice /\ k.start <= n.at + Minutes(k.offset)
    BY DEF Reminded, ReminderShape, WrittenInTime
  <2>3. n.at \in Nat /\ k.start \in Nat  BY <2>2, HoursAreNat DEF Notice
  <2>4. Retention \in Nat /\ Minutes(k.offset) \in 0..Retention + 1
    BY ReminderAssumption DEF Minutes
  <2> QED  BY <1>1, <2>1, <2>2, <2>3, <2>4
<1> QED  BY <1>3, <1>4, <1>5, <1>6, NoticesStep

LEMMA MarkStep ==
    ASSUME Reminded, NEW ns \in SUBSET notices, notices' = MarkAsRead(ns),
           UNCHANGED <<hour, pushes, scan>>
    PROVE  Reminded'
<1>1. \A n \in notices : n \in Notice  BY DEF Reminded, ReminderShape
<1>2. \A n \in Notice : LET m == [n EXCEPT !.read = TRUE] IN
        m \in Notice /\ m.key = n.key /\ m.about = n.about /\ m.at = n.at
  BY DEF Notice
<1>3. \A m \in notices' : \E n \in notices :
        m \in Notice /\ m.key = n.key /\ m.about = n.about /\ m.at = n.at
  <2>1. \A m \in notices' : m \in notices \/ \E n \in ns : m = [n EXCEPT !.read = TRUE]
    BY DEF MarkAsRead
  <2>2. \A n \in ns : n \in notices /\ n \in Notice  BY <1>1
  <2>3. ASSUME NEW m \in notices', NEW n \in ns, m = [n EXCEPT !.read = TRUE]
        PROVE  n \in notices /\ m \in Notice /\ m.key = n.key /\ m.about = n.about /\ m.at = n.at
    BY <1>2, <2>2, <2>3
  <2> QED  BY <1>1, <2>1, <2>3
<1>4. \A n \in notices : \E m \in notices' : m.key = n.key
  BY <1>1, <1>2 DEF MarkAsRead
<1>5. notices' \subseteq Notice  BY <1>3
<1>6. WrittenInTime'  BY <1>3 DEF Reminded, WrittenInTime
<1>7. \A k \in Keys : Taken(k) => Taken(k)'  BY <1>4 DEF Taken
<1>8. scan \in [Calls -> {NoScan} \cup ScanRow]  BY DEF Reminded, ReminderShape
<1> QED  BY <1>5, <1>6, <1>7, <1>8, NoticesStep

\* The clock moves on between the scans only.
LEMMA HourPassesStep ==
    ASSUME Reminded, HourPasses
    PROVE  Reminded'
<1>1. /\ hour \in 0..LastHour /\ hour' = hour + 1 /\ hour < LastHour /\ LastHour \in Nat
      /\ UNCHANGED <<notices, pushes, scan>>
  BY ReminderAssumption DEF HourPasses, Reminded, ReminderShape
<1>2. ReminderShape'  BY <1>1 DEF Reminded, ReminderShape
<1>3. \A c \in Calls : scan'[c].stage = "idle"  BY DEF HourPasses, NoScan
<1>4. WrittenInTime'
  <2>1. \A n \in notices : n.at \in Nat  BY HoursAreNat DEF Reminded, ReminderShape, Notice
  <2> QED  BY <1>1, <2>1 DEF Reminded, WrittenInTime
<1>5. PushedWithRow'
  <2>1. \A k \in Keys : k.start \in Nat  BY HoursAreNat
  <2>2. \A k \in Keys : pushes'[k] # 0 => Taken(k)' \/ k.start <= hour'
    BY <1>1, <2>1 DEF Reminded, PushedWithRow, Taken
  <2> QED  BY <1>3, <2>2 DEF PushedWithRow, Pushing
<1> QED  BY <1>1, <1>2, <1>3, <1>4, <1>5 DEF Reminded, PushedAtMostOnce

LEMMA NextReminded ==
    ASSUME Reminded, [NextReminders]_reminderVars
    PROVE  Reminded'
<1>1. CASE UNCHANGED reminderVars
  BY <1>1 DEF reminderVars, Reminded, ReminderShape, WrittenInTime, OnItsWay, PushedWithRow,
              Pushing, Taken, PushedAtMostOnce
<1>2. ASSUME NEW c \in Calls, StartScan(c) \/ ReadLessons(c) \/ ReadRecipients(c)
      PROVE  Reminded'
  BY <1>2, StartScanStep, ReadLessonsStep, ReadRecipientsStep
<1>3. ASSUME NEW c \in Calls, NEW u \in People, CheckKey(c, u)
      PROVE  Reminded'
  BY <1>3, CheckKeyStep
<1>4. ASSUME NEW c \in Calls, InsertNotice(c) \/ PushReminder(c) \/ NextOffset(c)
                              \/ PruneNotices(c) \/ EndScan(c)
      PROVE  Reminded'
  BY <1>4, InsertNoticeStep, PushReminderStep, NextOffsetStep, PruneNoticesStep, EndScanStep
<1>5. ASSUME NEW u \in People, MarkOneRead(u) \/ MarkAllRead(u)
      PROVE  Reminded'
  <2>1. \E ns \in SUBSET notices : notices' = MarkAsRead(ns) /\ UNCHANGED <<hour, pushes, scan>>
    BY <1>5 DEF MarkOneRead, MarkAllRead, OwnRows
  <2> QED  BY <2>1, MarkStep
<1>6. CASE HourPasses  BY <1>6, HourPassesStep
<1> QED  BY <1>1, <1>2, <1>3, <1>4, <1>5, <1>6 DEF NextReminders

LEMMA RemindedSuffices == Reminded => TypeOKReminders /\ PushedAtMostOnce /\ ScanReachesEveryone
<1> SUFFICES ASSUME Reminded PROVE TypeOKReminders /\ ScanReachesEveryone  BY DEF Reminded
<1>1. TypeOKReminders
  BY DEF Reminded, ReminderShape, TypeOKReminders, Notice, ScanRow, ScanStages, NoScan
<1>2. ScanReachesEveryone
  <2> SUFFICES ASSUME NEW c \in Calls, scan[c].stage \in {"loop", "prune", "done"},
                      NEW u \in scan[c].seen \ scan[c].todo
               PROVE  \E n \in notices : /\ n.key.offset = scan[c].offset
                                         /\ n.about = scan[c].start /\ n.key.user = u
    BY DEF ScanReachesEveryone
  <2>1. scan[c] \in ScanRow /\ OnItsWay(scan[c])  BY ScanningIsRow
  <2>2. scan[c].start \in StartHours /\ u \in People /\ scan[c].offset \in Offsets
    BY <2>1 DEF ScanRow, OnItsWay
  <2>3. PICK n \in notices : n.key = KeyOf(scan[c].offset, scan[c].start, u)
    BY <2>1 DEF OnItsWay, Taken
  <2> QED  BY <2>2, <2>3, KeyOfPerson DEF Reminded, WrittenInTime
<1> QED  BY <1>1, <1>2

\* The inductive invariant holds in every state of a behavior.
LEMMA AlwaysReminded == SpecReminders => []Reminded
BY InitReminded, NextReminded, PTL DEF SpecReminders

\* Nobody is pushed a reminder twice, whatever the number of scans that overlap, fail and run
\* again, and although old rows are pruned (reminder-core.ts:58-75, notification-core.ts:34-87).
THEOREM RemindedAtMostOnce == SpecReminders => []PushedAtMostOnce
BY AlwaysReminded, RemindedSuffices, PTL

\* A scan that has gone through a lesson leaves no recipient without a row about the very time it
\* found (reminder-core.ts:35-77).
THEOREM NobodyLeftUnreminded == SpecReminders => []ScanReachesEveryone
BY AlwaysReminded, RemindedSuffices, PTL

-----------------------------------------------------------------------------
(* The push subscriptions of a user. The rows that no save is about to     *)
(* take away are no more than the cap, unless a save has still to count or *)
(* was cut off before it did; as no two rows are of the same age, all but  *)
(* the cap newest go. A subscription belongs to the browser that made it,  *)
(* and no two clicks are about the same one.                               *)

Clicks == {"idle", "upsert", "count", "trim", "saved", "refused", "find", "drop"}
SubRow == [endpoint : Endpoints, born : 0..MaxSub]
ButtonRow == [shows : BOOLEAN, stage : Clicks, rows : SUBSET SubRow, endpoint : Endpoints \cup {Nothing}]

PushShape ==
    /\ browser \in [Devices -> Endpoints \cup {Nothing}]
    /\ used \subseteq Endpoints
    /\ subs \subseteq [endpoint : used, born : 0..MaxSub]
    /\ IsFiniteSet(subs)
    /\ born \in 0..MaxSub
    /\ button \in [Devices -> ButtonRow]
    /\ overfull \in BOOLEAN /\ excused \in SUBSET Endpoints

\* The rows carry the numbers handed out so far, each one once.
Numbered == /\ \A r \in subs : r.born < born
            /\ \A r, q \in subs : r.born = q.born => r = q

\* A browser's subscription is the one its last click was about, and no two clicks are about the same.
OwnEndpoint(d) ==
    /\ browser[d] \in {Nothing, button[d].endpoint}
    /\ button[d].endpoint \in used \cup {Nothing}
    /\ \A o \in Devices \ {d} : button[d].endpoint = Nothing \/ button[o].endpoint # button[d].endpoint

\* What the server has of d's subscription, at each stage of d's click.
Knows(d) ==
    /\ ClickAt(d) # "idle" => button[d].endpoint # Nothing
    /\ ClickAt(d) = "upsert" => browser[d] # Nothing
    /\ ClickAt(d) \in {"idle", "count", "trim", "saved"} =>
          browser[d] \in excused \cup {Nothing} \/ RowsAt(browser[d]) # {}
    /\ ClickAt(d) \in {"find", "drop"} => browser[d] = Nothing
    /\ ClickAt(d) = "drop" => \A r \in button[d].rows : r.endpoint = button[d].endpoint

\* The rows that no save is about to take away.
Kept == {r \in subs : \A d \in Devices : ClickAt(d) = "trim" => r \notin button[d].rows}

WillFit == overfull \/ (\E d \in Devices : ClickAt(d) = "count") \/ Cardinality(Kept) <= Cap

\* The inductive invariant.
Pushed == /\ PushShape
          /\ Numbered
          /\ \A d \in Devices : OwnEndpoint(d)
          /\ \A d \in Devices : Knows(d)
          /\ WillFit

-----------------------------------------------------------------------------
LEMMA PushNumbers == /\ Cap \in Nat /\ 0 <= Cap /\ 0 \in 0..MaxSub
                     /\ \A b \in 0..MaxSub : b \in Nat
                     /\ \A b \in 0..MaxSub : b < MaxSub => b + 1 \in 0..MaxSub
<1>1. Cap \in Nat /\ MaxSub \in Nat  BY PushAssumption
<1> QED  BY <1>1

\* All but the Cap newest: what is left is no more than Cap, as no two rows are of the same age.
LEMMA NewestFit ==
    ASSUME NEW S, IsFiniteSet(S), \A r \in S : r.born \in Nat,
           \A r, q \in S : r.born = q.born => r = q,
           NEW N \in SUBSET S, \A r \in N : Cardinality({q \in S : q.born > r.born}) < Cap
    PROVE  Cardinality(N) <= Cap
<1>1. IsFiniteSet(N) /\ Cardinality(N) \in Nat  BY FS_Subset, FS_CardinalityType
<1>2. CASE N = {}
  <2>1. Cardinality(N) = 0  BY <1>2, FS_EmptySet
  <2> QED  BY <2>1, PushNumbers
<1>3. CASE N # {}
  <2> DEFINE T == {r.born : r \in N}
  <2>1. T \in SUBSET Nat /\ T # {}  BY <1>3
  <2>2. PICK n \in T : \A m \in T : n <= m
    <3> HIDE DEF T
    <3> QED  BY <2>1, LeastOf
  <2>3. PICK r \in N : r.born = n  BY <2>2
  <2>4. \A q \in N : q # r => q.born > r.born
    <3> SUFFICES ASSUME NEW q \in N, q # r PROVE q.born > r.born  OBVIOUS
    <3>1. q.born \in Nat /\ r.born \in Nat /\ r.born <= q.born /\ r.born # q.born  BY <2>2, <2>3
    <3> QED  BY <3>1
  <2> DEFINE Y == {q \in S : q.born > r.born}
  <2>5. N \ {r} \subseteq Y  BY <2>4
  <2>6. IsFiniteSet(Y)  BY FS_Subset
  <2>7. Cardinality(Y) < Cap  OBVIOUS
  <2> HIDE DEF Y
  <2>8. /\ Cardinality(N \ {r}) <= Cardinality(Y)
        /\ Cardinality(N \ {r}) \in Nat /\ Cardinality(Y) \in Nat
    BY <2>5, <2>6, FS_Subset, FS_CardinalityType
  <2>9. Cardinality(N \ {r}) = Cardinality(N) - 1  BY <1>1, FS_RemoveElement
  <2> QED  BY <1>1, <2>7, <2>8, <2>9, PushNumbers
<1> QED  BY <1>2, <1>3

LEMMA InitPushed == InitPush => Pushed
<1> SUFFICES ASSUME InitPush PROVE Pushed  OBVIOUS
<1> DEFINE r == [shows |-> FALSE, stage |-> "idle", rows |-> {}, endpoint |-> Nothing]
<1>1. r \in ButtonRow /\ r.stage = "idle" /\ r.endpoint = Nothing  BY DEF ButtonRow, Clicks
<1>2. button = [d \in Devices |-> r]  BY DEF InitPush
<1> HIDE DEF r
<1>3. IsFiniteSet({}) /\ Cardinality({}) = 0  BY FS_EmptySet
<1>4. PushShape  BY <1>1, <1>2, <1>3, PushNumbers DEF InitPush, PushShape
<1>5. \A d \in Devices : OwnEndpoint(d) /\ Knows(d)
  BY <1>1, <1>2 DEF InitPush, OwnEndpoint, Knows, ClickAt
<1>6. WillFit
  <2>1. Kept = {}  BY DEF InitPush, Kept
  <2> QED  BY <1>3, <2>1, PushNumbers DEF WillFit
<1> QED  BY <1>4, <1>5, <1>6 DEF InitPush, Pushed, Numbered

LEMMA ButtonHasShape ==
    ASSUME Pushed, NEW d \in Devices
    PROVE  /\ button[d] \in ButtonRow /\ browser[d] \in Endpoints \cup {Nothing}
           /\ button[d].rows \subseteq SubRow /\ button[d].shows \in BOOLEAN
           /\ button[d].endpoint \in Endpoints \cup {Nothing}
           /\ OwnEndpoint(d) /\ Knows(d)
BY DEF Pushed, PushShape, ButtonRow

LEMMA KeptFinite ==
    ASSUME Pushed
    PROVE  IsFiniteSet(Kept) /\ Cardinality(Kept) \in Nat
BY FS_Subset, FS_CardinalityType DEF Pushed, PushShape, Kept

LEMMA StillFits ==
    ASSUME Pushed, Kept' \subseteq Kept, overfull => overfull',
           \A d \in Devices : ClickAt(d) = "count" => overfull' \/ ClickAt(d)' = "count"
    PROVE  WillFit'
<1>1. CASE overfull \/ \E d \in Devices : ClickAt(d) = "count"
  BY <1>1 DEF WillFit
<1>2. CASE Cardinality(Kept) <= Cap
  <2>1. /\ IsFiniteSet(Kept') /\ Cardinality(Kept') <= Cardinality(Kept)
        /\ Cardinality(Kept') \in Nat /\ Cardinality(Kept) \in Nat
    BY KeptFinite, FS_Subset, FS_CardinalityType
  <2>2. Cardinality(Kept') <= Cap  BY <1>2, <2>1, PushNumbers
  <2> QED  BY <2>2 DEF WillFit
<1> QED  BY <1>1, <1>2 DEF Pushed, WillFit

\* No row is made: rows may go, but for those of a browser that counts on its own.
LEMMA RowsGo ==
    ASSUME Pushed, UNCHANGED <<used, born>>, subs' \subseteq subs,
           \A x \in subs \ subs' : x.endpoint \in excused' \/ \A o \in Devices : browser[o] # x.endpoint,
           excused \subseteq excused', excused' \in SUBSET Endpoints, overfull' \in BOOLEAN,
           button' \in [Devices -> ButtonRow], browser' \in [Devices -> Endpoints \cup {Nothing}],
           \A o \in Devices : button'[o].endpoint = button[o].endpoint
                              /\ browser'[o] \in {browser[o], Nothing},
           \A o \in Devices :
              \/ browser'[o] = browser[o] /\ button'[o].stage = button[o].stage
                 /\ button'[o].rows \subseteq button[o].rows
              \/ Knows(o)',
           WillFit'
    PROVE  Pushed'
<1>1. PushShape'
  <2>1. IsFiniteSet(subs')  BY FS_Subset DEF Pushed, PushShape
  <2> QED  BY <2>1 DEF Pushed, PushShape
<1>2. Numbered'  BY DEF Pushed, Numbered
<1>3. \A o \in Devices : OwnEndpoint(o)'  BY DEF Pushed, OwnEndpoint
<1>4. ASSUME NEW o \in Devices PROVE Knows(o)'
  <2>1. CASE Knows(o)'  BY <2>1
  <2>2. CASE /\ browser'[o] = browser[o] /\ button'[o].stage = button[o].stage
             /\ button'[o].rows \subseteq button[o].rows
    <3>1. Knows(o)  BY DEF Pushed
    <3>2. RowsAt(browser[o]) # {} => browser[o] \in excused' \/ RowsAt(browser[o])' # {}
      BY <2>2 DEF RowsAt
    <3> QED  BY <2>2, <3>1, <3>2 DEF Knows, ClickAt
  <2> QED  BY <2>1, <2>2
<1> QED  BY <1>1, <1>2, <1>3, <1>4 DEF Pushed

\* d's click goes on, its browser keeps or loses its subscription, and the rows stay.
LEMMA ClickStep ==
    ASSUME Pushed, NEW d \in Devices, NEW r \in ButtonRow, NEW e \in {browser[d], Nothing},
           button' = [button EXCEPT ![d] = r], browser' = [browser EXCEPT ![d] = e],
           r.endpoint = button[d].endpoint, r.stage # "idle" => r.endpoint # Nothing,
           UNCHANGED <<used, born, subs>>, overfull' \in BOOLEAN,
           excused \subseteq excused', excused' \in SUBSET Endpoints,
           \/ r.stage = "refused"
           \/ r.stage \in {"idle", "count", "trim", "saved"}
              /\ (e \in excused' \cup {Nothing} \/ RowsAt(e) # {})
           \/ r.stage \in {"find", "drop"} /\ e = Nothing
              /\ (r.stage = "drop" => \A x \in r.rows : x.endpoint = r.endpoint),
           \/ WillFit'
           \/ (overfull => overfull') /\ (button[d].stage = "count" => overfull')
              /\ (button[d].stage = "trim" /\ ~overfull' => button[d].rows = {})
    PROVE  Pushed'
<1>1. /\ button' \in [Devices -> ButtonRow] /\ button'[d] = r
      /\ \A o \in Devices \ {d} : button'[o] = button[o]
  BY DEF Pushed, PushShape
<1>2. /\ browser' \in [Devices -> Endpoints \cup {Nothing}] /\ browser'[d] = e
      /\ \A o \in Devices \ {d} : browser'[o] = browser[o]
  BY DEF Pushed, PushShape
<1>3. Knows(d)'  BY <1>1, <1>2 DEF Knows, ClickAt, RowsAt
<1>4. WillFit'
  <2>1. CASE overfull'  BY <2>1 DEF WillFit
  <2>2. CASE ~overfull' /\ ~WillFit'
    <3>1. Kept' \subseteq Kept  BY <1>1, <2>2 DEF Kept, ClickAt
    <3> QED  BY <1>1, <2>2, <3>1, StillFits DEF ClickAt
  <2> QED  BY <2>1, <2>2
<1> QED  BY <1>1, <1>2, <1>3, <1>4, RowsGo

\* One lemma more for the clicks that leave the browser alone.
LEMMA SameBrowser ==
    ASSUME Pushed, NEW d \in Devices
    PROVE  [browser EXCEPT ![d] = browser[d]] = browser
BY DEF Pushed, PushShape

LEMMA CountSubsStep ==
    ASSUME Pushed, NEW d \in Devices, CountSubs(d)
    PROVE  Pushed'
<1> DEFINE r == [button[d] EXCEPT !.stage = "trim", !.rows = Overflow]
<1>1. Overflow \subseteq SubRow /\ Overflow \subseteq subs
  BY DEF Overflow, SubRow, Pushed, PushShape
<1>2. /\ r \in ButtonRow /\ r.stage = "trim" /\ r.rows = Overflow
      /\ r.endpoint = button[d].endpoint /\ r.endpoint # Nothing
  BY <1>1, ButtonHasShape DEF ButtonRow, Clicks, CountSubs, Knows
<1>3. button' = [button EXCEPT ![d] = r]  BY DEF CountSubs
<1> HIDE DEF r
<1>4. button'[d] = r  BY <1>3 DEF Pushed, PushShape
<1>5. WillFit'
  <2>1. Kept' \subseteq subs \ Overflow  BY <1>2, <1>4 DEF Kept, ClickAt, CountSubs
  <2>2. \A x \in subs \ Overflow : Cardinality({q \in subs : q.born > x.born}) < Cap
    <3> SUFFICES ASSUME NEW x \in subs \ Overflow
                 PROVE  Cardinality({q \in subs : q.born > x.born}) < Cap
      OBVIOUS
    <3> DEFINE Y == {q \in subs : q.born > x.born}
    <3>1. Cardinality(Y) \in Nat  BY FS_Subset, FS_CardinalityType DEF Pushed, PushShape
    <3>2. ~(Cardinality(Y) >= Cap)  BY DEF Overflow
    <3> HIDE DEF Y
    <3>3. Cardinality(Y) < Cap  BY <3>1, <3>2, PushNumbers
    <3> QED  BY <3>3 DEF Y
  <2>3. /\ IsFiniteSet(subs) /\ \A x \in subs : x.born \in Nat
        /\ \A x, q \in subs : x.born = q.born => x = q
    BY PushNumbers DEF Pushed, PushShape, Numbered
  <2>4. Kept' \in SUBSET subs /\ \A x \in Kept' : Cardinality({q \in subs : q.born > x.born}) < Cap
    BY <2>1, <2>2
  <2>5. \A N \in SUBSET subs : (\A x \in N : Cardinality({q \in subs : q.born > x.born}) < Cap)
                                 => Cardinality(N) <= Cap
    BY <2>3, NewestFit
  <2>6. Cardinality(Kept') <= Cap  BY <2>4, <2>5
  <2> QED  BY <2>6 DEF WillFit
<1>6. browser[d] \in excused \cup {Nothing} \/ RowsAt(browser[d]) # {}
  BY ButtonHasShape DEF Knows, CountSubs
<1> QED  BY <1>2, <1>3, <1>5, <1>6, SameBrowser, ClickStep DEF CountSubs, Pushed, PushShape

LEMMA TrimmedAllStep ==
    ASSUME Pushed, NEW d \in Devices, TrimmedAll(d)
    PROVE  Pushed'
<1> DEFINE r == [button[d] EXCEPT !.stage = "saved", !.rows = {}]
<1>1. /\ r \in ButtonRow /\ r.stage = "saved" /\ r.endpoint = button[d].endpoint
      /\ r.endpoint # Nothing
  BY ButtonHasShape DEF ButtonRow, Clicks, TrimmedAll, Knows
<1>2. button' = [button EXCEPT ![d] = r]  BY DEF TrimmedAll, MoveTo
<1> HIDE DEF r
<1>3. browser[d] \in excused \cup {Nothing} \/ RowsAt(browser[d]) # {}
  BY ButtonHasShape DEF Knows, TrimmedAll
<1> QED
  BY <1>1, <1>2, <1>3, SameBrowser, ClickStep DEF TrimmedAll, ClickAt, Pushed, PushShape

LEMMA ShowOnStep ==
    ASSUME Pushed, NEW d \in Devices, ShowOn(d)
    PROVE  Pushed'
<1> DEFINE r == [button[d] EXCEPT !.shows = TRUE, !.stage = "idle"]
<1>1. r \in ButtonRow /\ r.stage = "idle" /\ r.endpoint = button[d].endpoint
  BY ButtonHasShape DEF ButtonRow, Clicks
<1>2. button' = [button EXCEPT ![d] = r]  BY DEF ShowOn
<1> HIDE DEF r
<1>3. browser[d] \in excused \cup {Nothing} \/ RowsAt(browser[d]) # {}
  BY ButtonHasShape DEF Knows, ShowOn
<1> QED
  BY <1>1, <1>2, <1>3, SameBrowser, ClickStep DEF ShowOn, ClickAt, Pushed, PushShape

LEMMA SaveFailsStep ==
    ASSUME Pushed, NEW d \in Devices, SaveFails(d)
    PROVE  Pushed'
<1> DEFINE r == [button[d] EXCEPT !.stage = "refused", !.rows = {}]
<1>1. /\ r \in ButtonRow /\ r.stage = "refused" /\ r.endpoint = button[d].endpoint
      /\ r.endpoint # Nothing
  BY ButtonHasShape DEF ButtonRow, Clicks, SaveFails, Knows
<1>2. button' = [button EXCEPT ![d] = r]  BY DEF SaveFails, MoveTo
<1> HIDE DEF r
<1>3. /\ overfull' \in BOOLEAN /\ overfull => overfull'
      /\ ClickAt(d) \in {"count", "trim"} => overfull'
  BY DEF SaveFails, Pushed, PushShape
<1> QED
  BY <1>1, <1>2, <1>3, SameBrowser, ClickStep DEF SaveFails, ClickAt, Pushed, PushShape

LEMMA ShowRefusedStep ==
    ASSUME Pushed, NEW d \in Devices, ShowRefused(d)
    PROVE  Pushed'
<1> DEFINE r == [button[d] EXCEPT !.stage = "idle", !.rows = {}]
<1>1. r \in ButtonRow /\ r.stage = "idle" /\ r.endpoint = button[d].endpoint
  BY ButtonHasShape DEF ButtonRow, Clicks
<1>2. button' = [button EXCEPT ![d] = r]  BY DEF ShowRefused, MoveTo
<1> HIDE DEF r
<1> QED
  BY <1>1, <1>2, ClickStep DEF ShowRefused, RollBack, ClickAt, Pushed, PushShape

\* The row a click is about to drop is of the endpoint the browser has just given up.
LEMMA ClickDisableStep ==
    ASSUME Pushed, NEW d \in Devices, ClickDisable(d)
    PROVE  Pushed'
<1>1. CASE browser[d] = Nothing
  <2> DEFINE r == [button[d] EXCEPT !.shows = FALSE]
  <2>1. r \in ButtonRow /\ r.stage = "idle" /\ r.endpoint = button[d].endpoint
    BY ButtonHasShape DEF ButtonRow, ClickDisable, ClickAt
  <2>2. button' = [button EXCEPT ![d] = r]  BY <1>1 DEF ClickDisable
  <2> HIDE DEF r
  <2> QED  BY <1>1, <2>1, <2>2, ClickStep DEF ClickDisable, ClickAt, Pushed, PushShape
<1>2. CASE browser[d] # Nothing
  <2> DEFINE r == [button[d] EXCEPT !.stage = "find", !.endpoint = browser[d]]
  <2>1. button[d].endpoint = browser[d]  BY <1>2, ButtonHasShape DEF OwnEndpoint
  <2>2. /\ r \in ButtonRow /\ r.stage = "find" /\ r.endpoint = button[d].endpoint
        /\ r.endpoint # Nothing
    BY <1>2, <2>1, ButtonHasShape DEF ButtonRow, Clicks
  <2>3. button' = [button EXCEPT ![d] = r]  BY <1>2 DEF ClickDisable
  <2> HIDE DEF r
  <2> QED  BY <2>2, <2>3, ClickStep DEF ClickDisable, ClickAt, Pushed, PushShape
<1> QED  BY <1>1, <1>2

LEMMA FindSubStep ==
    ASSUME Pushed, NEW d \in Devices, FindSub(d)
    PROVE  Pushed'
<1> DEFINE r == [button[d] EXCEPT !.stage = "drop", !.rows = RowsAt(button[d].endpoint)]
<1>1. /\ RowsAt(button[d].endpoint) \subseteq SubRow
      /\ \A x \in RowsAt(button[d].endpoint) : x.endpoint = button[d].endpoint
  BY DEF RowsAt, SubRow, Pushed, PushShape
<1>2. /\ r \in ButtonRow /\ r.stage = "drop" /\ r.endpoint = button[d].endpoint
      /\ r.rows = RowsAt(button[d].endpoint) /\ r.endpoint # Nothing
  BY <1>1, ButtonHasShape DEF ButtonRow, Clicks, FindSub, Knows
<1>3. button' = [button EXCEPT ![d] = r]  BY DEF FindSub
<1> HIDE DEF r
<1>4. browser[d] = Nothing  BY ButtonHasShape DEF Knows, FindSub
<1>5. /\ browser' = [browser EXCEPT ![d] = Nothing]
      /\ UNCHANGED <<used, born, subs, overfull, excused>>
      /\ overfull \in BOOLEAN /\ excused \in SUBSET Endpoints
      /\ button[d].stage = "find"
  BY <1>4, SameBrowser DEF FindSub, ClickAt, Pushed, PushShape
<1>6. \A x \in r.rows : x.endpoint = r.endpoint  BY <1>1, <1>2
<1> QED  BY <1>2, <1>3, <1>5, <1>6, ClickStep

LEMMA LoseAnswerStep ==
    ASSUME Pushed, NEW d \in Devices, LoseAnswer(d)
    PROVE  Pushed'
<1> DEFINE r == [button[d] EXCEPT !.stage = "idle", !.rows = {}]
<1>1. r \in ButtonRow /\ r.stage = "idle" /\ r.endpoint = button[d].endpoint
  BY ButtonHasShape DEF ButtonRow, Clicks
<1>2. button' = [button EXCEPT ![d] = r]  BY DEF LoseAnswer, MoveTo
<1> HIDE DEF r
<1>3. /\ overfull' \in BOOLEAN /\ overfull => overfull'
      /\ ClickAt(d) \in {"count", "trim"} => overfull'
  BY DEF LoseAnswer, Pushed, PushShape
<1>4. excused \subseteq excused'  BY DEF LoseAnswer
<1>5. /\ excused' \in SUBSET Endpoints
      /\ browser[d] \in excused' \cup {Nothing} \/ RowsAt(browser[d]) # {}
  <2>1. CASE ClickAt(d) \in {"upsert", "count", "trim", "saved", "refused"}
    <3>1. excused' = excused \cup {button[d].endpoint} /\ button[d].endpoint \in Endpoints
      BY <2>1, ButtonHasShape DEF LoseAnswer, Knows
    <3> QED  BY <3>1, ButtonHasShape DEF OwnEndpoint, Pushed, PushShape
  <2>2. CASE ClickAt(d) \in {"find", "drop"}
    <3>1. excused' = excused /\ browser[d] = Nothing
      BY <2>2, ButtonHasShape DEF LoseAnswer, Knows
    <3> QED  BY <3>1 DEF Pushed, PushShape
  <2> QED  BY <2>1, <2>2, ButtonHasShape DEF LoseAnswer, ClickAt, ButtonRow, Clicks
<1> QED
  BY <1>1, <1>2, <1>3, <1>4, <1>5, SameBrowser, ClickStep DEF LoseAnswer, ClickAt

LEMMA OpenPageStep ==
    ASSUME Pushed, NEW d \in Devices, OpenPage(d)
    PROVE  Pushed'
<1> DEFINE r == [button[d] EXCEPT !.shows = ~@]
<1>1. r \in ButtonRow /\ r.stage = "idle" /\ r.endpoint = button[d].endpoint
  BY ButtonHasShape DEF ButtonRow, OpenPage, ClickAt
<1>2. button' = [button EXCEPT ![d] = r]  BY DEF OpenPage
<1> HIDE DEF r
<1>3. browser[d] \in excused \cup {Nothing} \/ RowsAt(browser[d]) # {}
  BY ButtonHasShape DEF Knows, OpenPage
<1> QED
  BY <1>1, <1>2, <1>3, SameBrowser, ClickStep DEF OpenPage, ClickAt, Pushed, PushShape

LEMMA RevokeStep ==
    ASSUME Pushed, NEW d \in Devices, Revoke(d)
    PROVE  Pushed'
<1>1. /\ button' = [button EXCEPT ![d] = button[d]] /\ button[d] \in ButtonRow
      /\ button[d].stage = "idle"
  BY ButtonHasShape DEF Revoke, ClickAt, Pushed, PushShape
<1> QED  BY <1>1, ClickStep DEF Revoke, Pushed, PushShape

-----------------------------------------------------------------------------
LEMMA ClickEnableStep ==
    ASSUME Pushed, NEW d \in Devices, ClickEnable(d)
    PROVE  Pushed'
<1>1. PICK e \in Endpoints :
        /\ browser' = [browser EXCEPT ![d] = e]
        /\ used' = used \cup {e}
        /\ button' = [button EXCEPT ![d] = [@ EXCEPT !.stage = "upsert", !.endpoint = e]]
        /\ e = button[d].endpoint \/ e \notin used
  <2>1. CASE browser[d] # Nothing
    <3>1. browser[d] \in Endpoints /\ browser[d] = button[d].endpoint
      BY <2>1, ButtonHasShape DEF OwnEndpoint
    <3> QED  BY <2>1, <3>1 DEF ClickEnable
  <2>2. CASE browser[d] = Nothing
    <3>1. Endpoints \ used # {}  BY <2>2 DEF ClickEnable, Pushed, PushShape
    <3>2. NewEndpoint \in Endpoints \ used  BY <3>1 DEF NewEndpoint
    <3> QED  BY <2>2, <3>2 DEF ClickEnable
  <2> QED  BY <2>1, <2>2
<1> DEFINE r == [button[d] EXCEPT !.stage = "upsert", !.endpoint = e]
<1>2. r \in ButtonRow /\ r.stage = "upsert" /\ r.endpoint = e
  BY ButtonHasShape DEF ButtonRow, Clicks
<1>3. button' = [button EXCEPT ![d] = r]  BY <1>1
<1> HIDE DEF r
<1>4. /\ button' \in [Devices -> ButtonRow] /\ button'[d].stage = "upsert"
      /\ button'[d].endpoint = e
      /\ \A o \in Devices \ {d} : button'[o] = button[o]
  BY <1>2, <1>3 DEF Pushed, PushShape
<1>5. /\ browser' \in [Devices -> Endpoints \cup {Nothing}] /\ browser'[d] = e
      /\ \A o \in Devices \ {d} : browser'[o] = browser[o]
  BY <1>1 DEF Pushed, PushShape
<1>6. UNCHANGED <<subs, born, sender, overfull, excused>> /\ button[d].stage = "idle"
  BY DEF ClickEnable, ClickAt
<1>7. PushShape'
  <2>1. used' \subseteq Endpoints /\ subs' \subseteq [endpoint : used', born : 0..MaxSub]
    BY <1>1, <1>6 DEF Pushed, PushShape
  <2> QED  BY <1>4, <1>5, <1>6, <2>1 DEF Pushed, PushShape
<1>8. ASSUME NEW o \in Devices PROVE OwnEndpoint(o)'
  BY <1>1, <1>4, <1>5, PushAssumption DEF Pushed, PushShape, OwnEndpoint
<1>9. ASSUME NEW o \in Devices PROVE Knows(o)'
  <2>1. CASE o = d  BY <1>4, <1>5, <2>1, PushAssumption DEF Knows, ClickAt
  <2>2. CASE o # d
    <3>1. Knows(o)  BY DEF Pushed
    <3> QED  BY <1>4, <1>5, <1>6, <2>2, <3>1 DEF Knows, ClickAt, RowsAt
  <2> QED  BY <2>1, <2>2
<1>10. WillFit'
  <2>1. Kept' \subseteq Kept  BY <1>4, <1>6 DEF Kept, ClickAt
  <2> QED  BY <1>4, <1>6, <2>1, StillFits DEF ClickAt
<1> QED  BY <1>6, <1>7, <1>8, <1>9, <1>10 DEF Pushed, Numbered

LEMMA UpsertStep ==
    ASSUME Pushed, NEW d \in Devices, Upsert(d)
    PROVE  Pushed'
<1> DEFINE r == [button[d] EXCEPT !.stage = "count", !.rows = {}]
<1>1. /\ r \in ButtonRow /\ r.stage = "count" /\ r.endpoint = button[d].endpoint
      /\ button[d].endpoint # Nothing /\ browser[d] = button[d].endpoint
      /\ button[d].endpoint \in used
  BY ButtonHasShape DEF ButtonRow, Clicks, Upsert, Knows, OwnEndpoint
<1>2. button' = [button EXCEPT ![d] = r]  BY DEF Upsert, MoveTo
<1> HIDE DEF r
<1>3. /\ button' \in [Devices -> ButtonRow] /\ button'[d] = r
      /\ \A o \in Devices \ {d} : button'[o] = button[o]
  BY <1>1, <1>2 DEF Pushed, PushShape
<1>4. UNCHANGED <<browser, used, overfull, excused>>  BY DEF Upsert
<1>5. /\ subs \subseteq subs' /\ IsFiniteSet(subs') /\ RowsAt(button[d].endpoint)' # {}
      /\ subs' \subseteq [endpoint : used, born : 0..MaxSub] /\ born' \in 0..MaxSub
      /\ Numbered'
  <2>1. CASE RowsAt(button[d].endpoint) # {}
    BY <1>1, <1>3, <2>1 DEF Upsert, RowsAt, Numbered, Pushed, PushShape
  <2>2. CASE RowsAt(button[d].endpoint) = {}
    <3> DEFINE x == [endpoint |-> button[d].endpoint, born |-> born]
    <3>1. subs' = subs \cup {x} /\ born' = born + 1 /\ born < MaxSub
      BY <2>2 DEF Upsert
    <3>2. x \in [endpoint : used, born : 0..MaxSub] /\ x.born = born
      BY <1>1 DEF Pushed, PushShape
    <3>3. x \in RowsAt(button[d].endpoint)'  BY <1>1, <1>3, <3>1 DEF RowsAt
    <3>4. born \in Nat /\ born' \in 0..MaxSub  BY <3>1, PushNumbers DEF Pushed, PushShape
    <3> HIDE DEF x
    <3>5. IsFiniteSet(subs')
      <4>1. IsFiniteSet(subs)  BY DEF Pushed, PushShape
      <4> QED  BY <3>1, <4>1, FS_AddElement
    <3>6. \A q \in subs : q.born \in Nat /\ q.born < born
      BY PushNumbers DEF Pushed, PushShape, Numbered
    <3>7. Numbered'
      <4>1. \A q \in subs' : q.born < born'  BY <3>1, <3>2, <3>4, <3>6
      <4>2. \A q \in subs : q.born # x.born  BY <3>2, <3>4, <3>6
      <4>3. \A p, q \in subs' : p.born = q.born => p = q
        BY <3>1, <4>2 DEF Pushed, Numbered
      <4> QED  BY <4>1, <4>3 DEF Numbered
    <3> QED  BY <3>1, <3>2, <3>3, <3>4, <3>5, <3>7 DEF Pushed, PushShape
  <2> QED  BY <2>1, <2>2
<1>6. PushShape'  BY <1>3, <1>4, <1>5 DEF Pushed, PushShape
<1>7. \A o \in Devices : OwnEndpoint(o)'  BY <1>1, <1>3, <1>4 DEF Pushed, OwnEndpoint
<1>8. ASSUME NEW o \in Devices PROVE Knows(o)'
  <2>1. CASE o = d  BY <1>1, <1>3, <1>4, <1>5, <2>1 DEF Knows, ClickAt, RowsAt
  <2>2. CASE o # d
    <3>1. Knows(o)  BY DEF Pushed
    <3>2. RowsAt(browser[o]) # {} => RowsAt(browser[o])' # {}  BY <1>4, <1>5 DEF RowsAt
    <3> QED  BY <1>3, <1>4, <2>2, <3>1, <3>2 DEF Knows, ClickAt
  <2> QED  BY <2>1, <2>2
<1>9. WillFit'  BY <1>1, <1>3 DEF WillFit, ClickAt
<1> QED  BY <1>5, <1>6, <1>7, <1>8, <1>9 DEF Pushed

LEMMA TrimOneStep ==
    ASSUME Pushed, NEW d \in Devices, TrimOne(d)
    PROVE  Pushed'
<1>1. PICK x \in button[d].rows :
        /\ subs' = subs \ {x}
        /\ excused' = excused \cup {x.endpoint}
        /\ button' = [button EXCEPT ![d].rows = @ \ {x}]
  BY DEF TrimOne
<1> DEFINE r == [button[d] EXCEPT !.rows = @ \ {x}]
<1>2. /\ r \in ButtonRow /\ r.stage = "trim" /\ r.endpoint = button[d].endpoint
      /\ r.rows = button[d].rows \ {x}
  BY ButtonHasShape DEF ButtonRow, TrimOne, ClickAt
<1>3. button' = [button EXCEPT ![d] = r]  BY <1>1
<1> HIDE DEF r
<1>4. /\ button' \in [Devices -> ButtonRow] /\ button'[d] = r
      /\ \A o \in Devices \ {d} : button'[o] = button[o]
  BY <1>2, <1>3 DEF Pushed, PushShape
<1>5. x.endpoint \in Endpoints  BY ButtonHasShape DEF SubRow
<1>6. WillFit'
  <2>1. Kept' \subseteq Kept  BY <1>1, <1>2, <1>4 DEF Kept, ClickAt
  <2> QED  BY <1>2, <1>4, <2>1, StillFits DEF TrimOne, ClickAt
<1>7. \A o \in Devices : /\ button'[o].stage = button[o].stage
                         /\ button'[o].rows \subseteq button[o].rows
                         /\ button'[o].endpoint = button[o].endpoint
  BY <1>2, <1>4 DEF TrimOne, ClickAt
<1> QED
  BY <1>1, <1>4, <1>5, <1>6, <1>7, RowsGo DEF TrimOne, Pushed, PushShape

\* A removal takes only rows of the endpoint this browser gave up, which no other browser holds.
LEMMA DropSubStep ==
    ASSUME Pushed, NEW d \in Devices, NEW ok \in BOOLEAN, DropSub(d, ok)
    PROVE  Pushed'
<1> DEFINE r == [button[d] EXCEPT !.shows = FALSE, !.stage = "idle", !.rows = {}]
<1>1. r \in ButtonRow /\ r.stage = "idle" /\ r.endpoint = button[d].endpoint
  BY ButtonHasShape DEF ButtonRow, Clicks
<1>2. button' = [button EXCEPT ![d] = r]  BY DEF DropSub
<1> HIDE DEF r
<1>3. /\ button' \in [Devices -> ButtonRow] /\ button'[d] = r
      /\ \A o \in Devices \ {d} : button'[o] = button[o]
  BY <1>1, <1>2 DEF Pushed, PushShape
<1>4. UNCHANGED <<browser, used, born, overfull, excused>> /\ subs' \subseteq subs
  BY DEF DropSub
<1>5. browser[d] = Nothing  BY ButtonHasShape DEF Knows, DropSub
<1>6. ASSUME NEW x \in subs \ subs', NEW o \in Devices PROVE browser[o] # x.endpoint
  <2>1. x \in button[d].rows /\ ClickAt(d) = "drop"  BY DEF DropSub
  <2>2. x.endpoint = button[d].endpoint /\ x.endpoint # Nothing
    BY <2>1, ButtonHasShape DEF Knows
  <2>3. browser[o] \in {Nothing, button[o].endpoint}  BY ButtonHasShape DEF OwnEndpoint
  <2>4. o # d => button[o].endpoint # button[d].endpoint
    BY <2>2, ButtonHasShape DEF OwnEndpoint
  <2> QED  BY <1>5, <2>2, <2>3, <2>4
<1>7. Knows(d)'  BY <1>1, <1>3, <1>4, <1>5 DEF Knows, ClickAt
<1>8. WillFit'
  <2>1. button[d].stage \in {"find", "drop"}  BY DEF DropSub, ClickAt
  <2>2. Kept' \subseteq Kept  BY <1>3, <1>4, <2>1 DEF Kept, ClickAt
  <2> QED  BY <1>3, <1>4, <2>1, <2>2, StillFits DEF ClickAt
<1>9. \A o \in Devices : \/ browser'[o] = browser[o] /\ button'[o].stage = button[o].stage
                            /\ button'[o].rows \subseteq button[o].rows
                         \/ Knows(o)'
  BY <1>3, <1>4, <1>7
<1>10. \A o \in Devices : button'[o].endpoint = button[o].endpoint
  BY <1>1, <1>3
<1> QED  BY <1>3, <1>4, <1>6, <1>8, <1>9, <1>10, RowsGo DEF Pushed, PushShape

LEMMA SendStep ==
    ASSUME Pushed, BeginSend \/ \E r \in sender, b \in BOOLEAN : SendOne(r, b)
    PROVE  Pushed'
<1>1. /\ UNCHANGED <<browser, used, born, button, overfull, excused>> /\ subs' \subseteq subs
      /\ \A x \in subs \ subs' : \A o \in Devices : browser[o] # x.endpoint
  BY DEF BeginSend, SendOne, IsGone
<1>2. WillFit'
  <2>1. Kept' \subseteq Kept  BY <1>1 DEF Kept, ClickAt
  <2> QED  BY <1>1, <2>1, StillFits DEF ClickAt
<1>3. /\ button' \in [Devices -> ButtonRow] /\ browser' \in [Devices -> Endpoints \cup {Nothing}]
      /\ excused' \in SUBSET Endpoints /\ overfull' \in BOOLEAN
  BY <1>1 DEF Pushed, PushShape
<1> QED  BY <1>1, <1>2, <1>3, RowsGo

LEMMA NextPushed ==
    ASSUME Pushed, [NextPush]_pushVars
    PROVE  Pushed'
<1>1. CASE UNCHANGED pushVars
  BY <1>1 DEF pushVars, Pushed, PushShape, Numbered, OwnEndpoint, Knows, WillFit, Kept, ClickAt, RowsAt
<1>2. ASSUME NEW d \in Devices,
             ClickEnable(d) \/ Upsert(d) \/ CountSubs(d) \/ TrimOne(d) \/ TrimmedAll(d)
      PROVE  Pushed'
  BY <1>2, ClickEnableStep, UpsertStep, CountSubsStep, TrimOneStep, TrimmedAllStep
<1>3. ASSUME NEW d \in Devices,
             ShowOn(d) \/ SaveFails(d) \/ ShowRefused(d) \/ ClickDisable(d) \/ FindSub(d)
      PROVE  Pushed'
  BY <1>3, ShowOnStep, SaveFailsStep, ShowRefusedStep, ClickDisableStep, FindSubStep
<1>4. ASSUME NEW d \in Devices, LoseAnswer(d) \/ OpenPage(d) \/ Revoke(d)
      PROVE  Pushed'
  BY <1>4, LoseAnswerStep, OpenPageStep, RevokeStep
<1>5. ASSUME NEW d \in Devices, NEW b \in BOOLEAN, DropSub(d, b)
      PROVE  Pushed'
  BY <1>5, DropSubStep
<1> QED  BY <1>1, <1>2, <1>3, <1>4, <1>5, SendStep DEF NextPush

LEMMA PushedSuffices == Pushed => TypeOKPush /\ DevicesWithinCap /\ SubscribedIsKnown
<1> SUFFICES ASSUME Pushed PROVE TypeOKPush /\ DevicesWithinCap /\ SubscribedIsKnown  OBVIOUS
<1>1. TypeOKPush
  <2>1. \A d \in Devices : ClickAt(d) \in Clicks /\ button[d].shows \in BOOLEAN
    BY DEF Pushed, PushShape, ButtonRow, ClickAt
  <2> QED  BY <2>1 DEF Pushed, PushShape, TypeOKPush, Clicks
<1>2. DevicesWithinCap
  <2>1. CASE \E d \in Devices : ClickAt(d) \in {"count", "trim"}  BY <2>1 DEF DevicesWithinCap
  <2>2. CASE ~ \E d \in Devices : ClickAt(d) \in {"count", "trim"}
    <3>1. Kept = subs  BY <2>2 DEF Kept
    <3> QED  BY <2>2, <3>1 DEF Pushed, WillFit, DevicesWithinCap
  <2> QED  BY <2>1, <2>2
<1>3. SubscribedIsKnown  BY DEF Pushed, Knows, SubscribedIsKnown
<1> QED  BY <1>1, <1>2, <1>3

\* The inductive invariant holds in every state of a behavior.
LEMMA AlwaysPushed == SpecPush => []Pushed
BY InitPushed, NextPushed, PTL DEF SpecPush

\* However many browsers of a user register at once, no more rows than the cap are left when every
\* save has ended; only one cut off before it counted leaves more (push-core.ts:112-125).
THEOREM CapKept == SpecPush => []DevicesWithinCap
BY AlwaysPushed, PushedSuffices, PTL

\* A browser that holds a subscription has its row on the server, but for a row dropped over the
\* cap and an answer that was lost (push-subscribe-button.tsx:37-70, push-client.ts:19-56).
THEOREM SubscribedHasRow == SpecPush => []SubscribedIsKnown
BY AlwaysPushed, PushedSuffices, PTL

-----------------------------------------------------------------------------
(* The confirmations of the MCP server. A token is in one place at a time: *)
(* it is pending, or a call carries it, or it was written, or it was       *)
(* refused; and wherever it is it carries what its preview was issued for. *)

Numbers == 1..Cardinality(issued)
Tool == {NoTool} \cup [stage : {"write"}, payload : Payloads, token : Numbers, at : Nat]

McpShape ==
    /\ tick \in Nat
    /\ IsFiniteSet(issued)
    /\ issued \subseteq [token : Numbers, payload : Payloads, at : 0..tick]
    /\ pending \subseteq [token : Numbers, payload : Payloads, expires : Nat]
    /\ tool \in [Calls -> Tool]
    /\ spoilt \subseteq Numbers

\* A preview of a was handed the token t, and at time w that was no longer ago than Ttl.
Previewed(t, a, w) == \E i \in issued : /\ i.token = t /\ i.payload = a
                                        /\ i.at <= w /\ w <= i.at + Ttl

\* What is pending is what was issued, and has not been tried.
Bound == \A e \in pending : \E i \in issued : /\ i.token = e.token /\ i.payload = e.payload
                                              /\ e.expires = i.at + Ttl
Untried == \A e \in pending : ~Accepted(e.token) /\ e.token \notin spoilt

\* A call that is about to write has a token to itself.
OwnToken(p) ==
    /\ tool[p].token \notin spoilt
    /\ \A c \in confirmed : c.token # tool[p].token
    /\ \A q \in Calls : tool[q].token = tool[p].token => q = p
Carries == \A p \in Calls : tool[p].stage = "write" =>
               /\ Previewed(tool[p].token, tool[p].payload, tool[p].at)
               /\ OwnToken(p)

\* The inductive invariant.
Desk == McpShape /\ Bound /\ Untried /\ Carries /\ WrittenAsPreviewed

-----------------------------------------------------------------------------
LEMMA CountIsNat == McpShape => Cardinality(issued) \in Nat
BY FS_CardinalityType DEF McpShape

\* An idle call carries no number that a preview hands out.
LEMMA IdleHasNone ==
    ASSUME McpShape, NEW p \in Calls
    PROVE  /\ tool[p].stage # "write" => tool[p] = NoTool /\ tool[p].token = 0
           /\ tool[p].stage = "write" => /\ tool[p].token \in Numbers /\ tool[p].token # 0
                                         /\ tool[p].payload \in Payloads /\ tool[p].at \in Nat
<1>1. tool[p] \in Tool  BY DEF McpShape
<1>2. NoTool.stage = "idle" /\ NoTool.token = 0  BY DEF NoTool
<1>3. CASE tool[p] = NoTool  BY <1>2, <1>3
<1>4. CASE tool[p] # NoTool
  <2>1. tool[p] \in [stage : {"write"}, payload : Payloads, token : Numbers, at : Nat]
    BY <1>1, <1>4 DEF Tool
  <2> QED  BY <2>1, CountIsNat DEF Numbers
<1> QED  BY <1>3, <1>4

\* A number beyond those issued is nowhere.
LEMMA NewNumber ==
    ASSUME Desk, NEW t, t = Cardinality(issued) + 1
    PROVE  ~Accepted(t) /\ t \notin spoilt
<1>1. Cardinality(issued) \in Nat  BY CountIsNat DEF Desk
<1>2. t \notin Numbers /\ t # 0  BY <1>1 DEF Numbers
<1>3. \A c \in confirmed : c.token \in Numbers  BY DEF Desk, WrittenAsPreviewed, McpShape
<1>4. \A p \in Calls : tool[p].token # t  BY <1>2, IdleHasNone DEF Desk
<1> QED  BY <1>2, <1>3, <1>4 DEF Accepted, Desk, McpShape

\* The preview's number is one more than the numbers there are.
LEMMA PreviewStep ==
    ASSUME Desk, NEW a \in Payloads, Preview(a)
    PROVE  Desk'
<1> DEFINE t == Cardinality(issued) + 1
           i == [token |-> t, payload |-> a, at |-> tick]
           e == [token |-> t, payload |-> a, expires |-> tick + Ttl]
<1> USE McpAssumption
<1>0. /\ issued' = issued \cup {i}
      /\ pending' = {d \in pending : d.expires >= tick} \cup {e}
      /\ UNCHANGED <<tick, tool, spoilt, confirmed>>
  BY DEF Preview
<1>1. Cardinality(issued) \in Nat /\ tick \in Nat  BY CountIsNat DEF Desk, McpShape
<1>2. t \notin Numbers  BY <1>1 DEF Numbers
<1>3. i \notin issued  BY <1>2 DEF Desk, McpShape
<1>4. IsFiniteSet(issued') /\ Cardinality(issued') = t
  BY <1>0, <1>3, FS_AddElement DEF Desk, McpShape
<1>5. Numbers' = 1..t /\ Numbers \subseteq 1..t /\ t \in 1..t  BY <1>1, <1>4 DEF Numbers
<1>6. ~Accepted(t) /\ t \notin spoilt  BY NewNumber
<1>7. McpShape'
  <2>1. issued' \subseteq [token : 1..t, payload : Payloads, at : 0..tick]
    <3>1. i \in [token : 1..t, payload : Payloads, at : 0..tick]  BY <1>1, <1>5
    <3>2. issued \subseteq [token : 1..t, payload : Payloads, at : 0..tick]
      BY <1>5 DEF Desk, McpShape
    <3> QED  BY <1>0, <3>1, <3>2
  <2>2. pending' \subseteq [token : 1..t, payload : Payloads, expires : Nat]
    <3>1. e \in [token : 1..t, payload : Payloads, expires : Nat]  BY <1>1, <1>5
    <3>2. pending \subseteq [token : 1..t, payload : Payloads, expires : Nat]
      BY <1>5 DEF Desk, McpShape
    <3> QED  BY <1>0, <3>1, <3>2
  <2>3. tool' \in [Calls -> Tool']
    <3>1. Tool \subseteq Tool'  BY <1>5 DEF Tool, NoTool
    <3> QED  BY <1>0, <3>1 DEF Desk, McpShape
  <2>4. spoilt' \subseteq 1..t  BY <1>0, <1>5 DEF Desk, McpShape
  <2> QED  BY <1>0, <1>1, <1>4, <1>5, <2>1, <2>2, <2>3, <2>4 DEF McpShape
<1>8. Bound'
  <2>1. i.token = e.token /\ i.payload = e.payload /\ e.expires = i.at + Ttl  OBVIOUS
  <2>2. i \in issued'  BY <1>0
  <2> HIDE DEF i, e
  <2> QED  BY <1>0, <2>1, <2>2 DEF Desk, Bound
<1>9. Untried'
  <2>1. e.token = t  OBVIOUS
  <2> HIDE DEF e, t
  <2> QED  BY <1>0, <1>6, <2>1 DEF Desk, Untried, Accepted
<1>10. issued \subseteq issued'  BY <1>0
<1> HIDE DEF t, i, e
<1>11. Carries' /\ WrittenAsPreviewed'
  BY <1>0, <1>10 DEF Desk, Carries, Previewed, OwnToken, WrittenAsPreviewed
<1> QED  BY <1>7, <1>8, <1>9, <1>11 DEF Desk

\* A token that fits goes from the store to the call; one that does not is spent.
LEMMA McpConfirmStep ==
    ASSUME Desk, NEW p \in Calls, NEW a \in Payloads, NEW i \in issued, Confirm(p, a, i.token)
    PROVE  Desk'
<1> DEFINE t == i.token
           w == [stage |-> "write", payload |-> a, token |-> t, at |-> tick]
<1> USE McpAssumption
<1>0. /\ tool[p].stage = "idle"
      /\ pending' = {e \in pending : e.token # t}
      /\ UNCHANGED <<tick, issued, confirmed>>
  BY DEF Confirm, Consume
<1>1. t \in Numbers /\ tick \in Nat /\ Numbers' = Numbers /\ Tool' = Tool
  BY <1>0 DEF Desk, McpShape, Numbers, Tool
<1>2. Bound'  BY <1>0 DEF Desk, Bound
<1>3. CASE Fitting(a, t) # {}
  <2>1. tool' = [tool EXCEPT ![p] = w] /\ spoilt' = spoilt  BY <1>3 DEF Confirm
  <2>2. PICK e \in pending : e.token = t /\ e.payload = a /\ e.expires >= tick
    BY <1>3 DEF Fitting
  <2>3. Previewed(t, a, tick)
    <3>1. PICK j \in issued : j.token = e.token /\ j.payload = e.payload /\ e.expires = j.at + Ttl
      BY <2>2 DEF Desk, Bound
    <3>2. j.at <= tick /\ tick <= j.at + Ttl
      BY <1>1, <2>2, <3>1 DEF Desk, McpShape
    <3> QED  BY <2>2, <3>1, <3>2 DEF Previewed
  <2>4. ~Accepted(t) /\ t \notin spoilt  BY <2>2 DEF Desk, Untried
  <2>5. w \in Tool  BY <1>1 DEF Tool
  <2>6. w.stage = "write" /\ w.token = t /\ w.payload = a /\ w.at = tick  OBVIOUS
  <2> HIDE DEF w, t
  <2>7. tool \in [Calls -> Tool] /\ tool'[p] = w /\ \A q \in Calls \ {p} : tool'[q] = tool[q]
    BY <2>1 DEF Desk, McpShape
  <2>8. McpShape'
    <3>1. tool' \in [Calls -> Tool]  BY <2>1, <2>5, <2>7
    <3> QED  BY <1>0, <1>1, <2>1, <3>1 DEF Desk, McpShape
  <2>9. Untried'
    BY <1>0, <2>1, <2>6, <2>7 DEF Desk, Untried, Accepted
  <2>10. Carries'
    <3> SUFFICES ASSUME NEW q \in Calls, tool'[q].stage = "write"
                 PROVE  Previewed(tool[q].token, tool[q].payload, tool[q].at)' /\ OwnToken(q)'
      BY DEF Carries
    <3>1. CASE q = p
      <4>1. Previewed(tool[q].token, tool[q].payload, tool[q].at)'
        BY <1>0, <2>3, <2>6, <2>7, <3>1 DEF Previewed
      <4> QED  BY <1>0, <2>1, <2>4, <2>6, <2>7, <3>1, <4>1 DEF OwnToken, Accepted
    <3>2. CASE q # p
      <4>1. tool'[q] = tool[q] /\ tool[q].token # t  BY <2>4, <2>7, <3>2 DEF Accepted
      <4>2. Previewed(tool[q].token, tool[q].payload, tool[q].at)'
        BY <1>0, <4>1 DEF Desk, Carries, Previewed
      <4> QED  BY <1>0, <2>1, <2>6, <2>7, <4>1, <4>2 DEF Desk, Carries, OwnToken
    <3> QED  BY <3>1, <3>2
  <2> QED  BY <1>0, <1>2, <2>1, <2>8, <2>9, <2>10 DEF Desk, WrittenAsPreviewed
<1>4. CASE Fitting(a, t) = {}
  <2>1. tool' = tool /\ spoilt' = IF Accepted(t) THEN spoilt ELSE spoilt \cup {t}
    BY <1>4 DEF Confirm
  <2> HIDE DEF w, t
  <2>2. McpShape'  BY <1>0, <1>1, <2>1 DEF Desk, McpShape
  <2>3. Untried'  BY <1>0, <2>1 DEF Desk, Untried, Accepted
  <2>4. Carries'
    BY <1>0, <2>1 DEF Desk, Carries, Previewed, OwnToken, Accepted
  <2>5. WrittenAsPreviewed'
    BY <1>0, <2>1 DEF Desk, WrittenAsPreviewed, Accepted
  <2> QED  BY <1>2, <2>2, <2>3, <2>4, <2>5 DEF Desk
<1> QED  BY <1>3, <1>4

\* Calls that end, one or all, leave a token nowhere that it was not.
LEMMA McpEndStep ==
    ASSUME Desk, pending' \subseteq pending, UNCHANGED <<tick, issued, spoilt, confirmed>>,
           DOMAIN tool' = Calls, tool' = [p \in Calls |-> tool'[p]],
           \A p \in Calls : tool'[p] \in {tool[p], NoTool}
    PROVE  Desk'
<1>1. Numbers' = Numbers /\ Tool' = Tool  BY DEF Numbers, Tool
<1>2. McpShape'
  <2>1. tool' \in [Calls -> Tool]  BY DEF Desk, McpShape, Tool
  <2> QED  BY <1>1, <2>1 DEF Desk, McpShape
<1>3. Bound'  BY DEF Desk, Bound
<1>4. NoTool.token = 0 /\ NoTool.stage = "idle"  BY DEF NoTool
<1>5. 0 \notin Numbers /\ \A e \in pending : e.token # 0
  BY CountIsNat DEF Desk, McpShape, Numbers
<1>6. Untried'  BY <1>4, <1>5 DEF Desk, Untried, Accepted
<1>7. Carries'
  <2> SUFFICES ASSUME NEW q \in Calls, tool'[q].stage = "write"
               PROVE  Previewed(tool[q].token, tool[q].payload, tool[q].at)' /\ OwnToken(q)'
    BY DEF Carries
  <2>1. tool'[q] = tool[q] /\ tool[q].token # 0  BY <1>4, IdleHasNone DEF Desk
  <2>2. Previewed(tool[q].token, tool[q].payload, tool[q].at)'
    BY <2>1 DEF Desk, Carries, Previewed
  <2> QED  BY <1>4, <2>1, <2>2 DEF Desk, Carries, OwnToken
<1> QED  BY <1>2, <1>3, <1>6, <1>7 DEF Desk, WrittenAsPreviewed

\* The change that is made takes its token along, and no other change has that.
LEMMA WriteStep ==
    ASSUME Desk, NEW p \in Calls, WriteChange(p)
    PROVE  Desk'
<1> DEFINE c == [token |-> tool[p].token, payload |-> tool[p].payload, at |-> tool[p].at,
                 nth |-> Cardinality(confirmed)]
<1>1. /\ tool[p].stage = "write" /\ tool' = [tool EXCEPT ![p] = NoTool]
      /\ confirmed' \in {confirmed, confirmed \cup {c}}
      /\ UNCHANGED <<tick, pending, issued, spoilt>>
  BY DEF WriteChange, EndTool
<1>2. c.token = tool[p].token /\ c.payload = tool[p].payload /\ c.at = tool[p].at  OBVIOUS
<1> HIDE DEF c
<1>3. tool \in [Calls -> Tool] /\ Numbers' = Numbers /\ Tool' = Tool
  BY <1>1 DEF Desk, McpShape, Numbers, Tool
<1>4. tool'[p] = NoTool /\ \A q \in Calls \ {p} : tool'[q] = tool[q]  BY <1>1, <1>3
<1>5. NoTool.token = 0 /\ NoTool.stage = "idle"  BY DEF NoTool
<1>6. 0 \notin Numbers /\ \A e \in pending : e.token # 0
  BY CountIsNat DEF Desk, McpShape, Numbers
<1>7. McpShape'
  <2>1. tool' \in [Calls -> Tool]  BY <1>1, <1>3 DEF Tool
  <2> QED  BY <1>1, <1>3, <2>1 DEF Desk, McpShape
<1>8. Bound'  BY <1>1 DEF Desk, Bound
<1>9. Untried'
  <2> SUFFICES ASSUME NEW e \in pending PROVE ~Accepted(e.token)' /\ e.token \notin spoilt'
    BY <1>1 DEF Untried
  <2>1. ~Accepted(e.token) /\ e.token \notin spoilt /\ e.token # 0  BY <1>6 DEF Desk, Untried
  <2>2. \A q \in Calls : tool'[q].token # e.token  BY <1>4, <1>5, <2>1 DEF Accepted
  <2>3. \A d \in confirmed' : d.token # e.token  BY <1>1, <1>2, <2>1 DEF Accepted
  <2> QED  BY <1>1, <2>1, <2>2, <2>3 DEF Accepted
<1>10. Previewed(tool[p].token, tool[p].payload, tool[p].at) /\ OwnToken(p)
  BY <1>1 DEF Desk, Carries
<1>11. Carries'
  <2> SUFFICES ASSUME NEW q \in Calls, tool'[q].stage = "write"
               PROVE  Previewed(tool[q].token, tool[q].payload, tool[q].at)' /\ OwnToken(q)'
    BY DEF Carries
  <2>1. q # p /\ tool'[q] = tool[q]  BY <1>4, <1>5
  <2>2. OwnToken(q) /\ Previewed(tool[q].token, tool[q].payload, tool[q].at)
    BY <2>1 DEF Desk, Carries
  <2>3. Previewed(tool[q].token, tool[q].payload, tool[q].at)'
    BY <1>1, <2>1, <2>2 DEF Previewed
  <2>4. tool[q].token # 0  BY <2>1, IdleHasNone DEF Desk
  <2>5. \A d \in confirmed' : d.token # tool[q].token
    BY <1>1, <1>2, <1>10, <2>1, <2>2 DEF OwnToken
  <2> QED  BY <1>1, <1>4, <1>5, <2>1, <2>2, <2>3, <2>4, <2>5 DEF OwnToken
<1>12. WrittenAsPreviewed'
  BY <1>1, <1>2, <1>10 DEF Desk, WrittenAsPreviewed, Previewed, OwnToken
<1> QED  BY <1>7, <1>8, <1>9, <1>11, <1>12 DEF Desk

-----------------------------------------------------------------------------
LEMMA DeskInit == InitMcp => Desk
<1> SUFFICES ASSUME InitMcp PROVE Desk  OBVIOUS
<1>1. NoTool \in Tool /\ NoTool.stage = "idle"  BY DEF Tool, NoTool
<1>2. IsFiniteSet(issued)  BY FS_EmptySet DEF InitMcp
<1> QED  BY <1>1, <1>2 DEF InitMcp, Desk, McpShape, Bound, Untried, Carries, WrittenAsPreviewed

LEMMA DeskStep == Desk /\ [NextMcp]_mcpVars => Desk'
<1> SUFFICES ASSUME Desk, [NextMcp]_mcpVars PROVE Desk'  OBVIOUS
<1>0. tool \in [Calls -> Tool]  BY DEF Desk, McpShape
<1>1. ASSUME NEW p \in Calls, NEW a \in Payloads, NEW i \in issued, Confirm(p, a, i.token)
      PROVE  Desk'
  BY <1>1, McpConfirmStep
<1>2. ASSUME NEW p \in Calls, WriteChange(p) PROVE Desk'  BY <1>2, WriteStep
<1>3. ASSUME NEW p \in Calls, BreakTool(p) PROVE Desk'
  BY <1>0, <1>3, McpEndStep DEF BreakTool, EndTool
<1>4. ASSUME NEW a \in Payloads, Preview(a) PROVE Desk'  BY <1>4, PreviewStep
<1>5. CASE RestartServer  BY <1>5, McpEndStep DEF RestartServer
<1>6. CASE TickMcp
  <2>1. tick \in Nat /\ tick' \in Nat /\ 0..tick \subseteq 0..tick'  BY <1>6 DEF TickMcp, Desk, McpShape
  <2>2. UNCHANGED <<pending, tool, issued, spoilt, confirmed>>  BY <1>6 DEF TickMcp
  <2>3. Numbers' = Numbers /\ Tool' = Tool  BY <2>2 DEF Numbers, Tool
  <2>4. McpShape'  BY <2>1, <2>2, <2>3 DEF Desk, McpShape
  <2> QED  BY <2>2, <2>4 DEF Desk, Bound, Untried, Accepted, Carries, Previewed, OwnToken,
                             WrittenAsPreviewed
<1>7. ASSUME UNCHANGED <<tick, pending, tool, issued, spoilt, confirmed>> PROVE Desk'
  BY <1>0, <1>7, McpEndStep
<1> QED  BY <1>1, <1>2, <1>3, <1>4, <1>5, <1>6, <1>7
         DEF NextMcp, ChangePrincipal, MoveAtAnotherDesk, mcpVars

\* The bounds of the clock and of the tokens, and what the other desks write.
McpTyped == Desk /\ TypeOKMcp

LEMMA McpTypedInit == InitMcp => McpTyped
<1>1. InitMcp => TypeOKMcp
  BY McpAssumption DEF InitMcp, TypeOKMcp, NoTool
<1> QED  BY <1>1, DeskInit DEF McpTyped

LEMMA McpTypedStep ==
    ASSUME McpTyped, [NextMcp]_mcpVars
    PROVE  McpTyped'
<1> USE McpAssumption
<1> DEFINE Bound0 == [token : 1..MaxToken, payload : Payloads, expires : 0..LastTick + Ttl]
<1>1. Desk /\ Desk'  BY DeskStep DEF McpTyped
<1>2. \A p \in Calls : tool'[p].stage \in {"idle", "write"}
  <2>1. tool' \in [Calls -> Tool]'  BY <1>1 DEF Desk, McpShape
  <2>2. NoTool.stage = "idle"  BY DEF NoTool
  <2> QED  BY <2>1, <2>2 DEF Tool, NoTool
<1>3. tick' \in 0..LastTick
  <2>1. tick \in 0..LastTick  BY DEF McpTyped, TypeOKMcp
  <2>2. CASE TickMcp  BY <2>1, <2>2 DEF TickMcp
  <2>3. CASE ~TickMcp
    <3>1. tick' = tick
      BY <2>3 DEF NextMcp, mcpVars, Confirm, WriteChange, BreakTool, Preview, RestartServer,
                  ChangePrincipal, MoveAtAnotherDesk
    <3> QED  BY <2>1, <3>1
  <2> QED  BY <2>2, <2>3
<1>4. principal' \in {"teacher", "stranger", "banned"}
  BY DEF McpTyped, TypeOKMcp, NextMcp, mcpVars, Confirm, WriteChange, BreakTool, Preview,
         RestartServer, TickMcp, ChangePrincipal, MoveAtAnotherDesk
<1>5. pending' \subseteq Bound0
  <2>1. pending \subseteq Bound0 /\ tick \in 0..LastTick  BY DEF McpTyped, TypeOKMcp
  <2>2. CASE \E a \in Payloads : Preview(a)
    <3>1. PICK a \in Payloads : Preview(a)  BY <2>2
    <3> DEFINE e == [token |-> Cardinality(issued) + 1, payload |-> a, expires |-> tick + Ttl]
    <3>2. Cardinality(issued) \in Nat /\ Cardinality(issued) + 1 <= MaxToken
      BY <1>1, <3>1, CountIsNat DEF Desk, Preview
    <3>3. Cardinality(issued) + 1 \in 1..MaxToken /\ tick + Ttl \in 0..LastTick + Ttl
      BY <2>1, <3>2
    <3>4. e \in Bound0  BY <3>3
    <3>5. pending' \subseteq pending \cup {e}  BY <3>1 DEF Preview
    <3> HIDE DEF e, Bound0
    <3> QED  BY <2>1, <3>4, <3>5
  <2>3. CASE ~\E a \in Payloads : Preview(a)
    <3>1. pending' \subseteq pending
      BY <2>3 DEF NextMcp, mcpVars, Confirm, Consume, WriteChange, BreakTool, RestartServer,
                  TickMcp, ChangePrincipal, MoveAtAnotherDesk
    <3> QED  BY <2>1, <3>1
  <2> QED  BY <2>2, <2>3
<1>6. classBook' \in [Lesson -> ClassSlots \cup {Nothing}]
  <2>1. classBook \in [Lesson -> ClassSlots \cup {Nothing}]  BY DEF McpTyped, TypeOKMcp
  <2>2. CASE \E p \in Calls : WriteChange(p)
    <3>1. PICK p \in Calls : WriteChange(p)  BY <2>2
    <3>2. tool[p].payload \in Payloads
      BY <1>1, <3>1, IdleHasNone DEF Desk, WriteChange
    <3>3. tool[p].payload.slot \in ClassSlots  BY <3>2 DEF Payloads
    <3>4. PICK l \in Lesson : classBook' \in {classBook, [classBook EXCEPT ![l] = tool[p].payload.slot]}
      BY <3>1 DEF WriteChange, Lesson, Moved
    <3> QED  BY <2>1, <3>3, <3>4
  <2>3. CASE \E l \in Lesson, s \in ClassSlots : MoveAtAnotherDesk(l, s)
    BY <2>1, <2>3 DEF MoveAtAnotherDesk
  <2>4. CASE ~(\E p \in Calls : WriteChange(p)) /\ ~\E l \in Lesson, s \in ClassSlots : MoveAtAnotherDesk(l, s)
    <3>1. classBook' = classBook
      BY <2>4 DEF NextMcp, mcpVars, Confirm, BreakTool, Preview, RestartServer, TickMcp,
                  ChangePrincipal
    <3> QED  BY <2>1, <3>1
  <2> QED  BY <2>2, <2>3, <2>4
<1>7. Payloads' = Payloads  BY DEF Payloads
<1> QED  BY <1>1, <1>2, <1>3, <1>4, <1>5, <1>6, <1>7 DEF McpTyped, TypeOKMcp

\* In whatever order an assistant previews and confirms, and however often it repeats itself:
\* every change carries a token of its own, the arguments of its preview, no older than the time
\* to live, and no token that was refused (consumeConfirmation, mcp-confirm.ts:43-54).
THEOREM ChangesWrittenAsPreviewed == SpecMcp => []WrittenAsPreviewed
<1>1. SpecMcp => []Desk  BY DeskInit, DeskStep, PTL DEF SpecMcp
<1>2. Desk => WrittenAsPreviewed  BY DEF Desk
<1> QED  BY <1>1, <1>2, PTL

-----------------------------------------------------------------------------
(* The drafts of the reports. The limiter's list forgets nothing that is   *)
(* still in the window, so that a full list is a full window; the          *)
(* acknowledgement in the metadata is written once, and no call goes out   *)
(* before its panel has found it there.                                    *)

PanelStages == {"idle", "again", "gate", "provider", "acknowledge", "merge"}
PanelRow == [stage : PanelStages, notice : BOOLEAN, tries : 0..MaxRetries + 1,
             found : Teachers \cup {Nothing}]
Hit == [at : 0..Midnight, nth : Nat]

DraftShape ==
    /\ minute \in 0..Midnight
    /\ hits \in [Teachers -> SUBSET Hit]
    /\ admitted \in [Teachers -> SUBSET Hit]
    /\ \A u \in Teachers : IsFiniteSet(admitted[u])
    /\ orgAck \in Teachers \cup {Nothing}
    /\ orgOthers \in {"none", "some", "corrupt"}
    /\ ackRow \in Teachers \cup {Nothing}
    /\ panel \in [Teachers -> PanelRow]
    /\ refused \subseteq [user : Teachers, at : 0..Midnight]

\* What the panel of u, with local variables j, knows of the organization's row.
AckKnown(u, j) ==
    /\ j.stage = "provider" => j.found # Nothing /\ j.found = orgAck
    /\ j.stage = "merge" => ackRow = u /\ orgAck = Nothing

\* The limiter has forgotten nothing that is still in the window.
LimiterRemembers ==
    /\ \A u \in Teachers : /\ hits[u] \subseteq admitted[u]
                           /\ Cardinality(hits[u]) <= Limit
                           /\ \A h \in admitted[u] : /\ h.at <= minute
                                                     /\ h.at > minute - Window => h \in hits[u]
    /\ \A r \in refused : r.at <= minute

\* The inductive invariant.
Drafted == /\ DraftShape
           /\ \A u \in Teachers : AckKnown(u, panel[u])
           /\ AckBehindEverySend
           /\ LimiterRemembers
           /\ LimiterExact

-----------------------------------------------------------------------------
LEMMA ZeroInRange ==
    /\ 0 \in 0..MaxRetries + 1 /\ 0 \in 0..Midnight /\ 0 <= Limit /\ Limit \in Nat
    /\ \A m \in 0..Midnight : m \in Nat
<1>1. MaxRetries \in Nat /\ Midnight \in Nat /\ Limit \in Nat  BY DraftAssumption
<1> QED  BY <1>1

LEMMA InitDrafted == InitDraft => Drafted
<1> SUFFICES ASSUME InitDraft PROVE Drafted  OBVIOUS
<1> DEFINE r == [stage |-> "idle", notice |-> FALSE, tries |-> 0, found |-> Nothing]
<1>1. r \in PanelRow /\ r.stage = "idle"  BY ZeroInRange DEF PanelRow, PanelStages
<1>2. panel = [u \in Teachers |-> r]  BY DEF InitDraft
<1> HIDE DEF r
<1>3. IsFiniteSet({}) /\ Cardinality({}) = 0  BY FS_EmptySet
<1>4. DraftShape  BY <1>1, <1>2, <1>3, ZeroInRange DEF InitDraft, DraftShape
<1>5. \A u \in Teachers : AckKnown(u, panel[u])  BY <1>1, <1>2 DEF AckKnown
<1>6. LimiterRemembers  BY <1>3, ZeroInRange DEF InitDraft, LimiterRemembers
<1>7. LimiterExact
  <2>1. \A u \in Teachers : \A now : InWindow(u, now) = {}  BY DEF InitDraft, InWindow
  <2> QED  BY <1>3, <2>1, ZeroInRange DEF InitDraft, LimiterExact
<1> QED  BY <1>4, <1>5, <1>6, <1>7 DEF InitDraft, Drafted, AckBehindEverySend

LEMMA InWindowFinite ==
    ASSUME Drafted, NEW u \in Teachers, NEW now
    PROVE  IsFiniteSet(InWindow(u, now)) /\ Cardinality(InWindow(u, now)) \in Nat
BY FS_Subset, FS_CardinalityType DEF Drafted, DraftShape, InWindow

LEMMA AddOne ==
    ASSUME NEW S, NEW x, IsFiniteSet(S)
    PROVE  /\ IsFiniteSet(S \cup {x})
           /\ Cardinality(S \cup {x}) \in Nat
           /\ Cardinality(S \cup {x}) <= Cardinality(S) + 1
<1>1. IsFiniteSet(S \cup {x})  BY FS_AddElement
<1>2. Cardinality(S) \in Nat /\ Cardinality(S \cup {x}) \in Nat  BY <1>1, FS_CardinalityType
<1>3. CASE x \in S
  <2>1. S \cup {x} = S  BY <1>3
  <2>2. Cardinality(S \cup {x}) = Cardinality(S)  BY <2>1
  <2>3. \A k, m \in Nat : k = m => k <= m + 1  OBVIOUS
  <2>4. Cardinality(S \cup {x}) <= Cardinality(S) + 1  BY <1>2, <2>2, <2>3
  <2> QED  BY <1>1, <1>2, <2>4
<1>4. CASE x \notin S
  <2>1. Cardinality(S \cup {x}) = Cardinality(S) + 1  BY <1>4, FS_AddElement
  <2> QED  BY <1>1, <1>2, <2>1
<1> QED  BY <1>3, <1>4

\* A panel goes on with r while the limiter and its history stay.
LEMMA PanelStep ==
    ASSUME Drafted, NEW u \in Teachers, NEW r \in PanelRow,
           panel' = [panel EXCEPT ![u] = r],
           UNCHANGED <<minute, hits, admitted, refused, orgAck, orgOthers>>,
           sent' = sent \/ (orgAck # Nothing /\ sent' = sent \cup {orgAck}),
           \/ ackRow' = ackRow
           \/ ackRow = u /\ ackRow' = Nothing
           \/ ackRow = Nothing /\ ackRow' = u,
           r.stage = "provider" => r.found # Nothing /\ r.found = orgAck,
           r.stage = "merge" => ackRow' = u /\ orgAck = Nothing
    PROVE  Drafted'
<1>1. /\ panel' \in [Teachers -> PanelRow] /\ panel'[u] = r
      /\ \A o \in Teachers \ {u} : panel'[o] = panel[o]
  BY DEF Drafted, DraftShape
<1>2. DraftShape'  BY <1>1 DEF Drafted, DraftShape
<1>3. \A o \in Teachers : AckKnown(o, panel[o])'
  <2> SUFFICES ASSUME NEW o \in Teachers PROVE AckKnown(o, panel[o])'  OBVIOUS
  <2>1. CASE o = u  BY <1>1, <2>1 DEF AckKnown
  <2>2. CASE o # u
    BY <1>1, <2>2, DraftAssumption DEF AckKnown, Drafted
  <2> QED  BY <2>1, <2>2
<1>4. AckBehindEverySend'  BY DEF Drafted, AckBehindEverySend
<1> QED  BY <1>2, <1>3, <1>4 DEF Drafted, LimiterRemembers, LimiterExact, InWindow

LEMMA GateStep ==
    ASSUME Drafted, NEW u \in Teachers, Gate(u)
    PROVE  Drafted'
<1>1. panel[u] \in PanelRow /\ orgAck \in Teachers \cup {Nothing}  BY DEF Drafted, DraftShape
<1>2. CASE orgAck = Nothing
  <2> DEFINE r == [panel[u] EXCEPT !.stage = "idle", !.notice = TRUE]
  <2>1. r \in PanelRow /\ r.stage = "idle"  BY <1>1 DEF PanelRow, PanelStages
  <2>2. panel' = [panel EXCEPT ![u] = r]  BY <1>2 DEF Gate
  <2> HIDE DEF r
  <2> QED  BY <2>1, <2>2, PanelStep DEF Gate
<1>3. CASE orgAck # Nothing
  <2> DEFINE r == [panel[u] EXCEPT !.stage = "provider", !.tries = 0, !.found = orgAck]
  <2>1. r \in PanelRow /\ r.stage = "provider" /\ r.found = orgAck
    BY <1>1, ZeroInRange DEF PanelRow, PanelStages
  <2>2. panel' = [panel EXCEPT ![u] = r]  BY <1>3 DEF Gate
  <2> HIDE DEF r
  <2> QED  BY <1>3, <2>1, <2>2, PanelStep DEF Gate
<1> QED  BY <1>2, <1>3

LEMMA SendPromptStep ==
    ASSUME Drafted, NEW u \in Teachers, SendPrompt(u)
    PROVE  Drafted'
<1> DEFINE r == [panel[u] EXCEPT !.tries = @ + 1]
<1>1. panel[u] \in PanelRow  BY DEF Drafted, DraftShape
<1>2. panel[u].stage = "provider" /\ panel[u].found = orgAck /\ orgAck # Nothing
  BY DEF SendPrompt, PanelAt, Drafted, AckKnown
<1>3. panel[u].tries + 1 \in 0..MaxRetries + 1
  BY <1>1, DraftAssumption DEF PanelRow, SendPrompt
<1>4. r \in PanelRow /\ r.stage = "provider" /\ r.found = orgAck
  BY <1>1, <1>2, <1>3 DEF PanelRow
<1>5. panel' = [panel EXCEPT ![u] = r] /\ sent' = sent \cup {orgAck}
  BY <1>2 DEF SendPrompt
<1> HIDE DEF r
<1> QED  BY <1>2, <1>4, <1>5, PanelStep DEF SendPrompt

LEMMA EndDraftStep ==
    ASSUME Drafted, NEW u \in Teachers, NEW b \in BOOLEAN, EndDraft(u, b)
    PROVE  Drafted'
<1> DEFINE r == [panel[u] EXCEPT !.stage = "idle", !.tries = 0, !.found = Nothing,
                                 !.notice = @ /\ ~b]
<1>1. panel[u] \in PanelRow  BY DEF Drafted, DraftShape
<1>2. r \in PanelRow /\ r.stage = "idle"  BY <1>1, ZeroInRange DEF PanelRow, PanelStages
<1>3. panel' = [panel EXCEPT ![u] = r]  BY DEF EndDraft
<1> HIDE DEF r
<1> QED  BY <1>2, <1>3, PanelStep DEF EndDraft

LEMMA ConfirmStep ==
    ASSUME Drafted, NEW u \in Teachers, ConfirmAndGenerate(u)
    PROVE  Drafted'
<1> DEFINE r == [panel[u] EXCEPT !.stage = "acknowledge"]
<1>1. panel[u] \in PanelRow  BY DEF Drafted, DraftShape
<1>2. r \in PanelRow /\ r.stage = "acknowledge"  BY <1>1 DEF PanelRow, PanelStages
<1>3. panel' = [panel EXCEPT ![u] = r]  BY DEF ConfirmAndGenerate, GoTo
<1> HIDE DEF r
<1> QED  BY <1>2, <1>3, PanelStep DEF ConfirmAndGenerate

LEMMA AcknowledgedRow ==
    ASSUME Drafted, NEW u \in Teachers, Acknowledged(u)
    PROVE  \E r \in PanelRow : r.stage = "again" /\ panel' = [panel EXCEPT ![u] = r]
<1> DEFINE r == [panel[u] EXCEPT !.stage = "again", !.notice = FALSE]
<1>1. panel[u] \in PanelRow  BY DEF Drafted, DraftShape
<1>2. r \in PanelRow /\ r.stage = "again"  BY <1>1 DEF PanelRow, PanelStages
<1>3. panel' = [panel EXCEPT ![u] = r]  BY DEF Acknowledged
<1> QED  BY <1>2, <1>3

LEMMA ReadMetadataStep ==
    ASSUME Drafted, NEW u \in Teachers, ReadMetadata(u)
    PROVE  Drafted'
<1>1. CASE orgAck = Nothing
  <2> DEFINE r == [panel[u] EXCEPT !.stage = "merge"]
  <2>1. panel[u] \in PanelRow  BY DEF Drafted, DraftShape
  <2>2. r \in PanelRow /\ r.stage = "merge"  BY <2>1 DEF PanelRow, PanelStages
  <2>3. panel' = [panel EXCEPT ![u] = r] /\ ackRow = Nothing /\ ackRow' = u
    BY <1>1 DEF ReadMetadata, GoTo, RowFree
  <2> HIDE DEF r
  <2> QED  BY <1>1, <2>2, <2>3, PanelStep DEF ReadMetadata
<1>2. CASE orgAck # Nothing
  <2>1. PICK r \in PanelRow : r.stage = "again" /\ panel' = [panel EXCEPT ![u] = r]
    BY <1>2, AcknowledgedRow DEF ReadMetadata
  <2> QED  BY <1>2, <2>1, PanelStep DEF ReadMetadata
<1> QED  BY <1>1, <1>2

\* The row lock: only one panel merges, and nothing has gone to the provider before it does.
LEMMA MergeAckStep ==
    ASSUME Drafted, NEW u \in Teachers, MergeAck(u)
    PROVE  Drafted'
<1>1. PICK r \in PanelRow : r.stage = "again" /\ panel' = [panel EXCEPT ![u] = r]
  BY AcknowledgedRow DEF MergeAck
<1>2. /\ panel' \in [Teachers -> PanelRow] /\ panel'[u] = r
      /\ \A o \in Teachers \ {u} : panel'[o] = panel[o]
  BY <1>1 DEF Drafted, DraftShape
<1>3. orgAck = Nothing /\ ackRow = u  BY DEF MergeAck, PanelAt, Drafted, AckKnown
<1>4. \A o \in Teachers \ {u} : panel[o].stage \notin {"merge", "provider"}
  BY <1>3 DEF Drafted, AckKnown
<1>5. DraftShape'  BY <1>2 DEF MergeAck, Drafted, DraftShape
<1>6. \A o \in Teachers : AckKnown(o, panel[o])'  BY <1>1, <1>2, <1>4 DEF AckKnown
<1>7. AckBehindEverySend'  BY <1>3 DEF MergeAck, Drafted, AckBehindEverySend
<1> QED
  BY <1>5, <1>6, <1>7 DEF MergeAck, Drafted, LimiterRemembers, LimiterExact, InWindow

LEMMA FailDraftStep ==
    ASSUME Drafted, NEW u \in Teachers, FailDraft(u)
    PROVE  Drafted'
<1> DEFINE r == [panel[u] EXCEPT !.stage = "idle"]
<1>1. panel[u] \in PanelRow  BY DEF Drafted, DraftShape
<1>2. r \in PanelRow /\ r.stage = "idle"  BY <1>1 DEF PanelRow, PanelStages
<1>3. panel' = [panel EXCEPT ![u] = r]  BY DEF FailDraft, GoTo
<1> HIDE DEF r
<1> QED  BY <1>2, <1>3, PanelStep DEF FailDraft

LEMMA RestartStep ==
    ASSUME Drafted, RestartProcess
    PROVE  Drafted'
<1>1. \A j \in PanelRow :
        LET r == [j EXCEPT !.stage = "idle", !.tries = 0, !.found = Nothing] IN
        r \in PanelRow /\ r.stage = "idle"
  BY ZeroInRange DEF PanelRow, PanelStages
<1>2. panel' \in [Teachers -> PanelRow] /\ \A u \in Teachers : panel'[u].stage = "idle"
  BY <1>1 DEF RestartProcess, Drafted, DraftShape
<1>3. /\ \A u \in Teachers : hits'[u] = {} /\ admitted'[u] = {}
      /\ hits' \in [Teachers -> SUBSET Hit] /\ admitted' \in [Teachers -> SUBSET Hit]
      /\ refused' = {}
  BY DEF RestartProcess
<1>4. IsFiniteSet({}) /\ Cardinality({}) = 0  BY FS_EmptySet
<1>5. DraftShape'  BY <1>2, <1>3, <1>4 DEF RestartProcess, Drafted, DraftShape
<1>6. LimiterRemembers'  BY <1>3, <1>4, ZeroInRange DEF LimiterRemembers
<1>7. LimiterExact'
  <2>1. \A u \in Teachers : \A now : InWindow(u, now)' = {}  BY <1>3 DEF InWindow
  <2> QED  BY <1>3, <1>4, <2>1, ZeroInRange DEF LimiterExact
<1> QED
  BY <1>2, <1>5, <1>6, <1>7 DEF RestartProcess, Drafted, AckKnown, AckBehindEverySend

\* What the limiter finds recent is what it let through in the window that ends now.
LEMMA RecentIsWindow ==
    ASSUME Drafted, NEW u \in Teachers
    PROVE  Recent(hits[u], minute) = InWindow(u, minute)
<1>1. minute \in Nat /\ \A h \in admitted[u] : h.at \in Nat
  BY ZeroInRange DEF Drafted, DraftShape, Hit
<1> QED  BY <1>1, DraftAssumption DEF Recent, InWindow, Drafted, LimiterRemembers

\* A request is turned down: the log is pruned, and the attempt is not recorded.
LEMMA RefusedStep ==
    ASSUME Drafted, NEW u \in Teachers, Generate(u), Cardinality(Recent(hits[u], minute)) >= Limit
    PROVE  Drafted'
<1> DEFINE r == [panel[u] EXCEPT !.stage = "idle"]
<1>1. panel[u] \in PanelRow  BY DEF Drafted, DraftShape
<1>2. r \in PanelRow /\ r.stage = "idle"  BY <1>1 DEF PanelRow, PanelStages
<1>3. /\ panel' = [panel EXCEPT ![u] = r]
      /\ hits' = [hits EXCEPT ![u] = Recent(hits[u], minute)]
      /\ refused' = refused \cup {[user |-> u, at |-> minute]}
      /\ UNCHANGED <<minute, admitted, orgAck, orgOthers, ackRow, sent>>
  BY DEF Generate, GoTo, KeepBlocked
<1> HIDE DEF r
<1>4. /\ panel' \in [Teachers -> PanelRow] /\ panel'[u] = r
      /\ \A o \in Teachers \ {u} : panel'[o] = panel[o]
  BY <1>2, <1>3 DEF Drafted, DraftShape
<1>5. /\ Recent(hits[u], minute) \subseteq hits[u]
      /\ hits' \in [Teachers -> SUBSET Hit] /\ hits'[u] = Recent(hits[u], minute)
      /\ \A o \in Teachers \ {u} : hits'[o] = hits[o]
  BY <1>3 DEF Drafted, DraftShape, Recent
<1>6. Cardinality(InWindow(u, minute)) = Limit
  <2>1. Cardinality(InWindow(u, minute)) \in Nat  BY InWindowFinite
  <2>2. Cardinality(InWindow(u, minute)) >= Limit  BY RecentIsWindow
  <2>3. minute \in 0..minute  BY ZeroInRange DEF Drafted, DraftShape
  <2>4. Cardinality(InWindow(u, minute)) <= Limit  BY <2>3 DEF Drafted, LimiterExact
  <2> QED  BY <2>1, <2>2, <2>4, ZeroInRange
<1>7. DraftShape'  BY <1>3, <1>4, <1>5 DEF Drafted, DraftShape
<1>8. \A o \in Teachers : AckKnown(o, panel[o])'
  BY <1>2, <1>3, <1>4 DEF Drafted, AckKnown
<1>9. LimiterRemembers'
  <2>1. Cardinality(hits'[u]) <= Limit
    BY <1>5, <1>6, RecentIsWindow, ZeroInRange
  <2>2. hits'[u] \subseteq admitted[u]  BY <1>5 DEF Drafted, LimiterRemembers
  <2>3. \A h \in admitted[u] : h.at > minute - Window => h \in hits'[u]
    BY <1>5 DEF Drafted, LimiterRemembers, Recent
  <2>4. \A x \in refused' : x.at <= minute
    <3>1. minute <= minute  BY ZeroInRange DEF Drafted, DraftShape
    <3> QED  BY <1>3, <3>1 DEF Drafted, LimiterRemembers
  <2> QED  BY <1>3, <1>5, <2>1, <2>2, <2>3, <2>4 DEF Drafted, LimiterRemembers
<1>10. LimiterExact'
  <2>1. \A o : \A now : InWindow(o, now)' = InWindow(o, now)  BY <1>3 DEF InWindow
  <2>2. \A o \in Teachers, now \in 0..minute : Cardinality(InWindow(o, now)) <= Limit
    BY DEF Drafted, LimiterExact
  <2>3. ASSUME NEW x \in refused' PROVE Cardinality(InWindow(x.user, x.at)) = Limit
    <3>1. CASE x \in refused  BY <3>1 DEF Drafted, LimiterExact
    <3>2. CASE x = [user |-> u, at |-> minute]  BY <1>6, <3>2
    <3> QED  BY <1>3, <3>1, <3>2
  <2> QED  BY <1>3, <2>1, <2>2, <2>3 DEF LimiterExact
<1> QED  BY <1>3, <1>7, <1>8, <1>9, <1>10 DEF Drafted, AckBehindEverySend

LEMMA AdmittedStep ==
    ASSUME Drafted, NEW u \in Teachers, Generate(u), ~(Cardinality(Recent(hits[u], minute)) >= Limit)
    PROVE  Drafted'
<1> DEFINE r == [panel[u] EXCEPT !.stage = "gate"]
<1>1. panel[u] \in PanelRow  BY DEF Drafted, DraftShape
<1>2. r \in PanelRow /\ r.stage = "gate"  BY <1>1 DEF PanelRow, PanelStages
<1>3. PICK n : n = NextHit(u)  OBVIOUS
<1>4. n \in Hit /\ n.at = minute
  <2>1. Cardinality(admitted[u]) + 1 \in Nat
    BY FS_CardinalityType DEF Drafted, DraftShape
  <2> QED  BY <1>3, <2>1 DEF NextHit, Hit, Drafted, DraftShape
<1>5. /\ panel' = [panel EXCEPT ![u] = r]
      /\ hits' = [hits EXCEPT ![u] = Recent(hits[u], minute) \cup {n}]
      /\ admitted' = [admitted EXCEPT ![u] = admitted[u] \cup {n}]
      /\ UNCHANGED <<minute, refused, orgAck, orgOthers, ackRow, sent>>
  BY <1>3 DEF Generate, GoTo
<1> HIDE DEF r
<1>6. /\ panel' \in [Teachers -> PanelRow] /\ panel'[u] = r
      /\ \A o \in Teachers \ {u} : panel'[o] = panel[o]
  BY <1>2, <1>5 DEF Drafted, DraftShape
<1>7. /\ Recent(hits[u], minute) \subseteq hits[u]
      /\ hits' \in [Teachers -> SUBSET Hit] /\ hits'[u] = Recent(hits[u], minute) \cup {n}
      /\ admitted' \in [Teachers -> SUBSET Hit] /\ admitted'[u] = admitted[u] \cup {n}
      /\ \A o \in Teachers \ {u} : hits'[o] = hits[o] /\ admitted'[o] = admitted[o]
  BY <1>4, <1>5 DEF Drafted, DraftShape, Recent
<1>8. IsFiniteSet(admitted'[u])
  <2>1. IsFiniteSet(admitted[u])  BY DEF Drafted, DraftShape
  <2>2. IsFiniteSet(admitted[u] \cup {n})  BY <2>1, AddOne
  <2> QED  BY <1>7, <2>2
<1>9. /\ IsFiniteSet(Recent(hits[u], minute) \cup {n})
      /\ Cardinality(Recent(hits[u], minute) \cup {n}) <= Limit
      /\ Cardinality(Recent(hits[u], minute) \cup {n}) \in Nat
  <2>1. IsFiniteSet(Recent(hits[u], minute)) /\ Cardinality(Recent(hits[u], minute)) \in Nat
    BY RecentIsWindow, InWindowFinite
  <2>2. /\ IsFiniteSet(Recent(hits[u], minute) \cup {n})
        /\ Cardinality(Recent(hits[u], minute) \cup {n}) <= Cardinality(Recent(hits[u], minute)) + 1
        /\ Cardinality(Recent(hits[u], minute) \cup {n}) \in Nat
    BY <2>1, AddOne
  <2>3. Cardinality(Recent(hits[u], minute)) < Limit  BY <2>1, ZeroInRange
  <2> QED
    <3> DEFINE a == Cardinality(Recent(hits[u], minute))
               b == Cardinality(Recent(hits[u], minute) \cup {n})
    <3>1. a \in Nat /\ b \in Nat /\ b <= a + 1 /\ a < Limit /\ Limit \in Nat
      BY <2>1, <2>2, <2>3, ZeroInRange
    <3> HIDE DEF a, b
    <3>2. b <= Limit  BY <3>1
    <3> QED  BY <2>2, <3>1, <3>2 DEF b
<1>10. minute \in Nat /\ \A h \in admitted[u] : h.at \in Nat
  BY ZeroInRange DEF Drafted, DraftShape, Hit
<1>11. DraftShape'
  BY <1>5, <1>6, <1>7, <1>8 DEF Drafted, DraftShape
<1>12. \A o \in Teachers : AckKnown(o, panel[o])'
  BY <1>2, <1>5, <1>6 DEF Drafted, AckKnown
<1>13. LimiterRemembers'
  <2>1. \A h \in admitted[u] : h.at <= minute /\ (h.at > minute - Window => h \in hits[u])
    BY DEF Drafted, LimiterRemembers
  <2>2. \A h \in admitted'[u] : h.at <= minute /\ (h.at > minute - Window => h \in hits'[u])
    BY <1>4, <1>7, <1>10, <2>1 DEF Recent
  <2>3. hits'[u] \subseteq admitted'[u] /\ Cardinality(hits'[u]) <= Limit
    BY <1>7, <1>9 DEF Drafted, LimiterRemembers
  <2> QED  BY <1>5, <1>7, <2>2, <2>3 DEF Drafted, LimiterRemembers
<1>14. LimiterExact'
  <2>1. \A o \in Teachers \ {u} : \A now : InWindow(o, now)' = InWindow(o, now)
    BY <1>7 DEF InWindow
  <2>2. \A now \in 0..minute : now # minute => InWindow(u, now)' = InWindow(u, now)
    BY <1>4, <1>7, <1>10 DEF InWindow
  <2>3. InWindow(u, minute)' \subseteq Recent(hits[u], minute) \cup {n}
    BY <1>5, <1>7, RecentIsWindow DEF InWindow
  <2>4. Cardinality(InWindow(u, minute)') <= Limit
    <3>1. /\ Cardinality(InWindow(u, minute)') <= Cardinality(Recent(hits[u], minute) \cup {n})
          /\ Cardinality(InWindow(u, minute)') \in Nat
      BY <1>9, <2>3, FS_Subset, FS_CardinalityType
    <3> QED  BY <1>9, <3>1, ZeroInRange
  <2>5. \A o \in Teachers, now \in 0..minute : Cardinality(InWindow(o, now)') <= Limit
    <3> SUFFICES ASSUME NEW o \in Teachers, NEW now \in 0..minute
                 PROVE  Cardinality(InWindow(o, now)') <= Limit
      OBVIOUS
    <3>1. Cardinality(InWindow(o, now)) <= Limit  BY DEF Drafted, LimiterExact
    <3>2. CASE o # u  BY <2>1, <3>1, <3>2
    <3>3. CASE o = u /\ now = minute
      <4>1. InWindow(o, now)' = InWindow(u, minute)'  BY <1>5, <3>3 DEF InWindow
      <4> QED  BY <2>4, <4>1
    <3>4. CASE o = u /\ now # minute  BY <2>2, <3>1, <3>4
    <3> QED  BY <3>2, <3>3, <3>4
  <2>6. ASSUME NEW x \in refused PROVE Cardinality(InWindow(x.user, x.at)') = Limit
    <3>1. /\ x.user \in Teachers /\ x.at \in 0..Midnight /\ x.at <= minute
          /\ Cardinality(InWindow(x.user, x.at)) = Limit
      BY DEF Drafted, DraftShape, LimiterRemembers, LimiterExact
    <3>2. CASE x.user # u  BY <2>1, <3>1, <3>2
    <3>3. CASE x.user = u /\ x.at # minute
      <4>1. x.at \in 0..minute  BY <1>10, <3>1, ZeroInRange
      <4> QED  BY <2>2, <3>1, <3>3, <4>1
    <3>4. CASE x.user = u /\ x.at = minute
      BY <3>1, <3>4, RecentIsWindow, ZeroInRange
    <3> QED  BY <3>2, <3>3, <3>4
  <2> QED  BY <1>5, <2>5, <2>6 DEF LimiterExact
<1> QED  BY <1>5, <1>11, <1>12, <1>13, <1>14 DEF Drafted, AckBehindEverySend

LEMMA MinutePassesStep ==
    ASSUME Drafted, MinutePasses
    PROVE  Drafted'
<1>1. /\ minute \in 0..Midnight /\ minute < Midnight /\ minute' = minute + 1
      /\ UNCHANGED <<hits, orgAck, orgOthers, ackRow, panel, sent, admitted, refused>>
  BY DEF MinutePasses, Drafted, DraftShape
<1>2. minute \in Nat /\ Midnight \in Nat /\ Window \in Nat  BY <1>1, DraftAssumption
<1>3. minute' \in 0..Midnight  BY <1>1, <1>2
<1>4. DraftShape'  BY <1>1, <1>3 DEF Drafted, DraftShape
<1>5. \A u \in Teachers : AckKnown(u, panel[u])'  BY <1>1 DEF Drafted, AckKnown
<1>6. LimiterRemembers'
  <2>1. \A u \in Teachers : \A h \in admitted[u] : h.at \in Nat
    BY ZeroInRange DEF Drafted, DraftShape, Hit
  <2>2. \A x \in refused : x.at \in Nat
    BY ZeroInRange DEF Drafted, DraftShape
  <2>3. \A u \in Teachers : \A h \in admitted[u] :
          h.at <= minute' /\ (h.at > minute' - Window => h \in hits[u])
    BY <1>1, <1>2, <2>1 DEF Drafted, LimiterRemembers
  <2>4. \A x \in refused : x.at <= minute'
    BY <1>1, <1>2, <2>2 DEF Drafted, LimiterRemembers
  <2> QED  BY <1>1, <2>3, <2>4 DEF Drafted, LimiterRemembers
<1>7. LimiterExact'
  <2>1. \A u \in Teachers : \A now : InWindow(u, now)' = InWindow(u, now)
    BY <1>1 DEF InWindow
  <2>2. ASSUME NEW u \in Teachers
        PROVE  Cardinality(InWindow(u, minute')) <= Limit
    <3>1. InWindow(u, minute') \subseteq hits[u]
      BY <1>1, <1>6 DEF InWindow, LimiterRemembers
    <3>2. IsFiniteSet(hits[u])
      BY FS_Subset DEF Drafted, DraftShape, LimiterRemembers
    <3>3. /\ Cardinality(InWindow(u, minute')) <= Cardinality(hits[u])
          /\ Cardinality(InWindow(u, minute')) \in Nat /\ Cardinality(hits[u]) \in Nat
      BY <3>1, <3>2, InWindowFinite, FS_Subset, FS_CardinalityType
    <3> QED  BY <3>3, ZeroInRange DEF Drafted, LimiterRemembers
  <2>3. \A now \in 0..minute' : now \in 0..minute \/ now = minute'  BY <1>1, <1>2
  <2>4. \A u \in Teachers, now \in 0..minute' : Cardinality(InWindow(u, now)) <= Limit
    BY <2>2, <2>3 DEF Drafted, LimiterExact
  <2>5. \A x \in refused : Cardinality(InWindow(x.user, x.at)') = Limit
    BY <2>1 DEF Drafted, DraftShape, LimiterExact
  <2>6. \A u \in Teachers, now \in 0..minute' : Cardinality(InWindow(u, now)') <= Limit
    BY <2>1, <2>4
  <2> QED  BY <1>1, <2>5, <2>6 DEF LimiterExact
<1> QED  BY <1>1, <1>4, <1>5, <1>6, <1>7 DEF Drafted, AckBehindEverySend

LEMMA NextDrafted ==
    ASSUME Drafted, [NextDraft]_draftVars
    PROVE  Drafted'
<1>1. CASE UNCHANGED draftVars
  BY <1>1 DEF draftVars, Drafted, DraftShape, AckKnown, AckBehindEverySend, LimiterRemembers,
              LimiterExact, InWindow
<1>2. ASSUME NEW u \in Teachers, Generate(u) PROVE Drafted'
  BY <1>2, RefusedStep, AdmittedStep
<1>3. ASSUME NEW u \in Teachers, NEW b \in BOOLEAN, EndDraft(u, b) PROVE Drafted'
  BY <1>3, EndDraftStep
<1>4. ASSUME NEW u \in Teachers, Gate(u) \/ SendPrompt(u) \/ ConfirmAndGenerate(u)
                                \/ ReadMetadata(u) \/ MergeAck(u) \/ FailDraft(u)
      PROVE  Drafted'
  BY <1>4, GateStep, SendPromptStep, ConfirmStep, ReadMetadataStep, MergeAckStep, FailDraftStep
<1> QED  BY <1>1, <1>2, <1>3, <1>4, RestartStep, MinutePassesStep DEF NextDraft

LEMMA DraftedSuffices == Drafted => TypeOKDraft /\ AckBehindEverySend /\ LimiterExact
BY DEF Drafted, DraftShape, LimiterRemembers, TypeOKDraft, PanelRow

\* The inductive invariant holds in every state of a behavior.
LEMMA AlwaysDrafted == SpecDraft => []Drafted
BY InitDrafted, NextDrafted, PTL DEF SpecDraft

\* No window of the limiter holds more drafts than the limit, and whoever is turned down has a
\* full window behind him, for every limit and window (rateLimit, rate-limit.ts:27-50).
THEOREM LimiterCountsExactly == SpecDraft => []LimiterExact
BY AlwaysDrafted, DraftedSuffices, PTL

\* Nothing of a pupil went to the provider before the acknowledgement that the metadata shows
\* today, however many teachers confirm at once and however often a draft is tried (report-
\* consent.ts:67-103).
THEOREM SentAfterAck == SpecDraft => []AckBehindEverySend
BY AlwaysDrafted, DraftedSuffices, PTL

-----------------------------------------------------------------------------
(* The parent portal. A load knows, of every child it still goes through,  *)
(* that its link is under consent and the child in the class, or else that *)
(* this changed after the load read it.                                    *)

LinkStates == {"none", "bare", "stamped"}
TabRow == [shows : {"page", "gate"}, stage : {"idle", "stamp", "links", "lessons", "notes"},
           todo : SUBSET Children, moved : SUBSET Children, latched : BOOLEAN]

PortalShape ==
    /\ link \in [Children -> LinkStates]
    /\ attending \subseteq Children
    /\ tab \in [Calls -> TabRow]
    /\ improper = FALSE

\* What a load with local variables j may count on: of the children it still goes through, each that
\* is not under consent (or, once the classes were read, not attending) changed on the way.
LoadKnows(j) ==
    /\ j.stage = "idle" => j.todo = {}
    /\ j.stage = "links" => \A c \in Children : link[c] = "bare" => c \in j.moved
    /\ j.stage \in {"lessons", "notes"} => \A c \in j.todo : link[c] = "stamped" \/ c \in j.moved
    /\ j.stage = "notes" => \A c \in j.todo : c \in attending \/ c \in j.moved

\* The inductive invariant.
PortalKept == PortalShape /\ \A p \in Calls : LoadKnows(tab[p])

LEMMA InitPortalKept == InitPortal => PortalKept
<1> SUFFICES ASSUME InitPortal PROVE PortalKept  OBVIOUS
<1> DEFINE r == [shows |-> "page", stage |-> "idle", todo |-> {}, moved |-> {}, latched |-> FALSE]
<1>1. r \in TabRow /\ r.stage = "idle" /\ r.todo = {}  BY DEF TabRow
<1>2. tab = [p \in Calls |-> r]  BY DEF InitPortal
<1> HIDE DEF r
<1> QED  BY <1>1, <1>2 DEF InitPortal, PortalKept, PortalShape, LinkStates, LoadKnows

\* A tab goes on with r while the school and the links stay.
LEMMA TabStep ==
    ASSUME PortalKept, NEW p \in Calls, NEW r \in TabRow, tab' = [tab EXCEPT ![p] = r],
           UNCHANGED <<link, attending, improper>>, LoadKnows(r)
    PROVE  PortalKept'
<1>1. /\ tab' \in [Calls -> TabRow] /\ tab'[p] = r
      /\ \A q \in Calls \ {p} : tab'[q] = tab[q]
  BY DEF PortalKept, PortalShape
<1> QED  BY <1>1 DEF PortalKept, PortalShape, LoadKnows

LEMMA TabHasShape ==
    ASSUME PortalKept, NEW p \in Calls
    PROVE  tab[p] \in TabRow /\ LoadKnows(tab[p]) /\ Screen \in {"page", "gate"}
BY DEF PortalKept, PortalShape, Screen

LEMMA RenderPortalStep ==
    ASSUME PortalKept, NEW p \in Calls, RenderPortal(p)
    PROVE  PortalKept'
<1> DEFINE r == [tab[p] EXCEPT !.shows = Screen, !.latched = FALSE]
<1>1. r \in TabRow /\ r.stage = "idle" /\ r.todo = {}
  BY TabHasShape DEF TabRow, RenderPortal, TabAt, LoadKnows
<1>2. tab' = [tab EXCEPT ![p] = r]  BY DEF RenderPortal, Put
<1> HIDE DEF r
<1> QED  BY <1>1, <1>2, TabStep DEF RenderPortal, LoadKnows

LEMMA ReloadPageStep ==
    ASSUME PortalKept, NEW p \in Calls, ReloadPage(p)
    PROVE  PortalKept'
<1> DEFINE r == [tab[p] EXCEPT !.shows = Screen, !.latched = FALSE, !.stage = "idle", !.todo = {}]
<1>1. r \in TabRow /\ r.stage = "idle" /\ r.todo = {}  BY TabHasShape DEF TabRow
<1>2. tab' = [tab EXCEPT ![p] = r]  BY DEF ReloadPage, Put
<1> HIDE DEF r
<1> QED  BY <1>1, <1>2, TabStep DEF ReloadPage, LoadKnows

LEMMA GiveConsentStep ==
    ASSUME PortalKept, NEW p \in Calls, GiveConsent(p)
    PROVE  PortalKept'
<1> DEFINE r == [tab[p] EXCEPT !.stage = "stamp", !.latched = TRUE,
                               !.todo = {c \in Linked : link[c] = "bare"}]
<1>1. r \in TabRow /\ r.stage = "stamp"  BY TabHasShape DEF TabRow, Linked
<1>2. tab' = [tab EXCEPT ![p] = r]  BY DEF GiveConsent, Put
<1> HIDE DEF r
<1> QED  BY <1>1, <1>2, TabStep DEF GiveConsent, LoadKnows

LEMMA ConsentedStep ==
    ASSUME PortalKept, NEW p \in Calls, NEW ok \in BOOLEAN, Consented(p, ok)
    PROVE  PortalKept'
<1> DEFINE shown == IF ok THEN Screen ELSE tab[p].shows
           r == [tab[p] EXCEPT !.stage = "idle", !.todo = {}, !.latched = ok, !.shows = shown]
<1>1. shown \in {"page", "gate"}  BY TabHasShape DEF TabRow
<1>2. tab' = [tab EXCEPT ![p] = r]  BY DEF Consented, Put
<1> HIDE DEF shown
<1>3. r \in TabRow /\ r.stage = "idle" /\ r.todo = {}  BY <1>1, TabHasShape DEF TabRow
<1> HIDE DEF r
<1> QED  BY <1>2, <1>3, TabStep DEF Consented, LoadKnows

\* A stamp only ever turns a link into one under consent.
LEMMA StampLinkStep ==
    ASSUME PortalKept, NEW p \in Calls, NEW c \in Children, StampLink(p, c)
    PROVE  PortalKept'
<1>1. PICK r \in TabRow : r.stage = "stamp" /\ tab' = [tab EXCEPT ![p] = r]
  <2> DEFINE j == [tab[p] EXCEPT !.todo = @ \ {c}]
  <2>1. j \in TabRow /\ j.stage = "stamp"  BY TabHasShape DEF TabRow, StampLink, TabAt
  <2>2. tab' = [tab EXCEPT ![p] = j]  BY DEF StampLink, Put
  <2> QED  BY <2>1, <2>2
<1>3. /\ tab' \in [Calls -> TabRow] /\ tab'[p] = r
      /\ \A q \in Calls \ {p} : tab'[q] = tab[q]
  BY <1>1 DEF PortalKept, PortalShape
<1>4. /\ link' \in [Children -> LinkStates]
      /\ \A k \in Children : /\ link'[k] = "bare" => link[k] = "bare"
                             /\ link[k] = "stamped" => link'[k] = "stamped"
  BY DEF StampLink, PortalKept, PortalShape, LinkStates
<1>5. LoadKnows(tab[p])'  BY <1>1, <1>3 DEF LoadKnows
<1>6. ASSUME NEW q \in Calls, q # p PROVE LoadKnows(tab[q])'
  <2>1. tab'[q] = tab[q] /\ tab[q] \in TabRow /\ LoadKnows(tab[q])
    BY <1>3, <1>6, TabHasShape
  <2>2. tab[q].todo \subseteq Children  BY <2>1 DEF TabRow
  <2> QED  BY <1>4, <2>1, <2>2 DEF LoadKnows, StampLink
<1>7. ASSUME NEW q \in Calls PROVE LoadKnows(tab[q])'
  BY <1>5, <1>6
<1> QED  BY <1>3, <1>4, <1>7 DEF PortalKept, PortalShape, StampLink

LEMMA RequireConsentStep ==
    ASSUME PortalKept, NEW p \in Calls, RequireConsent(p)
    PROVE  PortalKept'
<1> DEFINE r == [tab[p] EXCEPT !.stage = "links", !.moved = {}]
<1>1. r \in TabRow /\ r.stage = "links"  BY TabHasShape DEF TabRow
<1>2. tab' = [tab EXCEPT ![p] = r]  BY DEF RequireConsent, Put
<1> HIDE DEF r
<1>3. \A c \in Children : link[c] # "bare"  BY DEF RequireConsent, NeedsConsent, Linked
<1> QED  BY <1>1, <1>2, <1>3, TabStep DEF RequireConsent, LoadKnows

\* A load goes on to the stage `st` with what it found, or ends there.
LEMMA GoOnStep ==
    ASSUME PortalKept, NEW p \in Calls, NEW st \in {"lessons", "notes"}, NEW found \in SUBSET Children,
           GoOnWith(p, st, found),
           \A c \in found : link[c] = "stamped" \/ c \in tab[p].moved,
           st = "notes" => \A c \in found : c \in attending \/ c \in tab[p].moved
    PROVE  PortalKept'
<1>1. CASE found = {}
  <2> DEFINE r == [tab[p] EXCEPT !.stage = "idle", !.todo = {}, !.moved = {}]
  <2>1. r \in TabRow /\ r.stage = "idle" /\ r.todo = {}  BY TabHasShape DEF TabRow
  <2>2. tab' = [tab EXCEPT ![p] = r]  BY <1>1 DEF GoOnWith, Put
  <2> HIDE DEF r
  <2> QED  BY <2>1, <2>2, TabStep DEF GoOnWith, LoadKnows
<1>2. CASE found # {}
  <2> DEFINE r == [tab[p] EXCEPT !.stage = st, !.todo = found, !.moved = @ \cap found]
  <2>1. r \in TabRow /\ r.stage = st /\ r.todo = found /\ r.moved = tab[p].moved \cap found
    BY TabHasShape DEF TabRow
  <2>2. tab' = [tab EXCEPT ![p] = r]  BY <1>2 DEF GoOnWith, Put
  <2> HIDE DEF r
  <2>3. LoadKnows(r)  BY <2>1 DEF LoadKnows
  <2> QED  BY <2>1, <2>2, <2>3, TabStep DEF GoOnWith
<1> QED  BY <1>1, <1>2

LEMMA ReadLinksStep ==
    ASSUME PortalKept, NEW p \in Calls, ReadLinks(p)
    PROVE  PortalKept'
<1>1. Linked \in SUBSET Children  BY DEF Linked
<1>2. \A c \in Linked : link[c] = "stamped" \/ c \in tab[p].moved
  BY TabHasShape DEF Linked, ReadLinks, TabAt, LoadKnows, PortalKept, PortalShape, LinkStates
<1> QED  BY <1>1, <1>2, GoOnStep DEF ReadLinks

LEMMA ReadTimetableStep ==
    ASSUME PortalKept, NEW p \in Calls, ReadTimetable(p)
    PROVE  PortalKept'
<1>1. tab[p].todo \cap attending \in SUBSET Children  BY DEF PortalKept, PortalShape
<1>2. \A c \in tab[p].todo : link[c] = "stamped" \/ c \in tab[p].moved
  BY TabHasShape DEF ReadTimetable, TabAt, LoadKnows
<1> QED  BY <1>1, <1>2, GoOnStep DEF ReadTimetable

\* A load ends, and what it served was allowed or had changed on the way.
LEMMA ServeStep ==
    ASSUME PortalKept, NEW p \in Calls, NEW served, NEW allowed, Serve(p, served, allowed),
           served \subseteq allowed \cup tab[p].moved
    PROVE  PortalKept'
<1> DEFINE r == [tab[p] EXCEPT !.stage = "idle", !.todo = {}, !.moved = {}]
<1>1. r \in TabRow /\ r.stage = "idle" /\ r.todo = {}  BY TabHasShape DEF TabRow
<1>2. tab' = [tab EXCEPT ![p] = r]  BY DEF Serve, Put
<1> HIDE DEF r
<1>3. improper' = improper  BY DEF Serve, PortalKept, PortalShape
<1> QED  BY <1>1, <1>2, <1>3, TabStep DEF Serve, LoadKnows

LEMMA ReadNotesStep ==
    ASSUME PortalKept, NEW p \in Calls, ReadNotes(p)
    PROVE  PortalKept'
<1>1. PICK shared \in SUBSET tab[p].todo : Serve(p, shared, UnderConsent \cap attending)
  BY DEF ReadNotes
<1>2. tab[p] \in TabRow /\ LoadKnows(tab[p]) /\ tab[p].stage = "notes"
  BY TabHasShape DEF ReadNotes, TabAt
<1>3. tab[p].todo \subseteq Children  BY <1>2 DEF TabRow
<1>4. tab[p].todo \subseteq (UnderConsent \cap attending) \cup tab[p].moved
  BY <1>2, <1>3 DEF LoadKnows, UnderConsent
<1>5. shared \subseteq (UnderConsent \cap attending) \cup tab[p].moved  BY <1>4
<1> QED  BY <1>1, <1>5, ServeStep

LEMMA ReadReportsStep ==
    ASSUME PortalKept, NEW p \in Calls, ReadReports(p) \/ ReadCards(p)
    PROVE  PortalKept'
<1>1. PICK served \in SUBSET tab[p].todo : Serve(p, served, UnderConsent)
  BY DEF ReadReports, ReadCards
<1>2. tab[p] \in TabRow /\ LoadKnows(tab[p]) /\ tab[p].stage = "lessons"
  BY TabHasShape DEF ReadReports, ReadCards, TabAt
<1>3. tab[p].todo \subseteq Children  BY <1>2 DEF TabRow
<1>4. tab[p].todo \subseteq UnderConsent \cup tab[p].moved
  BY <1>2, <1>3 DEF LoadKnows, UnderConsent
<1>5. served \subseteq UnderConsent \cup tab[p].moved  BY <1>4
<1> QED  BY <1>1, <1>5, ServeStep

\* The school changes c: every load that may still serve something of c takes note.
LEMMA StirStep ==
    ASSUME PortalKept, NEW c \in Children, Stir(c), improper' = improper,
           link' \in [Children -> LinkStates], \A k \in Children \ {c} : link'[k] = link[k],
           attending' \subseteq Children,
           \A k \in Children \ {c} : k \in attending <=> k \in attending'
    PROVE  PortalKept'
<1>1. \A j \in TabRow : LET r == [j EXCEPT !.moved = @ \cup {c}] IN
        /\ r \in TabRow /\ r.stage = j.stage /\ r.todo = j.todo /\ r.moved = j.moved \cup {c}
  BY DEF TabRow
<1>2. ASSUME NEW p \in Calls PROVE tab'[p] \in TabRow /\ LoadKnows(tab[p])'
  <2>1. tab[p] \in TabRow /\ LoadKnows(tab[p])  BY TabHasShape
  <2>2. tab[p].todo \subseteq Children  BY <2>1 DEF TabRow
  <2>3. CASE Awaits(p, c)
    <3>1. /\ tab'[p] \in TabRow /\ tab'[p].stage = tab[p].stage /\ tab'[p].todo = tab[p].todo
          /\ tab'[p].moved = tab[p].moved \cup {c}
      BY <1>1, <2>1, <2>3 DEF Stir
    <3> QED  BY <2>1, <2>2, <3>1 DEF LoadKnows
  <2>4. CASE ~Awaits(p, c)
    <3>1. tab'[p] = tab[p]  BY <2>4 DEF Stir
    <3>2. /\ tab[p].stage # "links"
          /\ tab[p].stage \in {"lessons", "notes"} => c \notin tab[p].todo
      BY <2>4 DEF Awaits, TabAt
    <3> QED  BY <2>1, <2>2, <3>1, <3>2 DEF LoadKnows
  <2> QED  BY <2>3, <2>4
<1>3. tab' \in [Calls -> TabRow]  BY <1>2 DEF Stir
<1> QED  BY <1>2, <1>3 DEF PortalKept, PortalShape

LEMMA SchoolStep ==
    ASSUME PortalKept, NEW c \in Children, LinkChild(c) \/ UnlinkChild(c) \/ ChangeAttendance(c)
    PROVE  PortalKept'
<1>1. CASE LinkChild(c)
  <2>1. link' \in [Children -> LinkStates] /\ \A k \in Children \ {c} : link'[k] = link[k]
    BY <1>1 DEF LinkChild, PortalKept, PortalShape, LinkStates
  <2> QED  BY <1>1, <2>1, StirStep DEF LinkChild, PortalKept, PortalShape
<1>2. CASE UnlinkChild(c)
  <2>1. link' \in [Children -> LinkStates] /\ \A k \in Children \ {c} : link'[k] = link[k]
    BY <1>2 DEF UnlinkChild, PortalKept, PortalShape, LinkStates
  <2> QED  BY <1>2, <2>1, StirStep DEF UnlinkChild, PortalKept, PortalShape
<1>3. CASE ChangeAttendance(c)
  <2>1. /\ attending' \subseteq Children
        /\ \A k \in Children \ {c} : k \in attending <=> k \in attending'
    BY <1>3 DEF ChangeAttendance, PortalKept, PortalShape
  <2> QED  BY <1>3, <2>1, StirStep DEF ChangeAttendance, PortalKept, PortalShape
<1> QED  BY <1>1, <1>2, <1>3

LEMMA NextPortalKept ==
    ASSUME PortalKept, [NextPortal]_portalVars
    PROVE  PortalKept'
<1>1. CASE UNCHANGED portalVars
  BY <1>1 DEF portalVars, PortalKept, PortalShape, LoadKnows
<1>2. ASSUME NEW p \in Calls, RenderPortal(p) \/ ReloadPage(p) \/ GiveConsent(p) \/ RequireConsent(p)
      PROVE  PortalKept'
  BY <1>2, RenderPortalStep, ReloadPageStep, GiveConsentStep, RequireConsentStep
<1>3. ASSUME NEW p \in Calls, ReadLinks(p) \/ ReadTimetable(p) \/ ReadNotes(p) \/ ReadReports(p)
                                \/ ReadCards(p)
      PROVE  PortalKept'
  BY <1>3, ReadLinksStep, ReadTimetableStep, ReadNotesStep, ReadReportsStep
<1>4. ASSUME NEW p \in Calls, NEW c \in Children, StampLink(p, c) PROVE PortalKept'
  BY <1>4, StampLinkStep
<1>5. ASSUME NEW p \in Calls, NEW b \in BOOLEAN, Consented(p, b) PROVE PortalKept'
  BY <1>5, ConsentedStep
<1>6. ASSUME NEW c \in Children, LinkChild(c) \/ UnlinkChild(c) \/ ChangeAttendance(c)
      PROVE  PortalKept'
  BY <1>6, SchoolStep
<1> QED  BY <1>1, <1>2, <1>3, <1>4, <1>5, <1>6 DEF NextPortal

LEMMA PortalKeptSuffices == PortalKept => TypeOKPortal /\ ServedUnderConsent
BY DEF PortalKept, PortalShape, LinkStates, TypeOKPortal, TabRow, TabAt, LoadKnows, ServedUnderConsent

\* The inductive invariant holds in every state of a behavior.
LEMMA AlwaysPortalKept == SpecPortal => []PortalKept
BY InitPortalKept, NextPortalKept, PTL DEF SpecPortal

\* A parent sees of a child only what a link under consent stands for, also when children are
\* linked, moved and unlinked while pages load (auth/portal.ts:34-62, portal/notes/data.ts:21-60).
THEOREM ParentsServedUnderConsent == SpecPortal => []ServedUnderConsent
BY AlwaysPortalKept, PortalKeptSuffices, PTL
=============================================================================
