----------------------------- MODULE Reminders -----------------------------
(***************************************************************************)
(* The reminder cron and the notification centre of one school.  A scan    *)
(* reads the lessons of two windows ahead, writes one row per recipient    *)
(* under a dedupe key, pushes to whoever got a new row, and prunes old     *)
(* rows; scans may overlap, fail at any statement and be run again, while  *)
(* the lesson moves and people mark what they have read.                   *)
(***************************************************************************)
EXTENDS Statements, Integers, FiniteSets

CONSTANTS
    LessonTeacher,      \* the lesson's teacher, or Nothing
    Guardians,          \* portal users of the section's students
    LastHour,           \* bound: the clock runs over 0..LastHour
    StartHours,         \* the hours the lesson may start at
    DayAhead, HourAhead,\* the two offsets, in hours of the model
    Retention           \* age from which a row is pruned

VARIABLES
    hour,       \* the clock
    notices,    \* notification rows
    pushes,     \* pushes[k]: pushes sent for the reminder with dedupe key k
    scan        \* scan[c]: the run of the cron in call c

reminderVars == <<hour, notices, pushes, scan>>

People  == Guardians \cup ({LessonTeacher} \ {Nothing})
Offsets == {"24h", "1h"}
Minutes(o) == IF o = "24h" THEN DayAhead ELSE HourAhead
Keys    == [offset : Offsets, start : StartHours, user : People]
NoScan  == [stage |-> "idle"]

\* The key of a reminder: the lesson's start is in it, so that a moved lesson is reminded of anew.
KeyWithoutStart(o, s, u) == [offset |-> o, start |-> CHOOSE h \in StartHours : TRUE, user |-> u]
KeyOf(o, s, u) == [offset |-> o, start |-> s, user |-> u]

Taken(k) == \E n \in notices : n.key = k
OwnRows(u) == {n \in notices : n.key.user = u}

\* A row outlives the longest lead: it is as old as that, or older, when it is pruned.
ASSUME ReminderAssumption == /\ LastHour \in Nat /\ StartHours \subseteq Nat /\ Retention \in Nat
                             /\ DayAhead \in 0..Retention + 1 /\ HourAhead \in 0..Retention + 1
                             /\ Nothing \notin StartHours

InitReminders == /\ hour = 0
                 /\ notices = {}
                 /\ pushes = [k \in Keys |-> 0]
                 /\ scan = [c \in Calls |-> NoScan]

-----------------------------------------------------------------------------
(* POST /api/cron/reminders, for one school *)
Continue(c, s) == scan' = [scan EXCEPT ![c] = s]

StartScan(c) ==
    /\ scan[c].stage = "idle"
    /\ Continue(c, [stage |-> "lessons", offset |-> "24h", start |-> Nothing,
                    todo |-> {}, user |-> Nothing, seen |-> {}])
    /\ UNCHANGED <<hour, notices, pushes>>

\* The scheduled lessons in (now, now + offset].  The lesson moves and is canceled at other desks:
\* it stands at any start hour, or nowhere, when it is read.
ReadLessons(c) ==
    LET s == scan[c]
        Due(h) == hour < h /\ h <= hour + Minutes(s.offset)
    IN  /\ s.stage = "lessons"
        /\ \/ \E h \in StartHours :
                 Due(h) /\ Continue(c, [s EXCEPT !.stage = "recipients", !.start = h])
           \/ Continue(c, [s EXCEPT !.stage = "loop"])
        /\ UNCHANGED <<hour, notices, pushes>>

\* resolveLessonRecipientsBatchCore: the teacher, and whoever is linked to an active student by now.
\* `seen` is history: who is due a reminder of this lesson at this offset.
ReadRecipients(c) ==
    /\ scan[c].stage = "recipients"
    /\ \E g \in SUBSET Guardians :
          LET who == g \cup ({LessonTeacher} \ {Nothing}) IN
          Continue(c, [scan[c] EXCEPT !.stage = "loop", !.todo = who,
                          !.seen = who])
    /\ UNCHANGED <<hour, notices, pushes>>

\* createNotificationCore looks the key up first ...
CheckKey(c, u) ==
    LET s == scan[c] IN
    /\ s.stage = "loop"
    /\ u \in s.todo
    /\ Continue(c, IF Taken(KeyOf(s.offset, s.start, u))
                   THEN [s EXCEPT !.todo = @ \ {u}]
                   ELSE [s EXCEPT !.stage = "insert", !.user = u])
    /\ UNCHANGED <<hour, notices, pushes>>

\* ... and inserts; a key taken meanwhile is a 23505, and no row is returned.
InsertNotice(c) ==
    LET s == scan[c]
        k == KeyOf(s.offset, s.start, s.user)
        rest == [s EXCEPT !.todo = @ \ {s.user}, !.stage = "loop", !.user = Nothing]
    IN  /\ s.stage = "insert"
        /\ IF Taken(k)
           THEN Continue(c, rest) /\ UNCHANGED notices
           ELSE /\ notices' = notices \cup {[key |-> k, about |-> s.start, at |-> hour,
                                             read |-> FALSE]}
                /\ Continue(c, [rest EXCEPT !.stage = "push", !.user = s.user])
        /\ UNCHANGED <<hour, pushes>>

\* sendPushToUserCore, best effort: whether it reaches a device is not looked at.
PushReminder(c) ==
    LET s == scan[c] IN
    /\ s.stage = "push"
    /\ pushes' = [pushes EXCEPT ![KeyOf(s.offset, s.start, s.user)] = @ + 1]
    /\ Continue(c, [s EXCEPT !.stage = "loop", !.user = Nothing])
    /\ UNCHANGED <<hour, notices>>

NextOffset(c) ==
    LET s == scan[c] IN
    /\ s.stage = "loop"
    /\ s.todo = {}
    /\ Continue(c, IF s.offset = "24h"
                   THEN [s EXCEPT !.stage = "lessons", !.offset = "1h", !.start = Nothing,
                                  !.seen = {}]
                   ELSE [s EXCEPT !.stage = "prune"])
    /\ UNCHANGED <<hour, notices, pushes>>

\* pruneOldNotificationsCore; a bug would take what has been read for what is old.
PruneRead(now) == {n \in notices : n.read}
PruneOld(now) == {n \in notices : n.at < now - Retention}

PruneNotices(c) ==
    /\ scan[c].stage = "prune"
    /\ notices' = notices \ PruneOld(hour)
    /\ Continue(c, [scan[c] EXCEPT !.stage = "done"])
    /\ UNCHANGED <<hour, pushes>>

\* The answer to the scheduler: a success, or a statement that threw, or a process that died.
EndScan(c) ==
    /\ scan[c].stage # "idle"
    /\ Continue(c, NoScan)
    /\ UNCHANGED <<hour, notices, pushes>>

-----------------------------------------------------------------------------
(* The notification pages of the staff and of the portal *)
MarkAsRead(ns) == (notices \ ns) \cup {[n EXCEPT !.read = TRUE] : n \in ns}

\* A page lists rows of its user as of the last refresh: any of them may be marked, and a row that
\* was pruned since is an error.
MarkOneRead(u) ==
    /\ \E n \in OwnRows(u) : ~n.read /\ notices' = MarkAsRead({n})
    /\ UNCHANGED <<hour, pushes, scan>>

\* One statement marks every unread row of the user, listed or not.
MarkAllRead(u) ==
    /\ \E n \in OwnRows(u) : ~n.read
    /\ notices' = MarkAsRead(OwnRows(u))
    /\ UNCHANGED <<hour, pushes, scan>>

-----------------------------------------------------------------------------
\* A run takes seconds: the hour does not change under it.
HourPasses == /\ hour < LastHour
              /\ \A c \in Calls : scan[c] = NoScan
              /\ hour' = hour + 1
              /\ UNCHANGED <<notices, pushes, scan>>

NextReminders ==
    \/ \E c \in Calls : \/ StartScan(c) \/ ReadLessons(c) \/ ReadRecipients(c)
                        \/ \E u \in People : CheckKey(c, u)
                        \/ InsertNotice(c) \/ PushReminder(c)
                        \/ NextOffset(c) \/ PruneNotices(c) \/ EndScan(c)
    \/ \E u \in People : MarkOneRead(u) \/ MarkAllRead(u)
    \/ HourPasses

SpecReminders == InitReminders /\ [][NextReminders]_reminderVars

-----------------------------------------------------------------------------
TypeOKReminders ==
    /\ hour \in 0..LastHour
    /\ notices \subseteq [key : Keys, about : StartHours, at : 0..LastHour, read : BOOLEAN]
    /\ pushes \in [Keys -> Nat]
    /\ \A c \in Calls : scan[c].stage \in {"idle", "lessons", "recipients", "loop", "insert",
                                           "push", "prune", "done"}

\* Nobody is pushed the same reminder twice: not by two scans at once, not by a scan run again
\* after one that failed, and not because the row that carries the dedupe key was pruned
\* (reminder-core.ts:58-75, notification-core.ts:34-87).
PushedAtMostOnce == \A k \in Keys : pushes[k] <= 1

\* A scan that has gone through the lesson it found has left every recipient a row about the very
\* time it found, also when the lesson had been announced for another time before, and when a
\* second scan was writing or pruning the same rows (reminder-core.ts:35-77).
ScanReachesEveryone ==
    \A c \in Calls :
        LET s == scan[c] IN
        s.stage \in {"loop", "prune", "done"} =>
            \A u \in s.seen \ s.todo :
                \E n \in notices : n.key.offset = s.offset /\ n.about = s.start /\ n.key.user = u
=============================================================================
