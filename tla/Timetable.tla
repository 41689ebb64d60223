----------------------------- MODULE Timetable -----------------------------
(***************************************************************************)
(* Making a section and filling its timetable.  The form makes the section *)
(* in one server action (the section, its meetings one by one, the link of *)
(* its teacher) and its lessons in a second one; later, lessons are added  *)
(* by a recurrence.  Both expand a rule to days and insert them in bulk,   *)
(* skipping days the section already has a lesson for; when one day        *)
(* collides with another lesson of the teacher, the days are inserted one  *)
(* by one and those that collide are counted.  Nothing is in a             *)
(* transaction, and a form that failed can be submitted again.             *)
(***************************************************************************)
EXTENDS Statements, Naturals, FiniteSetsExt

CONSTANTS
    LastDay, WeekLength, MonthLength,   \* the calendar: days 1..LastDay
    Gaps,       \* days on which the clock jumps over the hour of the lesson
    MaxStrays,  \* bound on sections given up halfway
    MaxTaken    \* bound on lessons booked elsewhere

VARIABLES
    plan,       \* the meetings and the term asked for in the form
    section,    \* the section of the form: its rows, and what was reported
    strays,     \* sections of earlier submissions that failed
    lessons,    \* lessons[o]: the lesson of the section whose recurrence id is day o
    taken,      \* days on which the teacher has another lesson
    batch       \* batch[p]: the days call p is inserting

timetableVars == <<plan, section, strays, lessons, taken, batch>>

ASSUME TimetableAssumption == /\ LastDay \in Nat \ {0} /\ WeekLength \in Nat /\ MonthLength \in Nat
                              /\ MaxStrays \in Nat

Days     == 1..LastDay
Weekdays == 0..(WeekLength - 1)
Weekday(d) == (d - 1) % WeekLength
Week(d)    == (d - 1) \div WeekLength
DayOfMonth(d) == (d - 1) % MonthLength

\* buildWeeklyRrule, buildRecurrenceRule and expandRecurrence: the days of the window on which the
\* rule has an occurrence, counted from the day the window starts.  A wall-clock time that the
\* clock jumps over is no occurrence.
Follows(freq, byDays, from, d) ==
    CASE freq = "DAILY"    -> TRUE
      [] freq = "WEEKLY"   -> Weekday(d) \in byDays
      [] freq = "BIWEEKLY" -> Weekday(d) \in byDays /\ (Week(d) - Week(from)) % 2 = 0
      [] freq = "MONTHLY"  -> DayOfMonth(d) = DayOfMonth(from)
Expand(freq, byDays, from, to) == {d \in from..to : Follows(freq, byDays, from, d)} \ Gaps

Freqs  == {"DAILY", "WEEKLY", "BIWEEKLY", "MONTHLY"}
Stages == {"new", "meetings", "link", "made", "filling", "ready", "failed"}
NoSection == [stage |-> "new", meetings |-> {}, linked |-> FALSE, archived |-> FALSE]
NoBatch   == [stage |-> "idle", rows |-> {}, left |-> {}, conflicts |-> {}]
Starts    == {lessons[o].start : o \in {i \in DOMAIN lessons : lessons[i].live}}
Busy      == taken \cup Starts

\* A section is materialized by the form that made it; the other calls add lessons.
Form == CHOOSE p \in Calls : TRUE

InitTimetable ==
    /\ \E days \in (SUBSET Weekdays) \ {{}} : plan = [meetings |-> days, to |-> LastDay]
    /\ section = NoSection
    /\ strays = 0
    /\ lessons = << >>
    /\ taken = {}
    /\ batch = [p \in Calls |-> NoBatch]

At(stage) == section.stage = stage
Step(stage) == section' = [section EXCEPT !.stage = stage]

-----------------------------------------------------------------------------
\* createSection: the class_section row; the plan passed the schema.
InsertSection == /\ At("new")
                 /\ Step("meetings")
                 /\ UNCHANGED <<plan, strays, lessons, taken, batch>>

\* replaceMeetings on a section that has none yet, then the link of the teacher.
InsertMeeting == /\ At("meetings")
                 /\ LET next == Min(plan.meetings \ section.meetings)
                        all  == section.meetings \cup {next}
                    IN  section' = [section EXCEPT !.meetings = all,
                                        !.stage = IF all = plan.meetings THEN "link" ELSE @]
                 /\ UNCHANGED <<plan, strays, lessons, taken, batch>>

LinkTeacher == /\ At("link")
               /\ section' = [section EXCEPT !.stage = "made", !.linked = TRUE]
               /\ UNCHANGED <<plan, strays, lessons, taken, batch>>

\* A week whose lesson was moved away from its recurrence id gets no second one.
MovedWeeks == {Week(o) : o \in {i \in DOMAIN lessons : lessons[i].start # i}}

\* materializeSection expands the stored meetings over the stored term: its reads, taken as one.
\* An expansion beyond MAX_OCCURRENCES throws before the first write, which is BreakForm here.
Materialize ==
    /\ At("made")
    /\ LET rows == {d \in Expand("WEEKLY", section.meetings, 1, plan.to) :
                        Week(d) \notin MovedWeeks}
       IN  batch' = [batch EXCEPT ![Form] = [NoBatch EXCEPT !.stage = "bulk", !.rows = rows,
                                                            !.left = rows]]
    /\ Step("filling")
    /\ UNCHANGED <<plan, strays, lessons, taken>>

\* The windows and rules of the form in the lesson list; only these rules name days of the week.
Rules == {r \in [freq : Freqs, byDays : SUBSET Weekdays, from : Days, to : Days] :
              r.from <= r.to /\ (r.freq \in {"DAILY", "MONTHLY"} <=> r.byDays = {})}
Asked == {Expand(r.freq, r.byDays, r.from, r.to) : r \in Rules} \ {{}}

\* addSessionsCore; a rule without a day, or with too many of them, adds nothing.
AddSessions(p) ==
    /\ p # Form
    /\ batch[p].stage = "idle"
    /\ section.stage \in {"made", "filling", "ready"}
    /\ \E rows \in Asked :
          batch' = [batch EXCEPT ![p] = [NoBatch EXCEPT !.stage = "bulk", !.rows = rows,
                                                        !.left = rows]]
    /\ UNCHANGED <<plan, section, strays, lessons, taken>>

WithLessons(rows) ==
    [o \in DOMAIN lessons \cup rows |->
        IF o \in DOMAIN lessons THEN lessons[o] ELSE [start |-> o, live |-> TRUE]]

\* One INSERT .. ON CONFLICT DO NOTHING for all the days; 23P01 undoes all of it.
InsertBulk(p) ==
    LET fresh == batch[p].rows \ DOMAIN lessons
    IN  /\ batch[p].stage = "bulk"
        /\ IF fresh \cap Busy = {}
           THEN /\ lessons' = WithLessons(fresh)
                /\ batch' = [batch EXCEPT ![p] = [@ EXCEPT !.stage = "done", !.left = {}]]
           ELSE /\ batch' = [batch EXCEPT ![p].stage = "rows"]
                /\ UNCHANGED lessons
        /\ UNCHANGED <<plan, section, strays, taken>>

LoopEndsEarly(left, collided) == left = {} \/ collided
LoopEnds(left, collided)      == left = {}

\* The fallback, one day at a time: there already, colliding, or inserted.
InsertOneRow(p) ==
    /\ batch[p].stage = "rows"
    /\ LET b        == batch[p]
           d        == Min(b.left)
           left     == b.left \ {d}
           collides == d \notin DOMAIN lessons /\ d \in Busy
       IN  /\ lessons' = IF collides THEN lessons ELSE WithLessons({d})
           /\ batch' = [batch EXCEPT ![p] =
                           [b EXCEPT !.left = left,
                                     !.conflicts = IF collides THEN @ \cup {d} ELSE @,
                                     !.stage = IF LoopEnds(left, collides) THEN "done" ELSE @]]
    /\ UNCHANGED <<plan, section, strays, taken>>

\* The counts are shown; the form reports its section as made.
ReportBatch(p) ==
    /\ batch[p].stage = "done"
    /\ batch' = [batch EXCEPT ![p] = NoBatch]
    /\ IF p = Form THEN Step("ready") ELSE UNCHANGED section
    /\ UNCHANGED <<plan, strays, lessons, taken>>

\* A statement fails or the server dies.  The form shows an error and stays open.
BreakForm ==
    /\ section.stage \in {"meetings", "link", "made", "filling"}
    /\ Step("failed")
    /\ batch' = [batch EXCEPT ![Form] = NoBatch]
    /\ UNCHANGED <<plan, strays, lessons, taken>>

BreakBatch(p) ==
    /\ p # Form
    /\ batch[p].stage # "idle"
    /\ batch' = [batch EXCEPT ![p] = NoBatch]
    /\ UNCHANGED <<plan, section, strays, lessons, taken>>

\* Submitting again makes another section; the lessons of the first one keep the teacher busy.
SubmitAgain ==
    /\ At("failed")
    /\ strays < MaxStrays
    /\ \A p \in Calls : batch[p].stage = "idle"
    /\ strays' = strays + 1
    /\ section' = NoSection
    /\ taken' = Busy
    /\ lessons' = << >>
    /\ UNCHANGED <<plan, batch>>

\* updateSection changes the term and never the lessons.  Once they are made, the term only
\* narrows what the pages list; archiving hides the section and changes nothing else.
UpdateSection(to) ==
    /\ At("made")
    /\ to \in Days \ {plan.to}
    /\ plan' = [plan EXCEPT !.to = to]
    /\ UNCHANGED <<section, strays, lessons, taken, batch>>

Archive(on) ==
    /\ section.stage = "ready"
    /\ section.archived # on
    /\ section' = [section EXCEPT !.archived = on]
    /\ UNCHANGED <<plan, strays, lessons, taken, batch>>

\* Other desks: a lesson is moved, canceled, or booked in another section of the teacher.
MoveLesson(o, d) ==
    /\ o \in DOMAIN lessons
    /\ lessons[o].live
    /\ d \notin Busy
    /\ lessons' = [lessons EXCEPT ![o].start = d]
    /\ UNCHANGED <<plan, section, strays, taken, batch>>

CancelLesson(o) ==
    /\ o \in DOMAIN lessons
    /\ lessons[o].live
    /\ lessons' = [lessons EXCEPT ![o].live = FALSE]
    /\ UNCHANGED <<plan, section, strays, taken, batch>>

BookElsewhere(d) ==
    /\ d \notin Busy
    /\ Cardinality(taken) < MaxTaken
    /\ taken' = taken \cup {d}
    /\ UNCHANGED <<plan, section, strays, lessons, batch>>

NextTimetable ==
    \/ InsertSection \/ InsertMeeting \/ LinkTeacher \/ Materialize \/ BreakForm \/ SubmitAgain
    \/ \E p \in Calls : \/ InsertBulk(p) \/ InsertOneRow(p) \/ ReportBatch(p) \/ BreakBatch(p)
                        \/ AddSessions(p)
    \/ \E d \in Days : \/ CancelLesson(d) \/ BookElsewhere(d) \/ UpdateSection(d)
                       \/ \E o \in Days : MoveLesson(o, d)
    \/ \E on \in BOOLEAN : Archive(on)

SpecTimetable == InitTimetable /\ [][NextTimetable]_timetableVars

-----------------------------------------------------------------------------
TypeOKTimetable ==
    /\ plan.meetings \subseteq Weekdays /\ plan.to \in Days
    /\ section.stage \in Stages /\ section.meetings \subseteq plan.meetings
    /\ strays \in 0..MaxStrays
    /\ DOMAIN lessons \subseteq Days /\ \A o \in DOMAIN lessons : lessons[o].start \in Days
    /\ taken \subseteq Days
    /\ \A p \in Calls : batch[p].left \subseteq batch[p].rows /\ batch[p].rows \subseteq Days

\* When a batch reports its counts, every day of the rule has a lesson row of the section or was
\* counted as a conflict: no day is dropped by the fallback, by a lesson booked between the bulk
\* insert and its row, or by a second batch over the same days (lesson-insert.ts:30).
EveryDayAccounted ==
    \A p \in Calls : batch[p].stage = "done" =>
        batch[p].rows \subseteq DOMAIN lessons \cup batch[p].conflicts
=============================================================================
