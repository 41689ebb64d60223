----------------------------- MODULE LessonList -----------------------------
(***************************************************************************)
(* The lesson list of a section's workspace: one reschedule form that      *)
(* moves from row to row, a selection for bulk deletion behind a two-step  *)
(* button, and a form that adds lessons.  Its buttons wait for one call at *)
(* a time, but the rows, the checkboxes and the texts stay usable while it *)
(* runs, and the page behind them is as old as its last refresh.           *)
(***************************************************************************)
EXTENDS Statements, FiniteSets

CONSTANTS
    Rows,       \* lessons of the section
    Early, Late \* two times a lesson may be moved to; the clock passes Early once

VARIABLES
    book,       \* book[l]: the stored time, or Nothing when canceled or not yet added
    clock,      \* "before" or "after" Early
    rendered,   \* the rows of the page: their times, and which of them are past
    moving,     \* the open reschedule form: its row and its times
    chosen,     \* select mode, the checked rows, and whether the delete button is armed
    call        \* the call in flight, or Nothing

listVars == <<book, clock, rendered, moving, chosen, call>>

Times    == {Early, Late}
IsPast(t) == t = Early /\ clock = "after"
Alive    == {l \in Rows : book[l] # Nothing}
Idle     == call = Nothing
NotMoving == [row |-> Nothing, time |-> Nothing, for |-> Nothing]
NoneChosen == [on |-> FALSE, rows |-> {}, armed |-> FALSE]

ASSUME ListAssumption == Nothing \notin Rows

\* getSectionLessons: the lessons that are not canceled; isPast is computed by the server.
Page == [time |-> book, past |-> {l \in Alive : IsPast(book[l])}]
OnPage == {l \in Rows : rendered.time[l] # Nothing}

InitList == /\ book \in [Rows -> {Early, Nothing}]
            /\ clock = "before"
            /\ rendered = Page
            /\ moving = NotMoving
            /\ chosen = NoneChosen
            /\ call = Nothing

-----------------------------------------------------------------------------
BeginEditKeepingTimes(l) == moving' = [moving EXCEPT !.row = l]

\* beginEdit seeds the times with those the page shows; `for` is history: whose times these are.
BeginEdit(l) == moving' = [row |-> l, time |-> rendered.time[l], for |-> l]

ToggleMove(l) ==
    /\ l \in OnPage
    /\ IF moving.row = l THEN moving' = [moving EXCEPT !.row = Nothing] ELSE BeginEdit(l)
    /\ UNCHANGED <<book, clock, rendered, chosen, call>>

TypeTime(t) ==
    /\ moving.row \in OnPage
    /\ moving' = [moving EXCEPT !.time = t, !.for = moving.row]
    /\ UNCHANGED <<book, clock, rendered, chosen, call>>

SubmitMove ==
    /\ Idle
    /\ moving.row \in OnPage
    /\ moving.time # Nothing
    /\ call' = [op |-> "move", rows |-> {moving.row}, time |-> moving.time, for |-> moving.for]
    /\ UNCHANGED <<book, clock, rendered, moving, chosen>>

\* addSessions, for one date and time; the dates were checked when the button was pressed.
SubmitAdd(t) ==
    /\ Idle
    /\ call' = [op |-> "add", rows |-> {}, time |-> t, for |-> Nothing]
    /\ UNCHANGED <<book, clock, rendered, moving, chosen>>

KeepChosen(on) == [chosen EXCEPT !.on = on]
ChosenAnew(on) == [NoneChosen EXCEPT !.on = on]

\* Opening the selection; leaving it is possible at any moment, also while the deletion runs.
SelectMode(on) ==
    /\ chosen.on # on
    /\ on => Idle /\ OnPage # {}
    /\ chosen' = ChosenAnew(on)
    /\ UNCHANGED <<book, clock, rendered, moving, call>>

\* Only a row that the page does not show as past has a checkbox; one that was checked before it
\* became past stays checked.
ToggleSelect(l) ==
    /\ chosen.on
    /\ l \in OnPage \ rendered.past
    /\ chosen' = IF l \in chosen.rows
                 THEN [chosen EXCEPT !.rows = @ \ {l}]
                 ELSE [chosen EXCEPT !.rows = @ \cup {l}]
    /\ UNCHANGED <<book, clock, rendered, moving, call>>

\* InlineConfirm: the first click arms the button, the second sends what is checked by then.
Arm(on) ==
    /\ chosen.on
    /\ chosen.armed # on
    /\ on => Idle /\ chosen.rows # {}
    /\ chosen' = [chosen EXCEPT !.armed = on]
    /\ UNCHANGED <<book, clock, rendered, moving, call>>

DeleteSelected ==
    /\ chosen.armed
    /\ Idle
    /\ chosen.rows # {}
    /\ call' = [op |-> "cancel", rows |-> chosen.rows, time |-> Nothing, for |-> Nothing]
    /\ chosen' = [chosen EXCEPT !.armed = FALSE]
    /\ UNCHANGED <<book, clock, rendered, moving>>

\* cancelLessonsAction: one statement, by id and not by time.
CancelRows(rows) == [l \in Rows |-> IF l \in rows THEN Nothing ELSE book[l]]

\* The call runs and its answer arrives; a success closes the form, ends the selection and
\* refreshes the page, whatever the user has opened or checked in the meantime.
Succeeds ==
    /\ call.op = "add" => \E l \in Rows \ Alive : book' = [book EXCEPT ![l] = call.time]
    /\ call.op = "move" => book' = [l \in Rows |-> IF l \in call.rows \cap Alive THEN call.time
                                                                               ELSE book[l]]
    /\ call.op = "cancel" => book' = CancelRows(call.rows)
    /\ moving' = IF call.op = "move" THEN [moving EXCEPT !.row = Nothing] ELSE moving
    /\ chosen' = IF call.op = "cancel" THEN NoneChosen ELSE chosen

\* A conflict, a business error, or a failure: everything stays open, with a message.
Fails == UNCHANGED <<book, moving, chosen>>

Answer(ok) ==
    /\ ~Idle
    /\ IF ok THEN Succeeds ELSE Fails
    /\ call' = Nothing
    /\ UNCHANGED <<clock, rendered>>

\* router.refresh, or the page revalidated by the call itself.
RefreshList ==
    /\ rendered # Page
    /\ rendered' = Page
    /\ UNCHANGED <<book, clock, moving, chosen, call>>

\* Someone else moves or cancels a lesson; and time passes.
ElsewhereList(l, t) ==
    /\ l \in Alive
    /\ book[l] # t
    /\ book' = [book EXCEPT ![l] = t]
    /\ UNCHANGED <<clock, rendered, moving, chosen, call>>

TimePasses ==
    /\ clock = "before"
    /\ clock' = "after"
    /\ UNCHANGED <<book, rendered, moving, chosen, call>>

NextList ==
    \/ \E l \in Rows : \/ ToggleMove(l) \/ ToggleSelect(l)
                       \/ \E t \in Times \cup {Nothing} : ElsewhereList(l, t)
    \/ \E t \in Times : TypeTime(t) \/ SubmitAdd(t)
    \/ \E b \in BOOLEAN : SelectMode(b) \/ Arm(b) \/ Answer(b)
    \/ SubmitMove \/ DeleteSelected \/ RefreshList \/ TimePasses

SpecList == InitList /\ [][NextList]_listVars

-----------------------------------------------------------------------------
TypeOKList == /\ book \in [Rows -> Times \cup {Nothing}]
              /\ rendered.time \in [Rows -> Times \cup {Nothing}]
              /\ rendered.past \subseteq Rows
              /\ moving.row \in Rows \cup {Nothing}
              /\ chosen.rows \subseteq Rows
              /\ ~chosen.on => chosen.rows = {} /\ ~chosen.armed
              /\ ~Idle => call.op \in {"move", "add", "cancel"} /\ call.rows \subseteq Rows

\* One pair of times serves every row's form: a lesson is moved to times that were shown or typed
\* for it, never to those of the row edited before, also when rows are switched while a call runs
\* and when a conflict leaves the form open (section-lessons.tsx:113).
MovedToTimesTypedForIt ==
    ~Idle /\ call.op = "move" => call.for \in call.rows
=============================================================================
