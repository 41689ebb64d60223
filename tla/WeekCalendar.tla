---------------------------- MODULE WeekCalendar ----------------------------
(***************************************************************************)
(* The week calendar of the dashboard.  A drag moves the block on screen   *)
(* at once and asks the server; nothing keeps the user from dragging again *)
(* before the answer, and answers come in the order of the questions.  A   *)
(* drag remembers where its block came from, and puts it back there when   *)
(* it is refused.                                                          *)
(***************************************************************************)
EXTENDS Statements, Naturals, Sequences

CONSTANTS
    Blocks,     \* lessons, existing or to be drawn
    Slots,      \* where a lesson may be
    MaxDrags    \* bound on the questions in flight

ASSUME CalendarAssumption == MaxDrags \in Nat

VARIABLES
    slotOf,     \* slotOf[b]: the stored slot; Nothing for a lesson that is not there
    events,     \* the calendar's list, seeded from initialEvents
    display,    \* what FullCalendar shows
    asked,      \* the server actions in flight, in order
    astray      \* history: the blocks dragged while another question was in flight

calendarVars == <<slotOf, events, display, asked, astray>>

Places == Slots \cup {Nothing}

InitCalendar == /\ slotOf \in [Blocks -> Places]
                /\ events = slotOf
                /\ display = slotOf
                /\ asked = << >>
                /\ astray = {}

Ask(op, b, to) == asked' = Append(asked, [op |-> op, block |-> b, from |-> display[b], to |-> to])

-----------------------------------------------------------------------------
\* handleDrop: FullCalendar has already moved the block.
Drag(b, to) ==
    /\ display[b] \notin {Nothing, to}
    /\ Len(asked) < MaxDrags
    /\ Ask("move", b, to)
    /\ display' = [display EXCEPT ![b] = to]
    /\ astray' = IF asked # << >> THEN astray \cup {b} ELSE astray
    /\ UNCHANGED <<slotOf, events>>

\* handleSelect: nothing is shown before the answer.
Draw(b, to) ==
    /\ slotOf[b] = Nothing
    /\ \A i \in DOMAIN asked : asked[i].block # b
    /\ Len(asked) < MaxDrags
    /\ Ask("create", b, to)
    /\ UNCHANGED <<slotOf, events, display, astray>>

\* Cancel in the drawer; onChanged drops the event when the answer has come.
CancelBlock(b) ==
    /\ display[b] # Nothing
    /\ \A i \in DOMAIN asked : asked[i].block # b \/ asked[i].op # "cancel"
    /\ Len(asked) < MaxDrags
    /\ Ask("cancel", b, Nothing)
    /\ UNCHANGED <<slotOf, events, display, astray>>

\* revalidatePath: the page sends a new initialEvents and the list is seeded again, which also
\* moves back every block whose drag is still in flight.
Reseed(stored) == events' = stored /\ display' = stored

\* createLessonAction and rescheduleLessonAction answer with the event, or with the conflicts.  A
\* move of a lesson canceled meanwhile is not refused; it stays canceled and off the calendar.
Answered(it, ok) ==
    /\ slotOf' = IF ok /\ (it.op = "move" => slotOf[it.block] # Nothing)
                 THEN [slotOf EXCEPT ![it.block] = it.to]
                 ELSE slotOf
    /\ Reseed(slotOf')

LeaveThere(it) == display' = display
PutBack(it)    == display' = [display EXCEPT ![it.block] = it.from]

\* The action throws: a drag puts its block back, a drawing shows the error boundary, whose
\* reload starts over; the drawer of a cancelation stays open with an error.
Thrown(it) ==
    /\ UNCHANGED slotOf
    /\ CASE it.op = "move"   -> PutBack(it) /\ UNCHANGED events
         [] it.op = "create" -> Reseed(slotOf)
         [] it.op = "cancel" -> UNCHANGED <<events, display>>

AnswerFirst(outcome) ==
    /\ asked # << >>
    /\ Head(asked).op = "cancel" => outcome # "conflict"
    /\ IF outcome = "thrown" THEN Thrown(Head(asked)) ELSE Answered(Head(asked), outcome = "done")
    /\ asked' = IF outcome = "thrown" /\ Head(asked).op = "create" THEN << >> ELSE Tail(asked)
    /\ astray' = IF outcome # "thrown" /\ asked' = << >> THEN {} ELSE astray

\* Someone else's change; this calendar learns of it with its next answer.
MovedElsewhere(b, to) ==
    /\ slotOf[b] # Nothing
    /\ slotOf' = [slotOf EXCEPT ![b] = to]
    /\ UNCHANGED <<events, display, asked, astray>>

NextCalendar ==
    \/ \E b \in Blocks : \/ \E to \in Slots : Drag(b, to) \/ Draw(b, to)
                         \/ \E to \in Places : MovedElsewhere(b, to)
                         \/ CancelBlock(b)
    \/ \E outcome \in {"done", "conflict", "thrown"} : AnswerFirst(outcome)

SpecCalendar == InitCalendar /\ [][NextCalendar]_calendarVars

-----------------------------------------------------------------------------
TypeOKCalendar == /\ {slotOf, events, display} \subseteq [Blocks -> Places]
                  /\ Len(asked) <= MaxDrags
                  /\ astray \subseteq Blocks

\* When every question has been answered, a block stands where the calendar's list has it, also
\* after a drag that failed (calendar.tsx:170, comment 避免 UI 与 DB 静默不一致).  The exception is
\* a block dragged while another question was in flight: when its own drag then throws, its way
\* back is a slot it was refused, or one that the list has given up meanwhile.
BlockStandsWhereListed ==
    asked = << >> => \A b \in Blocks \ astray : display[b] = events[b]
=============================================================================
