---------------------------- MODULE LessonEditor ----------------------------
(***************************************************************************)
(* The two forms in which a teacher edits the notes, grades, attendance    *)
(* and place of one lesson.  The drawer of the calendar loads the lesson   *)
(* when it opens and keeps a baseline of what it loaded or saved; the      *)
(* panel of the lesson list compares with the `initial` value of its page, *)
(* which a refresh replaces under the texts being edited.  "Save all"      *)
(* sends what differs from the baseline.  The server actions of one page   *)
(* run one after the other, in the order they were called; a form does not *)
(* wait for those left over when one of its save fails.                    *)
(***************************************************************************)
EXTENDS Statements, Naturals, SequencesExt

CONSTANTS
    Fields,     \* subset of {"card", "note", "attendance"}
    Texts,      \* what a field may hold besides Nothing
    MaxQueue    \* bound on the server actions waiting

ASSUME EditorAssumption == IsFiniteSet(Fields) /\ MaxQueue \in Nat

VARIABLES
    form,       \* which of the two forms this is
    phase,      \* "closed", or how far the form is
    held,       \* held[f]: what is stored
    text,       \* text[f]: what the form shows
    base,       \* base[f]: initialRef, or the `initial` prop
    queue,      \* the server actions waiting, in order
    snapshot,   \* the texts the pending save will put in the baseline; << >> if none
    edits       \* history: the fields typed in, those stored by others or by a form closed since
                \* (stale), those saved before the form had loaded, and the values seen stored

editorVars == <<form, phase, held, text, base, queue, snapshot, edits>>

Forms  == {"drawer", "panel"}
Phases == {"closed", "loading", "open"}
Empty  == [f \in Fields |-> Nothing]

\* Why the text of a field is not what was loaded or refreshed last.
Cause(f) == CASE f \in edits.typed                          -> "typed"
              [] form = "drawer" /\ f \in edits.early \ edits.typed  -> "saved too early"
              [] form = "panel" /\ f \in edits.stale \ edits.typed  -> "stale page"
              [] OTHER                                       -> "none"

\* counts: the form still waits for it; all: sent by "save all".
Write(f, all)  == [op |-> "write", field |-> f, value |-> text[f], counts |-> TRUE,
                   all |-> all, cause |-> Cause(f)]
Reader(what)   == [op |-> what, counts |-> TRUE]
Unfollowed(q)  == [i \in DOMAIN q |-> IF q[i].op = "write" THEN [q[i] EXCEPT !.counts = FALSE]
                                                           ELSE q[i]]
Saving         == snapshot # << >>
FreshEdits     == [edits EXCEPT !.typed = {}, !.early = {},
                                !.stale = @ \cup {f \in Fields : base[f] # held[f]},
                                !.seen = IF form = "drawer" THEN [f \in Fields |-> {held[f]}] ELSE @]

\* The card (place and link, or the grade) is cleared by an empty text; notes are not, they are
\* skipped; attendance has no empty state.
Sendable(f) == f = "card" \/ text[f] # Nothing

InitEditor == /\ form \in Forms
              /\ phase = "closed"
              /\ held = Empty
              /\ text = Empty
              /\ base = Empty
              /\ queue = << >>
              /\ snapshot = << >>
              /\ edits = [typed |-> {}, stale |-> {}, early |-> {}, seen |-> [f \in Fields |-> {Nothing}]]

-----------------------------------------------------------------------------
\* The drawer starts empty and loads; the panel is seeded from the page.
OpenForm ==
    /\ phase = "closed"
    /\ Len(queue) < MaxQueue
    /\ edits' = FreshEdits
    /\ IF form = "drawer"
       THEN /\ phase' = "loading"
            /\ text' = Empty
            /\ base' = Empty
            /\ queue' = Append(queue, Reader("load"))
       ELSE /\ phase' = "open"
            /\ text' = base
            /\ UNCHANGED <<base, queue>>
    /\ UNCHANGED <<form, held, snapshot>>

\* Unmounting drops what the form shows; the actions already sent still run.
CloseForm ==
    /\ phase # "closed"
    /\ phase' = "closed"
    /\ queue' = [i \in DOMAIN queue |->
                     [queue[i] EXCEPT !.counts = @ /\ queue[i].op = "refresh"]]
    /\ snapshot' = << >>
    /\ text' = Empty
    /\ base' = IF form = "drawer" THEN Empty ELSE base
    /\ edits' = [edits EXCEPT !.typed = {}, !.early = {}]
    /\ UNCHANGED <<form, held>>

Type(f, v) ==
    /\ phase # "closed"
    /\ f # "attendance"
    /\ v # text[f]
    /\ text' = [text EXCEPT ![f] = v]
    /\ edits' = [edits EXCEPT !.typed = @ \cup {f}]
    /\ UNCHANGED <<form, phase, held, base, queue, snapshot>>

\* mark, markAttendance: stored at once, shown when it has been.
Mark(v) ==
    /\ phase = "open"
    /\ ~Saving
    /\ "attendance" \in Fields
    /\ Len(queue) < MaxQueue
    /\ queue' = Append(queue, [Write("attendance", FALSE) EXCEPT !.value = v, !.cause = "typed"])
    /\ snapshot' = [f \in {"attendance"} |-> v]
    /\ edits' = [edits EXCEPT !.typed = @ \cup {"attendance"}]
    /\ UNCHANGED <<form, phase, held, text, base>>

\* The save button of one field; it is not disabled while the drawer loads.
SaveField(f) ==
    /\ phase # "closed"
    /\ ~Saving
    /\ f # "attendance"
    /\ Sendable(f)
    /\ Len(queue) < MaxQueue
    /\ queue' = Append(queue, Write(f, FALSE))
    /\ snapshot' = [g \in {f} |-> text[f]]
    /\ edits' = IF phase = "loading" THEN [edits EXCEPT !.early = @ \cup {f}] ELSE edits
    /\ UNCHANGED <<form, phase, held, text, base>>

\* Everything that differs from the baseline and may be sent, all at once.
SaveAll ==
    LET changed == {f \in Fields : /\ text[f] # base[f]
                                   /\ Sendable(f)
                                   /\ form = "drawer" => f # "attendance"}
    IN  /\ phase = "open"
        /\ ~Saving
        /\ changed # {}
        /\ Len(queue) + Cardinality(changed) <= MaxQueue
        /\ queue' = queue \o [i \in 1..Cardinality(changed) |->
                                  Write(SetToSeq(changed)[i], TRUE)]
        /\ snapshot' = text
        /\ UNCHANGED <<form, phase, held, text, base, edits>>

Over(saved, fields) == [f \in Fields |-> IF f \in DOMAIN saved THEN saved[f] ELSE fields[f]]

\* The answer to a save.  The drawer takes the texts it sent as its baseline; the panel asks for
\* its page again.  Attendance is shown as marked.
Succeed(rest) ==
    /\ snapshot' = << >>
    /\ text' = IF DOMAIN snapshot = {"attendance"} THEN Over(snapshot, text) ELSE text
    /\ base' = IF form = "drawer" THEN Over(snapshot, base) ELSE base
    /\ queue' = IF form = "panel" THEN Append(rest, Reader("refresh")) ELSE rest
    /\ UNCHANGED phase

\* Promise.all gives up at the first failure.  The panel refreshes after "save all"; its button
\* for one field does not catch, and the page shows its error boundary instead of the form.
GiveUp(rest, all) ==
    /\ snapshot' = << >>
    /\ IF form = "panel" /\ all THEN queue' = Append(Unfollowed(rest), Reader("refresh"))
                                ELSE queue' = Unfollowed(rest)
    /\ phase' = IF form = "panel" /\ ~all /\ DOMAIN snapshot # {"attendance"} THEN "closed"
                                                                               ELSE phase
    /\ UNCHANGED <<text, base>>

FinishAsSaved(rest, ok, all) == Succeed(rest)

Finish(rest, ok, all) == IF ok THEN Succeed(rest) ELSE GiveUp(rest, all)

\* The first waiting action is a save; the server may refuse it or not be reached.
RunWrite(ok) ==
    /\ queue # << >>
    /\ Head(queue).op = "write"
    /\ LET it   == Head(queue)
           rest == Tail(queue)
       IN  /\ held' = IF ok THEN [held EXCEPT ![it.field] = it.value] ELSE held
           /\ edits' = IF ok THEN [edits EXCEPT !.seen[it.field] = @ \cup {it.value},
                                                 !.stale = @ \cup (IF it.counts THEN {}
                                                                    ELSE {it.field})]
                          ELSE edits
           /\ IF it.counts /\ (~ok \/ \A i \in DOMAIN rest : rest[i].op = "write" => ~rest[i].counts)
              THEN Finish(rest, ok, it.all)
              ELSE queue' = rest /\ UNCHANGED <<snapshot, text, base, phase>>
    /\ UNCHANGED form

LoadWithoutBaseline(ok) ==
    /\ queue # << >>
    /\ Head(queue).op = "load"
    /\ queue' = Tail(queue)
    /\ IF Head(queue).counts
       THEN /\ phase' = "open"
            /\ IF ok THEN /\ text' = held
                          /\ edits' = [edits EXCEPT !.seen = [f \in Fields |-> @[f] \cup {held[f]}]]
                     ELSE UNCHANGED <<text, edits>>
       ELSE UNCHANGED <<phase, text, edits>>
    /\ UNCHANGED <<form, held, base, snapshot>>

\* getLessonRoster, getLessonNotes and getLessonMeta, taken as one reading: no property relates
\* two fields.  A failure opens the drawer with empty fields; what was typed meanwhile is lost.
Load(ok) ==
    /\ queue # << >>
    /\ Head(queue).op = "load"
    /\ queue' = Tail(queue)
    /\ IF Head(queue).counts
       THEN /\ phase' = "open"
            /\ IF ok THEN /\ text' = held
                          /\ base' = held
                          /\ edits' = [edits EXCEPT !.typed = {},
                                                    !.seen = [f \in Fields |-> @[f] \cup {held[f]}]]
                     ELSE UNCHANGED <<text, base, edits>>
       ELSE UNCHANGED <<phase, text, base, edits>>
    /\ UNCHANGED <<form, held, snapshot>>

\* The page is rendered again: the prop is new, the texts are not.
Refresh ==
    /\ queue # << >>
    /\ Head(queue).op = "refresh"
    /\ queue' = Tail(queue)
    /\ base' = held
    /\ UNCHANGED <<form, phase, held, text, snapshot, edits>>

\* Another teacher of the section saves, from another browser.
AnotherSaves(f, v) ==
    /\ v # held[f]
    /\ v = Nothing => f = "card"
    /\ held' = [held EXCEPT ![f] = v]
    /\ edits' = [edits EXCEPT !.stale = @ \cup {f}, !.seen[f] = @ \cup {v}]
    /\ UNCHANGED <<form, phase, text, base, queue, snapshot>>

NextEditor ==
    \/ OpenForm \/ CloseForm \/ SaveAll \/ Refresh
    \/ \E ok \in BOOLEAN : RunWrite(ok) \/ Load(ok)
    \/ \E v \in Texts : Mark(v)
    \/ \E f \in Fields : \/ SaveField(f)
                         \/ \E v \in Texts \cup {Nothing} : Type(f, v) \/ AnotherSaves(f, v)

SpecEditor == InitEditor /\ [][NextEditor]_editorVars

-----------------------------------------------------------------------------
Contents == [Fields -> Texts \cup {Nothing}]

TypeOKEditor ==
    /\ form \in Forms
    /\ phase \in Phases
    /\ {held, text, base} \subseteq Contents
    /\ Len(queue) <= MaxQueue + 1
    /\ \A i \in DOMAIN queue : queue[i].op \in {"write", "load", "refresh"}
    /\ \A f \in DOMAIN snapshot : f \in Fields /\ snapshot[f] \in Texts \cup {Nothing}
    /\ edits.typed \cup edits.stale \cup edits.early \subseteq Fields

\* "Save all" skips a field that equals the baseline, so a baseline must be something that has
\* been stored: a save that failed halfway, a later keystroke or an answer that comes after the
\* form was closed and opened again must not enter it (lesson-detail.tsx:216, comment 刷新基线为
\* 当前已落库值).  An emptied note is the exception: it is skipped and still enters the baseline.
CleanMeansStored ==
    phase # "closed" => \A f \in Fields : base[f] # Nothing => base[f] \in edits.seen[f]

\* "Save all" writes a field nobody typed in only in two cases: in the panel, over a value stored
\* after its page was rendered, when the refresh replaced `initial` and the old text now looks
\* edited (lesson-notes-inline.tsx:130); and in the drawer, where a field was saved before the
\* lesson had loaded (lesson-detail.tsx:250).
UntypedWrittenOnlyWhenStale ==
    \A i \in DOMAIN queue :
        queue[i].op = "write" /\ queue[i].all => queue[i].cause # "none"
=============================================================================
