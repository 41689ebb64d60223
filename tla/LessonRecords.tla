---------------------------- MODULE LessonRecords ----------------------------
(***************************************************************************)
(* What a teacher records about one lesson and one student: the summary    *)
(* of the lesson, a comment, the attendance and the quick grade.  Each is  *)
(* one cell, kept as a row that is read first and then inserted, updated   *)
(* or deleted by further statements, without a transaction.  Attendance    *)
(* and grade have a unique index on the cell, notes have none; only the    *)
(* grade's handler recovers when the index refuses its row.                *)
(***************************************************************************)
EXTENDS Statements, Naturals, FiniteSets

CONSTANTS
    Bodies,     \* what may be recorded
    MaxRow      \* bound on the ids of rows; ids grow with createdAt

ASSUME RecordAssumption == Nothing \notin Bodies /\ MaxRow \in Nat

VARIABLES
    kind,       \* which cell this is
    cell,       \* its rows: a function from ids to bodies
    enrolled,   \* the student is active in the section of the lesson
    save        \* save[p]: where call p stands, with its local variables

recordVars == <<kind, cell, enrolled, save>>

Kinds  == {"summary", "comment", "attendance", "grade"}
RowIds == 1..MaxRow

Unique         == kind \in {"attendance", "grade"}
AboutAStudent  == kind # "summary"
Clearable      == kind = "grade"

SaveStages == {"idle", "check", "read", "insert", "update", "delete", "reread", "done"}

\* took and ok are history: the save took effect, or another one did over it; the last save of
\* the call was answered with success.
Save == [stage : SaveStages, body : Bodies \cup {Nothing}, row : RowIds \cup {Nothing},
         took : BOOLEAN, ok : BOOLEAN]

NoSave(ok) == [stage |-> "idle", body |-> Nothing, row |-> Nothing, took |-> FALSE, ok |-> ok]

InitRecords == /\ kind \in Kinds
               /\ cell = << >>
               /\ enrolled = TRUE
               /\ save = [p \in Calls |-> NoSave(FALSE)]

SaveAt(p, stage) == save[p].stage = stage
EndSave(p, ok)   == save' = [save EXCEPT ![p] = NoSave(ok)]

\* getLessonNotes and getSectionLessonNotes sort by createdAt and let the last row win.
Shown(rows) == IF DOMAIN rows = {} THEN Nothing
               ELSE rows[CHOOSE i \in DOMAIN rows : \A j \in DOMAIN rows : j <= i]

FreshRows == {i \in RowIds : /\ \A j \in DOMAIN cell : j < i
                             /\ \A p \in Calls : save[p].row # i}

\* The statement of call p that leaves the rows as given.  Where they now show the body of p,
\* p has taken effect, and the saves it overlaps have been overwritten.
Writes(p, rows, stage) ==
    /\ cell' = rows
    /\ save' = [q \in Calls |->
           [save[q] EXCEPT !.stage = IF q = p THEN stage ELSE @,
                           !.took = \/ @
                                    \/ /\ ~SaveAt(q, "idle")
                                       /\ Shown(rows) = save[p].body]]
    /\ UNCHANGED <<kind, enrolled>>

-----------------------------------------------------------------------------
BeginSave(p, body) ==
    /\ SaveAt(p, "idle")
    /\ body = Nothing => Clearable
    /\ save' = [save EXCEPT ![p] = [NoSave(FALSE) EXCEPT !.stage = IF AboutAStudent THEN "check"
                                                                                    ELSE "read",
                                                         !.body = body]]
    /\ UNCHANGED <<kind, cell, enrolled>>

\* studentActiveInLessonSection, or an error.
CheckRoster(p) ==
    /\ SaveAt(p, "check")
    /\ IF enrolled THEN save' = [save EXCEPT ![p].stage = "read"] ELSE EndSave(p, FALSE)
    /\ UNCHANGED <<kind, cell, enrolled>>

\* The select has no ORDER BY: with two rows the first one may be either.
ReadCell(p) ==
    /\ SaveAt(p, "read")
    /\ \/ /\ DOMAIN cell = {}
          /\ save' = [save EXCEPT
                           ![p].stage = IF save[p].body = Nothing THEN "done" ELSE "insert",
                           ![p].took = @ \/ save[p].body = Nothing]
       \/ \E i \in DOMAIN cell :
              save' = [save EXCEPT
                           ![p].stage = IF save[p].body = Nothing THEN "delete" ELSE "update",
                           ![p].row = i]
    /\ UNCHANGED <<kind, cell, enrolled>>

InsertWithoutIndex(p) ==
    /\ SaveAt(p, "insert")
    /\ \E i \in FreshRows : Writes(p, [j \in DOMAIN cell \cup {i} |->
                                           IF j = i THEN save[p].body ELSE cell[j]], "done")

\* 23505: the grade's handler looks for the row that won, the others report the error.
InsertRow(p) ==
    IF Unique /\ DOMAIN cell # {}
    THEN /\ SaveAt(p, "insert")
         /\ IF kind = "grade" THEN save' = [save EXCEPT ![p].stage = "reread"] ELSE EndSave(p, FALSE)
         /\ UNCHANGED <<kind, cell, enrolled>>
    ELSE InsertWithoutIndex(p)

RereadCell(p) ==
    /\ SaveAt(p, "reread")
    /\ \/ DOMAIN cell = {} /\ EndSave(p, FALSE)
       \/ \E i \in DOMAIN cell : save' = [save EXCEPT ![p].stage = "update", ![p].row = i]
    /\ UNCHANGED <<kind, cell, enrolled>>

\* update() by id: no row is affected when it has been deleted.
UpdateRow(p) ==
    /\ SaveAt(p, "update")
    /\ IF save[p].row \in DOMAIN cell
       THEN Writes(p, [cell EXCEPT ![save[p].row] = save[p].body], "done")
       ELSE /\ save' = [save EXCEPT ![p].stage = "done"]
            /\ UNCHANGED <<kind, cell, enrolled>>

DeleteNothing(p) ==
    /\ SaveAt(p, "delete")
    /\ save' = [save EXCEPT ![p].stage = "done"]
    /\ UNCHANGED <<kind, cell, enrolled>>

DeleteRow(p) ==
    /\ SaveAt(p, "delete")
    /\ Writes(p, [j \in DOMAIN cell \ {save[p].row} |-> cell[j]], "done")

Reply(p) == /\ SaveAt(p, "done")
            /\ EndSave(p, TRUE)
            /\ UNCHANGED <<kind, cell, enrolled>>

\* The student is dropped from the section, by another desk.
Drop == /\ enrolled
        /\ enrolled' = FALSE
        /\ UNCHANGED <<kind, cell, save>>

\* The server process dies under call p, or a statement fails.
BreakSave(p) == /\ ~SaveAt(p, "idle")
                /\ EndSave(p, FALSE)
                /\ UNCHANGED <<kind, cell, enrolled>>

NextRecords ==
    \/ \E p \in Calls : \/ \E body \in Bodies \cup {Nothing} : BeginSave(p, body)
                        \/ CheckRoster(p) \/ ReadCell(p) \/ InsertRow(p)
                        \/ RereadCell(p) \/ UpdateRow(p) \/ DeleteRow(p)
                        \/ Reply(p) \/ BreakSave(p)
    \/ Drop

SpecRecords == InitRecords /\ [][NextRecords]_recordVars

-----------------------------------------------------------------------------
TypeOKRecords == /\ kind \in Kinds
                 /\ \E ids \in SUBSET RowIds : cell \in [ids -> Bodies]
                 /\ enrolled \in BOOLEAN
                 /\ save \in [Calls -> Save]

\* What the register holds and its writers do.  A cell without the index is none, and its
\* writers are never seen to write.
CellValue  == IF Unique THEN Shown(cell) ELSE Nothing
Writer(s)  == IF s.stage = "idle" \/ ~Unique
              THEN [on |-> FALSE, ok |-> Unique /\ s.ok]
              ELSE [on |-> TRUE, arg |-> s.body, took |-> s.took]
CellWriters == [p \in Calls |-> Writer(save[p])]

Cell == INSTANCE Register WITH Writers <- Calls, Values <- Bodies \cup {Nothing},
                               value <- CellValue, writer <- CellWriters

\* A save of attendance or of a grade that reports success took effect, also when the index
\* refused its row, or when the row it had read was deleted before it wrote
\* (teach/[sectionId]/data.ts:327, attendance-actions.ts:94).
CellsAreRegisters == Cell!RegisterSpec

\* A note that was reported as saved and is not what a reader sees is one of twins: two first
\* saves left two rows, the reader takes the later one and a save may hit the earlier one.
NoteLostOnlyAmongTwins ==
    \A p \in Calls : SaveAt(p, "done") /\ ~save[p].took => Cardinality(DOMAIN cell) > 1
=============================================================================
