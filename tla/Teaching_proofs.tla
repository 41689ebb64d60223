--------------------------- MODULE Teaching_proofs ---------------------------
(***************************************************************************)
(* What goes on in a lesson and around it: its notes, attendance and       *)
(* grades, the forms that save them, the calendar and the list that move   *)
(* lessons, the rules that make them, the staff of a section and the       *)
(* progress reports. The tables and the screens of the seven have nothing  *)
(* in common; each has its own inductive invariant, for any number of      *)
(* calls, rows, fields, days and questions under way.                      *)
(***************************************************************************)
EXTENDS LessonRecords, LessonEditor, WeekCalendar, LessonList, Timetable,
        SectionTeachers, Report, FiniteSetTheorems, SequenceTheorems,
        WellFoundedInduction, TLAPS

-----------------------------------------------------------------------------
(* Notes, attendance and grades of a lesson. A row that vanished under a   *)
(* call was deleted by a save that the call overlaps and that was to leave *)
(* nothing, so the call had taken effect by then; where the index keeps    *)
(* the cell to one row, what is written is shown.                          *)

\* What a call is about to write.
Prepared == \A p \in Calls :
    /\ save[p].stage \in {"insert", "update", "reread"} => save[p].body \in Bodies
    /\ SaveAt(p, "delete") => save[p].body = Nothing
    /\ ~SaveAt(p, "idle") /\ save[p].body = Nothing => Clearable

AtMostOne(ids) == \A i, j \in ids : i = j
Twins(ids) == \E i, j \in ids : i # j

\* The row a call goes for is there, or the call has been overwritten.
RowOrTaken == \A p \in Calls :
    save[p].stage \in {"update", "delete"} /\ save[p].row \notin DOMAIN cell => save[p].took

TakenOrTwins == \A p \in Calls : SaveAt(p, "done") => save[p].took \/ Twins(DOMAIN cell)

\* The inductive invariant.
Sound == /\ TypeOKRecords
         /\ Prepared
         /\ Unique => AtMostOne(DOMAIN cell)
         /\ RowOrTaken
         /\ TakenOrTwins

-----------------------------------------------------------------------------
\* The row with the greatest id is the one that is shown.
LEMMA ShownIsLast ==
    ASSUME NEW f, DOMAIN f \subseteq RowIds, NEW i \in DOMAIN f, \A j \in DOMAIN f : j <= i
    PROVE  Shown(f) = f[i]
<1> DEFINE k == CHOOSE k \in DOMAIN f : \A j \in DOMAIN f : j <= k
<1>1. k \in DOMAIN f /\ \A j \in DOMAIN f : j <= k  OBVIOUS
<1>2. i \in Nat /\ k \in Nat  BY <1>1, RecordAssumption DEF RowIds
<1>3. i <= k /\ k <= i  BY <1>1
<1> HIDE DEF k
<1>4. k = i  BY <1>2, <1>3
<1> QED  BY <1>4 DEF Shown, k

LEMMA ShownOnly ==
    ASSUME NEW f, DOMAIN f \subseteq RowIds, NEW i \in DOMAIN f, AtMostOne(DOMAIN f)
    PROVE  Shown(f) = f[i]
<1>1. \A j \in DOMAIN f : j <= i  BY RecordAssumption DEF AtMostOne, RowIds
<1> QED  BY <1>1, ShownIsLast

\* A statement that changes the rows of the cell is the last one of its call.
LEMMA WritesStep ==
    ASSUME Sound, NEW p \in Calls, ~SaveAt(p, "idle"), NEW ids \in SUBSET RowIds,
           NEW rows \in [ids -> Bodies], Writes(p, rows, "done"),
           Unique => AtMostOne(ids),
           Shown(rows) = save[p].body \/ save[p].took \/ Twins(ids),
           DOMAIN cell \subseteq ids \/ Shown(rows) = save[p].body
    PROVE  Sound'
<1> DEFINE s(q) == [save[q] EXCEPT !.stage = IF q = p THEN "done" ELSE @,
                                   !.took = @ \/ (~SaveAt(q, "idle") /\ Shown(rows) = save[p].body)]
<1>1. ASSUME NEW q \in Calls
      PROVE  /\ s(q) \in Save
             /\ s(q).stage = IF q = p THEN "done" ELSE save[q].stage
             /\ s(q).body = save[q].body /\ s(q).row = save[q].row
             /\ save[q].took => s(q).took
             /\ ~SaveAt(q, "idle") /\ Shown(rows) = save[p].body => s(q).took
  <2>1. save[q] \in Save  BY DEF Sound, TypeOKRecords
  <2>2. "done" \in SaveStages  BY DEF SaveStages
  <2>3. (save[q].took \/ (~SaveAt(q, "idle") /\ Shown(rows) = save[p].body)) \in BOOLEAN
    BY <2>1 DEF Save
  <2> QED  BY <2>1, <2>2, <2>3 DEF Save
<1>2. save' = [q \in Calls |-> s(q)] /\ cell' = rows /\ UNCHANGED <<kind, enrolled>>
  BY DEF Writes
<1> HIDE DEF s
<1>3. DOMAIN cell' = ids  BY <1>2
<1>4. TypeOKRecords'  BY <1>1, <1>2 DEF Sound, TypeOKRecords
<1>5. Prepared'  BY <1>1, <1>2 DEF Sound, Prepared, SaveAt, Clearable
<1>6. (Unique => AtMostOne(DOMAIN cell))'  BY <1>2, <1>3 DEF AtMostOne, Unique
<1>7. RowOrTaken'
  <2> SUFFICES ASSUME NEW q \in Calls, s(q).stage \in {"update", "delete"}, s(q).row \notin ids
               PROVE  s(q).took
    BY <1>2, <1>3 DEF RowOrTaken
  <2>1. save[q].stage \in {"update", "delete"} /\ save[q].row \notin ids  BY <1>1
  <2>2. ~SaveAt(q, "idle")  BY <2>1 DEF SaveAt
  <2> QED  BY <1>1, <2>1, <2>2 DEF Sound, RowOrTaken
<1>8. TakenOrTwins'
  <2> SUFFICES ASSUME NEW q \in Calls, s(q).stage = "done", ~s(q).took PROVE Twins(ids)
    BY <1>2, <1>3 DEF TakenOrTwins, SaveAt, Twins
  <2>1. CASE q = p  BY <1>1, <2>1
  <2>2. CASE q # p
    <3>1. SaveAt(q, "done") /\ ~save[q].took  BY <1>1, <2>2 DEF SaveAt
    <3>2. Twins(DOMAIN cell)  BY <3>1 DEF Sound, TakenOrTwins
    <3>3. ~SaveAt(q, "idle")  BY <3>1 DEF SaveAt
    <3>4. DOMAIN cell \subseteq ids  BY <1>1, <3>3
    <3> QED  BY <3>2, <3>4 DEF Twins
  <2> QED  BY <2>1, <2>2
<1> QED  BY <1>4, <1>5, <1>6, <1>7, <1>8 DEF Sound

\* A step of call p that leaves the rows alone, and what its local variables must be then.
LEMMA SaveStep ==
    ASSUME Sound, NEW p \in Calls, NEW r \in Save, save' = [save EXCEPT ![p] = r],
           UNCHANGED <<kind, cell, enrolled>>,
           r.stage \in {"insert", "update", "reread"} => r.body \in Bodies,
           r.stage = "delete" => r.body = Nothing,
           r.stage # "idle" /\ r.body = Nothing => Clearable,
           r.stage \in {"update", "delete"} /\ r.row \notin DOMAIN cell => r.took,
           r.stage = "done" => r.took \/ Twins(DOMAIN cell)
    PROVE  Sound'
<1>1. save \in [Calls -> Save]  BY DEF Sound, TypeOKRecords
<1>2. save'[p] = r /\ \A q \in Calls \ {p} : save'[q] = save[q]  BY <1>1
<1>3. TypeOKRecords'
  <2>1. save' \in [Calls -> Save]  BY <1>1
  <2> QED  BY <2>1 DEF Sound, TypeOKRecords
<1>4. Prepared'  BY <1>2 DEF Sound, Prepared, SaveAt, Clearable
<1>5. RowOrTaken'  BY <1>2 DEF Sound, RowOrTaken
<1>6. TakenOrTwins'  BY <1>2 DEF Sound, TakenOrTwins, SaveAt, Twins
<1> QED  BY <1>3, <1>4, <1>5, <1>6 DEF Sound, Unique, AtMostOne

LEMMA EndIsSave == \A ok \in BOOLEAN : NoSave(ok) \in Save /\ NoSave(ok).stage = "idle"
BY DEF NoSave, Save, SaveStages

LEMMA EndStep ==
    ASSUME Sound, NEW p \in Calls, NEW ok \in BOOLEAN, EndSave(p, ok),
           UNCHANGED <<kind, cell, enrolled>>
    PROVE  Sound'
<1>1. NoSave(ok) \in Save /\ NoSave(ok).stage = "idle"  BY EndIsSave
<1>2. save' = [save EXCEPT ![p] = NoSave(ok)]  BY DEF EndSave
<1> QED  BY <1>1, <1>2, SaveStep

-----------------------------------------------------------------------------
(* What each step does to the call that takes it: the new value of its     *)
(* local variables, for the invariant and for the refinement.              *)

LEMMA BeginForm ==
    ASSUME Sound, NEW p \in Calls, NEW body \in Bodies \cup {Nothing}, BeginSave(p, body)
    PROVE  \E r \in Save : /\ save' = [save EXCEPT ![p] = r]
                           /\ r.stage \in {"check", "read"} /\ r.body = body /\ ~r.took
<1> DEFINE r == [NoSave(FALSE) EXCEPT !.stage = IF AboutAStudent THEN "check" ELSE "read",
                                      !.body = body]
<1>1. r \in Save /\ r.stage \in {"check", "read"} /\ r.body = body /\ ~r.took
  BY DEF NoSave, Save, SaveStages
<1>2. save' = [save EXCEPT ![p] = r]  BY DEF BeginSave
<1> HIDE DEF r
<1> QED  BY <1>1, <1>2

\* A step of p to another stage of the same save; p takes effect where there is nothing to delete.
LEMMA ReadForm ==
    ASSUME Sound, NEW p \in Calls, ReadCell(p)
    PROVE  \E r \in Save :
              /\ save' = [save EXCEPT ![p] = r]
              /\ r.body = save[p].body
              /\ \/ /\ DOMAIN cell = {} /\ r.body = Nothing /\ r.took /\ r.stage = "done"
                 \/ r.body \in Bodies /\ r.took = save[p].took /\ r.stage = "insert"
                 \/ /\ r.took = save[p].took /\ r.row \in DOMAIN cell
                    /\ r.stage = IF r.body = Nothing THEN "delete" ELSE "update"
<1>1. save[p] \in Save /\ save \in [Calls -> Save] /\ save[p].took \in BOOLEAN
  BY DEF Sound, TypeOKRecords, Save
<1>2. \A st \in {"done", "insert", "update", "delete"} : st \in SaveStages  BY DEF SaveStages
<1>3. PICK ids \in SUBSET RowIds : cell \in [ids -> Bodies]  BY DEF Sound, TypeOKRecords
<1>4. CASE DOMAIN cell = {} /\ save' = [save EXCEPT
                  ![p].stage = IF save[p].body = Nothing THEN "done" ELSE "insert",
                  ![p].took = @ \/ save[p].body = Nothing]
  <2>1. CASE save[p].body = Nothing
    <3> DEFINE r == [save[p] EXCEPT !.stage = "done", !.took = TRUE]
    <3>1. r \in Save /\ r.body = Nothing /\ r.took /\ r.stage = "done"  BY <1>1, <1>2, <2>1 DEF Save
    <3>2. save' = [save EXCEPT ![p] = r]  BY <1>1, <1>4, <2>1
    <3> HIDE DEF r
    <3> QED  BY <1>4, <2>1, <3>1, <3>2
  <2>2. CASE save[p].body # Nothing
    <3> DEFINE r == [save[p] EXCEPT !.stage = "insert"]
    <3>1. /\ r \in Save /\ r.body = save[p].body /\ r.body \in Bodies /\ r.took = save[p].took
          /\ r.stage = "insert"
      BY <1>1, <1>2, <2>2 DEF Save
    <3>2. save' = [save EXCEPT ![p] = r]
      <4>1. (save[p].took \/ save[p].body = Nothing) = save[p].took  BY <1>1, <2>2
      <4> QED  BY <1>1, <1>4, <2>2, <4>1 DEF Save
    <3> HIDE DEF r
    <3> QED  BY <3>1, <3>2
  <2> QED  BY <2>1, <2>2
<1>5. ASSUME NEW i \in DOMAIN cell,
             save' = [save EXCEPT ![p].stage = IF save[p].body = Nothing THEN "delete" ELSE "update",
                                  ![p].row = i]
      PROVE  \E r \in Save : /\ save' = [save EXCEPT ![p] = r] /\ r.body = save[p].body
                             /\ r.took = save[p].took /\ r.row \in DOMAIN cell
                             /\ r.stage = IF r.body = Nothing THEN "delete" ELSE "update"
  <2> DEFINE r == [save[p] EXCEPT !.stage = IF save[p].body = Nothing THEN "delete" ELSE "update",
                                  !.row = i]
  <2>1. i \in RowIds  BY <1>3
  <2>2. /\ r \in Save /\ r.body = save[p].body /\ r.took = save[p].took /\ r.row = i
        /\ r.stage = IF r.body = Nothing THEN "delete" ELSE "update"
    BY <1>1, <1>2, <2>1 DEF Save
  <2>3. save' = [save EXCEPT ![p] = r]  BY <1>1, <1>5
  <2> HIDE DEF r
  <2> QED  BY <2>2, <2>3
<1> QED  BY <1>4, <1>5 DEF ReadCell

\* The insert shows its body: its id is beyond every other.
LEMMA InsertForm ==
    ASSUME Sound, NEW p \in Calls, InsertWithoutIndex(p)
    PROVE  \E ids \in SUBSET RowIds : \E rows \in [ids -> Bodies] :
              /\ Writes(p, rows, "done")
              /\ Shown(rows) = save[p].body
              /\ DOMAIN cell = {} => AtMostOne(ids)
<1>1. PICK dom \in SUBSET RowIds : cell \in [dom -> Bodies]  BY DEF Sound, TypeOKRecords
<1>2. PICK i \in FreshRows : Writes(p, [j \in DOMAIN cell \cup {i} |->
                                           IF j = i THEN save[p].body ELSE cell[j]], "done")
  BY DEF InsertWithoutIndex
<1> DEFINE ids == DOMAIN cell \cup {i}
           rows == [j \in ids |-> IF j = i THEN save[p].body ELSE cell[j]]
<1>3. i \in RowIds /\ \A j \in DOMAIN cell : j < i  BY DEF FreshRows
<1>4. ids \in SUBSET RowIds  BY <1>1, <1>3
<1>5. save[p].body \in Bodies  BY DEF InsertWithoutIndex, Sound, Prepared, SaveAt
<1>6. rows \in [ids -> Bodies]  BY <1>1, <1>5
<1>7. \A j \in ids : j <= i  BY <1>3, <1>4, RecordAssumption DEF RowIds
<1>8. rows[i] = save[p].body /\ DOMAIN rows = ids /\ i \in ids  OBVIOUS
<1>9. Writes(p, rows, "done")  BY <1>2
<1>10. DOMAIN cell = {} => AtMostOne(ids)  BY DEF AtMostOne
<1> HIDE DEF rows, ids
<1>11. Shown(rows) = save[p].body  BY <1>4, <1>7, <1>8, ShownIsLast
<1> QED  BY <1>4, <1>6, <1>9, <1>10, <1>11

\* The update of a row that is there; another row may be shown.
LEMMA UpdateForm ==
    ASSUME Sound, NEW p \in Calls, UpdateRow(p), save[p].row \in DOMAIN cell
    PROVE  \E rows \in [DOMAIN cell -> Bodies] :
              /\ Writes(p, rows, "done")
              /\ AtMostOne(DOMAIN cell) => Shown(rows) = save[p].body
<1>1. PICK dom \in SUBSET RowIds : cell \in [dom -> Bodies]  BY DEF Sound, TypeOKRecords
<1> DEFINE i == save[p].row
           rows == [cell EXCEPT ![i] = save[p].body]
<1>2. save[p].body \in Bodies  BY DEF UpdateRow, Sound, Prepared, SaveAt
<1>3. rows \in [DOMAIN cell -> Bodies] /\ rows[i] = save[p].body /\ DOMAIN rows = DOMAIN cell
  BY <1>1, <1>2
<1>4. Writes(p, rows, "done")  BY DEF UpdateRow
<1> HIDE DEF rows
<1>5. AtMostOne(DOMAIN cell) => Shown(rows) = save[p].body  BY <1>1, <1>3, ShownOnly
<1> QED  BY <1>3, <1>4, <1>5

\* The delete leaves nothing, unless its row is gone: then nothing changes.
LEMMA DeleteForm ==
    ASSUME Sound, NEW p \in Calls, DeleteRow(p)
    PROVE  /\ Unique /\ save[p].body = Nothing
           /\ \E ids \in SUBSET RowIds : \E rows \in [ids -> Bodies] :
                 /\ Writes(p, rows, "done")
                 /\ AtMostOne(ids)
                 /\ Shown(rows) = Nothing \/ (rows = cell /\ save[p].took)
<1>1. PICK dom \in SUBSET RowIds : cell \in [dom -> Bodies]  BY DEF Sound, TypeOKRecords
<1> DEFINE i == save[p].row
           ids == DOMAIN cell \ {i}
           rows == [j \in ids |-> cell[j]]
<1>2. save[p].body = Nothing /\ kind = "grade"
  BY DEF DeleteRow, Sound, Prepared, SaveAt, Clearable
<1>3. Unique /\ AtMostOne(DOMAIN cell)  BY <1>2 DEF Sound, Unique
<1>4. ids \in SUBSET RowIds /\ rows \in [ids -> Bodies] /\ AtMostOne(ids)
  BY <1>1, <1>3 DEF AtMostOne
<1>5. Writes(p, rows, "done")  BY DEF DeleteRow
<1>6. Shown(rows) = Nothing \/ (rows = cell /\ save[p].took)
  <2>1. CASE i \in DOMAIN cell
    <3>1. ids = {}  BY <1>3, <2>1 DEF AtMostOne
    <3> QED  BY <3>1 DEF Shown
  <2>2. CASE i \notin DOMAIN cell
    <3>1. rows = cell  BY <1>1, <2>2
    <3> HIDE DEF rows
    <3>2. save[p].took  BY <2>2 DEF DeleteRow, SaveAt, Sound, RowOrTaken
    <3> QED  BY <3>1, <3>2
  <2> QED  BY <2>1, <2>2
<1> HIDE DEF rows, ids
<1> QED  BY <1>2, <1>3, <1>4, <1>5, <1>6

-----------------------------------------------------------------------------
\* Call p goes on to another stage, and touches nothing else.
GoesOn(p, st) == save' = [save EXCEPT ![p].stage = st] /\ UNCHANGED <<kind, cell, enrolled>>

LEMMA StageStep ==
    ASSUME Sound, NEW p \in Calls, NEW st \in SaveStages, GoesOn(p, st),
           ~SaveAt(p, "idle"),
           st \in {"insert", "update", "reread"} => save[p].body \in Bodies,
           st = "delete" => save[p].body = Nothing,
           st \in {"update", "delete"} => save[p].row \in DOMAIN cell,
           st = "done" => save[p].took
    PROVE  Sound'
<1>1. save[p] \in Save  BY DEF Sound, TypeOKRecords
<1> DEFINE r == [save[p] EXCEPT !.stage = st]
<1>2. /\ r \in Save /\ r.stage = st /\ r.body = save[p].body /\ r.row = save[p].row
      /\ r.took = save[p].took
  BY <1>1 DEF Save
<1>3. save' = [save EXCEPT ![p] = r] /\ UNCHANGED <<kind, cell, enrolled>>  BY DEF GoesOn
<1> HIDE DEF r
<1>4. save[p].body = Nothing => Clearable  BY DEF Sound, Prepared
<1> QED  BY <1>2, <1>3, <1>4, SaveStep

LEMMA RereadForm ==
    ASSUME Sound, NEW p \in Calls, NEW i \in DOMAIN cell,
           save' = [save EXCEPT ![p].stage = "update", ![p].row = i]
    PROVE  \E r \in Save : /\ save' = [save EXCEPT ![p] = r]
                           /\ r.stage = "update" /\ r.body = save[p].body /\ r.row = i
                           /\ r.took = save[p].took
<1>1. save[p] \in Save /\ save \in [Calls -> Save] /\ i \in RowIds  BY DEF Sound, TypeOKRecords
<1> DEFINE r == [save[p] EXCEPT !.stage = "update", !.row = i]
<1>2. /\ r \in Save /\ r.stage = "update" /\ r.body = save[p].body /\ r.row = i
      /\ r.took = save[p].took
  BY <1>1 DEF Save, SaveStages
<1>3. save' = [save EXCEPT ![p] = r]  BY <1>1
<1> HIDE DEF r
<1> QED  BY <1>2, <1>3

LEMMA SoundInit == InitRecords => Sound
<1> SUFFICES ASSUME InitRecords PROVE Sound  OBVIOUS
<1>1. save \in [Calls -> Save] /\ \A p \in Calls : save[p].stage = "idle"
  BY EndIsSave DEF InitRecords
<1>2. cell \in [{} -> Bodies] /\ DOMAIN cell = {}  BY DEF InitRecords
<1>3. TypeOKRecords  BY <1>1, <1>2 DEF InitRecords, TypeOKRecords, Kinds
<1> QED  BY <1>1, <1>2, <1>3
         DEF Sound, Prepared, AtMostOne, RowOrTaken, TakenOrTwins, SaveAt

LEMMA SoundStep == Sound /\ [NextRecords]_recordVars => Sound'
<1> SUFFICES ASSUME Sound, [NextRecords]_recordVars PROVE Sound'  OBVIOUS
<1>1. ASSUME NEW p \in Calls, NEW body \in Bodies \cup {Nothing}, BeginSave(p, body) PROVE Sound'
  BY <1>1, BeginForm, SaveStep DEF BeginSave
<1>2. ASSUME NEW p \in Calls, CheckRoster(p) PROVE Sound'
  <2>1. CASE enrolled
    <3>1. GoesOn(p, "read") /\ ~SaveAt(p, "idle")
      BY <1>2, <2>1 DEF CheckRoster, GoesOn, SaveAt
    <3>2. "read" \in SaveStages  BY DEF SaveStages
    <3> QED  BY <3>1, <3>2, StageStep
  <2>2. CASE ~enrolled  BY <1>2, <2>2, EndStep DEF CheckRoster
  <2> QED  BY <2>1, <2>2
<1>3. ASSUME NEW p \in Calls, ReadCell(p) PROVE Sound'
  <2>1. UNCHANGED <<kind, cell, enrolled>> /\ SaveAt(p, "read")  BY <1>3 DEF ReadCell
  <2>2. PICK r \in Save :
              /\ save' = [save EXCEPT ![p] = r]
              /\ r.body = save[p].body
              /\ \/ /\ DOMAIN cell = {} /\ r.body = Nothing /\ r.took /\ r.stage = "done"
                 \/ r.body \in Bodies /\ r.took = save[p].took /\ r.stage = "insert"
                 \/ /\ r.took = save[p].took /\ r.row \in DOMAIN cell
                    /\ r.stage = IF r.body = Nothing THEN "delete" ELSE "update"
    BY <1>3, ReadForm
  <2>3. r.body \in Bodies \cup {Nothing}  BY DEF Save
  <2>4. r.body = Nothing => Clearable  BY <2>1, <2>2 DEF Sound, Prepared, SaveAt
  <2> QED  BY <2>1, <2>2, <2>3, <2>4, SaveStep
<1>4. ASSUME NEW p \in Calls, NEW i \in DOMAIN cell, UNCHANGED <<kind, cell, enrolled>>,
             SaveAt(p, "reread"), save' = [save EXCEPT ![p].stage = "update", ![p].row = i]
      PROVE  Sound'
  <2>1. PICK r \in Save : /\ save' = [save EXCEPT ![p] = r]
                          /\ r.stage = "update" /\ r.body = save[p].body /\ r.row = i
    BY <1>4, RereadForm
  <2>2. r.body \in Bodies  BY <1>4, <2>1 DEF Sound, Prepared, SaveAt
  <2> QED  BY <1>4, <2>1, <2>2, RecordAssumption, SaveStep
<1>5. ASSUME NEW p \in Calls, RereadCell(p) PROVE Sound'  BY <1>4, <1>5, EndStep DEF RereadCell
<1>6. ASSUME NEW p \in Calls, InsertWithoutIndex(p), Unique => DOMAIN cell = {} PROVE Sound'
  <2>1. PICK ids \in SUBSET RowIds : \E rows \in [ids -> Bodies] :
              /\ Writes(p, rows, "done")
              /\ Shown(rows) = save[p].body
              /\ DOMAIN cell = {} => AtMostOne(ids)
    BY <1>6, InsertForm
  <2>2. ~SaveAt(p, "idle")  BY <1>6 DEF InsertWithoutIndex, SaveAt
  <2> QED  BY <1>6, <2>1, <2>2, WritesStep
<1>7. ASSUME NEW p \in Calls, InsertRow(p) PROVE Sound'
  <2>1. CASE Unique /\ DOMAIN cell # {}
    <3>1. CASE kind = "grade"
      <4>1. GoesOn(p, "reread") /\ SaveAt(p, "insert") /\ ~SaveAt(p, "idle")
        BY <1>7, <2>1, <3>1 DEF InsertRow, GoesOn, SaveAt
      <4>2. save[p].body \in Bodies  BY <4>1 DEF Sound, Prepared, SaveAt
      <4>3. "reread" \in SaveStages  BY DEF SaveStages
      <4> QED  BY <4>1, <4>2, <4>3, StageStep
    <3>2. CASE kind # "grade"  BY <1>7, <2>1, <3>2, EndStep DEF InsertRow
    <3> QED  BY <3>1, <3>2
  <2>2. CASE ~(Unique /\ DOMAIN cell # {})
    <3>1. InsertWithoutIndex(p)  BY <1>7, <2>2 DEF InsertRow
    <3> QED  BY <1>6, <2>2, <3>1
  <2> QED  BY <2>1, <2>2
<1>8. ASSUME NEW p \in Calls, UpdateRow(p) PROVE Sound'
  <2>0. SaveAt(p, "update") /\ ~SaveAt(p, "idle")  BY <1>8 DEF UpdateRow, SaveAt
  <2>1. CASE save[p].row \in DOMAIN cell
    <3>1. PICK rows \in [DOMAIN cell -> Bodies] :
              /\ Writes(p, rows, "done")
              /\ AtMostOne(DOMAIN cell) => Shown(rows) = save[p].body
      BY <1>8, <2>1, UpdateForm
    <3>2. DOMAIN cell \in SUBSET RowIds  BY DEF Sound, TypeOKRecords
    <3>3. Unique => AtMostOne(DOMAIN cell)  BY DEF Sound
    <3>4. AtMostOne(DOMAIN cell) \/ Twins(DOMAIN cell)  BY DEF AtMostOne, Twins
    <3> QED  BY <2>0, <3>1, <3>2, <3>3, <3>4, WritesStep
  <2>2. CASE save[p].row \notin DOMAIN cell
    <3>1. GoesOn(p, "done")  BY <1>8, <2>2 DEF UpdateRow, GoesOn
    <3>2. "done" \in SaveStages  BY DEF SaveStages
    <3>3. save[p].took  BY <2>0, <2>2 DEF Sound, RowOrTaken, SaveAt
    <3> QED  BY <2>0, <3>1, <3>2, <3>3, StageStep
  <2> QED  BY <2>1, <2>2
<1>9. ASSUME NEW p \in Calls, DeleteRow(p) PROVE Sound'
  <2>0. ~SaveAt(p, "idle")  BY <1>9 DEF DeleteRow, SaveAt
  <2>1. save[p].body = Nothing  BY <1>9, DeleteForm
  <2> DEFINE Leaves(ids, rows) == /\ Writes(p, rows, "done")
                                  /\ AtMostOne(ids)
                                  /\ Shown(rows) = Nothing \/ (rows = cell /\ save[p].took)
  <2>2. PICK ids \in SUBSET RowIds : \E rows \in [ids -> Bodies] : Leaves(ids, rows)
    BY <1>9, DeleteForm
  <2>3. PICK rows \in [ids -> Bodies] : Leaves(ids, rows)  BY <2>2
  <2>4. rows = cell => DOMAIN cell \subseteq ids  OBVIOUS
  <2> QED  BY <2>0, <2>1, <2>3, <2>4, WritesStep
<1>10. ASSUME NEW p \in Calls, Reply(p) PROVE Sound'  BY <1>10, EndStep DEF Reply
<1>11. ASSUME NEW p \in Calls, BreakSave(p) PROVE Sound'  BY <1>11, EndStep DEF BreakSave
<1>12. ASSUME UNCHANGED <<kind, cell, save>>, enrolled' \in BOOLEAN PROVE Sound'
  BY <1>12 DEF Sound, TypeOKRecords, Prepared, RowOrTaken, TakenOrTwins, SaveAt, Unique, Clearable
<1>13. CASE Drop  BY <1>12, <1>13 DEF Drop
<1>14. CASE UNCHANGED recordVars  BY <1>12, <1>14 DEF recordVars, Sound, TypeOKRecords
<1> QED  BY <1>1, <1>2, <1>3, <1>5, <1>7, <1>8, <1>9, <1>10, <1>11, <1>13, <1>14 DEF NextRecords

\* A note that was reported as saved and is not what a reader sees is one of twins, whatever the
\* number of saves at once (upsertSharedNoteCore, lesson-note-core.ts:19-42).
THEOREM NotesLostOnlyAmongTwins == SpecRecords => []NoteLostOnlyAmongTwins
<1>1. SpecRecords => []Sound  BY SoundInit, SoundStep, PTL DEF SpecRecords
<1>2. Sound => NoteLostOnlyAmongTwins
  <2> SUFFICES ASSUME Sound, NEW p \in Calls, SaveAt(p, "done"), ~save[p].took
               PROVE  Cardinality(DOMAIN cell) > 1
    BY DEF NoteLostOnlyAmongTwins
  <2>1. PICK i, j \in DOMAIN cell : i # j  BY DEF Sound, TakenOrTwins, Twins
  <2>2. IsFiniteSet(DOMAIN cell)
    <3>1. IsFiniteSet(1..MaxRow)  BY RecordAssumption, FS_Interval
    <3>2. DOMAIN cell \subseteq 1..MaxRow  BY DEF Sound, TypeOKRecords, RowIds
    <3> QED  BY <3>1, <3>2, FS_Subset
  <2>3. {i, j} \subseteq DOMAIN cell  OBVIOUS
  <2>4. Cardinality({i, j}) = 2
    <3>1. IsFiniteSet({i}) /\ Cardinality({i}) = 1  BY FS_Singleton
    <3>2. {i, j} = {i} \cup {j} /\ j \notin {i}  BY <2>1
    <3> QED  BY <3>1, <3>2, FS_AddElement
  <2>5. Cardinality({i, j}) <= Cardinality(DOMAIN cell) /\ Cardinality(DOMAIN cell) \in Nat
    BY <2>2, <2>3, FS_Subset, FS_CardinalityType
  <2> QED  BY <2>4, <2>5
<1> QED  BY <1>1, <1>2, PTL

-----------------------------------------------------------------------------
(* The refinement: attendance and grades are registers.                    *)

LEMMA NoIndexNoRegister ==
    ASSUME ~Unique, kind' = kind
    PROVE  UNCHANGED Cell!registerVars
<1>1. ~Unique'  BY DEF Unique
<1>2. \A s : Writer(s) = [on |-> FALSE, ok |-> FALSE]  BY DEF Writer
<1>3. \A s : Writer(s)' = [on |-> FALSE, ok |-> FALSE]  BY <1>1 DEF Writer
<1> QED  BY <1>1, <1>2, <1>3 DEF Cell!registerVars, CellValue, CellWriters

LEMMA WriterForms ==
    ASSUME Unique, NEW s \in Save
    PROVE  /\ s.stage = "idle" => Writer(s) = Cell!Off(s.ok)
           /\ s.stage # "idle" => Writer(s) = [on |-> TRUE, arg |-> s.body, took |-> s.took]
BY DEF Writer, Cell!Off, Save

\* What a step of one call's local variables is to the register.
LEMMA OneWriterStep ==
    ASSUME Sound, Unique, NEW p \in Calls, NEW r \in Save, save' = [save EXCEPT ![p] = r],
           UNCHANGED <<kind, cell, enrolled>>
    PROVE  /\ CellValue' = CellValue
           /\ CellWriters' = [CellWriters EXCEPT ![p] = Writer(r)]
           /\ CellWriters[p] = Writer(save[p])
<1>1. Unique' = Unique  BY DEF Unique
<1>2. \A s : Writer(s)' = Writer(s)  BY <1>1 DEF Writer
<1>3. save \in [Calls -> Save]  BY DEF Sound, TypeOKRecords
<1>4. \A q \in Calls : save'[q] = IF q = p THEN r ELSE save[q]  BY <1>3
<1>5. CellWriters' = [q \in Calls |-> Writer(save'[q])]  BY <1>1 DEF CellWriters, Writer
<1>6. CellWriters' = [q \in Calls |-> IF q = p THEN Writer(r) ELSE Writer(save[q])]
  BY <1>4, <1>5
<1>7. [CellWriters EXCEPT ![p] = Writer(r)]
         = [q \in Calls |-> IF q = p THEN Writer(r) ELSE Writer(save[q])]
  BY DEF CellWriters
<1>8. CellValue' = CellValue  BY <1>1 DEF CellValue, Shown
<1> QED  BY <1>6, <1>7, <1>8 DEF CellWriters

\* A save that goes on as it was is not seen.
LEMMA Unseen ==
    ASSUME Sound, Unique, NEW p \in Calls, NEW r \in Save, save' = [save EXCEPT ![p] = r],
           UNCHANGED <<kind, cell, enrolled>>, ~SaveAt(p, "idle"), r.stage # "idle",
           r.body = save[p].body, r.took = save[p].took
    PROVE  UNCHANGED Cell!registerVars
<1>1. save[p] \in Save  BY DEF Sound, TypeOKRecords
<1>2. Writer(r) = Writer(save[p])  BY <1>1, WriterForms DEF SaveAt
<1>3. CellWriters' = [CellWriters EXCEPT ![p] = CellWriters[p]] /\ CellValue' = CellValue
  BY <1>2, OneWriterStep
<1>4. [CellWriters EXCEPT ![p] = CellWriters[p]] = CellWriters  BY DEF CellWriters
<1> QED  BY <1>3, <1>4 DEF Cell!registerVars

LEMMA UnseenStage ==
    ASSUME Sound, Unique, NEW p \in Calls, NEW st \in SaveStages \ {"idle"}, GoesOn(p, st),
           ~SaveAt(p, "idle")
    PROVE  UNCHANGED Cell!registerVars
<1>1. save[p] \in Save  BY DEF Sound, TypeOKRecords
<1> DEFINE r == [save[p] EXCEPT !.stage = st]
<1>2. r \in Save /\ r.stage # "idle" /\ r.body = save[p].body /\ r.took = save[p].took
  BY <1>1 DEF Save
<1>3. save' = [save EXCEPT ![p] = r] /\ UNCHANGED <<kind, cell, enrolled>>  BY DEF GoesOn
<1> HIDE DEF r
<1> QED  BY <1>2, <1>3, Unseen

\* A save that ends answers; with success it has to have taken effect.
LEMMA EndSeen ==
    ASSUME Sound, Unique, NEW p \in Calls, NEW ok \in BOOLEAN, EndSave(p, ok),
           UNCHANGED <<kind, cell, enrolled>>, ~SaveAt(p, "idle"), ok => save[p].took
    PROVE  Cell!RegisterNext
<1>1. save[p] \in Save  BY DEF Sound, TypeOKRecords
<1>2. /\ CellWriters[p] = [on |-> TRUE, arg |-> save[p].body, took |-> save[p].took]
      /\ CellWriters' = [CellWriters EXCEPT ![p] = Cell!Off(ok)]
      /\ CellValue' = CellValue
  <2>1. Writer(save[p]) = [on |-> TRUE, arg |-> save[p].body, took |-> save[p].took]
    BY <1>1, WriterForms DEF SaveAt
  <2>2. NoSave(ok) \in Save /\ NoSave(ok).stage = "idle"  BY EndIsSave
  <2>3. NoSave(ok).ok = ok  BY DEF NoSave
  <2>4. Writer(NoSave(ok)) = Cell!Off(ok)  BY <2>2, <2>3, WriterForms
  <2>5. save' = [save EXCEPT ![p] = NoSave(ok)]  BY DEF EndSave
  <2> QED  BY <2>1, <2>2, <2>4, <2>5, OneWriterStep
<1>3. CellWriters[p].on /\ (ok => CellWriters[p].took)  BY <1>2
<1>4. CASE ok = TRUE  BY <1>2, <1>3, <1>4 DEF Cell!Acknowledge, Cell!RegisterNext
<1>5. CASE ok = FALSE  BY <1>2, <1>3, <1>5 DEF Cell!Fail, Cell!RegisterNext
<1> QED  BY <1>4, <1>5

LEMMA IdsTaken ==
    ASSUME NEW a, NEW t, NEW w, w = [on |-> TRUE, arg |-> a, took |-> t]
    PROVE  [w EXCEPT !.took = TRUE] = [on |-> TRUE, arg |-> a, took |-> TRUE]
<1>1. w \in [on : {TRUE}, arg : {a}, took : {t}]  OBVIOUS
<1> DEFINE x == [w EXCEPT !.took = TRUE]
<1>2. x \in [on : {TRUE}, arg : {a}, took : {TRUE}]  BY <1>1
<1> HIDE DEF x
<1>3. x = [on |-> TRUE, arg |-> a, took |-> TRUE]  BY <1>2
<1> QED  BY <1>3 DEF x

\* A statement whose body is shown takes effect, and absorbs the saves it overlaps.
LEMMA WritesSeen ==
    ASSUME Sound, Unique, NEW p \in Calls, ~SaveAt(p, "idle"), NEW rows, Writes(p, rows, "done"),
           Shown(rows) = save[p].body
    PROVE  Cell!RegisterNext
<1> DEFINE s(q) == [save[q] EXCEPT !.stage = IF q = p THEN "done" ELSE @,
                                   !.took = @ \/ (~SaveAt(q, "idle") /\ Shown(rows) = save[p].body)]
           on(q) == [on |-> TRUE, arg |-> save[q].body, took |-> TRUE]
<1>1. ASSUME NEW q \in Calls
      PROVE  /\ save[q] \in Save /\ s(q) \in Save
             /\ SaveAt(q, "idle") => s(q).stage = "idle" /\ s(q).ok = save[q].ok
             /\ ~SaveAt(q, "idle") => s(q).stage # "idle" /\ s(q).body = save[q].body /\ s(q).took = TRUE
  <2>1. save[q] \in Save  BY DEF Sound, TypeOKRecords
  <2>2. "done" \in SaveStages  BY DEF SaveStages
  <2>3. (save[q].took \/ (~SaveAt(q, "idle") /\ Shown(rows) = save[p].body)) \in BOOLEAN
    BY <2>1 DEF Save
  <2> QED  BY <2>1, <2>2, <2>3 DEF Save, SaveAt
<1>2. save' = [q \in Calls |-> s(q)] /\ cell' = rows /\ UNCHANGED <<kind, enrolled>>
  BY DEF Writes
<1> HIDE DEF s
<1>3. Unique' = Unique /\ \A r : Writer(r)' = Writer(r)  BY <1>2 DEF Unique, Writer
<1>4. ASSUME NEW q \in Calls, ~SaveAt(q, "idle")
      PROVE  /\ CellWriters[q].on /\ CellWriters[q].arg = save[q].body
             /\ [CellWriters[q] EXCEPT !.took = TRUE] = on(q)
             /\ Writer(s(q)) = on(q)
  <2>1. CellWriters[q] = [on |-> TRUE, arg |-> save[q].body, took |-> save[q].took]
    BY <1>1, <1>4, WriterForms DEF CellWriters, SaveAt
  <2>2. Writer(s(q)) = [on |-> TRUE, arg |-> s(q).body, took |-> s(q).took]
    BY <1>1, <1>4, WriterForms
  <2>3. s(q).body = save[q].body /\ s(q).took = TRUE  BY <1>1, <1>4
  <2>4. Writer(s(q)) = on(q)  BY <2>2, <2>3
  <2>5. CellWriters[q].on /\ CellWriters[q].arg = save[q].body  BY <2>1
  <2>6. [CellWriters[q] EXCEPT !.took = TRUE] = on(q)  BY <2>1, IdsTaken, Zenon
  <2> QED  BY <2>4, <2>5, <2>6
<1>5. ASSUME NEW q \in Calls, SaveAt(q, "idle")
      PROVE  /\ ~CellWriters[q].on
             /\ Writer(s(q)) = CellWriters[q]
  <2>1. CellWriters[q] = Cell!Off(save[q].ok)
    BY <1>1, <1>5, WriterForms DEF CellWriters, SaveAt
  <2>2. Writer(s(q)) = Cell!Off(s(q).ok)  BY <1>1, <1>5, WriterForms
  <2>3. s(q).ok = save[q].ok  BY <1>1, <1>5
  <2>4. ~Cell!Off(save[q].ok).on  BY DEF Cell!Off
  <2> QED  BY <2>1, <2>2, <2>3, <2>4
<1> HIDE DEF on
<1>6. CellWriters' = [q \in Calls |-> Writer(s(q))]
  BY <1>2, <1>3 DEF CellWriters, Writer
<1>7. ASSUME NEW q \in Calls
      PROVE  Writer(s(q)) = IF q \in Cell!Busy \cup {p} THEN [CellWriters[q] EXCEPT !.took = TRUE]
                                                       ELSE CellWriters[q]
  <2>1. CASE SaveAt(q, "idle")
    <3>1. q \notin Cell!Busy \cup {p}  BY <1>5, <2>1 DEF Cell!Busy
    <3> QED  BY <1>5, <2>1, <3>1
  <2>2. CASE ~SaveAt(q, "idle")
    <3>1. q \in Cell!Busy  BY <1>4, <2>2 DEF Cell!Busy
    <3> QED  BY <1>4, <2>2, <3>1
  <2> QED  BY <2>1, <2>2
<1>8. CellWriters' = [q \in Calls |-> IF q \in Cell!Busy \cup {p}
                                      THEN [CellWriters[q] EXCEPT !.took = TRUE]
                                      ELSE CellWriters[q]]
  BY <1>6, <1>7
<1>9. CellValue' = CellWriters[p].arg /\ CellWriters[p].on
  <2>1. CellValue' = Shown(rows)  BY <1>2, <1>3 DEF CellValue, Shown
  <2> QED  BY <1>4, <2>1
<1>10. Cell!Busy \in SUBSET Cell!Busy  OBVIOUS
<1> QED  BY <1>8, <1>9, <1>10 DEF Cell!Take, Cell!RegisterNext

\* The delete of a row that is gone changes nothing and takes nothing.
LEMMA DeleteUnseen ==
    ASSUME Sound, Unique, NEW p \in Calls, ~SaveAt(p, "idle"), Writes(p, cell, "done"),
           save[p].took, Shown(cell) # save[p].body
    PROVE  UNCHANGED Cell!registerVars
<1>1. save \in [Calls -> Save] /\ save[p].took \in BOOLEAN
  BY DEF Sound, TypeOKRecords, Save
<1>2. \A q \in Calls : (save[q].took \/ (~SaveAt(q, "idle") /\ Shown(cell) = save[p].body)) = save[q].took
  BY <1>1 DEF Save
<1>3. save' = [q \in Calls |-> [save[q] EXCEPT !.stage = IF q = p THEN "done" ELSE save[q].stage]]
  BY <1>1, <1>2 DEF Writes, Save
<1>4. save' = [save EXCEPT ![p].stage = "done"]  BY <1>1, <1>3 DEF Save
<1>5. GoesOn(p, "done")  BY <1>4 DEF GoesOn, Writes
<1>6. "done" \in SaveStages \ {"idle"}  BY DEF SaveStages
<1> QED  BY <1>5, <1>6, UnseenStage

LEMMA RegisterInitially == InitRecords => Cell!RegisterInit
<1> SUFFICES ASSUME InitRecords PROVE Cell!RegisterInit  OBVIOUS
<1>1. CellValue = Nothing  BY DEF InitRecords, CellValue, Shown
<1>2. ASSUME NEW p \in Calls PROVE Writer(save[p]) = Cell!Off(FALSE)
  <2>1. save[p] = NoSave(FALSE)  BY DEF InitRecords
  <2>2. NoSave(FALSE).stage = "idle" /\ NoSave(FALSE).ok = FALSE  BY DEF NoSave
  <2>3. (Unique /\ NoSave(FALSE).ok) = FALSE  BY <2>2
  <2> QED  BY <2>1, <2>2, <2>3 DEF Writer, Cell!Off
<1>3. CellWriters = [p \in Calls |-> Cell!Off(FALSE)]  BY <1>2 DEF CellWriters
<1> QED  BY <1>1, <1>3 DEF Cell!RegisterInit

LEMMA RegisterStep == Sound /\ [NextRecords]_recordVars => [Cell!RegisterNext]_Cell!registerVars
<1> SUFFICES ASSUME Sound, [NextRecords]_recordVars
             PROVE  Cell!RegisterNext \/ UNCHANGED Cell!registerVars
  OBVIOUS
<1>0. kind' = kind
  BY DEF NextRecords, recordVars, BeginSave, CheckRoster, ReadCell, InsertRow, InsertWithoutIndex,
         RereadCell, UpdateRow, DeleteRow, Reply, BreakSave, Drop, Writes
<1>a. CASE ~Unique  BY <1>0, <1>a, NoIndexNoRegister
<1>b. CASE Unique
  <2> USE <1>b
  <2>1. ASSUME NEW p \in Calls, NEW body \in Bodies \cup {Nothing}, BeginSave(p, body)
        PROVE  Cell!RegisterNext
    <3>1. PICK r \in Save : /\ save' = [save EXCEPT ![p] = r]
                            /\ r.stage \in {"check", "read"} /\ r.body = body /\ ~r.took
      BY <2>1, BeginForm
    <3>2. SaveAt(p, "idle") /\ UNCHANGED <<kind, cell, enrolled>>  BY <2>1 DEF BeginSave
    <3>3. save[p] \in Save  BY DEF Sound, TypeOKRecords
    <3>4. Writer(save[p]) = Cell!Off(save[p].ok)  BY <3>2, <3>3, WriterForms DEF SaveAt
    <3>5. r.took = FALSE  BY <3>1 DEF Save
    <3>6. Writer(r) = Cell!On(body)  BY <3>1, <3>5, WriterForms DEF Cell!On
    <3>7. /\ CellWriters' = [CellWriters EXCEPT ![p] = Cell!On(body)]
          /\ CellWriters[p] = Cell!Off(save[p].ok)
          /\ CellValue' = CellValue
      BY <3>1, <3>2, <3>4, <3>6, OneWriterStep
    <3>8. CellWriters'[p] = Cell!On(body)  BY <3>7 DEF CellWriters
    <3>9. ~CellWriters[p].on /\ CellWriters'[p].on  BY <3>7, <3>8 DEF Cell!On, Cell!Off
    <3> QED  BY <3>7, <3>9 DEF Cell!Begin, Cell!RegisterNext
  <2>2. ASSUME NEW p \in Calls, CheckRoster(p)
        PROVE  Cell!RegisterNext \/ UNCHANGED Cell!registerVars
    <3>0. ~SaveAt(p, "idle")  BY <2>2 DEF CheckRoster, SaveAt
    <3>1. CASE enrolled
      <4>1. GoesOn(p, "read") /\ "read" \in SaveStages \ {"idle"}
        BY <2>2, <3>1 DEF CheckRoster, GoesOn, SaveStages
      <4> QED  BY <3>0, <4>1, UnseenStage
    <3>2. CASE ~enrolled  BY <2>2, <3>0, <3>2, EndSeen DEF CheckRoster
    <3> QED  BY <3>1, <3>2
  <2>3. ASSUME NEW p \in Calls, ReadCell(p)
        PROVE  Cell!RegisterNext \/ UNCHANGED Cell!registerVars
    <3>0. ~SaveAt(p, "idle") /\ UNCHANGED <<kind, cell, enrolled>>  BY <2>3 DEF ReadCell, SaveAt
    <3>1. PICK r \in Save :
              /\ save' = [save EXCEPT ![p] = r]
              /\ r.body = save[p].body
              /\ \/ /\ DOMAIN cell = {} /\ r.body = Nothing /\ r.took /\ r.stage = "done"
                 \/ r.body \in Bodies /\ r.took = save[p].took /\ r.stage = "insert"
                 \/ /\ r.took = save[p].took /\ r.row \in DOMAIN cell
                    /\ r.stage = IF r.body = Nothing THEN "delete" ELSE "update"
      BY <2>3, ReadForm
    <3>2. CASE r.took = save[p].took
      <4>1. r.stage # "idle"  BY <3>1
      <4> QED  BY <3>0, <3>1, <3>2, <4>1, Unseen
    <3>3. CASE DOMAIN cell = {} /\ r.body = Nothing /\ r.took /\ r.stage = "done"
      <4>1. save[p] \in Save /\ r.took = TRUE  BY <3>3 DEF Sound, TypeOKRecords, Save
      <4>2. Writer(save[p]) = [on |-> TRUE, arg |-> Nothing, took |-> save[p].took]
        BY <3>0, <3>1, <3>3, <4>1, WriterForms DEF SaveAt
      <4>3. Writer(r) = [on |-> TRUE, arg |-> Nothing, took |-> TRUE]
        BY <3>3, <4>1, WriterForms
      <4>4. /\ CellWriters[p] = [on |-> TRUE, arg |-> Nothing, took |-> save[p].took]
            /\ CellWriters' = [CellWriters EXCEPT ![p] = [on |-> TRUE, arg |-> Nothing, took |-> TRUE]]
            /\ CellValue' = CellValue
        BY <3>0, <3>1, <4>2, <4>3, OneWriterStep
      <4>5. CellValue = Nothing  BY <3>3 DEF CellValue, Shown
      <4>6. [on |-> TRUE, arg |-> Nothing, took |-> TRUE] = [CellWriters[p] EXCEPT !.took = TRUE]
        BY <4>4, IdsTaken, Zenon
      <4>7. CellWriters[p].on /\ CellWriters[p].arg = Nothing  BY <4>4
      <4>8. CellWriters' = [u \in Calls |-> IF u \in {} \cup {p}
                                            THEN [CellWriters[u] EXCEPT !.took = TRUE]
                                            ELSE CellWriters[u]]
        BY <4>4, <4>6 DEF CellWriters
      <4>9. {} \in SUBSET Cell!Busy  OBVIOUS
      <4>10. Cell!Take(p)  BY <4>4, <4>5, <4>7, <4>8, <4>9 DEF Cell!Take
      <4> QED  BY <4>7, <4>10 DEF Cell!RegisterNext
    <3> QED  BY <3>1, <3>2, <3>3
  <2>4. ASSUME NEW p \in Calls, InsertRow(p)
        PROVE  Cell!RegisterNext \/ UNCHANGED Cell!registerVars
    <3>0. ~SaveAt(p, "idle")  BY <2>4 DEF InsertRow, InsertWithoutIndex, SaveAt
    <3>1. CASE DOMAIN cell # {} /\ kind = "grade"
      <4>1. GoesOn(p, "reread") /\ "reread" \in SaveStages \ {"idle"}
        BY <2>4, <3>1 DEF InsertRow, GoesOn, SaveStages
      <4> QED  BY <3>0, <4>1, UnseenStage
    <3>2. CASE DOMAIN cell # {} /\ kind # "grade"  BY <2>4, <3>0, <3>2, EndSeen DEF InsertRow
    <3>3. CASE DOMAIN cell = {}
      <4>1. InsertWithoutIndex(p)  BY <2>4, <3>3 DEF InsertRow
      <4>2. PICK ids \in SUBSET RowIds : \E rows \in [ids -> Bodies] :
                Writes(p, rows, "done") /\ Shown(rows) = save[p].body
        BY <4>1, InsertForm
      <4> QED  BY <3>0, <4>2, WritesSeen
    <3> QED  BY <3>1, <3>2, <3>3
  <2>5. ASSUME NEW p \in Calls, RereadCell(p)
        PROVE  Cell!RegisterNext \/ UNCHANGED Cell!registerVars
    <3>0. ~SaveAt(p, "idle") /\ UNCHANGED <<kind, cell, enrolled>>  BY <2>5 DEF RereadCell, SaveAt
    <3>1. CASE EndSave(p, FALSE)  BY <3>0, <3>1, EndSeen
    <3>2. ASSUME NEW i \in DOMAIN cell, save' = [save EXCEPT ![p].stage = "update", ![p].row = i]
          PROVE  UNCHANGED Cell!registerVars
      <4>1. PICK r \in Save : /\ save' = [save EXCEPT ![p] = r]
                              /\ r.stage = "update" /\ r.body = save[p].body /\ r.row = i
                              /\ r.took = save[p].took
        BY <3>2, RereadForm
      <4> QED  BY <3>0, <4>1, Unseen
    <3> QED  BY <2>5, <3>1, <3>2 DEF RereadCell
  <2>6. ASSUME NEW p \in Calls, UpdateRow(p)
        PROVE  Cell!RegisterNext \/ UNCHANGED Cell!registerVars
    <3>0. ~SaveAt(p, "idle") /\ AtMostOne(DOMAIN cell)  BY <2>6 DEF UpdateRow, SaveAt, Sound
    <3>1. CASE save[p].row \in DOMAIN cell  BY <2>6, <3>0, <3>1, UpdateForm, WritesSeen
    <3>2. CASE save[p].row \notin DOMAIN cell
      <4>1. GoesOn(p, "done") /\ "done" \in SaveStages \ {"idle"}
        BY <2>6, <3>2 DEF UpdateRow, GoesOn, SaveStages
      <4> QED  BY <3>0, <4>1, UnseenStage
    <3> QED  BY <3>1, <3>2
  <2>7. ASSUME NEW p \in Calls, DeleteRow(p)
        PROVE  Cell!RegisterNext \/ UNCHANGED Cell!registerVars
    <3>0. ~SaveAt(p, "idle")  BY <2>7 DEF DeleteRow, SaveAt
    <3>1. save[p].body = Nothing  BY <2>7, DeleteForm
    <3> DEFINE Leaves(rows) == /\ Writes(p, rows, "done")
                               /\ Shown(rows) = Nothing \/ (rows = cell /\ save[p].took)
    <3>2. PICK ids \in SUBSET RowIds : \E rows \in [ids -> Bodies] : Leaves(rows)
      BY <2>7, DeleteForm
    <3>3. PICK rows \in [ids -> Bodies] : Leaves(rows)  BY <3>2
    <3>4. CASE Shown(rows) = Nothing  BY <3>0, <3>1, <3>3, <3>4, WritesSeen
    <3>5. CASE Shown(rows) # Nothing
      <4>1. rows = cell /\ save[p].took  BY <3>3, <3>5
      <4> QED  BY <3>0, <3>1, <3>3, <3>5, <4>1, DeleteUnseen
    <3> QED  BY <3>4, <3>5
  <2>8. ASSUME NEW p \in Calls, Reply(p) PROVE Cell!RegisterNext
    <3>1. SaveAt(p, "done") /\ EndSave(p, TRUE) /\ UNCHANGED <<kind, cell, enrolled>>
      BY <2>8 DEF Reply
    <3>2. ~SaveAt(p, "idle")  BY <3>1 DEF SaveAt
    <3>3. save[p].took  BY <3>1 DEF Sound, TakenOrTwins, Twins, AtMostOne
    <3> QED  BY <3>1, <3>2, <3>3, EndSeen
  <2>9. ASSUME NEW p \in Calls, BreakSave(p) PROVE Cell!RegisterNext
    BY <2>9, EndSeen DEF BreakSave
  <2>10. ASSUME UNCHANGED <<kind, cell, save>> PROVE UNCHANGED Cell!registerVars
    <3>1. Unique' = Unique /\ \A r : Writer(r)' = Writer(r)  BY <2>10 DEF Unique, Writer
    <3> QED  BY <2>10, <3>1 DEF Cell!registerVars, CellValue, CellWriters, Writer, Shown
  <2> QED  BY <2>1, <2>2, <2>3, <2>4, <2>5, <2>6, <2>7, <2>8, <2>9, <2>10
           DEF NextRecords, Drop, recordVars
<1> QED  BY <1>a, <1>b

\* Attendance and the quick grade are registers, whatever saves overlap and break off: a save that
\* reports success took effect between its start and its answer, the recovery from 23505 and the
\* delete of a row that was read before included (teach/[sectionId]/data.ts:287-349,
\* attendance-actions.ts:66-103).
THEOREM AttendanceAndGradesAreRegisters == SpecRecords => CellsAreRegisters
<1>1. SpecRecords => []Sound  BY SoundInit, SoundStep, PTL DEF SpecRecords
<1> QED  BY <1>1, RegisterInitially, RegisterStep, PTL
         DEF SpecRecords, CellsAreRegisters, Cell!RegisterSpec

-----------------------------------------------------------------------------
(* The two forms of a lesson. Where a text differs from its baseline, from *)
(* what the pending save sent, or in the panel from what is stored, the    *)
(* history has the reason: somebody typed, or the page was stale, or the   *)
(* drawer was saved from before it had loaded. What goes into a baseline   *)
(* was read from the table, or is the answer of a save that is counted: it *)
(* is still on its way, and the queue is answered in order, so it is       *)
(* stored before the baseline is renewed.                                  *)

Values    == Texts \cup {Nothing}
Causes    == {"typed", "saved too early", "stale page", "none"}
WriteItem == [op : {"write"}, field : Fields, value : Values, counts : BOOLEAN, all : BOOLEAN,
              cause : Causes]
ReadItem  == [op : {"load", "refresh"}, counts : BOOLEAN]
Item      == WriteItem \cup ReadItem
EditsRow  == [typed : SUBSET Fields, stale : SUBSET Fields,
              early : SUBSET (Fields \ {"attendance"}), seen : [Fields -> SUBSET Values]]

EditorShape ==
    /\ form \in Forms
    /\ phase \in Phases
    /\ held \in [Fields -> Values] /\ text \in [Fields -> Values] /\ base \in [Fields -> Values]
    /\ queue \in Seq(Item) /\ Len(queue) <= MaxQueue
    /\ DOMAIN snapshot \in SUBSET Fields /\ snapshot \in [DOMAIN snapshot -> Values]
    /\ edits \in EditsRow

Awaited(it, op) == it.op = op /\ it.counts

\* A waiting save carries what the form shows, or somebody has typed since; the drawer loads and
\* the panel refreshes.
Fits(it) ==
    /\ it.op = "write" /\ it.all => it.cause # "none"
    /\ Awaited(it, "write") =>
          /\ phase # "closed"
          /\ form = "panel" => it.value = text[it.field] \/ it.field \in edits.typed
    /\ Awaited(it, "load") => phase = "loading"
    /\ it.op = "load" => form = "drawer"
    /\ it.op = "refresh" => form = "panel"

QueueFits == \A i \in 1..Len(queue) : Fits(queue[i])
OneLoad   == \A i, j \in 1..Len(queue) :
                 Awaited(queue[i], "load") /\ Awaited(queue[j], "load") => i = j

\* A text differs from the baseline, from what the pending save sent, or in the panel from what is
\* stored, only for a reason the history knows.
Explained(f) == \/ f \in edits.typed
                \/ form = "drawer" /\ f \in edits.early
                \/ form = "panel" /\ f \in edits.stale
TextsExplained ==
    /\ phase # "closed" => \A f \in Fields : text[f] = base[f] \/ Explained(f)
    /\ form = "drawer" /\ "attendance" \in Fields => text["attendance"] = base["attendance"]
    /\ form = "panel" /\ phase # "closed" =>
           \A f \in Fields : held[f] = text[f] \/ f \in edits.typed \cup edits.stale
SnapshotExplained ==
    /\ phase = "closed" => snapshot = << >>
    /\ phase = "loading" => DOMAIN snapshot \subseteq edits.early
    /\ \A f \in DOMAIN snapshot : \/ snapshot[f] = text[f]
                                  \/ f \in edits.typed
                                  \/ f \in edits.early
    /\ form = "drawer" /\ "attendance" \in DOMAIN snapshot =>
           DOMAIN snapshot = {"attendance"} \/ snapshot["attendance"] = text["attendance"]

\* What is stored, and a baseline that is not empty, has been seen stored.
Seen(f, v)     == v = Nothing \/ v \in edits.seen[f]
BaselinesSeen  == \A f \in Fields : held[f] \in edits.seen[f] /\ Seen(f, base[f])
\* What the drawer will put in its baseline has been seen stored, or is on its way.
SaveOnItsWay(f, v) == \E i \in 1..Len(queue) : /\ Awaited(queue[i], "write")
                                               /\ queue[i].field = f /\ queue[i].value = v
SnapshotComing == form = "drawer" => \A f \in DOMAIN snapshot :
                      Seen(f, snapshot[f]) \/ SaveOnItsWay(f, snapshot[f])

\* The inductive invariant.
Edited == /\ EditorShape
          /\ QueueFits
          /\ OneLoad
          /\ TextsExplained
          /\ SnapshotExplained
          /\ BaselinesSeen
          /\ SnapshotComing

-----------------------------------------------------------------------------
LEMMA InitEdited == InitEditor => Edited
<1> SUFFICES ASSUME InitEditor PROVE Edited  OBVIOUS
<1>1. Empty \in [Fields -> Values] /\ \A f \in Fields : Empty[f] = Nothing
  BY DEF Empty, Values
<1>2. edits \in EditsRow /\ \A f \in Fields : edits.seen[f] = {Nothing}
  BY DEF InitEditor, EditsRow, Values
<1>3. queue = << >> /\ Len(queue) = 0 /\ queue \in Seq(Item) /\ MaxQueue \in Nat
  BY EditorAssumption DEF InitEditor
<1>4. snapshot = << >> /\ DOMAIN snapshot = {} /\ snapshot \in [DOMAIN snapshot -> Values]
  BY DEF InitEditor
<1>5. /\ form \in Forms /\ phase = "closed" /\ held = Empty /\ text = Empty /\ base = Empty
      /\ phase \in Phases
  BY DEF InitEditor, Phases
<1>6. EditorShape  BY <1>1, <1>2, <1>3, <1>4, <1>5 DEF EditorShape
<1>7. QueueFits /\ OneLoad  BY <1>3 DEF QueueFits, OneLoad
<1>8. TextsExplained /\ SnapshotExplained /\ BaselinesSeen /\ SnapshotComing
  BY <1>1, <1>2, <1>4, <1>5
  DEF TextsExplained, SnapshotExplained, BaselinesSeen, SnapshotComing, Seen
<1> QED  BY <1>6, <1>7, <1>8 DEF Edited

LEMMA QueueNumbers ==
    ASSUME EditorShape
    PROVE  /\ MaxQueue \in Nat /\ Len(queue) \in Nat /\ queue \in Seq(Item)
           /\ DOMAIN queue = 1..Len(queue)
           /\ \A i \in 1..Len(queue) : queue[i] \in Item
BY EditorAssumption DEF EditorShape

\* What a waiting action is read by.
LEMMA Muted ==
    ASSUME NEW r \in Item, NEW b \in BOOLEAN
    PROVE  /\ [r EXCEPT !.counts = b] \in Item
           /\ [r EXCEPT !.counts = b].op = r.op
           /\ [r EXCEPT !.counts = b].counts = b
           /\ r.op = "write" => /\ [r EXCEPT !.counts = b].all = r.all
                                /\ [r EXCEPT !.counts = b].cause = r.cause
<1>1. CASE r \in WriteItem  BY <1>1 DEF Item, WriteItem, Causes
<1>2. CASE r \in ReadItem  BY <1>2 DEF Item, ReadItem
<1> QED  BY <1>1, <1>2 DEF Item

LEMMA OldItemFits ==
    ASSUME EditorShape, NEW it \in Item, Fits(it), form' = form,
           phase' = phase, edits.typed \subseteq edits'.typed,
           \A f \in Fields : text'[f] = text[f] \/ f \in edits'.typed
    PROVE  Fits(it)'
<1>1. it.op = "write" => it.field \in Fields  BY DEF Item, WriteItem, ReadItem
<1> QED  BY <1>1 DEF Fits, Awaited

\* A queue that grew at its end, over texts only typing changed.
LEMMA QueueGrows ==
    ASSUME Edited, NEW n \in Nat, NEW s \in [1..n -> Item], queue' = queue \o s,
           Len(queue) + n <= MaxQueue,
           form' = form, phase' = phase, edits.typed \subseteq edits'.typed,
           \A f \in Fields : text'[f] = text[f] \/ f \in edits'.typed,
           \A i \in 1..n : s[i].op = "write" /\ Fits(s[i])'
    PROVE  /\ queue' \in Seq(Item) /\ Len(queue') <= MaxQueue
           /\ QueueFits' /\ OneLoad'
           /\ Len(queue) \in Nat /\ Len(queue') = Len(queue) + n
           /\ \A i \in 1..Len(queue) : i \in 1..Len(queue') /\ queue'[i] = queue[i]
           /\ \A i \in 1..n : /\ Len(queue) + i \in 1..Len(queue')
                              /\ queue'[Len(queue) + i] = s[i]
<1>1. /\ MaxQueue \in Nat /\ Len(queue) \in Nat /\ queue \in Seq(Item)
      /\ \A i \in 1..Len(queue) : queue[i] \in Item
  BY QueueNumbers DEF Edited
<1>2. s \in Seq(Item) /\ Len(s) = n  OBVIOUS
<1>3. /\ queue' \in Seq(Item) /\ Len(queue') = Len(queue) + n
      /\ \A i \in 1..Len(queue) : queue'[i] = queue[i]
      /\ \A i \in 1..n : queue'[Len(queue) + i] = s[i]
  BY <1>1, <1>2
<1>4. /\ \A i \in 1..Len(queue) : i \in 1..Len(queue')
      /\ \A i \in 1..n : Len(queue) + i \in 1..Len(queue')
      /\ \A i \in 1..Len(queue') : i \in 1..Len(queue) \/ \E k \in 1..n : i = Len(queue) + k
  <2>1. ASSUME NEW i \in 1..Len(queue'), ~(i <= Len(queue))
        PROVE  \E k \in 1..n : i = Len(queue) + k
    <3>1. i - Len(queue) \in 1..n /\ i = Len(queue) + (i - Len(queue))  BY <1>1, <1>3, <2>1
    <3> QED  BY <3>1
  <2>2. PICK m \in Nat : m = Len(queue)  BY <1>1
  <2>3. Len(queue') = m + n  BY <1>3, <2>2
  <2>4. \A i \in 1..m : i \in 1..(m + n)  OBVIOUS
  <2>5. \A i \in 1..n : m + i \in 1..(m + n)  BY <2>2
  <2>6. \A i \in 1..(m + n) : ~(i <= m) => \E k \in 1..n : i = m + k
    BY <2>1, <2>2, <2>3
  <2>7. \A i \in 1..(m + n) : i <= m => i \in 1..m  OBVIOUS
  <2> QED  BY <2>2, <2>3, <2>4, <2>5, <2>6, <2>7
<1>6. QueueFits'
  <2> SUFFICES ASSUME NEW i \in 1..Len(queue') PROVE Fits(queue[i])'  BY DEF QueueFits
  <2>1. CASE i \in 1..Len(queue)
    <3>1. PICK it : it = queue[i]  OBVIOUS
    <3>2. Fits(it)' /\ queue'[i] = it  BY <1>1, <1>3, <2>1, <3>1, OldItemFits DEF Edited, QueueFits
    <3> QED  BY <3>2 DEF Fits
  <2>2. CASE \E k \in 1..n : i = Len(queue) + k
    <3>1. PICK k \in 1..n : i = Len(queue) + k  BY <2>2
    <3>2. PICK it : it = s[k]  OBVIOUS
    <3>3. Fits(it)' /\ queue'[i] = it  BY <1>3, <3>1, <3>2
    <3> QED  BY <3>3 DEF Fits
  <2> QED  BY <1>4, <2>1, <2>2
<1>7. OneLoad'
  <2>1. \A i \in 1..Len(queue') : Awaited(queue'[i], "load") => i \in 1..Len(queue)
    BY <1>3, <1>4 DEF Awaited
  <2> QED  BY <1>3, <2>1 DEF Edited, OneLoad
<1> QED  BY <1>1, <1>3, <1>4, <1>6, <1>7

LEMMA QueueShrinks ==
    ASSUME EditorShape, queue # << >>
    PROVE  /\ Head(queue) = queue[1] /\ queue[1] \in Item /\ 1 \in 1..Len(queue)
           /\ Tail(queue) \in Seq(Item) /\ Len(Tail(queue)) <= MaxQueue
           /\ Len(Tail(queue)) + 1 = Len(queue)
           /\ \A i \in 1..Len(Tail(queue)) : /\ Tail(queue)[i] = queue[i + 1]
                                             /\ i + 1 \in 1..Len(queue) /\ i + 1 # 1
           /\ \A i \in 1..Len(queue) : i # 1 => /\ i - 1 \in 1..Len(Tail(queue))
                                                /\ Tail(queue)[i - 1] = queue[i]
<1>1. queue \in Seq(Item) /\ MaxQueue \in Nat /\ Len(queue) <= MaxQueue
  BY EditorAssumption DEF EditorShape
<1>2. Head(queue) = queue[1] /\ queue[1] \in Item  BY <1>1
<1>3. Tail(queue) \in Seq(Item) /\ Len(Tail(queue)) = Len(queue) - 1 /\ Len(queue) \in Nat
      /\ Len(queue) >= 1
  BY <1>1
<1>4. \A i \in 1..Len(Tail(queue)) : Tail(queue)[i] = queue[i + 1]  BY <1>1
<1>5. PICK m \in Nat : m + 1 = Len(queue) /\ Len(Tail(queue)) = m
  <2>1. Len(queue) - 1 \in Nat /\ (Len(queue) - 1) + 1 = Len(queue)  BY <1>3
  <2> QED  BY <1>3, <2>1
<1>6. Len(Tail(queue)) = m  BY <1>5
<1>7. \A i \in 1..(m + 1) : i # 1 => i - 1 \in 1..m /\ (i - 1) + 1 = i
  BY <1>5
<1> QED  BY <1>1, <1>2, <1>3, <1>4, <1>5, <1>6, <1>7

\* An action nobody waits for any more, or a read, fits whatever is typed.
LEMMA UncountedFits ==
    ASSUME NEW it, Fits(it), form' = form, ~Awaited(it, "write"),
           Awaited(it, "load") => phase' = "loading"
    PROVE  Fits(it)'
BY DEF Fits, Awaited

LEMMA ClosedQuiet ==
    ASSUME Edited, phase = "closed"
    PROVE  /\ snapshot = << >>
           /\ \A i \in 1..Len(queue) : ~Awaited(queue[i], "write") /\ ~Awaited(queue[i], "load")
BY DEF Edited, QueueFits, Fits, SnapshotExplained

LEMMA OpenFormStep ==
    ASSUME Edited, OpenForm
    PROVE  Edited'
<1> DEFINE late == {f \in Fields : base[f] # held[f]}
<1>1. /\ phase = "closed" /\ Len(queue) < MaxQueue /\ UNCHANGED <<form, held, snapshot>>
      /\ edits' = FreshEdits
  BY DEF OpenForm
<1>2. EditorShape /\ edits \in EditsRow  BY DEF Edited, EditorShape
<1>3. /\ edits' \in EditsRow /\ edits'.typed = {} /\ edits'.early = {}
      /\ edits'.stale = edits.stale \cup late
      /\ edits'.seen = IF form = "drawer" THEN [f \in Fields |-> {held[f]}] ELSE edits.seen
  BY <1>1, <1>2 DEF FreshEdits, EditsRow, EditorShape
<1>4. /\ snapshot' = << >> /\ DOMAIN snapshot' = {}
      /\ \A i \in 1..Len(queue) : ~Awaited(queue[i], "write") /\ ~Awaited(queue[i], "load")
  BY <1>1, ClosedQuiet
<1>5. SnapshotExplained' /\ SnapshotComing'
  <2>1. phase' # "closed"  BY DEF OpenForm
  <2> QED  BY <1>4, <2>1 DEF SnapshotExplained, SnapshotComing
<1>6. CASE form = "drawer"
  <2> DEFINE w == Reader("load")
  <2>1. /\ phase' = "loading" /\ text' = Empty /\ base' = Empty /\ queue' = Append(queue, w)
    BY <1>6 DEF OpenForm
  <2>2. w \in Item /\ w.op = "load" /\ w.counts  BY DEF Reader, Item, ReadItem
  <2> HIDE DEF w
  <2>3. /\ queue' \in Seq(Item) /\ Len(queue') <= MaxQueue
        /\ \A i \in 1..Len(queue') : \/ (i \in 1..Len(queue) /\ queue'[i] = queue[i])
                                     \/ (i = Len(queue) + 1 /\ queue'[i] = w)
    BY <1>1, <1>2, <2>1, <2>2, QueueNumbers
  <2>4. Empty \in [Fields -> Values] /\ \A f \in Fields : Empty[f] = Nothing
    BY DEF Empty, Values
  <2>5. EditorShape'  BY <1>1, <1>2, <1>3, <2>1, <2>3, <2>4 DEF EditorShape, Phases
  <2>6. QueueFits'
    <3> SUFFICES ASSUME NEW i \in 1..Len(queue') PROVE Fits(queue[i])'  BY DEF QueueFits
    <3>1. PICK it : it = queue'[i]  OBVIOUS
    <3>2. CASE it = w  BY <1>1, <1>6, <2>1, <2>2, <3>1, <3>2 DEF Fits, Awaited
    <3>3. CASE i \in 1..Len(queue) /\ it = queue[i]
      <4>1. Fits(it) /\ ~Awaited(it, "write") /\ ~Awaited(it, "load")
        BY <1>4, <3>3 DEF Edited, QueueFits
      <4>2. Fits(it)'  BY <1>1, <4>1, UncountedFits
      <4> QED  BY <3>1, <4>2 DEF Fits
    <3> QED  BY <2>3, <3>1, <3>2, <3>3
  <2>7. OneLoad'
    <3>1. \A i \in 1..Len(queue') : Awaited(queue'[i], "load") => i = Len(queue) + 1
      BY <1>4, <2>3
    <3> QED  BY <3>1 DEF OneLoad
  <2>8. TextsExplained'  BY <1>1, <1>6, <2>1 DEF TextsExplained
  <2>9. BaselinesSeen'  BY <1>1, <1>3, <1>6, <2>1, <2>4 DEF BaselinesSeen, Seen
  <2> QED  BY <1>5, <2>5, <2>6, <2>7, <2>8, <2>9 DEF Edited
<1>7. CASE form # "drawer"
  <2>1. phase' = "open" /\ text' = base /\ UNCHANGED <<base, queue>>  BY <1>7 DEF OpenForm
  <2>2. EditorShape'  BY <1>1, <1>2, <1>3, <2>1 DEF EditorShape, Phases
  <2>3. QueueFits'
    <3> SUFFICES ASSUME NEW i \in 1..Len(queue) PROVE Fits(queue[i])'  BY <2>1 DEF QueueFits
    <3>1. PICK it : it = queue[i]  OBVIOUS
    <3>2. Fits(it) /\ ~Awaited(it, "write") /\ ~Awaited(it, "load")
      BY <1>4, <3>1 DEF Edited, QueueFits
    <3>3. Fits(it)'  BY <1>1, <3>2, UncountedFits
    <3> QED  BY <2>1, <3>1, <3>3 DEF Fits
  <2>4. OneLoad'  BY <2>1 DEF Edited, OneLoad
  <2>5. TextsExplained'  BY <1>1, <1>3, <1>7, <2>1 DEF TextsExplained, Explained
  <2>6. BaselinesSeen'  BY <1>1, <1>3, <1>7, <2>1 DEF Edited, BaselinesSeen, Seen
  <2> QED  BY <1>5, <2>2, <2>3, <2>4, <2>5, <2>6 DEF Edited
<1> QED  BY <1>6, <1>7

LEMMA CloseFormStep ==
    ASSUME Edited, CloseForm
    PROVE  Edited'
<1> DEFINE muted(i) == [queue[i] EXCEPT !.counts = @ /\ queue[i].op = "refresh"]
<1>1. /\ phase' = "closed" /\ snapshot' = << >> /\ text' = Empty
      /\ base' = IF form = "drawer" THEN Empty ELSE base
      /\ edits' = [edits EXCEPT !.typed = {}, !.early = {}] /\ UNCHANGED <<form, held>>
      /\ queue' = [i \in DOMAIN queue |-> muted(i)]
  BY DEF CloseForm
<1>2. EditorShape  BY DEF Edited
<1>3. /\ MaxQueue \in Nat /\ Len(queue) \in Nat /\ queue \in Seq(Item)
      /\ DOMAIN queue = 1..Len(queue)
      /\ \A i \in 1..Len(queue) : queue[i] \in Item
  BY <1>2, QueueNumbers
<1>4. ASSUME NEW i \in 1..Len(queue), NEW it, it = queue[i]
      PROVE  \E m : /\ muted(i) = m /\ m \in Item /\ Fits(m)'
                    /\ ~Awaited(m, "load")
  <2>1. PICK b : b = (it.counts /\ it.op = "refresh")  OBVIOUS
  <2>2. b \in BOOLEAN  BY <2>1
  <2>3. PICK m : m = [it EXCEPT !.counts = b]  OBVIOUS
  <2>4. muted(i) = m  BY <1>4, <2>1, <2>3
  <2>5. /\ m \in Item /\ m.op = it.op /\ m.counts = b
        /\ it.op = "write" => m.all = it.all /\ m.cause = it.cause
    BY <1>3, <1>4, <2>2, <2>3, Muted
  <2>6. Fits(it)  BY <1>4 DEF Edited, QueueFits
  <2>7. Fits(m)'  BY <1>1, <2>1, <2>5, <2>6 DEF Fits, Awaited
  <2>8. ~Awaited(m, "load")  BY <2>1, <2>5 DEF Awaited
  <2> HIDE DEF muted
  <2> QED  BY <2>4, <2>5, <2>7, <2>8
<1>5. /\ queue' \in Seq(Item) /\ Len(queue') = Len(queue)
      /\ \A i \in 1..Len(queue) : queue'[i] = muted(i)
  <2> HIDE DEF muted
  <2> QED  BY <1>1, <1>3, <1>4
<1> HIDE DEF muted
<1>6. Empty \in [Fields -> Values] /\ \A f \in Fields : Empty[f] = Nothing
  BY DEF Empty, Values
<1>7. edits' \in EditsRow /\ edits'.seen = edits.seen
  BY <1>1, <1>2 DEF EditorShape, EditsRow
<1>8. DOMAIN snapshot' = {} /\ snapshot' \in [DOMAIN snapshot' -> Values]  BY <1>1
<1>9. EditorShape'  BY <1>1, <1>2, <1>5, <1>6, <1>7, <1>8 DEF EditorShape, Phases
<1>10. QueueFits'
  <2> SUFFICES ASSUME NEW i \in 1..Len(queue) PROVE Fits(queue[i])'  BY <1>5 DEF QueueFits
  <2>1. PICK m : muted(i) = m /\ Fits(m)'  BY <1>4
  <2>2. queue'[i] = m  BY <1>5, <2>1
  <2> QED  BY <2>1, <2>2 DEF Fits
<1>11. OneLoad'  BY <1>4, <1>5 DEF OneLoad
<1>12. TextsExplained'  BY <1>1 DEF TextsExplained
<1>13. SnapshotExplained' /\ SnapshotComing'
  BY <1>1, <1>8 DEF SnapshotExplained, SnapshotComing
<1>14. BaselinesSeen'  BY <1>1, <1>6, <1>7 DEF Edited, BaselinesSeen, Seen
<1> QED  BY <1>9, <1>10, <1>11, <1>12, <1>13, <1>14 DEF Edited

\* Nothing happens to the queue, and only typing changes a text.
LEMMA QueueSame ==
    ASSUME Edited, UNCHANGED <<form, phase, queue>>, edits.typed \subseteq edits'.typed,
           \A f \in Fields : text'[f] = text[f] \/ f \in edits'.typed
    PROVE  QueueFits' /\ OneLoad'
<1>1. EditorShape  BY DEF Edited
<1>2. QueueFits'
  <2> SUFFICES ASSUME NEW i \in 1..Len(queue) PROVE Fits(queue[i])'  BY DEF QueueFits
  <2>1. PICK it : it = queue[i]  OBVIOUS
  <2>2. it \in Item /\ Fits(it)  BY <1>1, <2>1, QueueNumbers DEF Edited, QueueFits
  <2>3. Fits(it)'  BY <1>1, <2>2, OldItemFits
  <2> QED  BY <2>1, <2>3 DEF Fits
<1> QED  BY <1>2 DEF Edited, OneLoad

LEMMA TypeStep ==
    ASSUME Edited, NEW f \in Fields, NEW v \in Values, Type(f, v)
    PROVE  Edited'
<1>1. /\ phase # "closed" /\ f # "attendance"
      /\ text' = [text EXCEPT ![f] = v] /\ edits' = [edits EXCEPT !.typed = @ \cup {f}]
      /\ UNCHANGED <<form, phase, held, base, queue, snapshot>>
  BY DEF Type
<1>2. EditorShape  BY DEF Edited
<1>3. /\ edits' \in EditsRow /\ edits'.typed = edits.typed \cup {f} /\ edits'.early = edits.early
      /\ edits'.stale = edits.stale /\ edits'.seen = edits.seen
  BY <1>1, <1>2 DEF EditorShape, EditsRow
<1>4. /\ text' \in [Fields -> Values] /\ \A g \in Fields : g # f => text'[g] = text[g]
  BY <1>1, <1>2 DEF EditorShape
<1>5. EditorShape'  BY <1>1, <1>2, <1>3, <1>4 DEF EditorShape
<1>6. QueueFits' /\ OneLoad'  BY <1>1, <1>3, <1>4, QueueSame
<1>7. TextsExplained'
  BY <1>1, <1>3, <1>4 DEF Edited, TextsExplained, Explained
<1>8. SnapshotExplained'
  BY <1>1, <1>2, <1>3, <1>4 DEF Edited, SnapshotExplained, EditorShape
<1>9. BaselinesSeen' /\ SnapshotComing'
  BY <1>1, <1>3 DEF Edited, BaselinesSeen, SnapshotComing, Seen, SaveOnItsWay
<1> QED  BY <1>5, <1>6, <1>7, <1>8, <1>9 DEF Edited

LEMMA AnotherSavesStep ==
    ASSUME Edited, NEW f \in Fields, NEW v \in Values, AnotherSaves(f, v)
    PROVE  Edited'
<1>1. /\ held' = [held EXCEPT ![f] = v]
      /\ edits' = [edits EXCEPT !.stale = @ \cup {f}, !.seen[f] = @ \cup {v}]
      /\ UNCHANGED <<form, phase, text, base, queue, snapshot>>
  BY DEF AnotherSaves
<1>2. EditorShape  BY DEF Edited
<1>3. /\ edits' \in EditsRow /\ edits'.typed = edits.typed /\ edits'.early = edits.early
      /\ edits'.stale = edits.stale \cup {f} /\ v \in edits'.seen[f]
      /\ \A g \in Fields : edits.seen[g] \subseteq edits'.seen[g]
  BY <1>1, <1>2 DEF EditorShape, EditsRow
<1>4. /\ held' \in [Fields -> Values] /\ held'[f] = v
      /\ \A g \in Fields : g # f => held'[g] = held[g]
  BY <1>1, <1>2 DEF EditorShape
<1>5. EditorShape'  BY <1>1, <1>2, <1>3, <1>4 DEF EditorShape
<1>6. QueueFits' /\ OneLoad'  BY <1>1, <1>3, QueueSame
<1>7. TextsExplained'
  BY <1>1, <1>3, <1>4 DEF Edited, TextsExplained, Explained
<1>8. SnapshotExplained'  BY <1>1, <1>3 DEF Edited, SnapshotExplained
<1>9. BaselinesSeen'
  <2> SUFFICES ASSUME NEW g \in Fields PROVE held'[g] \in edits'.seen[g] /\ Seen(g, base[g])'
    BY <1>1 DEF BaselinesSeen
  <2>1. held[g] \in edits.seen[g] /\ Seen(g, base[g])  BY DEF Edited, BaselinesSeen
  <2> QED  BY <1>1, <1>3, <1>4, <2>1 DEF Seen
<1>10. SnapshotComing'
  <2>1. \A g \in DOMAIN snapshot : g \in Fields  BY <1>2 DEF EditorShape
  <2> QED  BY <1>1, <1>3, <2>1 DEF Edited, SnapshotComing, Seen, SaveOnItsWay
<1> QED  BY <1>5, <1>6, <1>7, <1>8, <1>9, <1>10 DEF Edited

LEMMA CauseIsKnown ==
    ASSUME NEW f
    PROVE  Cause(f) \in Causes /\ (Explained(f) => Cause(f) # "none")
BY DEF Cause, Causes, Explained

LEMMA WriteTyped ==
    ASSUME EditorShape, NEW f \in Fields, NEW all \in BOOLEAN
    PROVE  /\ Write(f, all) \in WriteItem
           /\ Write(f, all).op = "write" /\ Write(f, all).field = f /\ Write(f, all).counts
           /\ Write(f, all).value = text[f] /\ Write(f, all).all = all
           /\ Write(f, all).cause = Cause(f)
<1>1. text[f] \in Values  BY DEF EditorShape
<1> QED  BY <1>1, CauseIsKnown DEF Write, WriteItem

\* One save more, and a snapshot of what it sends.
LEMMA OneSaveStep ==
    ASSUME Edited, phase # "closed", NEW f \in Fields, NEW v \in Values, NEW w \in Item,
           Len(queue) < MaxQueue, queue' = Append(queue, w),
           Awaited(w, "write"), w.field = f, w.value = v, w.all => w.cause # "none",
           snapshot' = [g \in {f} |-> v],
           phase = "loading" => f \in edits'.early,
           v = text[f] \/ f \in edits'.typed,
           f = "attendance" \/ v = text[f],
           edits' \in EditsRow, edits.typed \subseteq edits'.typed, edits.early \subseteq edits'.early,
           edits'.stale = edits.stale, edits'.seen = edits.seen,
           UNCHANGED <<form, phase, held, text, base>>
    PROVE  Edited'
<1>1. EditorShape  BY DEF Edited
<1>2. Fits(w)'  BY DEF Fits, Awaited
<1> DEFINE s == <<w>>
<1>3. /\ s \in [1..1 -> Item] /\ \A i \in 1..1 : s[i] = w
      /\ queue' = queue \o s /\ Len(queue) + 1 <= MaxQueue
  BY <1>1, QueueNumbers
<1> HIDE DEF s
<1>4. \A i \in 1..1 : s[i].op = "write" /\ Fits(s[i])'
  BY <1>2, <1>3 DEF Awaited
<1>5. /\ queue' \in Seq(Item) /\ Len(queue') <= MaxQueue
      /\ QueueFits' /\ OneLoad'
      /\ \A i \in 1..1 : /\ Len(queue) + i \in 1..Len(queue')
                         /\ queue'[Len(queue) + i] = s[i]
  BY <1>3, <1>4, QueueGrows
<1>6. DOMAIN snapshot' = {f} /\ snapshot' \in [DOMAIN snapshot' -> Values] /\ snapshot'[f] = v
  OBVIOUS
<1>7. EditorShape'  BY <1>1, <1>5, <1>6 DEF EditorShape
<1>8. TextsExplained'
  BY DEF Edited, TextsExplained, Explained
<1>9. SnapshotExplained'  BY <1>6 DEF SnapshotExplained
<1>10. BaselinesSeen'  BY DEF Edited, BaselinesSeen, Seen
<1>11. SaveOnItsWay(f, v)'  BY <1>3, <1>5 DEF SaveOnItsWay
<1>12. SnapshotComing'  BY <1>6, <1>11 DEF SnapshotComing
<1> QED  BY <1>5, <1>7, <1>8, <1>9, <1>10, <1>12 DEF Edited

LEMMA AttendanceStep ==
    ASSUME Edited, NEW v \in Texts, Mark(v)
    PROVE  Edited'
<1> DEFINE w == [Write("attendance", FALSE) EXCEPT !.value = v, !.cause = "typed"]
<1>1. /\ phase = "open" /\ "attendance" \in Fields /\ Len(queue) < MaxQueue
      /\ queue' = Append(queue, w) /\ snapshot' = [f \in {"attendance"} |-> v]
      /\ edits' = [edits EXCEPT !.typed = @ \cup {"attendance"}]
      /\ UNCHANGED <<form, phase, held, text, base>>
  BY DEF Mark
<1>2. EditorShape  BY DEF Edited
<1>3. /\ edits' \in EditsRow /\ edits'.typed = edits.typed \cup {"attendance"}
      /\ edits'.early = edits.early /\ edits'.stale = edits.stale /\ edits'.seen = edits.seen
  BY <1>1, <1>2 DEF EditorShape, EditsRow
<1>4. v \in Values  BY DEF Values
<1>5. /\ w \in Item /\ Awaited(w, "write") /\ w.field = "attendance" /\ w.value = v
      /\ w.cause # "none"
  <2>1. PICK r : r = Write("attendance", FALSE)  OBVIOUS
  <2>2. r \in WriteItem /\ r.op = "write" /\ r.field = "attendance" /\ r.counts
    BY <1>1, <1>2, <2>1, WriteTyped
  <2>3. w = [r EXCEPT !.value = v, !.cause = "typed"]  BY <2>1
  <2> HIDE DEF w
  <2> QED  BY <1>4, <2>2, <2>3 DEF Item, WriteItem, Awaited, Causes
<1> HIDE DEF w
<1> QED  BY <1>1, <1>3, <1>4, <1>5, OneSaveStep

LEMMA SaveFieldStep ==
    ASSUME Edited, NEW f \in Fields, SaveField(f)
    PROVE  Edited'
<1> DEFINE w == Write(f, FALSE)
<1>1. /\ phase # "closed" /\ f # "attendance" /\ Len(queue) < MaxQueue
      /\ queue' = Append(queue, w) /\ snapshot' = [g \in {f} |-> text[f]]
      /\ edits' = IF phase = "loading" THEN [edits EXCEPT !.early = @ \cup {f}] ELSE edits
      /\ UNCHANGED <<form, phase, held, text, base>>
  BY DEF SaveField
<1>2. EditorShape /\ text[f] \in Values  BY DEF Edited, EditorShape
<1>3. /\ edits' \in EditsRow /\ edits'.typed = edits.typed /\ edits.early \subseteq edits'.early
      /\ phase = "loading" => f \in edits'.early
      /\ edits'.stale = edits.stale /\ edits'.seen = edits.seen
  BY <1>1, <1>2 DEF EditorShape, EditsRow
<1>4. /\ w \in Item /\ Awaited(w, "write") /\ w.field = f /\ w.value = text[f]
      /\ ~w.all
  BY <1>2, WriteTyped DEF Item, Awaited
<1> HIDE DEF w
<1>5. PICK v \in Values : v = text[f]  BY <1>2
<1>6. snapshot' = [g \in {f} |-> v]  BY <1>1, <1>5
<1> QED  BY <1>1, <1>3, <1>4, <1>5, <1>6, OneSaveStep

\* SetToSeq lists a finite set whole.
LEMMA ListOfSet ==
    ASSUME NEW S, IsFiniteSet(S)
    PROVE  /\ Cardinality(S) \in Nat
           /\ SetToSeq(S) \in [1..Cardinality(S) -> S]
           /\ \A x \in S : \E i \in 1..Cardinality(S) : SetToSeq(S)[i] = x
<1> DEFINE n == Cardinality(S)
<1>1. n \in Nat /\ ExistsBijection(1..n, S)  BY FS_CardinalityType
<1>2. PICK g : g \in Bijection(1..n, S)  BY <1>1 DEF ExistsBijection
<1>3. g \in [1..n -> S] /\ IsInjective(g)  BY <1>2 DEF Bijection, Injection
<1>4. SetToSeq(S) \in [1..n -> S] /\ IsInjective(SetToSeq(S))  BY <1>3 DEF SetToSeq
<1>5. SetToSeq(S) \in Injection(1..n, S)  BY <1>4 DEF Injection
<1>6. IsFiniteSet(1..n) /\ Cardinality(1..n) = n
  <2>1. 1 \in Int /\ n \in Int  BY <1>1
  <2>2. IsFiniteSet(1..n) /\ Cardinality(1..n) = IF 1 > n THEN 0 ELSE n - 1 + 1
    BY <2>1, FS_Interval
  <2> HIDE DEF n
  <2> QED  BY <1>1, <2>2
<1>7. SetToSeq(S) \in Surjection(1..n, S)
  <2> HIDE DEF n
  <2>1. n = Cardinality(S)  BY DEF n
  <2> QED  BY <1>5, <1>6, <2>1, FS_Injection
<1>8. \A x \in S : \E i \in 1..n : SetToSeq(S)[i] = x  BY <1>7 DEF Surjection
<1> QED  BY <1>1, <1>4, <1>8

LEMMA SaveAllStep ==
    ASSUME Edited, SaveAll
    PROVE  Edited'
<1> DEFINE changed == {f \in Fields : /\ text[f] # base[f]
                                      /\ Sendable(f)
                                      /\ form = "drawer" => f # "attendance"}
           n == Cardinality(changed)
           s == [i \in 1..n |-> Write(SetToSeq(changed)[i], TRUE)]
<1>1. /\ phase = "open" /\ Len(queue) + n <= MaxQueue /\ queue' = queue \o s /\ snapshot' = text
      /\ UNCHANGED <<form, phase, held, text, base, edits>>
  BY DEF SaveAll
<1>2. EditorShape  BY DEF Edited
<1>3. changed \in SUBSET Fields /\ IsFiniteSet(changed)  BY EditorAssumption, FS_Subset
<1>4. \A f \in changed : text[f] # base[f]  OBVIOUS
<1>5. \A f \in Fields \ changed : \/ text[f] = base[f]
                                  \/ text[f] = Nothing
                                  \/ form = "drawer" /\ f = "attendance"
  BY DEF Sendable
<1> HIDE DEF changed
<1>6. /\ n \in Nat /\ SetToSeq(changed) \in [1..n -> changed]
      /\ \A f \in changed : \E i \in 1..n : SetToSeq(changed)[i] = f
  BY <1>3, ListOfSet
<1> HIDE DEF n
<1>7. \A i \in 1..n : /\ SetToSeq(changed)[i] \in Fields /\ s[i] \in WriteItem
                      /\ Awaited(s[i], "write") /\ s[i].field = SetToSeq(changed)[i]
                      /\ s[i].value = text[SetToSeq(changed)[i]]
                      /\ s[i].cause = Cause(SetToSeq(changed)[i])
  BY <1>2, <1>3, <1>6, WriteTyped DEF Awaited
<1>8. PICK t \in [1..n -> Item] : t = s  BY <1>7 DEF Item
<1> HIDE DEF s
<1>9. \A f \in changed : Explained(f)  BY <1>1, <1>3, <1>4 DEF Edited, TextsExplained
<1>10. \A i \in 1..n : t[i].op = "write" /\ Fits(t[i])'
  <2> SUFFICES ASSUME NEW i \in 1..n, NEW it, it = t[i] PROVE it.op = "write" /\ Fits(it)'
    BY DEF Fits, Awaited
  <2>1. it.cause # "none"  BY <1>6, <1>7, <1>8, <1>9, CauseIsKnown
  <2>2. it.op = "write" /\ it.value = text[it.field]  BY <1>7, <1>8 DEF Awaited
  <2> QED  BY <1>1, <2>1, <2>2 DEF Fits, Awaited
<1>11. /\ queue' \in Seq(Item) /\ Len(queue') <= MaxQueue
       /\ QueueFits' /\ OneLoad'
       /\ \A i \in 1..n : /\ Len(queue) + i \in 1..Len(queue')
                          /\ queue'[Len(queue) + i] = t[i]
  BY <1>1, <1>6, <1>8, <1>10, QueueGrows
<1>12. DOMAIN snapshot' = Fields /\ snapshot' \in [DOMAIN snapshot' -> Values]
  BY <1>1, <1>2 DEF EditorShape
<1>13. EditorShape'  BY <1>1, <1>2, <1>11, <1>12 DEF EditorShape
<1>14. TextsExplained'  BY <1>1 DEF Edited, TextsExplained, Explained
<1>15. SnapshotExplained'  BY <1>1, <1>12 DEF SnapshotExplained
<1>16. BaselinesSeen'  BY <1>1 DEF Edited, BaselinesSeen, Seen
<1>17. SnapshotComing'
  <2> SUFFICES ASSUME form = "drawer", NEW f \in Fields
               PROVE  Seen(f, text[f])' \/ SaveOnItsWay(f, text[f])'
    BY <1>1, <1>12 DEF SnapshotComing, Seen, SaveOnItsWay
  <2>1. CASE f \in changed
    <3>1. PICK i \in 1..n : SetToSeq(changed)[i] = f  BY <1>6, <2>1
    <3>2. /\ Len(queue) + i \in 1..Len(queue') /\ Awaited(queue'[Len(queue) + i], "write")
          /\ queue'[Len(queue) + i].field = f /\ queue'[Len(queue) + i].value = text[f]
      BY <1>7, <1>8, <1>11, <3>1
    <3> QED  BY <1>1, <3>2 DEF SaveOnItsWay
  <2>2. CASE f \notin changed
    <3>1. text[f] = base[f] \/ text[f] = Nothing
      BY <1>5, <2>2 DEF Edited, TextsExplained
    <3> QED  BY <1>1, <3>1 DEF Edited, BaselinesSeen, Seen
  <2> QED  BY <2>1, <2>2
<1> QED  BY <1>11, <1>13, <1>14, <1>15, <1>16, <1>17 DEF Edited

\* The first action leaves the queue; the others find what they need as they did.
LEMMA QueueRests ==
    ASSUME Edited, queue # << >>, queue' = Tail(queue), form' = form,
           \A i \in 1..Len(queue) : i # 1 => \A it : it = queue[i] => Fits(it)'
    PROVE  QueueFits' /\ OneLoad'
<1>1. EditorShape  BY DEF Edited
<1>2. \A i \in 1..Len(queue') : queue'[i] = queue[i + 1] /\ i + 1 \in 1..Len(queue) /\ i + 1 # 1
  BY <1>1, QueueShrinks
<1>3. QueueFits'
  <2> SUFFICES ASSUME NEW i \in 1..Len(queue') PROVE Fits(queue[i])'  BY DEF QueueFits
  <2>1. PICK it : it = queue'[i]  OBVIOUS
  <2>2. Fits(it)'  BY <1>2, <2>1
  <2> QED  BY <2>1, <2>2 DEF Fits
<1>4. OneLoad'
  <2> SUFFICES ASSUME NEW i \in 1..Len(queue'), NEW j \in 1..Len(queue'),
                      Awaited(queue'[i], "load"), Awaited(queue'[j], "load")
               PROVE  i = j
    BY DEF OneLoad
  <2>1. i + 1 = j + 1  BY <1>2 DEF Edited, OneLoad
  <2> QED  BY <2>1
<1> QED  BY <1>3, <1>4

LEMMA RefreshStep ==
    ASSUME Edited, Refresh
    PROVE  Edited'
<1>1. /\ queue # << >> /\ Head(queue).op = "refresh" /\ queue' = Tail(queue) /\ base' = held
      /\ UNCHANGED <<form, phase, held, text, snapshot, edits>>
  BY DEF Refresh
<1>2. EditorShape  BY DEF Edited
<1>3. /\ queue[1].op = "refresh" /\ 1 \in 1..Len(queue)
      /\ queue' \in Seq(Item) /\ Len(queue') <= MaxQueue
      /\ \A i \in 1..Len(queue) : queue[i] \in Item
  BY <1>1, <1>2, QueueShrinks, QueueNumbers
<1>4. form = "panel" /\ form # "drawer"  BY <1>3 DEF Edited, QueueFits, Fits
<1>5. \A i \in 1..Len(queue) : i # 1 => \A it : it = queue[i] => Fits(it)'
  <2> SUFFICES ASSUME NEW i \in 1..Len(queue), NEW it, it = queue[i] PROVE Fits(it)'  OBVIOUS
  <2> QED  BY <1>1, <1>2, <1>3, OldItemFits DEF Edited, QueueFits
<1>6. QueueFits' /\ OneLoad'  BY <1>1, <1>5, QueueRests
<1>7. EditorShape'  BY <1>1, <1>2, <1>3 DEF EditorShape
<1>8. TextsExplained'  BY <1>1, <1>4 DEF Edited, TextsExplained, Explained
<1>9. SnapshotExplained'  BY <1>1 DEF Edited, SnapshotExplained
<1>10. BaselinesSeen'  BY <1>1 DEF Edited, BaselinesSeen, Seen
<1>11. SnapshotComing'  BY <1>1, <1>4 DEF SnapshotComing
<1> QED  BY <1>6, <1>7, <1>8, <1>9, <1>10, <1>11 DEF Edited

\* What is on its way stays so when the action that runs is another.
LEMMA SaveStillOnItsWay ==
    ASSUME EditorShape, queue # << >>, queue' = Tail(queue), NEW f, NEW v, SaveOnItsWay(f, v)
    PROVE  \/ SaveOnItsWay(f, v)'
           \/ Awaited(Head(queue), "write") /\ Head(queue).field = f /\ Head(queue).value = v
<1>1. PICK i \in 1..Len(queue) : Awaited(queue[i], "write") /\ queue[i].field = f /\ queue[i].value = v
  BY DEF SaveOnItsWay
<1>2. CASE i = 1  BY <1>1, <1>2, QueueShrinks
<1>3. CASE i # 1
  <2>1. i - 1 \in 1..Len(queue') /\ queue'[i - 1] = queue[i]  BY <1>3, QueueShrinks
  <2>2. SaveOnItsWay(f, v)'  BY <1>1, <2>1 DEF SaveOnItsWay
  <2> QED  BY <2>2
<1> QED  BY <1>2, <1>3

LEMMA LoadStep ==
    ASSUME Edited, NEW ok \in BOOLEAN, Load(ok)
    PROVE  Edited'
<1>1. /\ queue # << >> /\ Head(queue).op = "load" /\ queue' = Tail(queue)
      /\ UNCHANGED <<form, held, snapshot>>
  BY DEF Load
<1>2. EditorShape  BY DEF Edited
<1>3. /\ queue[1] = Head(queue) /\ queue[1].op = "load" /\ 1 \in 1..Len(queue)
      /\ queue' \in Seq(Item) /\ Len(queue') <= MaxQueue
      /\ \A i \in 1..Len(queue) : queue[i] \in Item
  BY <1>1, <1>2, QueueShrinks, QueueNumbers
<1>4. form = "drawer" /\ form # "panel"  BY <1>3 DEF Edited, QueueFits, Fits
<1>5. \A f, v : SaveOnItsWay(f, v) => SaveOnItsWay(f, v)'
  BY <1>1, <1>2, SaveStillOnItsWay DEF Awaited
<1>6. CASE ~Head(queue).counts
  <2>1. UNCHANGED <<phase, text, base, edits>>  BY <1>6 DEF Load
  <2>2. \A i \in 1..Len(queue) : i # 1 => \A it : it = queue[i] => Fits(it)'
    <3> SUFFICES ASSUME NEW i \in 1..Len(queue), NEW it, it = queue[i] PROVE Fits(it)'  OBVIOUS
    <3> QED  BY <1>1, <1>2, <1>3, <2>1, OldItemFits DEF Edited, QueueFits
  <2>3. QueueFits' /\ OneLoad'  BY <1>1, <2>2, QueueRests
  <2>4. EditorShape'  BY <1>1, <1>2, <1>3, <2>1 DEF EditorShape
  <2>5. TextsExplained' /\ SnapshotExplained'
    BY <1>1, <2>1 DEF Edited, TextsExplained, SnapshotExplained, Explained
  <2>6. BaselinesSeen'  BY <1>1, <2>1 DEF Edited, BaselinesSeen, Seen
  <2>7. SnapshotComing'  BY <1>1, <1>5, <2>1 DEF Edited, SnapshotComing, Seen
  <2> QED  BY <2>3, <2>4, <2>5, <2>6, <2>7 DEF Edited
<1>7. CASE Head(queue).counts
  <2>1. phase' = "open" /\ Awaited(queue[1], "load")  BY <1>3, <1>7 DEF Load, Awaited
  <2>2. phase = "loading"  BY <1>3, <2>1 DEF Edited, QueueFits, Fits
  <2>3. \A i \in 1..Len(queue) : i # 1 => \A it : it = queue[i] => Fits(it)'
    <3> SUFFICES ASSUME NEW i \in 1..Len(queue), i # 1, NEW it, it = queue[i] PROVE Fits(it)'
      OBVIOUS
    <3>1. Fits(it) /\ ~Awaited(it, "load")  BY <1>3, <2>1 DEF Edited, QueueFits, OneLoad
    <3> QED  BY <1>1, <1>4, <2>1, <3>1 DEF Fits, Awaited
  <2>4. QueueFits' /\ OneLoad'  BY <1>1, <2>3, QueueRests
  <2>5. /\ edits' \in EditsRow /\ edits'.early = edits.early /\ edits'.stale = edits.stale
        /\ \A f \in Fields : edits.seen[f] \subseteq edits'.seen[f]
        /\ ok => \A f \in Fields : held[f] \in edits'.seen[f]
        /\ ~ok => edits' = edits
    <3>1. CASE ok
      <4>1. PICK seen \in [Fields -> SUBSET Values] : seen = [f \in Fields |-> edits.seen[f] \cup {held[f]}]
        BY <1>2 DEF EditorShape, EditsRow
      <4>2. edits' = [edits EXCEPT !.typed = {}, !.seen = seen]  BY <1>7, <3>1, <4>1 DEF Load
      <4> QED  BY <1>2, <3>1, <4>1, <4>2 DEF EditorShape, EditsRow
    <3>2. CASE ~ok  BY <1>2, <1>7, <3>2 DEF Load, EditorShape
    <3> QED  BY <3>1, <3>2
  <2>6. DOMAIN snapshot \subseteq edits.early /\ "attendance" \notin DOMAIN snapshot
    BY <1>2, <2>2 DEF Edited, SnapshotExplained, EditorShape, EditsRow
  <2>7. SnapshotExplained'  BY <1>1, <2>1, <2>5, <2>6 DEF SnapshotExplained
  <2>8. SnapshotComing'
    <3>1. DOMAIN snapshot \subseteq Fields  BY <1>2 DEF EditorShape
    <3> QED  BY <1>1, <1>5, <2>5, <3>1 DEF Edited, SnapshotComing, Seen
  <2>9. CASE ok
    <3>1. text' = held /\ base' = held  BY <1>7, <2>9 DEF Load
    <3>2. EditorShape'  BY <1>1, <1>2, <1>3, <2>1, <2>5, <3>1 DEF EditorShape, Phases
    <3>3. TextsExplained'  BY <1>1, <1>4, <3>1 DEF TextsExplained
    <3>4. BaselinesSeen'  BY <1>1, <2>5, <2>9, <3>1 DEF BaselinesSeen, Seen
    <3> QED  BY <2>4, <2>7, <2>8, <3>2, <3>3, <3>4 DEF Edited
  <2>10. CASE ~ok
    <3>1. UNCHANGED <<text, base, edits>>  BY <1>7, <2>10 DEF Load
    <3>2. EditorShape'  BY <1>1, <1>2, <1>3, <2>1, <3>1 DEF EditorShape, Phases
    <3>3. TextsExplained'
      BY <1>1, <1>4, <2>2, <3>1 DEF Edited, TextsExplained, Explained
    <3>4. BaselinesSeen'  BY <1>1, <3>1 DEF Edited, BaselinesSeen, Seen
    <3> QED  BY <2>4, <2>7, <2>8, <3>2, <3>3, <3>4 DEF Edited
  <2> QED  BY <2>9, <2>10
<1> QED  BY <1>6, <1>7

\* What a save does to the table and the history, whatever becomes of the form.
LEMMA SaveRuns ==
    ASSUME Edited, NEW ok \in BOOLEAN, RunWrite(ok)
    PROVE  /\ queue # << >> /\ form' = form
           /\ Head(queue) = queue[1] /\ Head(queue) \in WriteItem /\ 1 \in 1..Len(queue)
           /\ held' \in [Fields -> Values]
           /\ edits' \in EditsRow /\ edits'.typed = edits.typed /\ edits'.early = edits.early
           /\ edits.stale \subseteq edits'.stale
           /\ \A f \in Fields : edits.seen[f] \subseteq edits'.seen[f] /\ held'[f] \in edits'.seen[f]
           /\ ok => Head(queue).value \in edits'.seen[Head(queue).field]
           /\ form = "panel" /\ phase # "closed" =>
                  \A f \in Fields : held'[f] = text[f] \/ f \in edits'.typed \cup edits'.stale
<1>1. EditorShape  BY DEF Edited
<1>2. queue # << >> /\ form' = form /\ Head(queue).op = "write"  BY DEF RunWrite
<1>3. Head(queue) = queue[1] /\ queue[1] \in Item /\ 1 \in 1..Len(queue)
  BY <1>1, <1>2, QueueShrinks
<1>4. PICK it \in WriteItem : it = Head(queue)  BY <1>2, <1>3 DEF Item, ReadItem
<1>5. it.field \in Fields /\ it.value \in Values /\ Fits(it)
  BY <1>3, <1>4 DEF WriteItem, Edited, QueueFits
<1>6. \A f \in Fields : held[f] \in edits.seen[f]  BY DEF Edited, BaselinesSeen
<1>7. form = "panel" /\ phase # "closed" =>
          \A f \in Fields : held[f] = text[f] \/ f \in edits.typed \cup edits.stale
  BY DEF Edited, TextsExplained
<1>8. CASE ok
  <2>1. held' = [held EXCEPT ![it.field] = it.value]  BY <1>4, <1>8 DEF RunWrite
  <2>2. PICK late \in SUBSET Fields :
          /\ edits' = [edits EXCEPT !.seen[it.field] = @ \cup {it.value}, !.stale = @ \cup late]
          /\ it.counts \/ it.field \in late
    <3>1. PICK late \in SUBSET Fields : late = IF it.counts THEN {} ELSE {it.field}  BY <1>5
    <3> QED  BY <1>4, <1>8, <3>1 DEF RunWrite
  <2>3. /\ edits' \in EditsRow /\ edits'.typed = edits.typed /\ edits'.early = edits.early
        /\ edits'.stale = edits.stale \cup late
        /\ edits'.seen = [edits.seen EXCEPT ![it.field] = @ \cup {it.value}]
    BY <1>1, <1>5, <2>2 DEF EditorShape, EditsRow
  <2>4. /\ \A f \in Fields : edits.seen[f] \subseteq edits'.seen[f]
        /\ it.value \in edits'.seen[it.field]
    BY <1>1, <1>5, <2>3 DEF EditorShape, EditsRow
  <2>5. /\ held' \in [Fields -> Values] /\ held'[it.field] = it.value
        /\ \A f \in Fields : f # it.field => held'[f] = held[f]
    BY <1>1, <1>5, <2>1 DEF EditorShape
  <2>6. \A f \in Fields : held'[f] \in edits'.seen[f]  BY <1>6, <2>4, <2>5
  <2>7. form = "panel" /\ phase # "closed" =>
            \A f \in Fields : held'[f] = text[f] \/ f \in edits'.typed \cup edits'.stale
    <3>1. form = "panel" /\ it.counts => it.value = text[it.field] \/ it.field \in edits.typed
      BY <1>2, <1>4, <1>5 DEF Fits, Awaited
    <3> QED  BY <1>7, <2>2, <2>3, <2>5, <3>1
  <2> QED  BY <1>2, <1>3, <1>4, <2>3, <2>4, <2>5, <2>6, <2>7
<1>9. CASE ~ok
  <2>1. held' = held /\ edits' = edits  BY <1>9 DEF RunWrite
  <2> QED  BY <1>1, <1>2, <1>3, <1>4, <1>6, <1>7, <1>9, <2>1 DEF EditorShape
<1> QED  BY <1>8, <1>9

LEMMA EditorSaveGoesOn ==
    ASSUME Edited, NEW ok \in BOOLEAN, RunWrite(ok), queue' = Tail(queue),
           Head(queue).counts => ok, UNCHANGED <<snapshot, text, base, phase>>
    PROVE  Edited'
<1>1. EditorShape  BY DEF Edited
<1>2. /\ queue # << >> /\ form' = form /\ held' \in [Fields -> Values]
      /\ edits' \in EditsRow /\ edits'.typed = edits.typed /\ edits'.early = edits.early
      /\ edits.stale \subseteq edits'.stale
      /\ \A f \in Fields : edits.seen[f] \subseteq edits'.seen[f] /\ held'[f] \in edits'.seen[f]
      /\ ok => Head(queue).value \in edits'.seen[Head(queue).field]
      /\ form = "panel" /\ phase # "closed" =>
             \A f \in Fields : held'[f] = text[f] \/ f \in edits'.typed \cup edits'.stale
  BY SaveRuns
<1>3. /\ queue' \in Seq(Item) /\ Len(queue') <= MaxQueue
      /\ \A i \in 1..Len(queue) : queue[i] \in Item
  BY <1>1, <1>2, QueueShrinks, QueueNumbers
<1>4. \A i \in 1..Len(queue) : i # 1 => \A it : it = queue[i] => Fits(it)'
  <2> SUFFICES ASSUME NEW i \in 1..Len(queue), NEW it, it = queue[i] PROVE Fits(it)'  OBVIOUS
  <2> QED  BY <1>1, <1>2, <1>3, OldItemFits DEF Edited, QueueFits
<1>5. QueueFits' /\ OneLoad'  BY <1>2, <1>4, QueueRests
<1>6. EditorShape'  BY <1>1, <1>2, <1>3 DEF EditorShape
<1>7. TextsExplained'  BY <1>2 DEF Edited, TextsExplained, Explained
<1>8. SnapshotExplained'  BY <1>2 DEF Edited, SnapshotExplained
<1>9. BaselinesSeen'  BY <1>2 DEF Edited, BaselinesSeen, Seen
<1>10. SnapshotComing'
  <2> SUFFICES ASSUME form = "drawer", NEW f \in DOMAIN snapshot
               PROVE  Seen(f, snapshot[f])' \/ SaveOnItsWay(f, snapshot[f])'
    BY <1>2 DEF SnapshotComing
  <2>1. PICK v : v = snapshot[f]  OBVIOUS
  <2>2. f \in Fields  BY <1>1 DEF EditorShape
  <2>3. CASE Seen(f, v)  BY <1>2, <2>1, <2>2, <2>3 DEF Seen
  <2>4. CASE SaveOnItsWay(f, v)
    <3>1. CASE SaveOnItsWay(f, v)'  BY <2>1, <3>1 DEF SaveOnItsWay
    <3>2. CASE Awaited(Head(queue), "write") /\ Head(queue).field = f /\ Head(queue).value = v
      <4>1. v \in edits'.seen[f]  BY <1>2, <3>2 DEF Awaited
      <4> QED  BY <2>1, <4>1 DEF Seen
    <3> QED  BY <1>1, <1>2, <2>4, <3>1, <3>2, SaveStillOnItsWay
  <2> QED  BY <2>1, <2>3, <2>4 DEF Edited, SnapshotComing
<1> QED  BY <1>5, <1>6, <1>7, <1>8, <1>9, <1>10 DEF Edited

\* No save of the rest is waited for any more, and the panel may refresh.
LEMMA NobodyWaits ==
    ASSUME Edited, queue # << >>, form' = form, NEW r \in Seq(Item), Len(r) = Len(Tail(queue)),
           NEW again \in BOOLEAN, again => form = "panel",
           queue' = IF again THEN Append(r, Reader("refresh")) ELSE r,
           \A i \in 1..Len(r) :
               /\ \A it : it = r[i] => Fits(it)'
               /\ Awaited(r[i], "load") => Awaited(Tail(queue)[i], "load")
    PROVE  queue' \in Seq(Item) /\ Len(queue') <= MaxQueue /\ QueueFits' /\ OneLoad'
<1>1. EditorShape  BY DEF Edited
<1>2. /\ Len(r) + 1 = Len(queue) /\ Len(queue) \in Nat /\ Len(queue) <= MaxQueue /\ MaxQueue \in Nat
      /\ \A i \in 1..Len(Tail(queue)) : /\ Tail(queue)[i] = queue[i + 1]
                                        /\ i + 1 \in 1..Len(queue)
  BY <1>1, QueueShrinks, QueueNumbers DEF EditorShape
<1> DEFINE w == Reader("refresh")
<1>3. w \in Item /\ w.op = "refresh"  BY DEF Reader, Item, ReadItem
<1> HIDE DEF w
<1>4. /\ queue' \in Seq(Item) /\ Len(queue') <= MaxQueue
      /\ \A i \in 1..Len(queue') : \/ i \in 1..Len(r) /\ queue'[i] = r[i]
                                   \/ again /\ queue'[i] = w
  <2>1. CASE again
    <3>1. queue' = Append(r, w)  BY <2>1 DEF w
    <3>2. queue' \in Seq(Item) /\ Len(queue') = Len(r) + 1  BY <1>3, <3>1
    <3>3. \A i \in 1..Len(queue') : \/ i \in 1..Len(r) /\ queue'[i] = r[i]
                                    \/ queue'[i] = w
      BY <1>3, <3>1
    <3> QED  BY <1>2, <2>1, <3>2, <3>3
  <2>2. CASE ~again
    <3>1. queue' = r /\ Len(r) <= MaxQueue  BY <1>2, <2>2
    <3> QED  BY <3>1
  <2> QED  BY <2>1, <2>2
<1>5. QueueFits'
  <2> SUFFICES ASSUME NEW i \in 1..Len(queue') PROVE Fits(queue[i])'  BY DEF QueueFits
  <2>1. PICK it : it = queue'[i]  OBVIOUS
  <2>2. CASE i \in 1..Len(r) /\ queue'[i] = r[i]
    <3>1. Fits(it)'  BY <2>1, <2>2
    <3> QED  BY <2>1, <3>1 DEF Fits
  <2>3. CASE again /\ queue'[i] = w  BY <1>3, <2>3 DEF Fits, Awaited
  <2> QED  BY <1>4, <2>2, <2>3
<1>6. OneLoad'
  <2> SUFFICES ASSUME NEW i \in 1..Len(queue'), NEW j \in 1..Len(queue'),
                      Awaited(queue'[i], "load"), Awaited(queue'[j], "load")
               PROVE  i = j
    BY DEF OneLoad
  <2>1. i \in 1..Len(r) /\ j \in 1..Len(r) /\ queue'[i] = r[i] /\ queue'[j] = r[j]
    BY <1>3, <1>4 DEF Awaited
  <2>2. Awaited(queue[i + 1], "load") /\ Awaited(queue[j + 1], "load")  BY <1>2, <2>1
  <2>3. i + 1 = j + 1  BY <1>2, <2>1, <2>2 DEF Edited, OneLoad
  <2> QED  BY <2>3
<1> QED  BY <1>4, <1>5, <1>6

LEMMA EditorSaveSucceeds ==
    ASSUME Edited, RunWrite(TRUE), Head(queue).counts, Succeed(Tail(queue)),
           \A i \in 1..Len(Tail(queue)) : ~Awaited(Tail(queue)[i], "write")
    PROVE  Edited'
<1>1. EditorShape  BY DEF Edited
<1>2. /\ queue # << >> /\ form' = form /\ held' \in [Fields -> Values]
      /\ Head(queue) = queue[1] /\ Head(queue) \in WriteItem /\ 1 \in 1..Len(queue)
      /\ edits' \in EditsRow /\ edits'.typed = edits.typed /\ edits'.early = edits.early
      /\ edits.stale \subseteq edits'.stale
      /\ \A f \in Fields : edits.seen[f] \subseteq edits'.seen[f] /\ held'[f] \in edits'.seen[f]
      /\ Head(queue).value \in edits'.seen[Head(queue).field]
      /\ form = "panel" /\ phase # "closed" =>
             \A f \in Fields : held'[f] = text[f] \/ f \in edits'.typed \cup edits'.stale
  BY SaveRuns
<1>3. phase # "closed"  BY <1>2 DEF Edited, QueueFits, Fits, Awaited, WriteItem
<1>4. /\ phase' = phase /\ snapshot' = << >> /\ DOMAIN snapshot' = {}
      /\ text' = IF DOMAIN snapshot = {"attendance"} THEN Over(snapshot, text) ELSE text
      /\ base' = IF form = "drawer" THEN Over(snapshot, base) ELSE base
      /\ queue' = IF form = "panel" THEN Append(Tail(queue), Reader("refresh")) ELSE Tail(queue)
  BY DEF Succeed
<1>5. /\ text' \in [Fields -> Values]
      /\ \A f \in Fields : text'[f] = IF DOMAIN snapshot = {"attendance"} /\ f = "attendance"
                                      THEN snapshot[f] ELSE text[f]
  BY <1>1, <1>4 DEF EditorShape, Over
<1>6. /\ base' \in [Fields -> Values]
      /\ \A f \in Fields : base'[f] = IF form = "drawer" /\ f \in DOMAIN snapshot
                                      THEN snapshot[f] ELSE base[f]
  BY <1>1, <1>4 DEF EditorShape, Over
<1>7. /\ Tail(queue) \in Seq(Item)
      /\ \A i \in 1..Len(Tail(queue)) : /\ Tail(queue)[i] = queue[i + 1]
                                        /\ i + 1 \in 1..Len(queue)
  BY <1>1, <1>2, QueueShrinks
<1>8. \A i \in 1..Len(Tail(queue)) : \A it : it = Tail(queue)[i] => Fits(it)'
  <2> SUFFICES ASSUME NEW i \in 1..Len(Tail(queue)), NEW it, it = Tail(queue)[i] PROVE Fits(it)'
    OBVIOUS
  <2>1. Fits(it) /\ ~Awaited(it, "write")  BY <1>7 DEF Edited, QueueFits
  <2>2. Awaited(it, "load") => phase' = "loading"  BY <1>4, <2>1 DEF Fits
  <2> QED  BY <1>2, <2>1, <2>2, UncountedFits
<1>9. queue' \in Seq(Item) /\ Len(queue') <= MaxQueue /\ QueueFits' /\ OneLoad'
  <2>1. PICK again \in BOOLEAN : again = (form = "panel")  OBVIOUS
  <2> QED  BY <1>2, <1>4, <1>7, <1>8, <2>1, NobodyWaits
<1>10. snapshot' \in [DOMAIN snapshot' -> Values]  BY <1>4
<1>11. EditorShape'  BY <1>1, <1>2, <1>4, <1>5, <1>6, <1>9, <1>10 DEF EditorShape
<1>12. \A f \in DOMAIN snapshot : /\ f \in Fields
                                  /\ snapshot[f] = text[f] \/ f \in edits.typed \/ f \in edits.early
  BY <1>1 DEF Edited, SnapshotExplained, EditorShape
<1>13. "attendance" \notin edits.early  BY <1>1 DEF EditorShape, EditsRow
<1>14. \A f \in Fields : text[f] = base[f] \/ Explained(f)
  BY <1>3 DEF Edited, TextsExplained
<1>15. TextsExplained'
  <2>1. ASSUME NEW f \in Fields PROVE text'[f] = base'[f] \/ Explained(f)'
    <3>1. Explained(f) => Explained(f)'  BY <1>2 DEF Explained
    <3>2. CASE form = "drawer" /\ f \in DOMAIN snapshot
      <4>1. base'[f] = snapshot[f] /\ text'[f] \in {snapshot[f], text[f]}  BY <1>5, <1>6, <3>2
      <4> QED  BY <1>2, <1>12, <3>2, <4>1 DEF Explained
    <3>3. CASE ~(form = "drawer" /\ f \in DOMAIN snapshot)
      <4>1. base'[f] = base[f]  BY <1>6, <3>3
      <4>2. text'[f] = text[f] \/ f \in edits.typed
        BY <1>5, <1>12, <1>13, <3>3
      <4> QED  BY <1>2, <1>14, <3>1, <4>1, <4>2 DEF Explained
    <3> QED  BY <3>2, <3>3
  <2>2. form = "drawer" /\ "attendance" \in Fields => text'["attendance"] = base'["attendance"]
    <3> SUFFICES ASSUME form = "drawer", "attendance" \in Fields
                 PROVE  text'["attendance"] = base'["attendance"]
      OBVIOUS
    <3>1. text["attendance"] = base["attendance"]  BY DEF Edited, TextsExplained
    <3>2. "attendance" \in DOMAIN snapshot =>
              DOMAIN snapshot = {"attendance"} \/ snapshot["attendance"] = text["attendance"]
      BY DEF Edited, SnapshotExplained
    <3> QED  BY <1>5, <1>6, <3>1, <3>2
  <2>3. form = "panel" =>
            \A f \in Fields : held'[f] = text'[f] \/ f \in edits'.typed \cup edits'.stale
    <3> SUFFICES ASSUME form = "panel", NEW f \in Fields
                 PROVE  held'[f] = text'[f] \/ f \in edits'.typed \cup edits'.stale
      OBVIOUS
    <3>1. text'[f] = text[f] \/ f \in edits.typed  BY <1>5, <1>12, <1>13
    <3> QED  BY <1>2, <1>3, <3>1
  <2> QED  BY <1>2, <2>1, <2>2, <2>3 DEF TextsExplained
<1>16. SnapshotExplained' /\ SnapshotComing'
  BY <1>3, <1>4 DEF SnapshotExplained, SnapshotComing
<1>17. BaselinesSeen'
  <2> SUFFICES ASSUME NEW f \in Fields PROVE Seen(f, base[f])'  BY <1>2 DEF BaselinesSeen
  <2>1. PICK v : v = base'[f]  OBVIOUS
  <2>2. CASE Seen(f, v)  BY <1>2, <2>1, <2>2 DEF Seen
  <2>3. CASE SaveOnItsWay(f, v)
    <3>1. PICK i \in 1..Len(queue) : /\ Awaited(queue[i], "write")
                                     /\ queue[i].field = f /\ queue[i].value = v
      BY <2>3 DEF SaveOnItsWay
    <3>2. i = 1
      <4>1. ASSUME i # 1 PROVE FALSE
        <5>1. i - 1 \in 1..Len(Tail(queue)) /\ Tail(queue)[i - 1] = queue[i]
          BY <1>1, <1>2, <4>1, QueueShrinks
        <5> QED  BY <3>1, <5>1
      <4> QED  BY <4>1
    <3> QED  BY <1>2, <2>1, <3>1, <3>2 DEF Seen
  <2>4. Seen(f, v) \/ SaveOnItsWay(f, v)
    BY <1>6, <2>1 DEF Edited, BaselinesSeen, SnapshotComing
  <2> QED  BY <2>2, <2>3, <2>4
<1> QED  BY <1>9, <1>11, <1>15, <1>16, <1>17 DEF Edited

LEMMA EditorSaveFails ==
    ASSUME Edited, RunWrite(FALSE), NEW all, GiveUp(Tail(queue), all)
    PROVE  Edited'
<1>1. EditorShape  BY DEF Edited
<1>2. /\ queue # << >> /\ form' = form /\ held' = held /\ edits' = edits /\ UNCHANGED <<text, base>>
  BY DEF RunWrite, GiveUp
<1>3. /\ snapshot' = << >> /\ DOMAIN snapshot' = {}
      /\ phase' = phase \/ (phase' = "closed" /\ form = "panel")
      /\ \/ form = "panel" /\ queue' = Append(Unfollowed(Tail(queue)), Reader("refresh"))
         \/ queue' = Unfollowed(Tail(queue))
  BY DEF GiveUp
<1>4. /\ Tail(queue) \in Seq(Item)
      /\ \A i \in 1..Len(Tail(queue)) : /\ Tail(queue)[i] = queue[i + 1]
                                        /\ i + 1 \in 1..Len(queue)
                                        /\ Tail(queue)[i] \in Item
  BY <1>1, <1>2, QueueShrinks
<1> DEFINE r == Unfollowed(Tail(queue))
<1>5. \A i \in 1..Len(Tail(queue)) :
          /\ r[i] \in Item /\ r[i].op = Tail(queue)[i].op /\ ~Awaited(r[i], "write")
          /\ r[i].op = "write" =>
                 r[i].all = Tail(queue)[i].all /\ r[i].cause = Tail(queue)[i].cause
          /\ r[i].op # "write" => r[i] = Tail(queue)[i]
  <2> SUFFICES ASSUME NEW i \in 1..Len(Tail(queue)), NEW it, it = Tail(queue)[i], NEW m, m = r[i]
               PROVE  /\ m \in Item /\ m.op = it.op /\ ~Awaited(m, "write")
                      /\ m.op = "write" => m.all = it.all /\ m.cause = it.cause
                      /\ m.op # "write" => m = it
    OBVIOUS
  <2>1. it \in Item /\ i \in DOMAIN Tail(queue)  BY <1>4
  <2>2. m = IF it.op = "write" THEN [it EXCEPT !.counts = FALSE] ELSE it
    BY <2>1 DEF Unfollowed
  <2> QED  BY <2>1, <2>2, Muted DEF Awaited
<1>6. r \in Seq(Item) /\ Len(r) = Len(Tail(queue))
  <2>1. DOMAIN r = 1..Len(Tail(queue)) /\ Len(Tail(queue)) \in Nat  BY <1>4 DEF Unfollowed
  <2>2. r = [i \in 1..Len(Tail(queue)) |-> r[i]]  BY <1>4 DEF Unfollowed
  <2> HIDE DEF r
  <2> QED  BY <1>5, <2>1, <2>2
<1>7. PICK t \in Seq(Item) : t = r  BY <1>6
<1> HIDE DEF r
<1>8. \A i \in 1..Len(t) : /\ \A it : it = t[i] => Fits(it)'
                           /\ Awaited(t[i], "load") => Awaited(Tail(queue)[i], "load")
  <2> SUFFICES ASSUME NEW i \in 1..Len(t), NEW it, it = t[i]
               PROVE  /\ Fits(it)'
                      /\ Awaited(it, "load") => Awaited(Tail(queue)[i], "load")
    OBVIOUS
  <2>1. Fits(Tail(queue)[i])  BY <1>4, <1>6, <1>7 DEF Edited, QueueFits
  <2>2. Fits(it) /\ ~Awaited(it, "write") /\ (it.op # "write" => it = Tail(queue)[i])
    <3>1. PICK o : o = Tail(queue)[i]  OBVIOUS
    <3>2. /\ it.op = o.op /\ ~Awaited(it, "write") /\ (it.op # "write" => it = o)
          /\ it.op = "write" => it.all = o.all /\ it.cause = o.cause
      BY <1>5, <1>6, <1>7, <3>1
    <3> QED  BY <2>1, <3>1, <3>2 DEF Fits, Awaited
  <2>3. Awaited(it, "load") => phase' = "loading"  BY <1>3, <2>2 DEF Fits, Awaited
  <2>4. Fits(it)'  BY <1>2, <2>2, <2>3, UncountedFits
  <2> QED  BY <2>2, <2>4 DEF Awaited
<1>9. queue' \in Seq(Item) /\ Len(queue') <= MaxQueue /\ QueueFits' /\ OneLoad'
  <2>1. PICK again \in BOOLEAN : /\ again => form = "panel"
                                 /\ queue' = IF again THEN Append(t, Reader("refresh")) ELSE t
    <3>1. \/ form = "panel" /\ queue' = Append(t, Reader("refresh"))
          \/ queue' = t
      BY <1>3, <1>7 DEF r
    <3> QED  BY <3>1
  <2> QED  BY <1>2, <1>6, <1>7, <1>8, <2>1, NobodyWaits
<1>10. snapshot' \in [DOMAIN snapshot' -> Values]  BY <1>3
<1>11. EditorShape'  BY <1>1, <1>2, <1>3, <1>9, <1>10 DEF EditorShape, Phases
<1>12. TextsExplained'  BY <1>2, <1>3 DEF Edited, TextsExplained, Explained
<1>13. SnapshotExplained' /\ SnapshotComing'
  BY <1>2, <1>3 DEF SnapshotExplained, SnapshotComing
<1>14. BaselinesSeen'  BY <1>2 DEF Edited, BaselinesSeen, Seen
<1> QED  BY <1>9, <1>11, <1>12, <1>13, <1>14 DEF Edited

LEMMA RunWriteStep ==
    ASSUME Edited, NEW ok \in BOOLEAN, RunWrite(ok)
    PROVE  Edited'
<1> DEFINE it    == Head(queue)
           rest  == Tail(queue)
           over  == \A i \in DOMAIN rest : rest[i].op = "write" => ~rest[i].counts
<1>1. queue # << >> /\ rest \in Seq(Item) /\ DOMAIN rest = 1..Len(rest)
  BY QueueShrinks DEF RunWrite, Edited
<1>2. IF it.counts /\ (~ok \/ over)
      THEN Finish(rest, ok, it.all)
      ELSE queue' = rest /\ UNCHANGED <<snapshot, text, base, phase>>
  BY DEF RunWrite
<1>3. over <=> \A i \in 1..Len(rest) : ~Awaited(rest[i], "write")  BY <1>1 DEF Awaited
<1> HIDE DEF over
<1>4. CASE ~(it.counts /\ (~ok \/ over))
  <2>1. queue' = Tail(queue) /\ UNCHANGED <<snapshot, text, base, phase>>  BY <1>2, <1>4
  <2>2. Head(queue).counts => ok  BY <1>4
  <2> QED  BY <2>1, <2>2, EditorSaveGoesOn
<1>5. CASE it.counts /\ ok /\ over
  <2>1. Succeed(Tail(queue))  BY <1>2, <1>5 DEF Finish
  <2>2. RunWrite(TRUE)  BY <1>5
  <2> QED  BY <1>3, <1>5, <2>1, <2>2, EditorSaveSucceeds
<1>6. CASE it.counts /\ ~ok
  <2>1. GiveUp(Tail(queue), it.all)  BY <1>2, <1>6 DEF Finish
  <2>2. RunWrite(FALSE)  BY <1>6
  <2> QED  BY <2>1, <2>2, EditorSaveFails
<1> QED  BY <1>4, <1>5, <1>6

LEMMA NextEdited ==
    ASSUME Edited, [NextEditor]_editorVars
    PROVE  Edited'
<1>1. CASE UNCHANGED editorVars
  <2>1. QueueFits' /\ OneLoad'  BY <1>1, QueueSame DEF editorVars
  <2>2. EditorShape' /\ TextsExplained' /\ SnapshotExplained'
    BY <1>1 DEF editorVars, Edited, EditorShape, TextsExplained, SnapshotExplained, Explained
  <2>3. BaselinesSeen' /\ SnapshotComing'
    BY <1>1 DEF editorVars, Edited, BaselinesSeen, SnapshotComing, Seen, SaveOnItsWay
  <2> QED  BY <2>1, <2>2, <2>3 DEF Edited
<1>2. ASSUME NEW ok \in BOOLEAN, RunWrite(ok) \/ Load(ok) PROVE Edited'
  BY <1>2, RunWriteStep, LoadStep
<1>3. ASSUME NEW v \in Texts, Mark(v) PROVE Edited'  BY <1>3, AttendanceStep
<1>4. ASSUME NEW f \in Fields, SaveField(f) PROVE Edited'  BY <1>4, SaveFieldStep
<1>5. ASSUME NEW f \in Fields, NEW v \in Texts \cup {Nothing}, Type(f, v) \/ AnotherSaves(f, v)
      PROVE  Edited'
  BY <1>5, TypeStep, AnotherSavesStep DEF Values
<1> QED
  BY <1>1, <1>2, <1>3, <1>4, <1>5, OpenFormStep, CloseFormStep, SaveAllStep, RefreshStep
  DEF NextEditor

LEMMA EditedSuffices == Edited => TypeOKEditor /\ CleanMeansStored /\ UntypedWrittenOnlyWhenStale
<1> SUFFICES ASSUME Edited PROVE TypeOKEditor /\ CleanMeansStored /\ UntypedWrittenOnlyWhenStale
  OBVIOUS
<1>1. EditorShape  BY DEF Edited
<1>2. /\ DOMAIN queue = 1..Len(queue) /\ Len(queue) \in Nat /\ MaxQueue \in Nat
      /\ \A i \in 1..Len(queue) : queue[i] \in Item /\ Fits(queue[i])
  BY <1>1, QueueNumbers DEF Edited, QueueFits
<1>3. \A i \in DOMAIN queue : queue[i].op \in {"write", "load", "refresh"}
  BY <1>2 DEF Item, WriteItem, ReadItem
<1>4. Len(queue) <= MaxQueue + 1  BY <1>1, <1>2 DEF EditorShape
<1>5. TypeOKEditor
  BY <1>1, <1>3, <1>4 DEF EditorShape, TypeOKEditor, Contents, Values, EditsRow
<1>6. CleanMeansStored  BY DEF Edited, BaselinesSeen, Seen, CleanMeansStored
<1>7. UntypedWrittenOnlyWhenStale  BY <1>2 DEF Fits, UntypedWrittenOnlyWhenStale
<1> QED  BY <1>5, <1>6, <1>7

\* The inductive invariant holds in every state of a behavior.
LEMMA AlwaysEdited == SpecEditor => []Edited
BY InitEdited, NextEdited, PTL DEF SpecEditor

\* Whatever is saved field by field, all at once, after closing the form or while it loads, and
\* whichever of these fails: a baseline is a value that was stored, so that "save all" never skips
\* a text that is not (lesson-detail.tsx:216-250, lesson-notes-inline.tsx:130).
THEOREM BaselinesWereStored == SpecEditor => []CleanMeansStored
BY AlwaysEdited, EditedSuffices, PTL

\* "Save all" writes a field that nobody typed in only over a stale page or out of a drawer that
\* was saved from before it had loaded, for every order of keystrokes, saves, loads and refreshes
\* (lesson-detail.tsx:250, lesson-notes-inline.tsx:130).
THEOREM UntypedNeedsAReason == SpecEditor => []UntypedWrittenOnlyWhenStale
BY AlwaysEdited, EditedSuffices, PTL

-----------------------------------------------------------------------------
(* The week calendar. Only the oldest question is answered, so only the    *)
(* oldest drag need know the way back: the slot it came from is the one    *)
(* the list still has, unless its block went astray.                       *)

Question == [op : {"move", "create", "cancel"}, block : Blocks, from : Places, to : Places]
Moving(i, b) == asked[i].op = "move" /\ asked[i].block = b

\* Only the oldest drag may know its way back; the others are of blocks that went astray.
WaysBackKnown ==
    \A i \in 1..Len(asked) : asked[i].op = "move" =>
        asked[i].block \in astray \/ (i = 1 /\ asked[i].from = events[asked[i].block])

\* A block that did not go astray stands where it is listed, or the oldest drag moved it.
BlocksStanding ==
    \A b \in Blocks \ astray :
        display[b] = events[b] \/ (asked # << >> /\ Moving(1, b))

\* The inductive invariant.
Placed == /\ slotOf \in [Blocks -> Places]
          /\ events \in [Blocks -> Places]
          /\ display \in [Blocks -> Places]
          /\ asked \in Seq(Question) /\ Len(asked) <= MaxDrags
          /\ astray \in SUBSET Blocks
          /\ WaysBackKnown
          /\ BlocksStanding

LEMMA InitPlaced == InitCalendar => Placed
BY CalendarAssumption DEF InitCalendar, Placed, WaysBackKnown, BlocksStanding

\* One more question at the end of the queue.
LEMMA OneMore ==
    ASSUME Placed, Len(asked) < MaxDrags, NEW q \in Question, asked' = Append(asked, q)
    PROVE  /\ asked' \in Seq(Question) /\ Len(asked') <= MaxDrags
           /\ Len(asked') = Len(asked) + 1 /\ asked' # << >>
           /\ asked'[Len(asked) + 1] = q
           /\ \A i \in 1..Len(asked) : asked'[i] = asked[i]
           /\ Len(asked) \in Nat /\ (asked # << >> <=> Len(asked) >= 1)
<1>1. MaxDrags \in Nat /\ asked \in Seq(Question)  BY CalendarAssumption DEF Placed
<1> QED  BY <1>1

LEMMA DragStep ==
    ASSUME Placed, NEW b \in Blocks, NEW to \in Slots, Drag(b, to)
    PROVE  Placed'
<1> DEFINE q == [op |-> "move", block |-> b, from |-> display[b], to |-> to]
<1>1. q \in Question /\ q.op = "move" /\ q.block = b /\ q.from = display[b]
  BY DEF Question, Placed, Places
<1>2. /\ asked' = Append(asked, q) /\ Len(asked) < MaxDrags
      /\ display' = [display EXCEPT ![b] = to] /\ UNCHANGED <<slotOf, events>>
      /\ astray' = IF asked # << >> THEN astray \cup {b} ELSE astray
  BY DEF Drag, Ask
<1> HIDE DEF q
<1>3. /\ asked' \in Seq(Question) /\ Len(asked') <= MaxDrags
      /\ Len(asked') = Len(asked) + 1 /\ asked' # << >>
      /\ asked'[Len(asked) + 1] = q
      /\ \A i \in 1..Len(asked) : asked'[i] = asked[i]
      /\ Len(asked) \in Nat /\ (asked # << >> <=> Len(asked) >= 1)
  BY <1>1, <1>2, OneMore
<1>4. display' \in [Blocks -> Places] /\ astray' \in SUBSET Blocks
      /\ \A c \in Blocks : c # b => display'[c] = display[c]
  BY <1>2 DEF Placed, Places
<1>5. CASE asked = << >>
  <2>1. b \in astray \/ display[b] = events[b]  BY <1>5 DEF Placed, BlocksStanding
  <2>2. Len(asked) = 0 /\ asked'[1] = q /\ Len(asked') = 1 /\ astray' = astray
    BY <1>2, <1>3, <1>5
  <2>3. WaysBackKnown'  BY <1>1, <1>2, <2>1, <2>2 DEF WaysBackKnown
  <2>4. BlocksStanding'
    BY <1>1, <1>2, <1>3, <1>4, <1>5, <2>2 DEF Placed, BlocksStanding, Moving
  <2> QED  BY <1>2, <1>3, <1>4, <2>3, <2>4 DEF Placed
<1>6. CASE asked # << >>
  <2>1. astray' = astray \cup {b} /\ asked'[1] = asked[1]  BY <1>2, <1>3, <1>6
  <2>2. WaysBackKnown'
    <3> SUFFICES ASSUME NEW i \in 1..Len(asked'), asked'[i].op = "move"
                 PROVE  \/ asked'[i].block \in astray'
                        \/ i = 1 /\ asked'[i].from = events[asked'[i].block]
      BY <1>2 DEF WaysBackKnown
    <3>1. CASE i = Len(asked) + 1  BY <1>1, <1>3, <2>1, <3>1
    <3>2. CASE i \in 1..Len(asked)  BY <1>3, <2>1, <3>2 DEF Placed, WaysBackKnown
    <3> QED  BY <1>3, <3>1, <3>2
  <2>3. BlocksStanding'
    BY <1>2, <1>3, <1>4, <1>6, <2>1 DEF Placed, BlocksStanding, Moving
  <2> QED  BY <1>2, <1>3, <1>4, <2>2, <2>3 DEF Placed
<1> QED  BY <1>5, <1>6

\* A question that moves nothing on the screen.
LEMMA QuietQuestion ==
    ASSUME Placed, Len(asked) < MaxDrags, NEW q \in Question, q.op # "move",
           asked' = Append(asked, q), UNCHANGED <<slotOf, events, display, astray>>
    PROVE  Placed'
<1>1. /\ asked' \in Seq(Question) /\ Len(asked') <= MaxDrags
      /\ Len(asked') = Len(asked) + 1 /\ asked' # << >>
      /\ asked'[Len(asked) + 1] = q
      /\ \A i \in 1..Len(asked) : asked'[i] = asked[i]
      /\ Len(asked) \in Nat /\ (asked # << >> <=> Len(asked) >= 1)
  BY OneMore
<1>2. WaysBackKnown'
  <2> SUFFICES ASSUME NEW i \in 1..Len(asked'), asked'[i].op = "move"
               PROVE  \/ asked'[i].block \in astray
                      \/ i = 1 /\ asked'[i].from = events[asked'[i].block]
    BY DEF WaysBackKnown
  <2>1. i \in 1..Len(asked)  BY <1>1
  <2> QED  BY <1>1, <2>1 DEF Placed, WaysBackKnown
<1>3. BlocksStanding'  BY <1>1 DEF Placed, BlocksStanding, Moving
<1> QED  BY <1>1, <1>2, <1>3 DEF Placed

LEMMA DrawStep ==
    ASSUME Placed, NEW b \in Blocks, NEW to \in Slots, Draw(b, to)
    PROVE  Placed'
<1> DEFINE q == [op |-> "create", block |-> b, from |-> display[b], to |-> to]
<1>1. q \in Question /\ q.op # "move"  BY DEF Question, Placed, Places
<1>2. asked' = Append(asked, q) /\ Len(asked) < MaxDrags /\ UNCHANGED <<slotOf, events, display, astray>>
  BY DEF Draw, Ask
<1> HIDE DEF q
<1> QED  BY <1>1, <1>2, QuietQuestion

LEMMA CancelBlockStep ==
    ASSUME Placed, NEW b \in Blocks, CancelBlock(b)
    PROVE  Placed'
<1> DEFINE q == [op |-> "cancel", block |-> b, from |-> display[b], to |-> Nothing]
<1>1. q \in Question /\ q.op # "move"  BY DEF Question, Placed, Places
<1>2. asked' = Append(asked, q) /\ Len(asked) < MaxDrags /\ UNCHANGED <<slotOf, events, display, astray>>
  BY DEF CancelBlock, Ask
<1> HIDE DEF q
<1> QED  BY <1>1, <1>2, QuietQuestion

\* What the answer to the oldest question leaves in the queue.
LEMMA OneLess ==
    ASSUME Placed, asked # << >>
    PROVE  /\ Head(asked) \in Question /\ Head(asked) = asked[1]
           /\ Tail(asked) \in Seq(Question) /\ Len(Tail(asked)) <= MaxDrags
           /\ \A i \in 1..Len(Tail(asked)) : /\ Tail(asked)[i] = asked[i + 1]
                                             /\ i + 1 \in 1..Len(asked) /\ i + 1 # 1
<1>1. asked \in Seq(Question) /\ MaxDrags \in Nat /\ Len(asked) <= MaxDrags
  BY CalendarAssumption DEF Placed
<1>2. Head(asked) \in Question /\ Head(asked) = asked[1]  BY <1>1
<1>3. Tail(asked) \in Seq(Question) /\ Len(Tail(asked)) = Len(asked) - 1 /\ Len(asked) \in Nat
      /\ Len(asked) >= 1
  BY <1>1
<1>4. \A i \in 1..Len(Tail(asked)) : Tail(asked)[i] = asked[i + 1]  BY <1>1
<1> QED  BY <1>1, <1>2, <1>3, <1>4

LEMMA CalendarAnswerStep ==
    ASSUME Placed, NEW outcome \in {"done", "conflict", "thrown"}, AnswerFirst(outcome)
    PROVE  Placed'
<1> DEFINE it == Head(asked)
<1>1. asked # << >>  BY DEF AnswerFirst
<1>2. /\ it \in Question /\ it = asked[1]
      /\ Tail(asked) \in Seq(Question) /\ Len(Tail(asked)) <= MaxDrags
      /\ \A i \in 1..Len(Tail(asked)) : /\ Tail(asked)[i] = asked[i + 1]
                                        /\ i + 1 \in 1..Len(asked) /\ i + 1 # 1
  BY <1>1, OneLess
<1>3. /\ it.block \in Blocks /\ it.from \in Places /\ it.to \in Places
      /\ it.op \in {"move", "create", "cancel"}
  BY <1>2 DEF Question
<1>4. asked' \in {Tail(asked), << >>}  BY DEF AnswerFirst
<1>5. asked' \in Seq(Question) /\ Len(asked') <= MaxDrags
  <2>1. CASE asked' = << >>  BY <2>1, CalendarAssumption
  <2>2. CASE asked' = Tail(asked)
    <3> HIDE DEF it
    <3> QED  BY <1>2, <2>2
  <2> QED  BY <1>4, <2>1, <2>2
\* Of what is still asked, every drag is of a block that went astray.
<1>6. \A i \in 1..Len(asked') : asked'[i].op = "move" => asked'[i].block \in astray
  <2>1. CASE asked' = << >>  BY <2>1
  <2>2. CASE asked' = Tail(asked)
    <3> HIDE DEF it
    <3>1. \A i \in 1..Len(Tail(asked)) : Tail(asked)[i].op = "move" => Tail(asked)[i].block \in astray
      BY <1>2 DEF Placed, WaysBackKnown
    <3> QED  BY <2>2, <3>1
  <2> QED  BY <1>4, <2>1, <2>2
<1>7. astray' \in {astray, {}} /\ (asked' # << >> => astray' = astray)
  BY DEF AnswerFirst
<1>8. WaysBackKnown'
  <2>1. CASE asked' = << >>  BY <2>1 DEF WaysBackKnown
  <2>2. CASE asked' # << >>
    <3>1. astray' = astray  BY <1>7, <2>2
    <3> QED  BY <1>6, <3>1 DEF WaysBackKnown
  <2> QED  BY <2>1, <2>2
<1> DEFINE calm == /\ {slotOf', events', display'} \subseteq [Blocks -> Places]
                   /\ \A b \in Blocks \ astray' : display'[b] = events'[b]
<1>9. ASSUME outcome # "thrown" PROVE calm
  <2>1. Answered(it, outcome = "done")  BY <1>9 DEF AnswerFirst
  <2> HIDE DEF it
  <2>2. slotOf' \in [Blocks -> Places] /\ events' = slotOf' /\ display' = slotOf'
    BY <1>3, <2>1 DEF Answered, Reseed, Placed
  <2> QED  BY <2>2
<1>10. ASSUME outcome = "thrown" PROVE calm
  <2>1. Thrown(it) /\ astray' = astray  BY <1>10 DEF AnswerFirst
  <2>2. asked[1] = it  BY <1>2
  <2>3. 1 \in 1..Len(asked)  BY <1>1 DEF Placed
  <2> HIDE DEF it
  <2>4. ASSUME it.op = "move" PROVE calm
    <3>1. /\ display' = [display EXCEPT ![it.block] = it.from] /\ UNCHANGED <<slotOf, events>>
      BY <2>1, <2>4 DEF Thrown, PutBack
    <3>2. it.block \in astray \/ it.from = events[it.block]
      BY <2>2, <2>3, <2>4 DEF Placed, WaysBackKnown
    <3>3. \A b \in Blocks \ astray : b # it.block => display[b] = events[b]
      BY <2>2 DEF Placed, BlocksStanding, Moving
    <3> QED  BY <1>3, <2>1, <3>1, <3>2, <3>3 DEF Placed
  <2>5. ASSUME it.op = "create" PROVE calm
    BY <2>1, <2>5 DEF Thrown, Reseed, Placed
  <2>6. ASSUME it.op = "cancel" PROVE calm
    <3>1. UNCHANGED <<slotOf, events, display>>  BY <2>1, <2>6 DEF Thrown
    <3> QED  BY <2>1, <2>2, <2>6, <3>1 DEF Placed, BlocksStanding, Moving
  <2> QED  BY <1>3, <2>4, <2>5, <2>6
<1>11. calm  BY <1>9, <1>10
<1>12. BlocksStanding'  BY <1>11 DEF BlocksStanding
<1>13. astray' \in SUBSET Blocks  BY <1>7 DEF Placed
<1> QED  BY <1>5, <1>8, <1>11, <1>12, <1>13 DEF Placed

LEMMA NextPlaced ==
    ASSUME Placed, [NextCalendar]_calendarVars
    PROVE  Placed'
<1>1. CASE UNCHANGED calendarVars
  BY <1>1 DEF calendarVars, Placed, WaysBackKnown, BlocksStanding, Moving
<1>2. ASSUME NEW b \in Blocks, NEW to \in Places, MovedElsewhere(b, to)
      PROVE  Placed'
  BY <1>2 DEF MovedElsewhere, Placed, WaysBackKnown, BlocksStanding, Moving
<1> QED  BY <1>1, <1>2, DragStep, DrawStep, CancelBlockStep, CalendarAnswerStep DEF NextCalendar

LEMMA PlacedSuffices == Placed => TypeOKCalendar /\ BlockStandsWhereListed
BY DEF Placed, BlocksStanding, TypeOKCalendar, BlockStandsWhereListed

\* The inductive invariant holds in every state of a behavior.
LEMMA AlwaysPlaced == SpecCalendar => []Placed
BY InitPlaced, NextPlaced, PTL DEF SpecCalendar

\* However many blocks are dragged before the first answer comes, and whichever of the drags fail,
\* a block that did not go astray stands in the end where the list has it (calendar.tsx:158-176).
THEOREM BlocksComeBack == SpecCalendar => []BlockStandsWhereListed
BY AlwaysPlaced, PlacedSuffices, PTL

-----------------------------------------------------------------------------
(* The list of a section's lessons. The times of an open form are those of *)
(* its row, since opening another row's form replaces both at once; so a   *)
(* call made from it carries times of its row.                             *)

ListRow == Rows \cup {Nothing}
ListTime == Times \cup {Nothing}
MovingForm == [row : ListRow, time : ListTime, for : ListRow]
Selection == [on : BOOLEAN, rows : SUBSET Rows, armed : BOOLEAN]
ListCall == [op : {"move", "add", "cancel"}, rows : SUBSET Rows, time : ListTime, for : ListRow]

ListShape ==
    /\ book \in [Rows -> ListTime]
    /\ rendered \in [time : [Rows -> ListTime], past : SUBSET Rows]
    /\ moving \in MovingForm
    /\ chosen \in Selection
    /\ ~Idle => call \in ListCall

\* The inductive invariant: the times of an open form are those of its row, and so are those of a
\* call that was made from it.
Listed ==
    /\ ListShape
    /\ moving.row # Nothing => moving.for = moving.row
    /\ ~chosen.on => chosen.rows = {} /\ ~chosen.armed
    /\ MovedToTimesTypedForIt

LEMMA PageTyped ==
    ASSUME book \in [Rows -> ListTime]
    PROVE  Page \in [time : [Rows -> ListTime], past : SUBSET Rows]
BY DEF Page, Alive

LEMMA InitListed == InitList => Listed
<1> SUFFICES ASSUME InitList PROVE Listed  OBVIOUS
<1>1. book \in [Rows -> ListTime]  BY DEF InitList, ListTime, Times
<1>2. rendered \in [time : [Rows -> ListTime], past : SUBSET Rows]  BY <1>1, PageTyped DEF InitList
<1>3. moving \in MovingForm /\ moving.row = Nothing
  BY DEF InitList, NotMoving, MovingForm, ListRow, ListTime
<1>4. chosen \in Selection /\ chosen.rows = {} /\ ~chosen.armed
  BY DEF InitList, NoneChosen, Selection
<1> QED
  BY <1>1, <1>2, <1>3, <1>4 DEF InitList, Listed, ListShape, MovedToTimesTypedForIt, Idle

\* A step of the form, the selection or the page, while the call stays.
LEMMA FormsStep ==
    ASSUME Listed, book' \in [Rows -> ListTime],
           rendered' \in [time : [Rows -> ListTime], past : SUBSET Rows],
           moving' \in MovingForm, moving'.row # Nothing => moving'.for = moving'.row,
           chosen' \in Selection, ~chosen'.on => chosen'.rows = {} /\ ~chosen'.armed,
           call' = call \/ call' = Nothing
    PROVE  Listed'
BY DEF Listed, ListShape, MovedToTimesTypedForIt, Idle

LEMMA ToggleMoveStep ==
    ASSUME Listed, NEW l \in Rows, ToggleMove(l)
    PROVE  Listed'
<1>1. moving' \in MovingForm /\ (moving'.row # Nothing => moving'.for = moving'.row)
  <2>1. CASE moving.row = l
    <3>1. moving' = [moving EXCEPT !.row = Nothing] /\ moving \in MovingForm
      BY <2>1 DEF ToggleMove, Listed, ListShape
    <3> QED  BY <3>1 DEF MovingForm, ListRow
  <2>2. CASE moving.row # l
    <3>1. moving' = [row |-> l, time |-> rendered.time[l], for |-> l] /\ rendered.time[l] \in ListTime
      BY <2>2 DEF ToggleMove, BeginEdit, Listed, ListShape
    <3> QED  BY <3>1 DEF MovingForm, ListRow
  <2> QED  BY <2>1, <2>2
<1> QED  BY <1>1, FormsStep DEF ToggleMove, Listed, ListShape

LEMMA TypeTimeStep ==
    ASSUME Listed, NEW t \in Times, TypeTime(t)
    PROVE  Listed'
<1>1. moving' = [moving EXCEPT !.time = t, !.for = moving.row] /\ moving \in MovingForm
  BY DEF TypeTime, Listed, ListShape
<1>2. moving' \in MovingForm /\ moving'.for = moving'.row  BY <1>1 DEF MovingForm, ListTime
<1> QED  BY <1>2, FormsStep DEF TypeTime, Listed, ListShape

\* A call is made from the open form, whose times are its row's.
LEMMA SubmitStep ==
    ASSUME Listed, SubmitMove \/ (\E t \in Times : SubmitAdd(t)) \/ DeleteSelected
    PROVE  Listed'
<1>1. call' \in ListCall /\ (call'.op = "move" => call'.for \in call'.rows)
  <2>1. CASE SubmitMove
    <3>1. moving \in MovingForm /\ moving.row \in Rows /\ moving.for = moving.row
      BY <2>1, ListAssumption DEF SubmitMove, OnPage, Listed, ListShape
    <3>2. call' = [op |-> "move", rows |-> {moving.row}, time |-> moving.time, for |-> moving.for]
      BY <2>1 DEF SubmitMove
    <3> QED  BY <3>1, <3>2 DEF ListCall, MovingForm
  <2>2. CASE \E t \in Times : SubmitAdd(t)
    BY <2>2 DEF SubmitAdd, ListCall, ListTime, ListRow
  <2>3. CASE DeleteSelected
    BY <2>3 DEF DeleteSelected, ListCall, ListTime, ListRow, Listed, ListShape, Selection
  <2> QED  BY <2>1, <2>2, <2>3
<1>2. UNCHANGED <<book, rendered, moving>>
  BY DEF SubmitMove, SubmitAdd, DeleteSelected
<1>3. chosen' \in Selection /\ (~chosen'.on => chosen'.rows = {} /\ ~chosen'.armed)
  <2>1. CASE DeleteSelected
    <3>1. chosen' = [chosen EXCEPT !.armed = FALSE] /\ chosen \in Selection
      BY <2>1 DEF DeleteSelected, Listed, ListShape
    <3>2. chosen' \in Selection /\ chosen'.on = chosen.on /\ chosen'.rows = chosen.rows /\ ~chosen'.armed
      BY <3>1 DEF Selection
    <3> QED  BY <3>2 DEF Listed
  <2>2. CASE chosen' = chosen  BY <2>2 DEF Listed, ListShape
  <2> QED  BY <2>1, <2>2 DEF SubmitMove, SubmitAdd
<1> QED  BY <1>1, <1>2, <1>3 DEF Listed, ListShape, MovedToTimesTypedForIt, Idle

LEMMA SelectStep ==
    ASSUME Listed, \/ \E b \in BOOLEAN : SelectMode(b) \/ Arm(b)
                   \/ \E l \in Rows : ToggleSelect(l)
    PROVE  Listed'
<1>1. chosen \in Selection /\ (~chosen.on => chosen.rows = {} /\ ~chosen.armed)
  BY DEF Listed, ListShape
<1>2. chosen' \in Selection /\ (~chosen'.on => chosen'.rows = {} /\ ~chosen'.armed)
  <2>1. ASSUME NEW b \in BOOLEAN, SelectMode(b)
        PROVE  chosen' \in Selection /\ (~chosen'.on => chosen'.rows = {} /\ ~chosen'.armed)
    BY <2>1 DEF SelectMode, ChosenAnew, NoneChosen, Selection
  <2>2. ASSUME NEW b \in BOOLEAN, Arm(b)
        PROVE  chosen' \in Selection /\ (~chosen'.on => chosen'.rows = {} /\ ~chosen'.armed)
    BY <1>1, <2>2 DEF Arm, Selection
  <2>3. ASSUME NEW l \in Rows, ToggleSelect(l)
        PROVE  chosen' \in Selection /\ (~chosen'.on => chosen'.rows = {} /\ ~chosen'.armed)
    BY <1>1, <2>3 DEF ToggleSelect, Selection
  <2> QED  BY <2>1, <2>2, <2>3
<1>3. UNCHANGED <<book, clock, rendered, moving, call>>  BY DEF SelectMode, Arm, ToggleSelect
<1> QED  BY <1>2, <1>3, FormsStep DEF Listed, ListShape

LEMMA ListAnswerStep ==
    ASSUME Listed, NEW ok \in BOOLEAN, Answer(ok)
    PROVE  Listed'
<1>1. call \in ListCall /\ call' = Nothing /\ UNCHANGED rendered
  BY DEF Answer, Listed, ListShape
<1>2. call.time \in ListTime /\ call.op \in {"move", "add", "cancel"}  BY <1>1 DEF ListCall
<1>3. CASE ok
  <2>1. Succeeds  BY <1>3 DEF Answer
  <2>2. book' \in [Rows -> ListTime]
    <3>1. CASE call.op = "add"
      BY <1>2, <2>1, <3>1 DEF Succeeds, Listed, ListShape
    <3>2. CASE call.op = "move"
      BY <1>2, <2>1, <3>2 DEF Succeeds, Listed, ListShape
    <3>3. CASE call.op = "cancel"
      BY <1>2, <2>1, <3>3 DEF Succeeds, CancelRows, Listed, ListShape, ListTime
    <3> QED  BY <1>2, <3>1, <3>2, <3>3
  <2>3. moving' \in MovingForm /\ (moving'.row # Nothing => moving'.for = moving'.row)
    <3>1. moving \in MovingForm /\ (moving.row # Nothing => moving.for = moving.row)
      BY DEF Listed, ListShape
    <3> QED  BY <2>1, <3>1 DEF Succeeds, MovingForm, ListRow
  <2>4. chosen' \in Selection /\ (~chosen'.on => chosen'.rows = {} /\ ~chosen'.armed)
    BY <2>1 DEF Succeeds, NoneChosen, Selection, Listed, ListShape
  <2> QED  BY <1>1, <2>2, <2>3, <2>4, FormsStep DEF Listed, ListShape
<1>4. CASE ~ok
  <2>1. UNCHANGED <<book, moving, chosen>>  BY <1>4 DEF Answer, Fails
  <2> QED  BY <1>1, <2>1, FormsStep DEF Listed, ListShape
<1> QED  BY <1>3, <1>4

LEMMA WorldStep ==
    ASSUME Listed, \/ RefreshList \/ TimePasses
                   \/ \E l \in Rows, t \in Times \cup {Nothing} : ElsewhereList(l, t)
    PROVE  Listed'
<1>1. UNCHANGED <<moving, chosen, call>>  BY DEF RefreshList, TimePasses, ElsewhereList
<1>2. book' \in [Rows -> ListTime]
  BY DEF RefreshList, TimePasses, ElsewhereList, Listed, ListShape, ListTime
<1>3. rendered' \in [time : [Rows -> ListTime], past : SUBSET Rows]
  BY PageTyped DEF RefreshList, TimePasses, ElsewhereList, Listed, ListShape
<1> QED  BY <1>1, <1>2, <1>3, FormsStep DEF Listed, ListShape

LEMMA NextListed ==
    ASSUME Listed, [NextList]_listVars
    PROVE  Listed'
<1>1. CASE UNCHANGED listVars
  BY <1>1 DEF listVars, Listed, ListShape, Idle, MovedToTimesTypedForIt
<1>2. ASSUME NEW l \in Rows, ToggleMove(l) PROVE Listed'  BY <1>2, ToggleMoveStep
<1>3. ASSUME NEW t \in Times, TypeTime(t) PROVE Listed'  BY <1>3, TypeTimeStep
<1>4. ASSUME NEW b \in BOOLEAN, Answer(b) PROVE Listed'  BY <1>4, ListAnswerStep
<1> QED  BY <1>1, <1>2, <1>3, <1>4, SubmitStep, SelectStep, WorldStep DEF NextList

LEMMA ListedSuffices == Listed => TypeOKList /\ MovedToTimesTypedForIt
BY DEF Listed, ListShape, TypeOKList, ListTime, ListRow, MovingForm, Selection, ListCall

\* The inductive invariant holds in every state of a behavior.
LEMMA AlwaysListed == SpecList => []Listed
BY InitListed, NextListed, PTL DEF SpecList

\* A lesson is moved only to times that were shown or typed for it, whichever rows are opened,
\* selected, canceled and moved before the answer is there (section-lessons.tsx:104-135).
THEOREM TimesAreTheRowsOwn == SpecList => []MovedToTimesTypedForIt
BY AlwaysListed, ListedSuffices, PTL

-----------------------------------------------------------------------------
(* A section and its recurring lessons. The rows of a batch split into     *)
(* those left, those that have a lesson and those counted as conflicts;    *)
(* the bulk insert is all or nothing, and the fallback takes the days one  *)
(* by one and drops none.                                                  *)

LessonRow  == [start : Days, live : BOOLEAN]
SectionRow == [stage : Stages, meetings : SUBSET Weekdays, linked : BOOLEAN, archived : BOOLEAN]
BatchStages == {"idle", "bulk", "rows", "done"}
BatchRow   == [stage : BatchStages, rows : SUBSET Days, left : SUBSET Days, conflicts : SUBSET Days]

TimetableShape ==
    /\ plan \in [meetings : SUBSET Weekdays, to : Days]
    /\ section \in SectionRow
    /\ strays \in 0..MaxStrays
    /\ DOMAIN lessons \in SUBSET Days
    /\ lessons \in [DOMAIN lessons -> LessonRow]
    /\ taken \in SUBSET Days
    /\ batch \in [Calls -> BatchRow]

\* The form has meetings to make until it links the teacher.
MeetingsToMake == /\ plan.meetings # {}
                  /\ section.meetings \subseteq plan.meetings
                  /\ section.stage \in {"new", "meetings"} => section.meetings # plan.meetings

\* Every day of a batch is still to come, has a lesson, or was counted as a conflict.
DaysKept(b) ==
    /\ b.left \subseteq b.rows
    /\ b.stage = "bulk" => b.left = b.rows
    /\ b.stage = "rows" => b.left # {} /\ b.rows \subseteq b.left \cup DOMAIN lessons \cup b.conflicts
    /\ b.stage = "done" => b.rows \subseteq DOMAIN lessons \cup b.conflicts

\* The inductive invariant.
Filled == TimetableShape /\ MeetingsToMake /\ \A p \in Calls : DaysKept(batch[p])

LEMMA LeastOf ==
    ASSUME NEW T \in SUBSET Nat, T # {}
    PROVE  \E n \in T : \A m \in T : n <= m
<1> DEFINE R == OpToRel(<, Nat)
<1>1. IsWellFoundedOn(R, Nat)  BY NatLessThanWellFounded, Zenon
<1>2. \A y, x \in Nat : y < x => <<y, x>> \in R  BY DEF OpToRel
<1> HIDE DEF R
<1>3. PICK n \in T : \A m \in T : <<m, n>> \notin R  BY <1>1, WFMin
<1>4. \A m \in T : n \in Nat /\ m \in Nat /\ ~(m < n)  BY <1>2, <1>3
<1> QED  BY <1>4

LEMMA MinIsIn ==
    ASSUME NEW T \in SUBSET Nat, T # {}
    PROVE  Min(T) \in T
BY LeastOf DEF Min

LEMMA TimetableNumbers ==
    /\ Days \subseteq Nat /\ Weekdays \subseteq Nat /\ LastDay \in Days
    /\ 0 \in 0..MaxStrays
    /\ \A k \in 0..MaxStrays : k < MaxStrays => k + 1 \in 0..MaxStrays
    /\ \A a, b \in Days : a..b \subseteq Days
    /\ \A b \in Days : 1..b \subseteq Days
<1>1. LastDay \in Nat /\ LastDay > 0 /\ WeekLength \in Nat /\ MaxStrays \in Nat
  BY TimetableAssumption
<1> QED  BY <1>1 DEF Days, Weekdays

LEMMA NothingPlanned ==
    /\ NoBatch \in BatchRow /\ DaysKept(NoBatch) /\ NoBatch.stage = "idle"
    /\ NoSection \in SectionRow /\ NoSection.meetings = {} /\ NoSection.stage = "new"
BY DEF NoBatch, BatchRow, BatchStages, DaysKept, NoSection, SectionRow, Stages

LEMMA InitFilled == InitTimetable => Filled
<1> SUFFICES ASSUME InitTimetable PROVE Filled  OBVIOUS
<1>1. plan \in [meetings : SUBSET Weekdays, to : Days] /\ plan.meetings # {}
  BY TimetableNumbers DEF InitTimetable
<1>2. batch \in [Calls -> BatchRow] /\ \A p \in Calls : DaysKept(batch[p])
  BY NothingPlanned DEF InitTimetable
<1>3. DOMAIN lessons = {} /\ lessons \in [DOMAIN lessons -> LessonRow]
  BY DEF InitTimetable
<1>4. section \in SectionRow /\ section.meetings = {} /\ section.stage = "new"
  BY NothingPlanned DEF InitTimetable
<1> QED
  BY <1>1, <1>2, <1>3, <1>4, TimetableNumbers DEF InitTimetable, Filled, TimetableShape, MeetingsToMake

LEMMA BusyIsDays ==
    ASSUME Filled
    PROVE  Busy \in SUBSET Days
BY DEF Filled, TimetableShape, Busy, Starts, LessonRow

\* The plan and the section change, and the lessons and the batches do not.
LEMMA SectionStep ==
    ASSUME Filled, plan' \in [meetings : SUBSET Weekdays, to : Days], section' \in SectionRow,
           MeetingsToMake', UNCHANGED <<strays, lessons, taken, batch>>
    PROVE  Filled'
BY DEF Filled, TimetableShape, DaysKept

LEMMA SectionFormStep ==
    ASSUME Filled, InsertSection \/ InsertMeeting \/ LinkTeacher
    PROVE  Filled'
<1>1. /\ section \in SectionRow /\ section.meetings \subseteq plan.meetings /\ plan.meetings # {}
      /\ plan \in [meetings : SUBSET Weekdays, to : Days]
      /\ section.stage \in {"new", "meetings"} => section.meetings # plan.meetings
  BY DEF Filled, TimetableShape, MeetingsToMake
<1>2. UNCHANGED <<plan, strays, lessons, taken, batch>>
  BY DEF InsertSection, InsertMeeting, LinkTeacher
<1>3. CASE InsertSection
  <2>1. section' = [section EXCEPT !.stage = "meetings"] /\ section.stage = "new"
    BY <1>3 DEF InsertSection, Step, At
  <2>2. section' \in SectionRow /\ section'.meetings = section.meetings
    BY <1>1, <2>1 DEF SectionRow, Stages
  <2> QED  BY <1>1, <1>2, <2>1, <2>2, SectionStep DEF MeetingsToMake
<1>4. CASE InsertMeeting
  <2> DEFINE rest == plan.meetings \ section.meetings
             all  == section.meetings \cup {Min(rest)}
             st   == IF all = plan.meetings THEN "link" ELSE section.stage
  <2>1. section.stage = "meetings"  BY <1>4 DEF InsertMeeting, At
  <2>2. rest \in SUBSET Nat /\ rest # {} /\ rest \subseteq plan.meetings
    BY <1>1, <2>1, TimetableNumbers
  <2>3. Min(rest) \in plan.meetings
    <3> HIDE DEF rest
    <3> QED  BY <2>2, MinIsIn
  <2>4. section' = [section EXCEPT !.meetings = all, !.stage = st]
    BY <1>4 DEF InsertMeeting
  <2>5. all \subseteq plan.meetings /\ all \in SUBSET Weekdays  BY <1>1, <2>3
  <2>6. st \in Stages /\ (st = "meetings" => all # plan.meetings) /\ st # "new"
    BY <2>1 DEF Stages
  <2> HIDE DEF all, st
  <2>7. section' \in SectionRow /\ section'.meetings = all /\ section'.stage = st
    BY <1>1, <2>4, <2>5, <2>6 DEF SectionRow
  <2> QED  BY <1>1, <1>2, <2>5, <2>6, <2>7, SectionStep DEF MeetingsToMake
<1>5. CASE LinkTeacher
  <2>1. section' = [section EXCEPT !.stage = "made", !.linked = TRUE]  BY <1>5 DEF LinkTeacher
  <2>2. section' \in SectionRow /\ section'.meetings = section.meetings /\ section'.stage = "made"
    BY <1>1, <2>1 DEF SectionRow, Stages
  <2> QED  BY <1>1, <1>2, <2>2, SectionStep DEF MeetingsToMake
<1> QED  BY <1>3, <1>4, <1>5

LEMMA UpdateSectionStep ==
    ASSUME Filled, NEW d \in Days, UpdateSection(d)
    PROVE  Filled'
<1>1. plan' = [plan EXCEPT !.to = d] /\ UNCHANGED <<section, strays, lessons, taken, batch>>
  BY DEF UpdateSection
<1>2. plan' \in [meetings : SUBSET Weekdays, to : Days] /\ plan'.meetings = plan.meetings
  BY <1>1 DEF Filled, TimetableShape
<1> QED  BY <1>1, <1>2, SectionStep DEF Filled, TimetableShape, MeetingsToMake

LEMMA ArchiveStep ==
    ASSUME Filled, NEW on \in BOOLEAN, Archive(on)
    PROVE  Filled'
<1>1. section' = [section EXCEPT !.archived = on] /\ UNCHANGED <<plan, strays, lessons, taken, batch>>
  BY DEF Archive
<1>2. /\ section' \in SectionRow /\ section'.meetings = section.meetings
      /\ section'.stage = section.stage
  BY <1>1 DEF Filled, TimetableShape, SectionRow
<1> QED  BY <1>1, <1>2, SectionStep DEF Filled, TimetableShape, MeetingsToMake

\* A batch goes on with b, the form goes to another stage or not, and no lesson row goes.
LEMMA BatchStep ==
    ASSUME Filled, NEW p, NEW b \in BatchRow, DaysKept(b)',
           batch' = [batch EXCEPT ![p] = b],
           DOMAIN lessons' \in SUBSET Days, lessons' \in [DOMAIN lessons' -> LessonRow],
           DOMAIN lessons \subseteq DOMAIN lessons',
           section' \in SectionRow, section'.meetings = section.meetings,
           section'.stage \in {section.stage, "filling", "ready", "failed"},
           UNCHANGED <<plan, strays, taken>>
    PROVE  Filled'
<1>1. batch' \in [Calls -> BatchRow] /\ \A q \in Calls : batch'[q] \in {b, batch[q]}
  BY DEF Filled, TimetableShape
<1>2. \A q \in Calls : DaysKept(batch[q])'  BY <1>1 DEF Filled, DaysKept
<1>3. MeetingsToMake'  BY DEF Filled, MeetingsToMake
<1> QED  BY <1>1, <1>2, <1>3 DEF Filled, TimetableShape

LEMMA StepTo ==
    ASSUME Filled, NEW st \in {"filling", "ready", "failed"}, Step(st)
    PROVE  section' \in SectionRow /\ section'.meetings = section.meetings /\ section'.stage = st
BY DEF Step, Filled, TimetableShape, SectionRow, Stages

\* A batch begins with every day still to come.
LEMMA FreshBatch ==
    ASSUME NEW rows \in SUBSET Days
    PROVE  LET b == [NoBatch EXCEPT !.stage = "bulk", !.rows = rows, !.left = rows] IN
           /\ b \in BatchRow /\ b.stage = "bulk" /\ b.rows = rows /\ b.left = rows
BY DEF NoBatch, BatchRow, BatchStages

LEMMA MaterializeStep ==
    ASSUME Filled, Materialize
    PROVE  Filled'
<1> DEFINE rows == {d \in Expand("WEEKLY", section.meetings, 1, plan.to) : Week(d) \notin MovedWeeks}
           b == [NoBatch EXCEPT !.stage = "bulk", !.rows = rows, !.left = rows]
<1>1. batch' = [batch EXCEPT ![Form] = b] /\ Step("filling")
      /\ UNCHANGED <<plan, strays, lessons, taken>>
  BY DEF Materialize
<1>2. 1..plan.to \subseteq Days  BY TimetableNumbers DEF Filled, TimetableShape
<1>3. rows \in SUBSET Days  BY <1>2 DEF Expand
<1> HIDE DEF rows
<1>4. b \in BatchRow /\ b.stage = "bulk" /\ b.rows = rows /\ b.left = rows  BY <1>3, FreshBatch
<1>5. PICK c \in BatchRow : c = b  BY <1>4
<1>6. DaysKept(c)'  BY <1>4, <1>5 DEF DaysKept
<1> HIDE DEF b
<1> QED  BY <1>1, <1>5, <1>6, StepTo, BatchStep DEF Filled, TimetableShape

LEMMA AddSessionsStep ==
    ASSUME Filled, NEW p \in Calls, AddSessions(p)
    PROVE  Filled'
<1>1. PICK rows \in Asked :
        batch' = [batch EXCEPT ![p] = [NoBatch EXCEPT !.stage = "bulk", !.rows = rows, !.left = rows]]
  BY DEF AddSessions
<1>2. rows \in SUBSET Days  BY TimetableNumbers DEF Asked, Rules, Expand
<1> DEFINE b == [NoBatch EXCEPT !.stage = "bulk", !.rows = rows, !.left = rows]
<1>3. b \in BatchRow /\ b.stage = "bulk" /\ b.rows = rows /\ b.left = rows  BY <1>2, FreshBatch
<1>4. batch' = [batch EXCEPT ![p] = b]  BY <1>1
<1> HIDE DEF b
<1>5. DaysKept(b)'  BY <1>3 DEF DaysKept
<1> QED  BY <1>3, <1>4, <1>5, BatchStep DEF AddSessions, Filled, TimetableShape

LEMMA RowsAdded ==
    ASSUME Filled, NEW rows \in SUBSET Days
    PROVE  /\ DOMAIN WithLessons(rows) = DOMAIN lessons \cup rows
           /\ WithLessons(rows) \in [DOMAIN lessons \cup rows -> LessonRow]
BY DEF WithLessons, Filled, TimetableShape, LessonRow

\* All the days at once, or none and the fallback begins.
LEMMA InsertBulkStep ==
    ASSUME Filled, NEW p \in Calls, InsertBulk(p)
    PROVE  Filled'
<1>1. batch[p] \in BatchRow /\ batch[p].stage = "bulk" /\ batch[p].left = batch[p].rows
  BY DEF InsertBulk, Filled, TimetableShape, DaysKept
<1>2. batch[p].rows \in SUBSET Days  BY <1>1 DEF BatchRow
<1>3. PICK fresh \in SUBSET Days : fresh = batch[p].rows \ DOMAIN lessons  BY <1>2
<1>4. CASE fresh \cap Busy = {}
  <2>1. PICK b \in BatchRow : b = [batch[p] EXCEPT !.stage = "done", !.left = {}]
    BY <1>1 DEF BatchRow, BatchStages
  <2>2. b.stage = "done" /\ b.left = {} /\ b.rows = batch[p].rows
    BY <1>1, <2>1 DEF BatchRow
  <2>3. lessons' = WithLessons(fresh) /\ batch' = [batch EXCEPT ![p] = b]
    BY <1>3, <1>4, <2>1 DEF InsertBulk
  <2>4. DOMAIN lessons' = DOMAIN lessons \cup fresh /\ lessons' \in [DOMAIN lessons' -> LessonRow]
    BY <2>3, RowsAdded
  <2>5. DaysKept(b)'  BY <1>3, <2>2, <2>4 DEF DaysKept
  <2>6. DOMAIN lessons' \in SUBSET Days  BY <2>4 DEF Filled, TimetableShape
  <2> QED  BY <2>3, <2>4, <2>5, <2>6, BatchStep DEF InsertBulk, Filled, TimetableShape
<1>5. CASE fresh \cap Busy # {}
  <2>1. PICK b \in BatchRow : b = [batch[p] EXCEPT !.stage = "rows"]
    BY <1>1 DEF BatchRow, BatchStages
  <2>2. b.stage = "rows" /\ b.left = batch[p].rows /\ b.rows = batch[p].rows
    BY <1>1, <2>1 DEF BatchRow
  <2>3. lessons' = lessons /\ batch' = [batch EXCEPT ![p] = b]
    BY <1>3, <1>5, <2>1 DEF InsertBulk
  <2>4. DaysKept(b)'  BY <1>3, <1>5, <2>2 DEF DaysKept
  <2> QED  BY <2>3, <2>4, BatchStep DEF InsertBulk, Filled, TimetableShape
<1> QED  BY <1>4, <1>5

\* One day of the fallback: it has a lesson now, or had one, or is counted.
LEMMA InsertOneRowStep ==
    ASSUME Filled, NEW p \in Calls, InsertOneRow(p)
    PROVE  Filled'
<1>1. /\ batch[p] \in BatchRow /\ batch[p].stage = "rows" /\ batch[p].left # {}
      /\ batch[p].left \subseteq batch[p].rows
      /\ batch[p].rows \subseteq batch[p].left \cup DOMAIN lessons \cup batch[p].conflicts
  BY DEF InsertOneRow, Filled, TimetableShape, DaysKept
<1>2. batch[p].left \in SUBSET Nat  BY <1>1, TimetableNumbers DEF BatchRow
<1>3. PICK d \in batch[p].left : d = Min(batch[p].left)  BY <1>1, <1>2, MinIsIn
<1>4. d \in Days  BY <1>1 DEF BatchRow
<1>5. PICK collides \in BOOLEAN : collides = (d \notin DOMAIN lessons /\ d \in Busy)  OBVIOUS
<1>6. PICK left \in SUBSET Days : left = batch[p].left \ {d}  BY <1>1 DEF BatchRow
<1>7. PICK conflicts \in SUBSET Days :
        conflicts = IF collides THEN batch[p].conflicts \cup {d} ELSE batch[p].conflicts
  BY <1>1, <1>4 DEF BatchRow
<1>8. PICK st \in BatchStages : st = IF left = {} THEN "done" ELSE "rows"  BY DEF BatchStages
<1>9. PICK b \in BatchRow :
        b = [batch[p] EXCEPT !.left = left, !.conflicts = conflicts, !.stage = st]
  BY <1>1 DEF BatchRow
<1>10. b.left = left /\ b.conflicts = conflicts /\ b.stage = st /\ b.rows = batch[p].rows
  BY <1>1, <1>9 DEF BatchRow
<1>11. batch' = [batch EXCEPT ![p] = b]
  BY <1>1, <1>3, <1>5, <1>6, <1>7, <1>8, <1>9 DEF InsertOneRow, LoopEnds
<1>12. lessons' = IF collides THEN lessons ELSE WithLessons({d})
  BY <1>3, <1>5 DEF InsertOneRow
<1>13. /\ DOMAIN lessons' \in SUBSET Days /\ lessons' \in [DOMAIN lessons' -> LessonRow]
       /\ DOMAIN lessons \subseteq DOMAIN lessons' /\ (~collides => d \in DOMAIN lessons')
  <2>1. {d} \in SUBSET Days  BY <1>4
  <2>2. DOMAIN lessons \in SUBSET Days /\ lessons \in [DOMAIN lessons -> LessonRow]
    BY DEF Filled, TimetableShape
  <2>3. CASE collides  BY <1>12, <2>2, <2>3
  <2>4. CASE ~collides
    <3>1. lessons' = WithLessons({d})  BY <1>12, <2>4
    <3>2. /\ DOMAIN WithLessons({d}) = DOMAIN lessons \cup {d}
          /\ WithLessons({d}) \in [DOMAIN lessons \cup {d} -> LessonRow]
      BY <2>1, RowsAdded
    <3> QED  BY <2>1, <2>2, <3>1, <3>2
  <2> QED  BY <2>3, <2>4
<1>14. DaysKept(b)'  BY <1>1, <1>6, <1>7, <1>8, <1>10, <1>13 DEF DaysKept
<1> QED  BY <1>11, <1>13, <1>14, BatchStep DEF InsertOneRow, Filled, TimetableShape

LEMMA EndBatchStep ==
    ASSUME Filled, NEW p \in Calls, ReportBatch(p) \/ BreakBatch(p)
    PROVE  Filled'
<1>1. /\ batch' = [batch EXCEPT ![p] = NoBatch] /\ UNCHANGED <<plan, strays, lessons, taken>>
      /\ Step("ready") \/ UNCHANGED section
  BY DEF ReportBatch, BreakBatch
<1>2. /\ section' \in SectionRow /\ section'.meetings = section.meetings
      /\ section'.stage \in {section.stage, "ready"}
  BY <1>1, StepTo DEF Filled, TimetableShape
<1>3. NoBatch \in BatchRow /\ DaysKept(NoBatch)'
  BY NothingPlanned DEF NoBatch, DaysKept
<1> QED  BY <1>1, <1>2, <1>3, BatchStep DEF Filled, TimetableShape

LEMMA BreakFormStep ==
    ASSUME Filled, BreakForm
    PROVE  Filled'
<1>1. /\ batch' = [batch EXCEPT ![Form] = NoBatch] /\ UNCHANGED <<plan, strays, lessons, taken>>
      /\ Step("failed")
  BY DEF BreakForm
<1>2. NoBatch \in BatchRow /\ DaysKept(NoBatch)'
  BY NothingPlanned DEF NoBatch, DaysKept
<1> QED  BY <1>1, <1>2, StepTo, BatchStep DEF Filled, TimetableShape

LEMMA SubmitAgainStep ==
    ASSUME Filled, SubmitAgain
    PROVE  Filled'
<1>1. /\ section' = NoSection /\ taken' = Busy /\ lessons' = << >> /\ UNCHANGED <<plan, batch>>
      /\ \A p \in Calls : batch[p].stage = "idle"
      /\ strays' = strays + 1 /\ strays < MaxStrays
  BY DEF SubmitAgain
<1>2. strays' \in 0..MaxStrays  BY <1>1, TimetableNumbers DEF Filled, TimetableShape
<1>3. DOMAIN lessons' = {} /\ lessons' \in [DOMAIN lessons' -> LessonRow]  BY <1>1
<1>4. \A p \in Calls : DaysKept(batch[p])'  BY <1>1 DEF Filled, DaysKept
<1>5. MeetingsToMake'  BY <1>1, NothingPlanned DEF Filled, MeetingsToMake
<1> QED
  BY <1>1, <1>2, <1>3, <1>4, <1>5, BusyIsDays, NothingPlanned DEF Filled, TimetableShape

LEMMA LessonStep ==
    ASSUME Filled, NEW d \in Days,
           CancelLesson(d) \/ BookElsewhere(d) \/ \E o \in Days : MoveLesson(o, d)
    PROVE  Filled'
<1>1. UNCHANGED <<plan, section, strays, batch>>  BY DEF CancelLesson, BookElsewhere, MoveLesson
<1>2. taken' \in SUBSET Days
  BY DEF CancelLesson, BookElsewhere, MoveLesson, Filled, TimetableShape
<1>3. DOMAIN lessons' = DOMAIN lessons /\ lessons' \in [DOMAIN lessons -> LessonRow]
  <2>1. \A r \in LessonRow : /\ [r EXCEPT !.live = FALSE] \in LessonRow
                             /\ [r EXCEPT !.start = d] \in LessonRow
    BY DEF LessonRow
  <2>2. lessons \in [DOMAIN lessons -> LessonRow]  BY DEF Filled, TimetableShape
  <2>3. CASE CancelLesson(d)  BY <2>1, <2>2, <2>3 DEF CancelLesson
  <2>4. CASE BookElsewhere(d)  BY <2>2, <2>4 DEF BookElsewhere
  <2>5. CASE \E o \in Days : MoveLesson(o, d)
    <3>1. PICK o \in DOMAIN lessons : lessons' = [lessons EXCEPT ![o].start = d]
      BY <2>5 DEF MoveLesson
    <3>2. lessons[o] \in LessonRow  BY <2>2
    <3>3. PICK r \in LessonRow : r = [lessons[o] EXCEPT !.start = d]  BY <2>1, <3>2
    <3>4. lessons' = [lessons EXCEPT ![o] = r]  BY <3>1, <3>3
    <3> QED  BY <2>2, <3>4
  <2> QED  BY <2>3, <2>4, <2>5
<1> QED  BY <1>1, <1>2, <1>3 DEF Filled, TimetableShape, MeetingsToMake, DaysKept

LEMMA NextFilled ==
    ASSUME Filled, [NextTimetable]_timetableVars
    PROVE  Filled'
<1>1. CASE UNCHANGED timetableVars
  BY <1>1 DEF timetableVars, Filled, TimetableShape, MeetingsToMake, DaysKept
<1>2. ASSUME NEW p \in Calls,
             InsertBulk(p) \/ InsertOneRow(p) \/ ReportBatch(p) \/ BreakBatch(p) \/ AddSessions(p)
      PROVE  Filled'
  BY <1>2, InsertBulkStep, InsertOneRowStep, EndBatchStep, AddSessionsStep
<1>3. ASSUME NEW d \in Days,
             CancelLesson(d) \/ BookElsewhere(d) \/ UpdateSection(d) \/ \E o \in Days : MoveLesson(o, d)
      PROVE  Filled'
  BY <1>3, UpdateSectionStep, LessonStep
<1>4. ASSUME NEW on \in BOOLEAN, Archive(on) PROVE Filled'  BY <1>4, ArchiveStep
<1> QED
  BY <1>1, <1>2, <1>3, <1>4, SectionFormStep, MaterializeStep, BreakFormStep, SubmitAgainStep
  DEF NextTimetable

LEMMA FilledSuffices == Filled => TypeOKTimetable /\ EveryDayAccounted
BY DEF Filled, TimetableShape, MeetingsToMake, DaysKept, SectionRow, BatchRow, LessonRow,
       TypeOKTimetable, EveryDayAccounted

\* The inductive invariant holds in every state of a behavior.
LEMMA AlwaysFilled == SpecTimetable => []Filled
BY InitFilled, NextFilled, PTL DEF SpecTimetable

\* When a batch of recurring lessons reports its counts, every day of its rule has a lesson or was
\* counted as a conflict, whatever other batches and desks booked meanwhile (lesson-
\* insert.ts:20-60).
THEOREM NoDayDropped == SpecTimetable => []EveryDayAccounted
BY AlwaysFilled, FilledSuffices, PTL

-----------------------------------------------------------------------------
(* The staff of a section. While no removal overlaps another call and none *)
(* is cut short, a removal has the section to itself, and additions only   *)
(* add; so what a call read of the primary is still so when it acts on it. *)

\* Nothing has disturbed the upkeep so far.
NeverDisturbed == ~overlapped /\ ~died

\* A removal is under way alone.
RemovesAlone == \A p, o \in Admins : Removing(p) /\ o # p => StaffAt(o, "idle")

AddsKnow == \A p \in Admins :
    /\ StaffAt(p, "add_insert") /\ change[p].was # Nobody => primary # Nobody
    /\ StaffAt(p, "add_primary") => IsLinked(change[p].user)

Unlinked == {"remove_pick", "remove_set"}

RemovalsKnow == \A p \in Admins :
    /\ Removing(p) => change[p].was = primary
    /\ StaffAt(p, "remove_delete") =>
          \A i \in DOMAIN links : links[i].user = change[p].user <=> links[i].id = change[p].row
    /\ change[p].stage \in Unlinked => change[p].was = change[p].user /\ ~IsLinked(change[p].user)
    /\ StaffAt(p, "remove_set") =>
          change[p].next = IF links = <<>> THEN Nobody ELSE links[1].user

\* The primary is linked unless a removal has taken the link and is about to name another.
PrimaryLinked == \/ primary = Nobody
                 \/ IsLinked(primary)
                 \/ \E p \in Admins : change[p].stage \in Unlinked

\* Staff without a primary are about to get one.
StaffHavePrimary == links # <<>> /\ primary = Nobody => \E p \in Admins : StaffAt(p, "add_primary")

UsersKnown == \A p \in Admins : ~StaffAt(p, "idle") => change[p].user \in Staff

Upkeep == RemovesAlone /\ AddsKnow /\ RemovalsKnow /\ PrimaryLinked /\ StaffHavePrimary

\* The inductive invariant.
Staffed == TypeOKStaff /\ UsersKnown /\ (NeverDisturbed => Upkeep)

-----------------------------------------------------------------------------
\* RemoveAt takes one element out and leaves the others in their order.
LEMMA RemoveAtIs ==
    ASSUME NEW S, NEW s \in Seq(S), NEW i \in DOMAIN s
    PROVE  /\ RemoveAt(s, i) \in Seq(S)
           /\ Len(RemoveAt(s, i)) = Len(s) - 1
           /\ \A j \in 1..(Len(s) - 1) : RemoveAt(s, i)[j] = IF j < i THEN s[j] ELSE s[j + 1]
<1> DEFINE front == SubSeq(s, 1, i - 1)
           back  == SubSeq(s, i + 1, Len(s))
<1>1. Len(s) \in Nat /\ i \in 1..Len(s) /\ DOMAIN s = 1..Len(s)  BY LenProperties
<1>2. /\ front \in Seq(S) /\ Len(front) = i - 1
      /\ \A j \in 1..(i - 1) : front[j] = s[j]
  <2>1. CASE i = 1  BY <1>1, <2>1, SubSeqProperties
  <2>2. CASE i # 1  BY <1>1, <2>2, SubSeqProperties
  <2> QED  BY <2>1, <2>2
<1>3. /\ back \in Seq(S) /\ Len(back) = Len(s) - i
      /\ \A j \in 1..(Len(s) - i) : back[j] = s[i + j]
  <2>1. CASE i = Len(s)  BY <1>1, <2>1, SubSeqProperties
  <2>2. CASE i # Len(s)  BY <1>1, <2>2, SubSeqProperties
  <2> QED  BY <2>1, <2>2
<1> HIDE DEF front, back
<1>4. /\ front \o back \in Seq(S) /\ Len(front \o back) = Len(front) + Len(back)
      /\ \A j \in 1..(Len(front) + Len(back)) :
            (front \o back)[j] = IF j <= Len(front) THEN front[j] ELSE back[j - Len(front)]
  BY <1>2, <1>3, ConcatProperties
<1>5. Len(front) + Len(back) = Len(s) - 1  BY <1>1, <1>2, <1>3
<1>6. ASSUME NEW j \in 1..(Len(s) - 1)
      PROVE  (front \o back)[j] = IF j < i THEN s[j] ELSE s[j + 1]
  <2>1. CASE j < i  BY <1>1, <1>2, <1>4, <1>5, <2>1
  <2>2. CASE ~(j < i)
    <3>1. j - (i - 1) \in 1..(Len(s) - i) /\ i + (j - (i - 1)) = j + 1  BY <1>1, <2>2
    <3>2. (front \o back)[j] = back[j - (i - 1)]  BY <1>1, <1>2, <1>4, <1>5, <2>2
    <3> QED  BY <1>3, <2>2, <3>1, <3>2
  <2> QED  BY <2>1, <2>2
<1> QED  BY <1>4, <1>5, <1>6 DEF RemoveAt, front, back

LEMMA LinkedIs == \A u : IsLinked(u) <=> \E i \in DOMAIN links : links[i].user = u
BY DEF IsLinked, LinksOf, ToSet

LEMMA NoChangeIsCall == NoChange \in StaffCall /\ NoChange.stage = "idle"
BY DEF NoChange, StaffCall, StaffStages

\* The links after the delete of the one that row names.
LEMMA DeleteLinks ==
    ASSUME TypeOKStaff, NEW i \in DOMAIN links, links' = RemoveAt(links, i)
    PROVE  /\ links' \in Seq(StaffLink)
           /\ LinksUnique'
           /\ \A u : IsLinked(u)' <=> IsLinked(u) /\ u # links[i].user
<1>1. links \in Seq(StaffLink) /\ Len(links) \in Nat /\ DOMAIN links = 1..Len(links)
      /\ i \in 1..Len(links)
  BY LenProperties DEF TypeOKStaff
<1>2. /\ links' \in Seq(StaffLink) /\ Len(links') = Len(links) - 1
      /\ \A j \in 1..(Len(links) - 1) : links'[j] = IF j < i THEN links[j] ELSE links[j + 1]
  BY <1>1, RemoveAtIs
<1>3. DOMAIN links' = 1..(Len(links) - 1)  BY <1>2, LenProperties
<1>4. PICK old \in [1..(Len(links) - 1) -> 1..Len(links)] :
        \A j \in 1..(Len(links) - 1) : old[j] = IF j < i THEN j ELSE j + 1
  <2>1. \A j \in 1..(Len(links) - 1) : (IF j < i THEN j ELSE j + 1) \in 1..Len(links)
    BY <1>1
  <2> DEFINE f == [j \in 1..(Len(links) - 1) |-> IF j < i THEN j ELSE j + 1]
  <2>2. f \in [1..(Len(links) - 1) -> 1..Len(links)]  BY <2>1
  <2> QED  BY <2>2
<1>5. \A j \in DOMAIN links' : links'[j] = links[old[j]] /\ old[j] \in DOMAIN links /\ old[j] # i
  BY <1>1, <1>2, <1>3, <1>4
<1>6. \A j, k \in DOMAIN links' : old[j] = old[k] => j = k
  BY <1>1, <1>3, <1>4
<1>7. LinksUnique'
  BY <1>5, <1>6 DEF TypeOKStaff, LinksUnique
<1>8. \A k \in DOMAIN links : k # i => \E j \in DOMAIN links' : old[j] = k
  <2> SUFFICES ASSUME NEW k \in DOMAIN links, k # i PROVE \E j \in DOMAIN links' : old[j] = k
    OBVIOUS
  <2>1. CASE k < i  BY <1>1, <1>3, <1>4, <2>1
  <2>2. CASE k > i
    <3>1. k - 1 \in DOMAIN links' /\ ~(k - 1 < i)  BY <1>1, <1>3, <2>2
    <3>2. old[k - 1] = k  BY <1>1, <1>3, <1>4, <3>1
    <3> QED  BY <3>1, <3>2
  <2> QED  BY <1>1, <2>1, <2>2
<1>9. ASSUME NEW u PROVE IsLinked(u)' <=> IsLinked(u) /\ u # links[i].user
  <2>1. IsLinked(u)' <=> \E j \in DOMAIN links' : links'[j].user = u
    BY DEF IsLinked, LinksOf, ToSet
  <2>2. IsLinked(u) <=> \E j \in DOMAIN links : links[j].user = u  BY LinkedIs
  <2>3. ASSUME NEW j \in DOMAIN links', links'[j].user = u
        PROVE  IsLinked(u) /\ u # links[i].user
    BY <1>5, <2>2, <2>3 DEF TypeOKStaff, LinksUnique
  <2>4. ASSUME IsLinked(u), u # links[i].user
        PROVE  \E j \in DOMAIN links' : links'[j].user = u
    BY <1>5, <1>8, <2>2, <2>4
  <2> QED  BY <2>1, <2>3, <2>4
<1> QED  BY <1>2, <1>7, <1>9

\* The links after the insert of a new one.
LEMMA InsertLink ==
    ASSUME TypeOKStaff, NEW i \in Ids, NEW u \in Staff, FreshLinkId(i), ~IsLinked(u),
           links' = Append(links, [id |-> i, user |-> u])
    PROVE  /\ links' \in Seq(StaffLink)
           /\ LinksUnique'
           /\ \A w : IsLinked(w)' <=> IsLinked(w) \/ w = u
<1> DEFINE k == [id |-> i, user |-> u]
<1>1. links \in Seq(StaffLink) /\ Len(links) \in Nat /\ DOMAIN links = 1..Len(links)
  BY LenProperties DEF TypeOKStaff
<1>2. k \in StaffLink  BY DEF StaffLink
<1>3. /\ links' \in Seq(StaffLink) /\ Len(links') = Len(links) + 1
      /\ \A j \in 1..Len(links) : links'[j] = links[j]
      /\ links'[Len(links) + 1] = k
  BY <1>1, <1>2, AppendProperties
<1>4. DOMAIN links' = 1..(Len(links) + 1)  BY <1>3, LenProperties
<1>5. \A j \in DOMAIN links : links[j].id # i /\ links[j].user # u
  BY LinkedIs DEF FreshLinkId, ToSet
<1>6. LinksUnique'
  BY <1>1, <1>3, <1>4, <1>5 DEF TypeOKStaff, LinksUnique
<1>7. ASSUME NEW w PROVE IsLinked(w)' <=> IsLinked(w) \/ w = u
  <2>1. IsLinked(w)' <=> \E j \in DOMAIN links' : links'[j].user = w
    BY DEF IsLinked, LinksOf, ToSet
  <2>2. IsLinked(w) <=> \E j \in DOMAIN links : links[j].user = w  BY LinkedIs
  <2> QED  BY <1>1, <1>3, <1>4, <2>1, <2>2
<1> QED  BY <1>3, <1>6, <1>7


-----------------------------------------------------------------------------
LEMMA StaffedInit == InitStaff => Staffed
<1> SUFFICES ASSUME InitStaff PROVE Staffed  OBVIOUS
<1>1. PICK i \in Ids : links = <<[id |-> i, user |-> primary]>>  BY DEF InitStaff
<1>2. /\ primary \in Staff /\ primary # Nobody /\ \A p \in Admins : change[p] = NoChange
      /\ died = FALSE /\ overlapped = FALSE /\ change \in [Admins -> StaffCall]
  BY StaffAssumption, NoChangeIsCall DEF InitStaff
<1>3. [id |-> i, user |-> primary] \in StaffLink  BY <1>2 DEF StaffLink
<1>4. links \in Seq(StaffLink) /\ DOMAIN links = {1} /\ links[1].user = primary
  BY <1>1, <1>3
<1>5. TypeOKStaff  BY <1>2, <1>4 DEF TypeOKStaff, LinksUnique
<1>6. IsLinked(primary)  BY <1>4, LinkedIs
<1>7. UsersKnown /\ RemovesAlone /\ AddsKnow /\ RemovalsKnow
  BY <1>2, NoChangeIsCall DEF UsersKnown, RemovesAlone, AddsKnow, RemovalsKnow, StaffAt, Removing,
     Removals, Unlinked
<1>8. PrimaryLinked /\ StaffHavePrimary  BY <1>2, <1>6 DEF PrimaryLinked, StaffHavePrimary
<1> QED  BY <1>5, <1>7, <1>8 DEF Staffed, Upkeep

\* One call moves on.
LEMMA OneChanges ==
    ASSUME TypeOKStaff, NEW p \in Admins, NEW r \in StaffCall, change' = [change EXCEPT ![p] = r]
    PROVE  /\ change' \in [Admins -> StaffCall]
           /\ change'[p] = r
           /\ \A o \in Admins : o # p => change'[o] = change[o]
BY DEF TypeOKStaff

\* The staff stay as they are while a call moves on.
LEMMA LinksStay ==
    ASSUME UNCHANGED links
    PROVE  /\ \A u : IsLinked(u)' <=> IsLinked(u)
           /\ LinksUnique' <=> LinksUnique
BY DEF IsLinked, LinksOf, LinksUnique

\* A call starts.
LEMMA StartStep ==
    ASSUME Staffed, NEW p \in Admins, NEW u \in Staff, AddRead(p, u) \/ RemoveRead(p, u)
    PROVE  Staffed'
<1> USE DEF Staffed
<1>1. PICK s \in {"add_insert", "remove_select"} :
        /\ change' = [change EXCEPT ![p] = [NoChange EXCEPT !.stage = s, !.user = u, !.was = primary]]
        /\ StaffAt(p, "idle") /\ UNCHANGED <<primary, links, died>>
        /\ s = "add_insert" =>
              overlapped' = (overlapped \/ \E o \in Admins : Removing(o))
        /\ s = "remove_select" =>
              overlapped' = (overlapped \/ \E o \in Admins : ~StaffAt(o, "idle"))
  BY DEF AddRead, RemoveRead
<1>2. PICK r \in StaffCall : /\ r = [NoChange EXCEPT !.stage = s, !.user = u, !.was = primary]
                             /\ r.stage = s /\ r.user = u /\ r.was = primary
  <2>1. /\ [NoChange EXCEPT !.stage = s, !.user = u, !.was = primary].stage = s
        /\ [NoChange EXCEPT !.stage = s, !.user = u, !.was = primary].user = u
        /\ [NoChange EXCEPT !.stage = s, !.user = u, !.was = primary].was = primary
    BY DEF NoChange
  <2>2. s \in StaffStages /\ primary \in Staff \cup {Nobody}
    BY DEF StaffStages, Removals, TypeOKStaff
  <2>3. [NoChange EXCEPT !.stage = s, !.user = u, !.was = primary] \in StaffCall
    BY <2>2, NoChangeIsCall DEF StaffCall
  <2> QED  BY <2>1, <2>3
<1>3. /\ change' \in [Admins -> StaffCall] /\ change'[p] = r
      /\ \A o \in Admins : o # p => change'[o] = change[o]
  BY <1>1, <1>2, OneChanges
<1>4. TypeOKStaff'
  <2>1. overlapped \in BOOLEAN  BY DEF TypeOKStaff
  <2>2. overlapped' \in BOOLEAN  BY <1>1
  <2> QED  BY <1>1, <1>3, <2>2, LinksStay DEF TypeOKStaff
<1>5. UsersKnown'  BY <1>2, <1>3 DEF UsersKnown, StaffAt
<1>6. ASSUME NeverDisturbed' PROVE Upkeep'
  <2>1. NeverDisturbed /\ Upkeep
    BY <1>1, <1>6 DEF NeverDisturbed
  <2>2. s = "add_insert" => \A o \in Admins : ~Removing(o)
    BY <1>1, <1>6 DEF NeverDisturbed
  <2>3. s = "remove_select" => \A o \in Admins : StaffAt(o, "idle")
    BY <1>1, <1>6 DEF NeverDisturbed
  <2>4. \A w : IsLinked(w)' <=> IsLinked(w)  BY <1>1, LinksStay
  <2>5. primary' = primary /\ links' = links  BY <1>1
  <2>6. RemovesAlone'
    BY <1>2, <1>3, <2>2, <2>3 DEF RemovesAlone, Removing, Removals, StaffAt
  <2>7. AddsKnow'
    BY <1>2, <1>3, <2>1, <2>4, <2>5 DEF Upkeep, AddsKnow, StaffAt
  <2>8. RemovalsKnow'
    <3> SUFFICES ASSUME NEW o \in Admins
                 PROVE  /\ change'[o].stage \in Removals => change'[o].was = primary
                        /\ change'[o].stage = "remove_delete" => \A i \in DOMAIN links :
                              links[i].user = change'[o].user <=> links[i].id = change'[o].row
                        /\ change'[o].stage \in Unlinked =>
                              change'[o].was = change'[o].user /\ ~IsLinked(change'[o].user)
                        /\ change'[o].stage = "remove_set" =>
                              change'[o].next = IF links = <<>> THEN Nobody ELSE links[1].user
      BY <2>4, <2>5 DEF RemovalsKnow, Removing, StaffAt
    <3>1. CASE o = p  BY <1>2, <1>3, <3>1 DEF Unlinked
    <3>2. CASE o # p  BY <1>3, <2>1, <3>2 DEF Upkeep, RemovalsKnow, Removing, StaffAt
    <3> QED  BY <3>1, <3>2
  <2>9. PrimaryLinked'
    BY <1>1, <1>3, <2>1, <2>4, <2>5 DEF Upkeep, PrimaryLinked, StaffAt, Unlinked
  <2>10. StaffHavePrimary'
    BY <1>1, <1>3, <2>1, <2>5 DEF Upkeep, StaffHavePrimary, StaffAt
  <2> QED  BY <2>6, <2>7, <2>8, <2>9, <2>10 DEF Upkeep
<1> QED  BY <1>4, <1>5, <1>6

\* addSectionTeacher inserts the link, or finds it there.
LEMMA LinkStep ==
    ASSUME Staffed, NEW p \in Admins, AddInsert(p)
    PROVE  Staffed'
<1> USE DEF Staffed
<1>1. PICK u \in Staff : u = change[p].user
  BY DEF AddInsert, UsersKnown, StaffAt
<1>2. /\ change[p] \in StaffCall /\ change[p].stage = "add_insert"
      /\ UNCHANGED <<primary, died, overlapped>>
  BY DEF AddInsert, TypeOKStaff, StaffAt
<1>3. /\ links' \in Seq(StaffLink) /\ LinksUnique'
      /\ \A w : IsLinked(w)' <=> IsLinked(w) \/ w = u
  <2>1. CASE IsLinked(u)
    <3>1. UNCHANGED links  BY <1>1, <2>1 DEF AddInsert
    <3> QED  BY <2>1, <3>1, LinksStay DEF TypeOKStaff
  <2>2. CASE ~IsLinked(u)
    <3>1. PICK i \in Ids : FreshLinkId(i) /\ links' = Append(links, [id |-> i, user |-> u])
      BY <1>1, <2>2 DEF AddInsert
    <3> QED  BY <2>2, <3>1, InsertLink
  <2> QED  BY <2>1, <2>2
<1>4. PICK r \in StaffCall :
        /\ change' = [change EXCEPT ![p] = r]
        /\ change[p].was = Nobody => r.stage = "add_primary" /\ r.user = u
        /\ change[p].was # Nobody => r.stage = "idle"
  <2>1. CASE change[p].was = Nobody
    <3>1. [change[p] EXCEPT !.stage = "add_primary"] \in StaffCall
      BY <1>2 DEF StaffCall, StaffStages, Removals
    <3>2. change' = [change EXCEPT ![p] = [change[p] EXCEPT !.stage = "add_primary"]]
      BY <2>1 DEF AddInsert, StaffGoto, TypeOKStaff
    <3>3. /\ [change[p] EXCEPT !.stage = "add_primary"].stage = "add_primary"
          /\ [change[p] EXCEPT !.stage = "add_primary"].user = u
      BY <1>1, <1>2 DEF StaffCall
    <3> QED  BY <2>1, <3>1, <3>2, <3>3
  <2>2. CASE change[p].was # Nobody
    BY <2>2, NoChangeIsCall DEF AddInsert, StaffEnd
  <2> QED  BY <2>1, <2>2
<1>5. /\ change' \in [Admins -> StaffCall] /\ change'[p] = r
      /\ \A o \in Admins : o # p => change'[o] = change[o]
  BY <1>4, OneChanges
<1>6. TypeOKStaff'  BY <1>2, <1>3, <1>5 DEF TypeOKStaff
<1>7. UsersKnown'  BY <1>4, <1>5 DEF UsersKnown, StaffAt
<1>8. ASSUME NeverDisturbed' PROVE Upkeep'
  <2>1. Upkeep  BY <1>2, <1>8 DEF NeverDisturbed
  <2>2. primary' = primary  BY <1>2
  <2>3. \A o \in Admins : ~Removing(o) /\ ~(change[o].stage \in Unlinked)
    BY <1>2, <2>1 DEF Upkeep, RemovesAlone, Removing, Removals, StaffAt, Unlinked
  <2>4. r.stage \notin Removals  BY <1>4 DEF Removals
  <2>5. \A o \in Admins : ~(change'[o].stage \in Removals)
    BY <1>5, <2>3, <2>4 DEF Removing
  <2>6. RemovesAlone' /\ RemovalsKnow'
    BY <2>5 DEF RemovesAlone, RemovalsKnow, Removing, StaffAt, Removals, Unlinked
  <2>7. AddsKnow'
    BY <1>3, <1>4, <1>5, <2>1, <2>2 DEF Upkeep, AddsKnow, StaffAt
  <2>8. PrimaryLinked'
    BY <1>3, <2>1, <2>2, <2>3 DEF Upkeep, PrimaryLinked
  <2>9. StaffHavePrimary'
    <3>1. change[p].was # Nobody => primary # Nobody
      BY <1>2, <2>1 DEF Upkeep, AddsKnow, StaffAt
    <3> QED  BY <1>4, <1>5, <2>2, <3>1 DEF StaffHavePrimary, StaffAt
  <2> QED  BY <2>6, <2>7, <2>8, <2>9 DEF Upkeep
<1> QED  BY <1>6, <1>7, <1>8

\* addSectionTeacher fills the empty primary.
LEMMA FillStep ==
    ASSUME Staffed, NEW p \in Admins, AddPrimary(p)
    PROVE  Staffed'
<1> USE DEF Staffed
<1>1. PICK u \in Staff : u = change[p].user
  BY DEF AddPrimary, UsersKnown, StaffAt
<1>2. /\ change[p].stage = "add_primary" /\ primary' = u /\ u # Nobody
      /\ UNCHANGED <<links, died, overlapped>>
      /\ change' = [change EXCEPT ![p] = NoChange]
  BY <1>1, StaffAssumption DEF AddPrimary, StaffAt, StaffEnd
<1>3. /\ change' \in [Admins -> StaffCall] /\ change'[p] = NoChange
      /\ \A o \in Admins : o # p => change'[o] = change[o]
  BY <1>2, OneChanges, NoChangeIsCall
<1>4. \A w : IsLinked(w)' <=> IsLinked(w)  BY <1>2, LinksStay
<1>5. TypeOKStaff'  BY <1>2, <1>3, LinksStay DEF TypeOKStaff
<1>6. UsersKnown'  BY <1>3, NoChangeIsCall DEF UsersKnown, StaffAt
<1>7. ASSUME NeverDisturbed' PROVE Upkeep'
  <2>1. Upkeep  BY <1>2, <1>7 DEF NeverDisturbed
  <2>2. \A o \in Admins : ~(change'[o].stage \in Removals)
    BY <1>2, <1>3, <2>1, NoChangeIsCall DEF Upkeep, RemovesAlone, Removing, Removals, StaffAt
  <2>3. RemovesAlone' /\ RemovalsKnow'
    BY <2>2 DEF RemovesAlone, RemovalsKnow, Removing, StaffAt, Removals, Unlinked
  <2>4. AddsKnow'
    BY <1>2, <1>3, <1>4, <2>1, NoChangeIsCall DEF Upkeep, AddsKnow, StaffAt
  <2>5. IsLinked(u)  BY <1>1, <1>2, <2>1 DEF Upkeep, AddsKnow, StaffAt
  <2>6. PrimaryLinked'  BY <1>2, <1>4, <2>5 DEF PrimaryLinked
  <2>7. StaffHavePrimary'  BY <1>2 DEF StaffHavePrimary
  <2> QED  BY <2>3, <2>4, <2>6, <2>7 DEF Upkeep
<1> QED  BY <1>5, <1>6, <1>7


\* A removal that has the section to itself moves on or ends.
LEMMA AloneStep ==
    ASSUME Staffed, NEW p \in Admins, NEW r \in StaffCall, Removing(p),
           change' = [change EXCEPT ![p] = r],
           UNCHANGED <<died, overlapped>>,
           primary' \in Staff \cup {Nobody},
           links' \in Seq(StaffLink), LinksUnique',
           r.stage \in Removals \cup {"idle"},
           r.stage # "idle" => r.user = change[p].user,
           NeverDisturbed =>
              /\ r.stage # "idle" => r.was = primary'
              /\ r.stage = "remove_delete" => \A i \in DOMAIN links' :
                    links'[i].user = r.user <=> links'[i].id = r.row
              /\ r.stage \in Unlinked => r.was = r.user /\ ~IsLinked(r.user)'
              /\ r.stage = "remove_set" => r.next = IF links' = <<>> THEN Nobody ELSE links'[1].user
              /\ primary' = Nobody \/ IsLinked(primary)' \/ r.stage \in Unlinked
              /\ links' # <<>> => primary' # Nobody
    PROVE  Staffed'
<1> USE DEF Staffed
<1>1. /\ change' \in [Admins -> StaffCall] /\ change'[p] = r
      /\ \A o \in Admins : o # p => change'[o] = change[o]
  BY OneChanges
<1>2. TypeOKStaff'  BY <1>1 DEF TypeOKStaff
<1>3. UsersKnown'  BY <1>1 DEF UsersKnown, StaffAt, Removing, Removals
<1>4. ASSUME NeverDisturbed' PROVE Upkeep'
  <2>1. NeverDisturbed /\ Upkeep  BY <1>4 DEF NeverDisturbed
  <2>2. \A o \in Admins : o # p => change'[o].stage = "idle"
    BY <1>1, <2>1 DEF Upkeep, RemovesAlone, StaffAt
  <2>3. RemovesAlone'  BY <1>1, <2>2 DEF RemovesAlone, StaffAt, Removing, Removals
  <2>4. AddsKnow'  BY <1>1, <2>2 DEF AddsKnow, StaffAt, Removals
  <2>5. RemovalsKnow'
    <3> SUFFICES ASSUME NEW o \in Admins
                 PROVE  /\ change'[o].stage \in Removals => change'[o].was = primary'
                        /\ change'[o].stage = "remove_delete" => \A i \in DOMAIN links' :
                              links'[i].user = change'[o].user <=> links'[i].id = change'[o].row
                        /\ change'[o].stage \in Unlinked =>
                              change'[o].was = change'[o].user /\ ~IsLinked(change[o].user)'
                        /\ change'[o].stage = "remove_set" =>
                              change'[o].next = IF links' = <<>> THEN Nobody ELSE links'[1].user
      BY DEF RemovalsKnow, Removing, StaffAt
    <3>1. CASE o = p
      <4>1. r.stage \in Unlinked => ~IsLinked(change[p].user)'
        BY <1>1, <2>1 DEF Unlinked, IsLinked, LinksOf
      <4> QED  BY <1>1, <2>1, <3>1, <4>1 DEF Unlinked, Removals
    <3>2. CASE o # p  BY <2>2, <3>2 DEF Unlinked, Removals
    <3> QED  BY <3>1, <3>2
  <2>6. PrimaryLinked'  BY <1>1, <2>1 DEF PrimaryLinked
  <2>7. StaffHavePrimary'  BY <2>1 DEF StaffHavePrimary
  <2> QED  BY <2>3, <2>4, <2>5, <2>6, <2>7 DEF Upkeep
<1> QED  BY <1>2, <1>3, <1>4

\* Who removes alone finds a primary that is linked, and no staff without one.
LEMMA AloneFinds ==
    ASSUME Staffed, NEW p \in Admins, Removing(p), NeverDisturbed
    PROVE  /\ change[p].was = primary /\ change[p].user \in Staff /\ change[p].user # Nobody
           /\ change[p].stage \notin Unlinked => primary = Nobody \/ IsLinked(primary)
           /\ links # <<>> => primary # Nobody
<1>1. Upkeep  BY DEF Staffed
<1>2. \A o \in Admins : o # p => change[o].stage = "idle"
  BY <1>1 DEF Upkeep, RemovesAlone, StaffAt
<1>3. change[p].was = primary  BY <1>1 DEF Upkeep, RemovalsKnow
<1>4. change[p].user \in Staff /\ change[p].user # Nobody
  BY StaffAssumption DEF Staffed, UsersKnown, Removing, Removals, StaffAt
<1>5. change[p].stage \notin Unlinked => primary = Nobody \/ IsLinked(primary)
  BY <1>1, <1>2 DEF Upkeep, PrimaryLinked, Unlinked
<1>6. links # <<>> => primary # Nobody
  BY <1>1, <1>2 DEF Upkeep, StaffHavePrimary, StaffAt, Removing, Removals
<1> QED  BY <1>3, <1>4, <1>5, <1>6

\* The link is gone: the call ends, or goes on to the next primary if it was the primary's.
LEMMA GoneStep ==
    ASSUME Staffed, NEW p \in Admins, Removing(p), change[p].stage \notin Unlinked,
           AfterDelete(p), UNCHANGED <<primary, died, overlapped>>,
           links' \in Seq(StaffLink), LinksUnique',
           NeverDisturbed => \A u : IsLinked(u)' <=> IsLinked(u) /\ u # change[p].user
    PROVE  Staffed'
<1>1. change[p] \in StaffCall /\ change \in [Admins -> StaffCall] /\ primary \in Staff \cup {Nobody}
  BY DEF Staffed, TypeOKStaff
<1>2. CASE change[p].was = change[p].user
  <2>1. PICK r \in StaffCall : /\ change' = [change EXCEPT ![p] = r]
                               /\ r.stage = "remove_pick" /\ r.user = change[p].user
                               /\ r.was = change[p].was
    <3> DEFINE n == [change[p] EXCEPT !.stage = "remove_pick"]
    <3>1. n \in StaffCall /\ n.stage = "remove_pick" /\ n.user = change[p].user
          /\ n.was = change[p].was
      BY <1>1 DEF StaffCall, StaffStages, Removals
    <3>2. change' = [change EXCEPT ![p] = n]  BY <1>1, <1>2 DEF AfterDelete, StaffGoto
    <3> QED  BY <3>1, <3>2
  <2>2. ASSUME NeverDisturbed
        PROVE  /\ r.was = primary' /\ r.was = r.user /\ ~IsLinked(r.user)' /\ primary' # Nobody
    BY <1>2, <2>1, <2>2, AloneFinds
  <2> QED  BY <1>1, <2>1, <2>2, AloneStep DEF Removals, Unlinked
<1>3. CASE change[p].was # change[p].user
  <2>1. change' = [change EXCEPT ![p] = NoChange]  BY <1>3 DEF AfterDelete, StaffEnd
  <2>2. ASSUME NeverDisturbed
        PROVE  /\ primary' = Nobody \/ IsLinked(primary)'
               /\ links' # <<>> => primary' # Nobody
    <3>1. /\ primary # change[p].user /\ (primary = Nobody \/ IsLinked(primary))
          /\ links # <<>> => primary # Nobody
      BY <1>3, <2>2, AloneFinds
    <3>2. PICK m : m = primary  OBVIOUS
    <3>3. IsLinked(m) => IsLinked(m)'  BY <2>2, <3>1, <3>2
    <3>4. IsLinked(m) => IsLinked(primary)'  BY <3>2, <3>3 DEF IsLinked, LinksOf
    <3>5. links' # <<>> => primary # Nobody
      <4> SUFFICES ASSUME links' # <<>> PROVE primary # Nobody  OBVIOUS
      <4>1. 1 \in DOMAIN links'
        <5>1. Len(links') \in Nat /\ Len(links') # 0 /\ DOMAIN links' = 1..Len(links')
          BY LenProperties, EmptySeq
        <5> QED  BY <5>1
      <4>2. PICK u : u = links'[1].user  OBVIOUS
      <4>3. IsLinked(u)'  BY <4>1, <4>2 DEF IsLinked, LinksOf, ToSet
      <4>4. IsLinked(u)  BY <2>2, <4>3
      <4>5. links # <<>>  BY <4>4 DEF IsLinked, LinksOf, ToSet
      <4> QED  BY <3>1, <4>5
    <3> QED  BY <3>1, <3>2, <3>4, <3>5
  <2> QED  BY <1>1, <2>1, <2>2, AloneStep, NoChangeIsCall DEF Unlinked
<1> QED  BY <1>2, <1>3

LEMMA FindLinkStep ==
    ASSUME Staffed, NEW p \in Admins, RemoveSelect(p)
    PROVE  Staffed'
<1>1. /\ Removing(p) /\ change[p].stage = "remove_select"
      /\ UNCHANGED <<primary, links, died, overlapped>>
      /\ links \in Seq(StaffLink) /\ LinksUnique /\ primary \in Staff \cup {Nobody}
      /\ change \in [Admins -> StaffCall] /\ change[p] \in StaffCall
  BY DEF RemoveSelect, StaffAt, Removing, Removals, Staffed, TypeOKStaff
<1>2. /\ \A u : IsLinked(u)' <=> IsLinked(u)
      /\ links' \in Seq(StaffLink)
      /\ LinksUnique'
  BY <1>1, LinksStay
<1>3. CASE IsLinked(change[p].user)
  <2>1. PICK k \in LinksOf(change[p].user) :
           change' = [change EXCEPT ![p].stage = "remove_delete", ![p].row = k.id]
    BY <1>3 DEF RemoveSelect
  <2>2. PICK i \in DOMAIN links : k = links[i] /\ links[i].user = change[p].user
    BY <2>1 DEF LinksOf, ToSet
  <2>3. links[i] \in StaffLink
    <3>1. i \in 1..Len(links)  BY <1>1, LenProperties
    <3> QED  BY <1>1, <3>1, ElementOfSeq
  <2>4. PICK r \in StaffCall :
           /\ change' = [change EXCEPT ![p] = r]
           /\ r.stage = "remove_delete" /\ r.row = k.id
           /\ r.user = change[p].user /\ r.was = change[p].was
    <3> DEFINE n == [change[p] EXCEPT !.stage = "remove_delete", !.row = k.id]
    <3>1. k.id \in Ids  BY <2>2, <2>3 DEF StaffLink
    <3>2. /\ n \in StaffCall /\ n.stage = "remove_delete" /\ n.row = k.id
          /\ n.user = change[p].user /\ n.was = change[p].was
      BY <1>1, <3>1 DEF StaffCall, StaffStages, Removals
    <3>3. change' = [change EXCEPT ![p] = n]  BY <1>1, <2>1
    <3> QED  BY <3>2, <3>3
  <2>5. \A j \in DOMAIN links' : links'[j].user = r.user <=> links'[j].id = r.row
    BY <1>1, <2>2, <2>4 DEF LinksUnique
  <2>6. r.stage \in Removals /\ r.stage \notin Unlinked /\ r.stage # "remove_set"
    BY <2>4 DEF Removals, Unlinked
  <2>7. r.user \in Staff  BY <1>1, <2>4 DEF Staffed, UsersKnown, Removing, Removals, StaffAt
  <2>8. ASSUME NeverDisturbed
        PROVE  /\ r.was = primary'
               /\ primary' = Nobody \/ IsLinked(primary)'
               /\ links' # <<>> => primary' # Nobody
    <3>1. /\ r.was = primary
          /\ primary = Nobody \/ IsLinked(primary)
          /\ links # <<>> => primary # Nobody
      BY <1>1, <2>4, <2>8, AloneFinds DEF Unlinked
    <3>2. IsLinked(primary) => IsLinked(primary)'  BY <1>1 DEF IsLinked, LinksOf
    <3> QED  BY <1>1, <3>1, <3>2
  <2> QED  BY <1>1, <1>2, <2>4, <2>5, <2>6, <2>7, <2>8, AloneStep
<1>4. CASE ~IsLinked(change[p].user)
  <2>1. AfterDelete(p)  BY <1>4 DEF RemoveSelect
  <2>2. \A u : IsLinked(u)' <=> IsLinked(u) /\ u # change[p].user  BY <1>2, <1>4
  <2> QED  BY <1>1, <1>2, <2>1, <2>2, GoneStep DEF Unlinked
<1> QED  BY <1>3, <1>4

LEMMA UnlinkStep ==
    ASSUME Staffed, NEW p \in Admins, RemoveDelete(p)
    PROVE  Staffed'
<1>1. /\ Removing(p) /\ change[p].stage = "remove_delete" /\ AfterDelete(p)
      /\ UNCHANGED <<primary, died, overlapped>>
      /\ links \in Seq(StaffLink) /\ LinksUnique /\ TypeOKStaff
  BY DEF RemoveDelete, StaffAt, Removing, Removals, Staffed, TypeOKStaff
<1>2. NeverDisturbed => \A j \in DOMAIN links :
                        links[j].user = change[p].user <=> links[j].id = change[p].row
  BY <1>1 DEF Staffed, Upkeep, RemovalsKnow, StaffAt
<1>3. CASE \E i \in DOMAIN links : links[i].id = change[p].row /\ links' = RemoveAt(links, i)
  <2>1. PICK i \in DOMAIN links : links[i].id = change[p].row /\ links' = RemoveAt(links, i)
    BY <1>3
  <2>2. /\ links' \in Seq(StaffLink) /\ LinksUnique'
        /\ \A u : IsLinked(u)' <=> IsLinked(u) /\ u # links[i].user
    BY <1>1, <2>1, DeleteLinks
  <2> QED  BY <1>1, <1>2, <2>1, <2>2, GoneStep DEF Unlinked
<1>4. CASE (\A i \in DOMAIN links : links[i].id # change[p].row) /\ UNCHANGED links
  <2>1. NeverDisturbed => ~IsLinked(change[p].user)  BY <1>2, <1>4, LinkedIs
  <2>2. /\ \A u : IsLinked(u)' <=> IsLinked(u)
        /\ LinksUnique'
    BY <1>1, <1>4, LinksStay
  <2> QED  BY <1>1, <1>4, <2>1, <2>2, GoneStep DEF Unlinked
<1> QED  BY <1>3, <1>4 DEF RemoveDelete

LEMMA PickStep ==
    ASSUME Staffed, NEW p \in Admins, RemovePick(p)
    PROVE  Staffed'
<1>1. /\ Removing(p) /\ change[p].stage = "remove_pick"
      /\ UNCHANGED <<primary, links, died, overlapped>>
      /\ links \in Seq(StaffLink) /\ LinksUnique /\ primary \in Staff \cup {Nobody}
      /\ change \in [Admins -> StaffCall] /\ change[p] \in StaffCall
  BY DEF RemovePick, StaffAt, Removing, Removals, Staffed, TypeOKStaff
<1>2. PICK first : first = IF links = <<>> THEN Nobody ELSE links[1].user  OBVIOUS
<1>3. first \in Staff \cup {Nobody}
  <2>1. CASE links = <<>>  BY <1>2, <2>1
  <2>2. CASE links # <<>>
    <3>1. Len(links) \in Nat /\ Len(links) # 0  BY <1>1, <2>2, LenProperties, EmptySeq
    <3>2. links[1] \in StaffLink  BY <1>1, <3>1, ElementOfSeq
    <3> QED  BY <1>2, <2>2, <3>2 DEF StaffLink
  <2> QED  BY <2>1, <2>2
<1>4. PICK r \in StaffCall :
        /\ change' = [change EXCEPT ![p] = r]
        /\ r.stage = "remove_set" /\ r.next = first
        /\ r.user = change[p].user /\ r.was = change[p].was
  <2> DEFINE n == [change[p] EXCEPT !.stage = "remove_set", !.next = first]
  <2>1. /\ n \in StaffCall /\ n.stage = "remove_set" /\ n.next = first
        /\ n.user = change[p].user /\ n.was = change[p].was
    BY <1>1, <1>3 DEF StaffCall, StaffStages, Removals
  <2>2. change' = [change EXCEPT ![p] = n]  BY <1>1, <1>2 DEF RemovePick
  <2> QED  BY <2>1, <2>2
<1>5. /\ \A u : IsLinked(u)' <=> IsLinked(u)
      /\ links' \in Seq(StaffLink)
      /\ LinksUnique'
  BY <1>1, LinksStay
<1>6. r.stage \in Removals /\ r.stage \in Unlinked /\ r.stage # "remove_delete"
  BY <1>4 DEF Removals, Unlinked
<1>7. r.next = IF links' = <<>> THEN Nobody ELSE links'[1].user  BY <1>1, <1>2, <1>4
<1>8. r.user \in Staff  BY <1>1, <1>4 DEF Staffed, UsersKnown, Removing, Removals, StaffAt
<1>9. ASSUME NeverDisturbed
      PROVE  /\ r.was = primary' /\ r.was = r.user /\ ~IsLinked(r.user)'
             /\ links' # <<>> => primary' # Nobody
  <2>1. change[p].was = change[p].user /\ ~IsLinked(change[p].user)
    BY <1>1, <1>9 DEF Staffed, Upkeep, RemovalsKnow, Unlinked
  <2>2. change[p].was = primary /\ change[p].user # Nobody  BY <1>1, <1>9, AloneFinds
  <2>3. ~IsLinked(r.user)  BY <1>4, <2>1
  <2>4. ~IsLinked(r.user)'  BY <1>5, <2>3
  <2> QED  BY <1>1, <1>4, <2>1, <2>2, <2>4
<1> QED  BY <1>1, <1>4, <1>5, <1>6, <1>7, <1>8, <1>9, AloneStep

LEMMA SetStep ==
    ASSUME Staffed, NEW p \in Admins, RemoveSet(p)
    PROVE  Staffed'
<1>1. /\ Removing(p) /\ change[p].stage = "remove_set" /\ primary' = change[p].next
      /\ change' = [change EXCEPT ![p] = NoChange]
      /\ UNCHANGED <<links, died, overlapped>>
      /\ links \in Seq(StaffLink) /\ LinksUnique /\ change[p].next \in Staff \cup {Nobody}
  BY DEF RemoveSet, StaffAt, StaffEnd, Removing, Removals, Staffed, TypeOKStaff, StaffCall
<1>2. /\ \A u : IsLinked(u)' <=> IsLinked(u)
      /\ LinksUnique'
  BY <1>1, LinksStay
<1>3. ASSUME NeverDisturbed
      PROVE  /\ primary' = Nobody \/ IsLinked(primary)'
             /\ links' # <<>> => primary' # Nobody
  <2>1. primary' = IF links = <<>> THEN Nobody ELSE links[1].user
    BY <1>1, <1>3 DEF Staffed, Upkeep, RemovalsKnow, StaffAt
  <2>2. CASE links = <<>>  BY <1>1, <2>1, <2>2
  <2>3. CASE links # <<>>
    <3>1. Len(links) \in Nat /\ Len(links) # 0 /\ DOMAIN links = 1..Len(links)
      BY <1>1, <2>3, LenProperties, EmptySeq
    <3>2. primary' \in Staff
      <4>1. links[1] \in StaffLink  BY <1>1, <3>1, ElementOfSeq
      <4> QED  BY <2>1, <2>3, <4>1 DEF StaffLink
    <3>3. IsLinked(primary)'
      BY <1>1, <2>1, <2>3, <3>1 DEF IsLinked, LinksOf, ToSet
    <3> QED  BY <3>2, <3>3, StaffAssumption
  <2> QED  BY <2>2, <2>3
<1> QED  BY <1>1, <1>2, <1>3, AloneStep, NoChangeIsCall DEF Unlinked

\* After a crash nothing is promised but the types.
LEMMA StaffCrashStep ==
    ASSUME Staffed, NEW p \in Admins, StaffCrash(p)
    PROVE  Staffed'
<1>1. /\ change' \in [Admins -> StaffCall] /\ change'[p] = NoChange
      /\ \A o \in Admins : o # p => change'[o] = change[o]
      /\ died' = TRUE /\ UNCHANGED <<primary, links, overlapped>>
  BY OneChanges, NoChangeIsCall DEF StaffCrash, StaffEnd, Staffed
<1>2. TypeOKStaff'  BY <1>1, LinksStay DEF Staffed, TypeOKStaff
<1>3. UsersKnown'  BY <1>1, NoChangeIsCall DEF Staffed, UsersKnown, StaffAt
<1> QED  BY <1>1, <1>2, <1>3 DEF Staffed, NeverDisturbed

LEMMA StaffedStep == Staffed /\ [NextStaff]_staffVars => Staffed'
<1> SUFFICES ASSUME Staffed, [NextStaff]_staffVars PROVE Staffed'  OBVIOUS
<1>1. CASE UNCHANGED staffVars
  BY <1>1 DEF staffVars, Staffed, TypeOKStaff, LinksUnique, UsersKnown, NeverDisturbed, Upkeep,
     RemovesAlone, AddsKnow, RemovalsKnow, PrimaryLinked, StaffHavePrimary, IsLinked, LinksOf,
     StaffAt, Removing
<1>2. CASE NextStaff
  BY <1>2, StartStep, LinkStep, FillStep, FindLinkStep, UnlinkStep, PickStep, SetStep,
     StaffCrashStep DEF NextStaff
<1> QED  BY <1>1, <1>2

\* The staff's inductive invariant holds in every reachable state.
THEOREM StaffInvariant == SpecStaff => []Staffed
BY StaffedInit, StaffedStep, PTL DEF SpecStaff

\* addSectionTeacher and removeSectionTeacher keep the primary and the links well typed and the
\* links unique, whatever they do side by side.
THEOREM StaffTyped == SpecStaff => []TypeOKStaff
<1>1. Staffed => TypeOKStaff  BY DEF Staffed
<1> QED  BY <1>1, StaffInvariant, PTL

\* A section has a primary teacher exactly if it has staff, and the primary is one of them, once
\* the calls have ended, unless a removal overlapped another call or a call was cut short.
THEOREM PrimaryStaysUpkept == SpecStaff => []PrimaryUpkept
<1>1. Staffed => PrimaryUpkept
  <2> SUFFICES ASSUME Staffed, Quiet, ~overlapped
               PROVE  IF links = <<>> THEN primary = Nobody ELSE IsLinked(primary)
    BY DEF PrimaryUpkept
  <2>1. Upkeep  BY DEF Staffed, NeverDisturbed, Quiet
  <2>2. primary = Nobody \/ IsLinked(primary)
    BY <2>1 DEF Upkeep, PrimaryLinked, Quiet, StaffAt, Unlinked
  <2>3. links # <<>> => primary # Nobody
    BY <2>1 DEF Upkeep, StaffHavePrimary, Quiet, StaffAt
  <2>4. links = <<>> => ~IsLinked(primary)  BY DEF IsLinked, LinksOf, ToSet
  <2> QED  BY <2>2, <2>3, <2>4
<1> QED  BY <1>1, StaffInvariant, PTL

-----------------------------------------------------------------------------
(* Progress reports. No call starts on an approved report, so whoever can  *)
(* still write one was under way when it was approved first, and each of   *)
(* these has one write left; the numbers and the grades that go on         *)
(* changing are copied in and never looked up again.                       *)

\* The inductive invariant.
Sealed == /\ TypeOKReport
          /\ \A p \in Calls : ReportAt(p, "update_write") => edit[p].text \in Narratives
          /\ Approved <=> final # Nothing
          /\ Approved => UnderWay \subseteq overtaken
          /\ ~Approved => overtaken = {}

-----------------------------------------------------------------------------
LEMMA NoEditIsCall == NoEdit \in ReportCall /\ NoEdit.stage = "idle"
<1>1. 0 \in Versions  BY ReportAssumption DEF Versions
<1> QED  BY <1>1 DEF NoEdit, ReportCall

\* One call moves on.
LEMMA OneEdits ==
    ASSUME TypeOKReport, NEW p \in Calls, NEW r \in ReportCall, edit' = [edit EXCEPT ![p] = r]
    PROVE  /\ edit' \in [Calls -> ReportCall]
           /\ edit'[p] = r
           /\ \A o \in Calls : o # p => edit'[o] = edit[o]
BY DEF TypeOKReport

LEMMA InitSealed == InitReport => Sealed
<1> SUFFICES ASSUME InitReport PROVE Sealed  OBVIOUS
<1>1. PICK t \in Narratives : report = [status |-> "draft", narrative |-> t, numbers |-> Nothing]
  BY DEF InitReport
<1>2. report \in ReportRow /\ ~Approved  BY <1>1 DEF ReportRow, Approved
<1>3. data \in Versions  BY ReportAssumption DEF InitReport, Versions
<1>4. edit \in [Calls -> ReportCall] /\ \A p \in Calls : edit[p].stage = "idle"
  BY NoEditIsCall DEF InitReport
<1> QED  BY <1>2, <1>3, <1>4 DEF Sealed, TypeOKReport, InitReport, ReportAt

\* A call that changes nothing but its own stage, or ends.
LEMMA EditStep ==
    ASSUME Sealed, NEW p \in Calls, NEW r \in ReportCall, edit' = [edit EXCEPT ![p] = r],
           UNCHANGED <<report, data, final>>,
           r.stage = "update_write" => r.text \in Narratives,
           \/ ~Approved /\ UNCHANGED overtaken
           \/ p \in UnderWay /\ UNCHANGED overtaken
           \/ r.stage = "idle" /\ overtaken' = overtaken \ {p}
    PROVE  Sealed'
<1>1. /\ edit' \in [Calls -> ReportCall] /\ edit'[p] = r
      /\ \A o \in Calls : o # p => edit'[o] = edit[o]
  BY OneEdits DEF Sealed
<1>2. /\ Approved' <=> Approved
      /\ overtaken' \subseteq overtaken /\ overtaken \subseteq Calls
  BY DEF Sealed, TypeOKReport, Approved
<1>3. TypeOKReport'  BY <1>1, <1>2 DEF Sealed, TypeOKReport
<1>4. \A o \in Calls : edit'[o].stage = "update_write" => edit'[o].text \in Narratives
  BY <1>1 DEF Sealed, ReportAt
<1>5. ASSUME Approved, NEW o \in Calls, edit'[o].stage # "idle" PROVE o \in overtaken'
  BY <1>1, <1>5 DEF Sealed, UnderWay, ReportAt
<1> QED  BY <1>2, <1>3, <1>4, <1>5 DEF Sealed, UnderWay, ReportAt

\* The write of a call of the narrative.
LEMMA TextStep ==
    ASSUME Sealed, NEW p \in Calls, UpdateWrite(p)
    PROVE  Sealed'
<1>1. PICK t \in Narratives : t = edit[p].text  BY DEF Sealed, UpdateWrite
<1>2. /\ report' = [report EXCEPT !.narrative = t] /\ edit' = [edit EXCEPT ![p] = NoEdit]
      /\ overtaken' = overtaken \ {p} /\ UNCHANGED <<data, final>>
  BY <1>1 DEF UpdateWrite, ReportEnd
<1>3. report' \in ReportRow /\ (Approved' <=> Approved)
  BY <1>2 DEF Sealed, TypeOKReport, ReportRow, Approved
<1>4. /\ edit' \in [Calls -> ReportCall] /\ edit'[p] = NoEdit
      /\ \A o \in Calls : o # p => edit'[o] = edit[o]
  BY <1>2, OneEdits, NoEditIsCall DEF Sealed
<1>5. TypeOKReport'  BY <1>2, <1>3, <1>4 DEF Sealed, TypeOKReport
<1> QED  BY <1>2, <1>3, <1>4, <1>5, NoEditIsCall DEF Sealed, UnderWay, ReportAt

\* The write of an approval.
LEMMA SealStep ==
    ASSUME Sealed, NEW p \in Calls, ApproveWrite(p)
    PROVE  Sealed'
<1>1. PICK v \in Versions : v = edit[p].numbers  BY DEF Sealed, TypeOKReport, ReportCall
<1>2. /\ report' = [report EXCEPT !.status = "approved", !.numbers = v]
      /\ edit' = [edit EXCEPT ![p] = NoEdit] /\ UNCHANGED data
  BY <1>1 DEF ApproveWrite, ReportEnd
<1>3. report' \in ReportRow /\ Approved'
  BY <1>2 DEF Sealed, TypeOKReport, ReportRow, Approved
<1>4. /\ edit' \in [Calls -> ReportCall] /\ edit'[p] = NoEdit
      /\ \A o \in Calls : o # p => edit'[o] = edit[o]
  BY <1>2, OneEdits, NoEditIsCall DEF Sealed
<1>5. /\ final' \in Content /\ overtaken' \subseteq Calls
      /\ UnderWay \ {p} \subseteq overtaken'
  <2>1. CASE final = Nothing
    <3>1. final' = [narrative |-> report.narrative, numbers |-> v]  BY <1>1, <2>1 DEF ApproveWrite
    <3>2. final' \in Content  BY <3>1 DEF Sealed, TypeOKReport, ReportRow, Content
    <3> QED  BY <2>1, <3>2 DEF ApproveWrite, UnderWay
  <2>2. CASE final # Nothing
    BY <2>2 DEF ApproveWrite, Sealed, TypeOKReport
  <2> QED  BY <2>1, <2>2
<1>6. TypeOKReport'  BY <1>2, <1>3, <1>4, <1>5 DEF Sealed, TypeOKReport
<1>7. final' # Nothing  BY <1>5, ReportAssumption DEF Content, Versions
<1> QED  BY <1>3, <1>4, <1>5, <1>6, <1>7, NoEditIsCall DEF Sealed, UnderWay, ReportAt

LEMMA NextSealed == Sealed /\ [NextReport]_reportVars => Sealed'
<1> SUFFICES ASSUME Sealed, [NextReport]_reportVars PROVE Sealed'  OBVIOUS
<1>1. ASSUME NEW p \in Calls, NEW t \in Narratives, UpdateRead(p, t) PROVE Sealed'
  <2> DEFINE n == [NoEdit EXCEPT !.stage = "update_write", !.text = t]
  <2>1. n \in ReportCall /\ n.stage = "update_write" /\ n.text = t
    BY NoEditIsCall DEF ReportCall
  <2> QED  BY <1>1, <2>1, EditStep DEF UpdateRead
<1>2. ASSUME NEW p \in Calls, ApproveRead(p) PROVE Sealed'
  <2>1. edit[p] \in ReportCall  BY DEF Sealed, TypeOKReport
  <2>2. PICK r \in ReportCall : /\ r = [edit[p] EXCEPT !.stage = "approve_compute"]
                                /\ r.stage = "approve_compute"
    <3>1. /\ [edit[p] EXCEPT !.stage = "approve_compute"] \in ReportCall
          /\ [edit[p] EXCEPT !.stage = "approve_compute"].stage = "approve_compute"
      BY <2>1 DEF ReportCall
    <3> QED  BY <3>1
  <2>3. edit' = [edit EXCEPT ![p] = r]  BY <1>2, <2>2 DEF ApproveRead, Sealed, TypeOKReport
  <2> QED  BY <1>2, <2>2, <2>3, EditStep DEF ApproveRead
<1>3. ASSUME NEW p \in Calls, ApproveCompute(p) PROVE Sealed'
  <2>1. edit[p] \in ReportCall /\ data \in Versions  BY DEF Sealed, TypeOKReport
  <2>2. PICK r \in ReportCall :
           /\ r = [edit[p] EXCEPT !.stage = "approve_write", !.numbers = data]
           /\ r.stage = "approve_write"
    <3>1. /\ [edit[p] EXCEPT !.stage = "approve_write", !.numbers = data] \in ReportCall
          /\ [edit[p] EXCEPT !.stage = "approve_write", !.numbers = data].stage = "approve_write"
      BY <2>1 DEF ReportCall
    <3> QED  BY <3>1
  <2>3. edit' = [edit EXCEPT ![p] = r]  BY <1>3, <2>2 DEF ApproveCompute, Sealed, TypeOKReport
  <2>4. p \in UnderWay  BY <1>3 DEF ApproveCompute, UnderWay, ReportAt
  <2> QED  BY <1>3, <2>2, <2>3, <2>4, EditStep DEF ApproveCompute
<1>4. ASSUME NEW p \in Calls, ReportCrash(p) PROVE Sealed'
  BY <1>4, EditStep, NoEditIsCall DEF ReportCrash, ReportEnd
<1>5. ASSUME EnterData PROVE Sealed'
  <2>1. data' \in Versions  BY <1>5, ReportAssumption DEF EnterData, Sealed, TypeOKReport, Versions
  <2> QED  BY <1>5, <2>1 DEF EnterData, Sealed, TypeOKReport, Approved, UnderWay, ReportAt
<1>6. ASSUME UNCHANGED reportVars PROVE Sealed'
  BY <1>6 DEF reportVars, Sealed, TypeOKReport, Approved, UnderWay, ReportAt
<1> QED  BY <1>1, <1>2, <1>3, <1>4, <1>5, <1>6, TextStep, SealStep DEF NextReport

LEMMA AlwaysSealed == SpecReport => []Sealed
BY InitSealed, NextSealed, PTL DEF SpecReport

\* updateReportNarrativeCore and approveReportCore keep the row of a report well typed, whatever
\* they do side by side.
THEOREM ReportTyped == SpecReport => []TypeOKReport
<1>1. Sealed => TypeOKReport  BY DEF Sealed
<1> QED  BY <1>1, AlwaysSealed, PTL

-----------------------------------------------------------------------------
\* A step on an approved report: a write of a call it overtook, the end of one, or neither.
LEMMA ApprovedStep ==
    ASSUME Sealed, Approved, [NextReport]_reportVars
    PROVE  \/ UNCHANGED report /\ overtaken' \subseteq overtaken
           \/ /\ Approved'
              /\ \E p \in overtaken : /\ ReportAt(p, "update_write") \/ ReportAt(p, "approve_write")
                                      /\ overtaken' = overtaken \ {p}
<1>1. ASSUME NEW p \in Calls, UpdateWrite(p)
      PROVE  /\ Approved' /\ p \in overtaken /\ ReportAt(p, "update_write")
             /\ overtaken' = overtaken \ {p}
  <2>1. Approved'  BY <1>1 DEF UpdateWrite, Sealed, TypeOKReport, ReportRow, Approved
  <2>2. p \in overtaken  BY <1>1 DEF UpdateWrite, Sealed, UnderWay, ReportAt
  <2> QED  BY <1>1, <2>1, <2>2 DEF UpdateWrite
<1>2. ASSUME NEW p \in Calls, ApproveWrite(p)
      PROVE  /\ Approved' /\ p \in overtaken /\ ReportAt(p, "approve_write")
             /\ overtaken' = overtaken \ {p}
  <2>1. Approved'  BY <1>2 DEF ApproveWrite, Sealed, TypeOKReport, ReportRow, Approved
  <2>2. p \in overtaken  BY <1>2 DEF ApproveWrite, Sealed, UnderWay, ReportAt
  <2>3. final # Nothing  BY DEF Sealed
  <2> QED  BY <1>2, <2>1, <2>2, <2>3 DEF ApproveWrite
<1>3. ASSUME NEW p \in Calls,
             \/ \E t \in Narratives : UpdateRead(p, t)
             \/ ApproveRead(p) \/ ApproveCompute(p) \/ ReportCrash(p)
      PROVE  UNCHANGED report /\ overtaken' \subseteq overtaken
  BY <1>3 DEF UpdateRead, ApproveRead, ApproveCompute, ReportCrash
<1>4. ASSUME EnterData \/ UNCHANGED reportVars
      PROVE  UNCHANGED report /\ overtaken' \subseteq overtaken
  BY <1>4 DEF EnterData, reportVars
<1> QED  BY <1>1, <1>2, <1>3, <1>4 DEF NextReport

\* An approved report is never a draft again, and only a call that was under way when it was
\* approved first may still change it, with the one write it has left.
THEOREM LateWritersOnly == SpecReport => LateWritersWereThere
<1>1. Sealed /\ [NextReport]_reportVars =>
        (Approved /\ report' # report =>
            /\ Approved'
            /\ \E p \in overtaken : /\ ReportAt(p, "update_write") \/ ReportAt(p, "approve_write")
                                    /\ overtaken' = overtaken \ {p})
  BY ApprovedStep
<1> QED  BY <1>1, AlwaysSealed, PTL DEF SpecReport, LateWritersWereThere

\* Once the calls that an approval overtook have ended, the report stays as it is for good:
\* however many calls come, and whatever attendance and grades are entered.
THEOREM FrozenForGood ==
    ASSUME NEW row
    PROVE  SpecReport => [](Approved /\ overtaken = {} /\ report = row => [](report = row))
<1> DEFINE Frozen == Approved /\ overtaken = {} /\ report = row
<1>1. Sealed /\ [NextReport]_reportVars => (Frozen => Frozen')
  <2> SUFFICES ASSUME Sealed, [NextReport]_reportVars, Frozen PROVE Frozen'
    OBVIOUS
  <2>1. UNCHANGED report /\ overtaken' \subseteq overtaken  BY ApprovedStep
  <2> QED  BY <2>1 DEF Approved
<1>2. Frozen => report = row  OBVIOUS
<1> HIDE DEF Frozen
<1>3. SpecReport => [](Frozen => [](report = row))
  BY <1>1, <1>2, AlwaysSealed, PTL DEF SpecReport
<1> QED  BY <1>3 DEF Frozen
=============================================================================
