--------------------------- MODULE SectionTeachers ---------------------------
(***************************************************************************)
(* The staff of one class section: class_section.teacher_id names the      *)
(* primary teacher, section_teacher holds one link per teacher or          *)
(* assistant.  addSectionTeacher and removeSectionTeacher run without a    *)
(* transaction, one statement at a time, on a section row read at their    *)
(* start.                                                                  *)
(***************************************************************************)
EXTENDS SequencesExt

CONSTANTS
    Admins,     \* calls of org managers in flight at one time
    Ids,        \* section_teacher ids; one that no row and no call has is as good as new
    Staff,      \* teachers and assistants of the organisation
    Nobody      \* NULL teacher_id

ASSUME StaffAssumption == Nobody \notin Staff \cup Ids

VARIABLES
    primary,    \* class_section.teacher_id
    links,      \* the section_teacher rows, oldest createdAt first
    change,     \* change[p]: where call p stands, with its local variables
    died,       \* whether a call was cut short
    overlapped  \* whether a removal and another call were ever under way together

staffVars == <<primary, links, change, died, overlapped>>

Removals == {"remove_select", "remove_delete", "remove_pick", "remove_set"}

StaffStages == {"idle", "add_insert", "add_primary"} \cup Removals

StaffLink == [id : Ids, user : Staff]

StaffCall == [stage : StaffStages,
              row   : Ids \cup {Nobody},     \* the link a removal selected
              user  : Staff \cup {Nobody},
              was   : Staff \cup {Nobody},   \* section.teacherId as the call read it
              next  : Staff \cup {Nobody}]

NoChange == [stage |-> "idle", row |-> Nobody, user |-> Nobody, was |-> Nobody, next |-> Nobody]

LinksOf(u)  == {k \in ToSet(links) : k.user = u}
IsLinked(u) == LinksOf(u) # {}

\* The primary key and uq_section_teacher_section_user.
LinksUnique == \A i, j \in DOMAIN links :
    links[i].id = links[j].id \/ links[i].user = links[j].user => i = j

TypeOKStaff == /\ primary \in Staff \cup {Nobody}
               /\ links \in Seq(StaffLink)
               /\ LinksUnique
               /\ change \in [Admins -> StaffCall]
               /\ died \in BOOLEAN
               /\ overlapped \in BOOLEAN

\* createSection has inserted the section and the link of its teacher.
InitStaff == /\ primary \in Staff
             /\ \E i \in Ids : links = <<[id |-> i, user |-> primary]>>
             /\ change = [p \in Admins |-> NoChange]
             /\ died = FALSE
             /\ overlapped = FALSE

StaffAt(p, stage)   == change[p].stage = stage
StaffGoto(p, stage) == change' = [change EXCEPT ![p].stage = stage]
StaffEnd(p)         == change' = [change EXCEPT ![p] = NoChange]

Removing(p) == change[p].stage \in Removals

FreshLinkId(i) == /\ \A k \in ToSet(links) : k.id # i
                  /\ \A p \in Admins : change[p].row # i

-----------------------------------------------------------------------------
(* addSectionTeacher *)

AddRead(p, u) ==
    /\ StaffAt(p, "idle")
    /\ change' = [change EXCEPT ![p] = [NoChange EXCEPT !.stage = "add_insert", !.user = u,
                                                        !.was = primary]]
    /\ overlapped' = (overlapped \/ \E o \in Admins : Removing(o))
    /\ UNCHANGED <<primary, links, died>>

\* uq_section_teacher_section_user turns a re-add into a no-op.
AddInsert(p) ==
    /\ StaffAt(p, "add_insert")
    /\ \/ IsLinked(change[p].user) /\ UNCHANGED links
       \/ /\ ~IsLinked(change[p].user)
          /\ \E i \in Ids : /\ FreshLinkId(i)
                           /\ links' = Append(links, [id |-> i, user |-> change[p].user])
    /\ IF change[p].was = Nobody THEN StaffGoto(p, "add_primary") ELSE StaffEnd(p)
    /\ UNCHANGED <<primary, died, overlapped>>

AddPrimary(p) ==
    /\ StaffAt(p, "add_primary")
    /\ primary' = change[p].user
    /\ StaffEnd(p)
    /\ UNCHANGED <<links, died, overlapped>>

-----------------------------------------------------------------------------
(* removeSectionTeacher *)

RemoveRead(p, u) ==
    /\ StaffAt(p, "idle")
    /\ change' = [change EXCEPT ![p] = [NoChange EXCEPT !.stage = "remove_select", !.user = u,
                                                        !.was = primary]]
    /\ overlapped' = (overlapped \/ \E o \in Admins : ~StaffAt(o, "idle"))
    /\ UNCHANGED <<primary, links, died>>

\* Mutant: the primary is not looked at when its link goes.
AfterDeleteDone(p) == StaffEnd(p)

AfterDelete(p) ==
    IF change[p].was = change[p].user THEN StaffGoto(p, "remove_pick") ELSE StaffEnd(p)

RemoveSelect(p) ==
    /\ StaffAt(p, "remove_select")
    /\ \/ /\ IsLinked(change[p].user)
          /\ \E k \in LinksOf(change[p].user) :
                change' = [change EXCEPT ![p].stage = "remove_delete", ![p].row = k.id]
       \/ ~IsLinked(change[p].user) /\ AfterDelete(p)
    /\ UNCHANGED <<primary, links, died, overlapped>>

\* Deletes by id, so a row that another call has put in its place stays.
RemoveDelete(p) ==
    /\ StaffAt(p, "remove_delete")
    /\ \/ \E i \in DOMAIN links : links[i].id = change[p].row /\ links' = RemoveAt(links, i)
       \/ (\A i \in DOMAIN links : links[i].id # change[p].row) /\ UNCHANGED links
    /\ AfterDelete(p)
    /\ UNCHANGED <<primary, died, overlapped>>

\* The earliest link that remains becomes the primary, or nobody does.
RemovePick(p) ==
    /\ StaffAt(p, "remove_pick")
    /\ change' = [change EXCEPT ![p].stage = "remove_set",
                                ![p].next = IF links = <<>> THEN Nobody ELSE links[1].user]
    /\ UNCHANGED <<primary, links, died, overlapped>>

RemoveSet(p) ==
    /\ StaffAt(p, "remove_set")
    /\ primary' = change[p].next
    /\ StaffEnd(p)
    /\ UNCHANGED <<links, died, overlapped>>

\* The server process dies under call p: no transaction undoes what it did.
StaffCrash(p) == /\ ~StaffAt(p, "idle")
                 /\ StaffEnd(p)
                 /\ died' = TRUE
                 /\ UNCHANGED <<primary, links, overlapped>>

NextStaff == \E p \in Admins :
           \/ \E u \in Staff : AddRead(p, u) \/ RemoveRead(p, u)
           \/ AddInsert(p) \/ AddPrimary(p)
           \/ RemoveSelect(p) \/ RemoveDelete(p) \/ RemovePick(p) \/ RemoveSet(p)
           \/ StaffCrash(p)

SpecStaff == InitStaff /\ [][NextStaff]_staffVars

-----------------------------------------------------------------------------
\* No call is at work, and every call that was got to its end.
Quiet == ~died /\ \A p \in Admins : StaffAt(p, "idle")

\* Once the calls have ended, the primary teacher is one of the section's linked staff: the
\* upkeep section-teacher-actions.ts promises in its lines 16 to 18.
PrimaryIsMember == Quiet /\ primary # Nobody => IsLinked(primary)

\* What does hold of that upkeep: once the calls have ended, a section has a primary exactly if
\* it has staff, and the primary is one of them, unless a removal overlapped another call or a
\* call was cut short.  Additions may overlap each other freely.
PrimaryUpkept ==
    Quiet /\ ~overlapped =>
        IF links = <<>> THEN primary = Nobody ELSE IsLinked(primary)
=============================================================================
