------------------------------- MODULE Report -------------------------------
(***************************************************************************)
(* One progress report from its draft on: updateReportNarrativeCore and    *)
(* approveReportCore each read the row, check that it is not approved yet, *)
(* and write by id without a condition on the status.  Approval recomputes *)
(* the numbers (attendance and grades of the period) before its write;     *)
(* they go on changing.                                                    *)
(***************************************************************************)
EXTENDS Statements, Naturals

CONSTANTS
    Narratives, \* the texts of a report
    MaxData     \* bound on the changes of attendance and grades

ASSUME ReportAssumption == /\ MaxData \in Nat
                           /\ Nothing \notin Narratives \cup (0..MaxData)
                           /\ Nothing \notin [narrative : Narratives, numbers : 0..MaxData]

VARIABLES
    report,     \* the row
    data,       \* version of the numbers the period has now
    final,      \* the content of the report as it was approved first
    edit,       \* edit[p]: where call p stands, with its local variables
    overtaken   \* the calls under way at the first approval, until they end

reportVars == <<report, data, final, edit, overtaken>>

Versions == 0..MaxData

Content == [narrative : Narratives, numbers : Versions]

ReportCall == [stage   : {"idle", "update_write", "approve_compute", "approve_write"},
               text    : Narratives \cup {Nothing},
               numbers : Versions]

NoEdit == [stage |-> "idle", text |-> Nothing, numbers |-> 0]

ReportRow == [status : {"draft", "approved"}, narrative : Narratives,
              numbers : Versions \cup {Nothing}]

TypeOKReport == /\ report \in ReportRow
                /\ data \in Versions
                /\ final \in Content \cup {Nothing}
                /\ edit \in [Calls -> ReportCall]
                /\ overtaken \subseteq Calls

\* createReportDraftCore has inserted the draft.
InitReport == /\ \E t \in Narratives :
                    report = [status |-> "draft", narrative |-> t, numbers |-> Nothing]
              /\ data = 0
              /\ final = Nothing
              /\ edit = [p \in Calls |-> NoEdit]
              /\ overtaken = {}

ReportAt(p, stage) == edit[p].stage = stage
ReportEnd(p)       == edit' = [edit EXCEPT ![p] = NoEdit]

UnderWay == {p \in Calls : ~ReportAt(p, "idle")}

Approved == report.status = "approved"

-----------------------------------------------------------------------------
(* updateReportNarrativeCore *)

\* Mutant: the status is not looked at.
UpdateReadAnyStatus(p, t) ==
    /\ ReportAt(p, "idle")
    /\ edit' = [edit EXCEPT ![p] = [NoEdit EXCEPT !.stage = "update_write", !.text = t]]
    /\ UNCHANGED <<report, data, final, overtaken>>

UpdateRead(p, t) ==
    /\ ReportAt(p, "idle")
    /\ ~Approved
    /\ edit' = [edit EXCEPT ![p] = [NoEdit EXCEPT !.stage = "update_write", !.text = t]]
    /\ UNCHANGED <<report, data, final, overtaken>>

UpdateWrite(p) ==
    /\ ReportAt(p, "update_write")
    /\ report' = [report EXCEPT !.narrative = edit[p].text]
    /\ ReportEnd(p)
    /\ overtaken' = overtaken \ {p}
    /\ UNCHANGED <<data, final>>

-----------------------------------------------------------------------------
(* approveReportCore *)

ApproveRead(p) ==
    /\ ReportAt(p, "idle")
    /\ ~Approved
    /\ edit' = [edit EXCEPT ![p].stage = "approve_compute"]
    /\ UNCHANGED <<report, data, final, overtaken>>

ApproveCompute(p) ==
    /\ ReportAt(p, "approve_compute")
    /\ edit' = [edit EXCEPT ![p].stage = "approve_write", ![p].numbers = data]
    /\ UNCHANGED <<report, data, final, overtaken>>

ApproveWrite(p) ==
    /\ ReportAt(p, "approve_write")
    /\ report' = [report EXCEPT !.status = "approved", !.numbers = edit[p].numbers]
    /\ IF final = Nothing
       THEN /\ final' = [narrative |-> report.narrative, numbers |-> edit[p].numbers]
            /\ overtaken' = UnderWay \ {p}
       ELSE /\ overtaken' = overtaken \ {p}
            /\ UNCHANGED final
    /\ ReportEnd(p)
    /\ UNCHANGED data

\* Attendance or a grade of the period is entered.
EnterData == /\ data < MaxData
             /\ data' = data + 1
             /\ UNCHANGED <<report, final, edit, overtaken>>

\* The server process dies under call p.
ReportCrash(p) == /\ ~ReportAt(p, "idle")
                  /\ ReportEnd(p)
                  /\ overtaken' = overtaken \ {p}
                  /\ UNCHANGED <<report, data, final>>

NextReport == \/ \E p \in Calls : \/ \E t \in Narratives : UpdateRead(p, t)
                                  \/ UpdateWrite(p)
                                  \/ ApproveRead(p) \/ ApproveCompute(p) \/ ApproveWrite(p)
                                  \/ ReportCrash(p)
              \/ EnterData

SpecReport == InitReport /\ [][NextReport]_reportVars

-----------------------------------------------------------------------------
\* An approved report says what it said when it was approved: the narrative is locked and
\* the numbers are frozen (db/schema/enums.ts:21, report-core.ts:77).
FrozenOnceApproved ==
    Approved => final = [narrative |-> report.narrative, numbers |-> report.numbers]

\* What does hold of an approved report: it is never a draft again, and only a call that was under
\* way when it was approved first may still change it, with its one write.  Once those calls have
\* ended it is frozen for good, however many calls come and whatever is entered.
LateWritersWereThere ==
    [][Approved /\ report' # report =>
          /\ Approved'
          /\ \E p \in overtaken : /\ ReportAt(p, "update_write") \/ ReportAt(p, "approve_write")
                                  /\ overtaken' = overtaken \ {p}]_reportVars
=============================================================================
