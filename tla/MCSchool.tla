------------------------------ MODULE MCSchool ------------------------------
(***************************************************************************)
(* The desks of the school side by side, for TLC.  They have no table and  *)
(* no process in common: an interleaving of two of them shows nothing that *)
(* either does not show alone, and would only multiply their states.  So   *)
(* each behavior is one desk's, chosen at the start, and the others rest   *)
(* in one of their initial states.                                         *)
(***************************************************************************)
EXTENDS LessonRecords, LessonEditor, WeekCalendar, LessonList, Timetable, Reminders, PushDevices,
        McpDesk, Drafting, ParentPortal, SiteConsole, PagedList, TenantPurge, SiteIntake,
        SectionTeachers, Report

VARIABLE desk   \* whose behavior this is

deskVars == <<recordVars, editorVars, calendarVars, listVars, timetableVars, reminderVars, pushVars,
              mcpVars, draftVars, portalVars, consoleVars, pageVars, purgeVars, intakeVars,
              staffVars, reportVars, desk>>

Desks == {"records", "editor", "calendar", "list", "timetable", "reminders", "push", "mcp", "draft",
          "portal", "console", "pages", "purge", "intake", "staff", "reports"}

\* Desk d is the chosen one, or rests in the state that `one` picks.
Rests(d, one) == desk = d \/ one

InitSchool ==
    /\ desk \in Desks
    /\ InitRecords   /\ Rests("records", kind = "summary")
    /\ InitEditor    /\ Rests("editor", form = "panel")
    /\ InitCalendar  /\ Rests("calendar", slotOf = [b \in Blocks |-> Nothing])
    /\ InitList      /\ Rests("list", book = [l \in Rows |-> Nothing])
    /\ InitTimetable /\ Rests("timetable", plan.meetings = Weekdays)
    /\ InitReminders
    /\ InitPush
    /\ InitMcp       /\ Rests("mcp", classBook[1] = CHOOSE s \in ClassSlots : TRUE)
    /\ InitDraft     /\ Rests("draft", orgOthers = "some")
    /\ InitPortal    /\ Rests("portal", link = [c \in Children |-> "none"])
    /\ InitConsole   /\ Rests("console", popups = {})
    /\ InitPages     /\ Rests("pages", entries = 0)
    /\ InitPurge     /\ Rests("purge", orgs = Tenants /\ pointing = [o \in Tenants |-> "no"])
    /\ InitIntake    /\ Rests("intake", entry = Nothing)
    /\ InitStaff     /\ Rests("staff", links = <<[id   |-> CHOOSE i \in Ids : TRUE,
                                                 user |-> CHOOSE u \in Staff : TRUE]>>)
    /\ InitReport    /\ Rests("reports", report.narrative = CHOOSE t \in Narratives : TRUE)

\* Every desk but d rests.
OthersRest(d) ==
    /\ UNCHANGED desk
    /\ d # "records" => UNCHANGED recordVars
    /\ d # "editor" => UNCHANGED editorVars
    /\ d # "calendar" => UNCHANGED calendarVars
    /\ d # "list" => UNCHANGED listVars
    /\ d # "timetable" => UNCHANGED timetableVars
    /\ d # "reminders" => UNCHANGED reminderVars
    /\ d # "push" => UNCHANGED pushVars
    /\ d # "mcp" => UNCHANGED mcpVars
    /\ d # "draft" => UNCHANGED draftVars
    /\ d # "portal" => UNCHANGED portalVars
    /\ d # "console" => UNCHANGED consoleVars
    /\ d # "pages" => UNCHANGED pageVars
    /\ d # "purge" => UNCHANGED purgeVars
    /\ d # "intake" => UNCHANGED intakeVars
    /\ d # "staff" => UNCHANGED staffVars
    /\ d # "reports" => UNCHANGED reportVars

NextSchool ==
    \/ desk = "records" /\ NextRecords /\ OthersRest("records")
    \/ desk = "editor" /\ NextEditor /\ OthersRest("editor")
    \/ desk = "calendar" /\ NextCalendar /\ OthersRest("calendar")
    \/ desk = "list" /\ NextList /\ OthersRest("list")
    \/ desk = "timetable" /\ NextTimetable /\ OthersRest("timetable")
    \/ desk = "reminders" /\ NextReminders /\ OthersRest("reminders")
    \/ desk = "push" /\ NextPush /\ OthersRest("push")
    \/ desk = "mcp" /\ NextMcp /\ OthersRest("mcp")
    \/ desk = "draft" /\ NextDraft /\ OthersRest("draft")
    \/ desk = "portal" /\ NextPortal /\ OthersRest("portal")
    \/ desk = "console" /\ NextConsole /\ OthersRest("console")
    \/ desk = "pages" /\ NextPages /\ OthersRest("pages")
    \/ desk = "purge" /\ NextPurge /\ OthersRest("purge")
    \/ desk = "intake" /\ NextIntake /\ OthersRest("intake")
    \/ desk = "staff" /\ NextStaff /\ OthersRest("staff")
    \/ desk = "reports" /\ NextReport /\ OthersRest("reports")

SpecSchool == InitSchool /\ [][NextSchool]_deskVars

-----------------------------------------------------------------------------
\* The tables, the forms and the calls of every desk hold what their code can put there; a
\* selection that was left holds no row (section-lessons.tsx:201).
TypesOK ==
    /\ TypeOKRecords  /\ TypeOKEditor  /\ TypeOKCalendar /\ TypeOKList    /\ TypeOKTimetable
    /\ TypeOKReminders /\ TypeOKPush   /\ TypeOKMcp      /\ TypeOKDraft   /\ TypeOKPortal
    /\ TypeOKConsole  /\ TypeOKPages   /\ TypeOKPurge    /\ TypeOKIntake  /\ TypeOKStaff
    /\ TypeOKReport

\* A reminder is pushed to a person at most once, however often the scans run, fail and overlap,
\* and a scan that has gone through a lesson leaves nobody without a notice of the time it found
\* (reminder-core.ts:32-77, notification-core.ts:32-59).
EachRemindedOnce == PushedAtMostOnce /\ ScanReachesEveryone

\* The server and the browsers agree on who is subscribed: no more rows than the cap when every
\* save has ended, and a row for every browser that holds a subscription, but for what a lost
\* answer or the cap itself excuses (push-core.ts:87-125, push-client.ts:19-56).
BrowsersAgree == DevicesWithinCap /\ SubscribedIsKnown

\* Nothing of a pupil leaves without a consent that stands: not to the provider of the drafts, and
\* not to a parent (report-consent.ts:67-103, auth/portal.ts:34-44).
OnlyUnderConsent == AckBehindEverySend /\ ServedUnderConsent

\* What the console of the site shows is there: its form edits no row it has deleted, and a page
\* without rows beside a count of some was overtaken (popups-panel.tsx:142, pagination.ts:50-64).
ConsoleShowsWhatIs == FormOnLivingRow /\ EmptyPageIsTrue
=============================================================================
