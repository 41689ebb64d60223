# A TLA+ model of the course scheduling system

The program is a Next.js server on PostgreSQL 17 for schools: courses, sections and their
rosters, recurring lessons, reschedule requests of students and parents, attendance, grades and
reports, share links and calendar feeds, reminders, and a public site with e-mail campaigns. It
has many tenants; every row belongs to one of them and every statement is filtered by it, so the
models are of one tenant.

The state is in the database. A Server Action, a route or an MCP tool is a sequence of
statements with `await`s between them, at READ COMMITTED, most of them outside of a transaction.
What is hard about the code is what happens when two such sequences overlap, or one is cut short.
So the models work at the grain of statements: **one step is one statement of one call**, the
calls interleave freely, and a crash drops a call where it stands.

The forms of the browser are a second place where state lives: a form holds texts, a baseline and
a pending call while its page is refreshed under it and other people save. There one step is one
input, one click, or one answer. The third place is the server process, with a map of
confirmation tokens and one of rate limits.

## 1. Inventory

Paths are below `src/src/`.

| Component | Keeps | Operations | Hard about it | Correct means |
|---|---|---|---|---|
| Reschedule requests (`lib/reschedule-core.ts`, portal and dashboard actions) | `reschedule_request` | create, approve, reject, cancel | the cap is counted under an advisory lock; approval claims the request and moves the lesson in one transaction; the pool can run dry while transactions hold connections; notices go out after the commit | answered once, granted with the move or not at all, capped per user, nobody hears two answers, no pool deadlock |
| Lesson scheduling (`lib/schedule-core.ts`, `lib/conflict.ts`, `dashboard/schedule/actions.ts`) | `lesson` | book, move, cancel one / several / a series, set room | a pre-check outside of any lock, backed by two exclusion constraints | no two live lessons of a section share a teacher or a room |
| Roster (`enrollment-actions.ts`, `updateSection`) | `enrollment`, `class_section.capacity` | enroll, unenroll, change the capacity | read before the lock and again under it; old rows are reactivated | never past the capacity, no raw unique violation, one row per pair |
| E-mail campaigns (`lib/site/campaigns-core.ts`, `lib/mail.ts`) | `email_campaigns`, `email_deliveries` | create, send, delete | claim by conditional UPDATE, takeover of stale claims, batches, a ledger written after SMTP accepts | the ledger prevents second copies, "sent" means everybody got it, counts are true |
| Share links (`students/share-*.ts`, `section-share-*.ts`, `lib/share.ts`) | `share_link`, `section_share_link` | ensure, rotate, revoke, expire | read, then write by id, without a transaction | a URL that was turned off stays off |
| Calendar feeds (`calendar/actions.ts`) | `calendar_feed` | the same three | the same, and no unique index on active feeds | the same |
| Staff of a section (`section-teacher-actions.ts`) | `section_teacher`, `class_section.teacher_id` | add, remove | the primary is a copy kept by hand over several statements | the primary is a member |
| Progress reports (`lib/report-core.ts`) | `progress_report` | draft, edit, approve | check, then unconditional write | frozen once approved |
| Notifications (`lib/notification-core.ts`) | `notification` | outcome, canceled, enrolled, mark read | best effort, after the commit | at most one notice per event |
| Recurring lessons (`lib/materialize.ts`, `lib/lesson-insert.ts`, `lib/add-sessions.ts`, `lib/recurrence.ts`) | `lesson`, `class_meeting` | materialize, add sessions | bulk insert with a per-row fallback, moved weeks | every day of the rule is there or counted |
| Course and section editing (`courses/actions.ts`) | `course`, `class_section`, `class_meeting` | create, edit, archive, restore | several statements, no transaction | no half-made section |
| Notes, attendance, grades (`lib/lesson-note-core.ts`, `attendance-actions.ts`, `teach/[sectionId]/data.ts`) | three tables | four saves | select then write, some without a unique index | what was reported as saved took effect |
| Their forms (`schedule/lesson-detail.tsx`, `lesson-notes-inline.tsx`) | texts, baseline, pending call | type, save one, save all, close, refresh | a baseline that moves under the texts; failures halfway | "unchanged" means stored; nothing untouched is written without a reason |
| Week calendar, lesson list (`calendar.tsx`, `section-lessons.tsx`) | blocks, one reschedule form, a selection | drag, draw, move, select, delete, add | no waiting between drags; a form shared by rows | a block stands where it is listed; times are sent for their own lesson |
| Reminders (`lib/reminder-core.ts`, `api/cron/reminders`) | `notification` | scan | overlapping scans, row before push | one reminder per person, lesson and offset |
| Web push (`lib/push-core.ts`) | `push_subscription` | save, send, prune, remove | cap by select and delete; the browser and the server each hold half | cap kept, browsers and rows agree |
| Portal accounts (`auth/provision.ts`) | Better Auth user, member, `portal_link` | provision, link, unlink | compensation after partial failure | no login that sees nothing, no login taken away that was there before, every link leads to a login |
| Staff accounts (`auth/staff.ts`) | the same tables | create, set role, ban, unban, edit | the last-owner guard counts under FOR UPDATE; role read before the transaction | an owner who can sign in remains |
| Sign-in, sessions (`auth/`) | Better Auth tables | - | external library | - |
| Access scope, tenant filter (`auth/scope.ts`, `db/tenant.ts`) | nothing | predicates, conditional updates | read before the write they guard | - |
| MCP confirmations (`lib/mcp-confirm.ts`) | in-memory map | issue, consume | expiry, payload binding, restart | only what was previewed, once |
| Rate limiter (`lib/rate-limit.ts`) | in-memory log | hit, reset | boundary of the window | never above the limit, never stricter |
| Public intake (`lib/site/ingest-core.ts`) | subscribers, messages | subscribe, inquire | concurrent sign-ups, deletion in between | one greeting per row, names kept |
| Site back office (`lib/site/admin-core.ts`, `site/popups/`) | subscribers, messages, popups | edit, delete, list | forms and pages that outlive rows | the console shows what is there |
| Report consent (`lib/report-consent.ts`) | a key of `organization.metadata` | acknowledge | read, modify and write of one JSON column | no data goes out before it, the first one stands |
| Parent portal (`auth/portal.ts`, `app/portal/`) | `portal_link.consentedAt` | consent, load notes, reports, timetable | consent and links read in different statements | nothing served of a child without consent |
| Operator's scripts (`src/scripts/purge-tenant.ts`, `cleanup-orphan-tenants.ts`) | every table | clean, migrate, purge | beside the running application | whole or not at all |
| Report text, PDF, exports, pages that only render | nothing shared | render | - | - |

How they interact: all through tables. `lesson` is written by scheduling, request approval and
materialization, and read by reminders, feeds and reports; `class_section` is the lock of the
roster and the owner of the staff list; `notification` is written by scheduling, requests and
reminders after their own commit; `subscriber` feeds the campaigns. The only other shared
resource is the pool of database connections (`db/index.ts`), and the two in-memory maps.

`PROJECT.json` lists every component with its status, and every hazard with the line where it
bites and the properties that would catch it.

## 2. Modules

| Module | Models | State and actions |
|---|---|---|
| `LessonTable` | the lesson row, half-open ranges, the exclusion constraints of migration 0022, the pre-check | operators only |
| `LessonBook` | **abstract**: what scheduling and requests promise, each operation one step | `lesson`, `request`; `Book Move Cancel AssignRoom Ask Grant Close` |
| `Reschedule` | **detailed**: the same tables, with the handlers statement by statement | adds `job` (one record per call in flight: stage and locals) and `told` (notices per recipient) |
| `MCReschedule` | instance for TLC | `Requests.cfg`, `Booking.cfg` |
| `Reschedule_proofs` | theorems about the book and the handlers | - |
| `RosterBook` | **abstract**: what the roster promises, each operation one step | `row`, `capacity`; `Seat Leave Resize` |
| `Enrollment` | **detailed**: the same table, with the Server Actions statement by statement | adds `call` (stage and locals of a call in flight) |
| `MCEnrollment`, `Enrollment_proofs` | instance for TLC, theorems | - |
| `Campaign`, `MCCampaign`, `Campaign_proofs` | one campaign and its sends | `status claimedAt count ledger active inbox send lastRun clashes overrun now faults` |
| `Capability`, `MCCapability`, `Capability_proofs` | share links (`Feed = FALSE`) and calendar feeds (`Feed = TRUE`) | `link drawn out void call` |
| `SectionTeachers`, `MCSectionTeachers` | primary and links of one section | `primary links change died overlapped` |
| `Report`, `MCReport` | one report | `report data final edit overtaken` |
| `Accounts`, `MCAccounts`, `Accounts_proofs` | portal logins and their links, staff logins, the last-owner guard | `account links call died` |
| `Statements` | the calls in flight and NULL, shared by the desks below | constants only |
| `Register` | **abstract**: what a save promises, an atomic register | `Begin Take Acknowledge Fail` |
| `LessonRecords` | **detailed**: note, comment, attendance and grade, statement by statement | `kind cell enrolled save` |
| `LessonEditor` | the drawer and the inline panel with their baselines | `form phase held text base queue snapshot edits` |
| `WeekCalendar` | drags, drawings and cancelations in flight | `slotOf events display asked astray` |
| `LessonList` | the reschedule form, the bulk deletion, the added lessons | `book clock rendered moving chosen call` |
| `Timetable` | creation of a section, expansion of its meetings, batches of lessons | `plan section strays lessons taken batch` |
| `Reminders` | the cron scans, the notices and who reads them | `hour notices pushes scan` |
| `PushDevices` | browsers, subscription rows, the button, the sender | `browser used subs born button sender ...` |
| `McpDesk` | previews, tokens, confirmations | `tick pending principal classBook tool ...` |
| `Drafting` | limiter, consent and provider of the report drafts | `minute hits orgAck orgOthers ackRow panel ...` |
| `ParentPortal` | links, consent gate, loaders | `link attending tab improper` |
| `SiteConsole`, `PagedList` | pop-ups and their form; one page of a list | `popups draft shownRows action ...`; `entries reader view` |
| `TenantPurge` | cleanup, migration, purge, and the application beside them | `tenantFk orgs tableRows pointing job ...` |
| `SiteIntake` | sign-ups of one address | `entry lives request ...` |
| `MCSchool` | the sixteen desks side by side | adds `desk` |
| `Teaching_proofs` | theorems about `LessonRecords`, `LessonEditor`, `WeekCalendar`, `LessonList`, `Timetable`, `SectionTeachers`, `Report` | - |
| `Outreach_proofs` | theorems about `Reminders`, `PushDevices`, `McpDesk`, `Drafting`, `ParentPortal` | - |
| `School_proofs` | theorems about `SiteConsole`, `PagedList`, `TenantPurge`, `SiteIntake`, and about the school | - |

`Reschedule` EXTENDS `LessonBook`, so both speak of the same two tables and the refinement
mapping is the identity on them; `BookSpec` is checked as a PROPERTY and proved as a theorem.
`Enrollment` EXTENDS `RosterBook` in the same way, and `RosterSpec` says of the lock what the
invariants say in parts: the check of the seat, the choice of the row and the write are one step.

How a handler becomes actions, by the example of approval (`reschedule-core.ts` 145-212):
`ApproveRead` is the read and the ownership check before the transaction; `ApproveBegin` takes a
connection for `db.transaction`; `ApproveClaim` is the conditional `updateWhere`; `ApproveCheck`
the guards and the pre-check of `rescheduleLessonCore`, run with the transaction's own
connection; `ApproveMove` the UPDATE of the lesson and the COMMIT, or the rollback on 23P01;
`TellRequester` and `TellTeacher` the two rows `notifyRescheduleOutcomeCore` writes.

By the example of a form (`lesson-detail.tsx`): the drawer opens with empty fields and sends its
reads (`OpenForm`), their answer fills texts and baseline (`Load`), `saveAll` compares the two and
sends what differs (`SaveAll`), each write runs on the server in the order of sending (`RunWrite`)
and the last one, or the first that fails, is the form's answer (`Finish`). The server actions of
one page are a queue, as Next.js runs them one after the other.

`LessonRecords` and `Register`: `CellsAreRegisters` says that a cell with a unique index is an
atomic register. The mapping shows of a call what its caller can know: that it is under way, what
it writes, whether it took effect, and the answer. A statement that leaves the body of the call
in the cell is its `Take`; the calls it overlaps are absorbed with it, since they may be ordered
just before. So a save that is acknowledged took effect at one instant between question and answer,
also when the index refused its row or the row it had read was deleted. Notes have no index and are
not registers; `NoteLostOnlyAmongTwins` says exactly when.

The **desks** of `MCSchool` write different tables and share neither a process nor a lock, except
for `lesson` and `portal_link`, whose changes at another desk are actions of the desk that reads them
(`MoveLesson`, `ElsewhereList`, `MoveAtAnotherDesk`, `LinkChild`, ...). `class_section` is written by
two desks in different columns: its primary by `SectionTeachers`, its term and its archive flag by
`Timetable`. An interleaving of two of them shows nothing more than either alone and would multiply
their states, so a behaviour is one desk's, chosen at the start in `desk`, and the others rest in an initial state. One run explores each of
the sixteen to the end.

### Abstractions

* **Transactions.** A transaction's writes become visible with its last statement; until then
  its locks are read off the stage of the call (`HoldsRowLock`, `HoldsUserLock`, `Holds`). This is
  READ COMMITTED as seen by others: they see nothing of the writes, and wait for the locks.
* **Connections.** A transaction holds one from its begin to its end. A single statement outside
  of one borrows a connection for its step; that it also occupies one while it waits for a row lock
  is left out (the holder of that lock has a connection of its own and needs no second one).
* **Times** are pairs of small numbers; `[start, end)` ranges are compared exactly as
  `tstzrange('[)')` does. Instants of the clock matter only in `cancelSeries` (`now` is any slot
  start) and in `Campaign` (an explicit clock).
* **Permissions** are static sets: the sections a reviewer owns, the sections in which a portal
  user has an active student, the teacher of a section. What may change them runs in other models.
* **Ids and tokens** come from generators that do not repeat: a new row's id is one that no row and
  no call in flight has.
* **Texts, titles, notes, links** are left out; so are inputs that fail validation, and calls
  that return before their first statement.
* **Errors** of the database end a call; a transaction is rolled back with it.
* In `Campaign` SMTP is configured and the audience is the set of active subscribers. The comment on
  `STALE_SENDING_MS` asks that the window exceed the longest send; no code enforces it, so the model
  bounds no send: a run that is still mailing may be taken over, and both go on. SMTP may take a
  mail and its answer be lost (`SendBatch`: what it took, `got`, and what it reported, `ok`, differ);
  such an answer counts as a fault, like a crash. The history variables say what the properties
  need to know of such runs: `overrun`, whether a call outlived the window; `clashes`, how often a
  call took the row from one still at work, or read its lists after the campaign went; `met`, whether
  a call worked beside another; `lastRun`, the audience of the run that marked the campaign sent, and
  whether it was alone.
* In `Capability` one owner has at most one token per draw, and `void` collects what a finished
  rotation or revocation was to turn off: everything that was out when that call began.
* In `Accounts` a user, its membership and its ban are one record (a user without a membership has
  role "none"), every staff role but the owner's is "teacher", both portal roles are "parent", and
  nobody belongs to two organisations. Who may do what to whom (`assertCanManageRole`, not to
  oneself) is left out, so the model allows more than the code does. `Faults` lets the trusted calls
  and the link's statements fail; a teardown that fails counts as a crash (`died`).
* In `Capability` the type invariant is proved (`LinksTyped`) and no run repeats it.
* In `SectionTeachers` the ids of links are reused once no row and no call has them, which is as good
  as new; three are enough for two staff and two calls, as an addition that finds none free overlaps
  a removal. The section is never deleted; `teacher_id` is written by nothing else after its insert.
* **History variables** (`edits`, `astray`, `excused`, `improper`, `confirmed`, `greeted`,
  `overlapped`, `died`, `overtaken`, ...) record what a property speaks of and no action reads them
  in a guard; `final` is one but for the choice of what `overtaken` starts with.
* In `LessonEditor` place and link are one field, and the lists of students one student; the
  visibility switch of a note goes with its text. In `WeekCalendar` an answer brings the new list
  with it (`revalidatePath`), whatever the outcome, unless the action throws.
* In `Timetable` a day holds at most one lesson of a teacher and a week has two days; expansion over
  daily, weekly, biweekly and monthly rules is exact on that calendar. The term has one time of day.
* In `Reminders` a lesson that other desks move may stand anywhere in the window when a scan reads
  it, so scans need no lesson table; a run of the cron is faster than the hour. The run has one
  recipient, the teacher: recipients do not interact, each has keys of its own.
* In `PushDevices` the push service never hands out an endpoint twice. In `McpDesk` a token cannot be
  guessed: confirmations carry tokens that were issued. In `Drafting` the clock counts minutes.
* In `ParentPortal` a change that falls into a load excuses what that load serves of this child;
  `ServedUnderConsent` is about everything else. So its two reads of the timetable, of enrollments
  and of lessons, are one step. In `Timetable` the reads before an expansion are one step, and its
  break-off at `MAX_OCCURRENCES` is the one that any failure of the insertion makes (`BreakForm`). In `SiteIntake` there is one address.
* In `TenantPurge` the tables form a chain of references; the application has one more row of the
  last table to store, which is what a purge may overlook. The purge is one transaction of Postgres
  (`sql.begin`), so its deletions are kept in `gone` until it commits and a broken one leaves nothing:
  that is taken from Postgres, not checked. What is checked is the half-done cleanup, which has no
  transaction, and what the application stores meanwhile.
* **What a property excuses.** Several promises of the desks hold only as long as nobody comes in
  between, and the property says so: `BlockStandsWhereListed` excuses overlapping drags (`astray`),
  `ServedUnderConsent` what changed during a load, `ConsoleShowsWhatIs` pages another browser
  overtook (and it does not look at text typed into a form while its answer is on the way),
  `GreetedOncePerRow` sign-ups that were overtaken, `PrimaryUpkept` removals that overlap another call.
  In these windows the code gives no guarantee, and none is claimed.

## 3. Runs

| Run | Instance | Checks |
|---|---|---|
| `requests` | 2 calls, 2 lessons, 1 section, back-to-back slots [0,2) and [2,4), 1 user, 2 requests, cap 1, pool 2 (612 k states) | `TypeOK`, `OpenRequestsCapped`, `ToldTheAnswerOnce`, `SomeCallCanProceed`, and the refinement `BookSpec` |
| `booking` | overlapping slots [0,2) and [1,3), a room, a second teacher on a seeded lesson, pool 1 (247 k states), fairness | `NoDoubleBooking` with rooms, `CallsEnd` |
| `enrollment` | 3 calls, 3 students, 3 rows, capacity 1..2, histories with dropped and completed rows (56 k states) | `TypeOK`, `NeverOverfilled`, `WriteNeverRefused`, and the refinement `RosterSpec` |
| `campaign` | 2 sends, 3 addresses, batches of 2, window 1, clock to 2, 1 fault, 2 clashes (2.4 M states) | `TypeOK`, `OneRunAtATime`, `ExtraCopiesExplained`, `LedgeredNotMailedAgain`, `SentReachedEveryone`, `RecipientCountTrue` |
| `campaign_copies` | the same | **violated**: `AtMostOneCopy` |
| `shares` | 3 calls, 3 rows, 4 tokens, unique index (20 k states) | `TurnedOffForGood` |
| `feeds` | 2 calls, no unique index | **violated**: `TurnedOffForGood` |
| `teachers_race` | 2 calls, 3 staff | **violated**: `PrimaryIsMember` |
| `report_race` | 2 calls, 2 texts, 2 changes of the data | **violated**: `FrozenOnceApproved` |
| `accounts` | 2 calls, 2 owners and a third account, 3 addresses, 1 student, failing statements and crashes (2.2 M states) | `TypeOK`, `OwnerRemains`, `NoOrphan`, `OnlyTheMinterTearsDown` |
| `accounts_twice` | the same without any fault | **violated**: `LinkedLoginExists` |

| `school` | 2 calls, 2 of most things; see below (1.7 M states over sixteen desks) | `TypesOK` and seventeen properties, one or two per desk, with the refinement `CellsAreRegisters` |

| Property of `school` | Desk | Instance | What it shows |
|---|---|---|---|
| `CellsAreRegisters`, `NoteLostOnlyAmongTwins` | `LessonRecords` | 2 saves, 2 bodies, ids 1..3 | a reported save took effect; a note is lost only when two first saves made two rows |
| `CleanMeansStored`, `UntypedWrittenOnlyWhenStale` | `LessonEditor` | note, attendance and card, 1 text, 2 writes waiting | a baseline was stored; save-all writes what nobody typed only on a stale page, or after a save that came before the load |
| `BlockStandsWhereListed` | `WeekCalendar` | 2 blocks, 2 slots, 2 questions in flight | no block is left astray except by overlapping drags |
| `MovedToTimesTypedForIt` | `LessonList` | 2 lessons, 2 times | one form for all rows never sends the times of another |
| `EveryDayAccounted` | `Timetable` | 3 days in weeks of 2, 2 batches, 1 day taken, 1 resubmission | no day of a rule is dropped silently |
| `EachRemindedOnce` | `Reminders` | 2 scans, 3 hours, 2 start hours, both offsets, rows older than one hour pruned | one push per reminder, nobody overlooked |
| `BrowsersAgree` | `PushDevices` | 2 browsers, 2 endpoints, cap 1, 3 rows | cap kept, subscribed means known |
| `WrittenAsPreviewed` | `McpDesk` | 2 calls, 2 tokens, 2 slots, time to live 1 of 2 ticks | nothing but what was previewed, once and in time |
| `LimiterExact`, `OnlyUnderConsent` | `Drafting` | 2 teachers, limit 1 in a window of 2 minutes, 1 retry | the limiter is exact; no data before the consent, and the first consent stands |
| `OnlyUnderConsent` | `ParentPortal` | 2 tabs, 2 children | nothing served of a child whose link is not under consent |
| `ConsoleShowsWhatIs` | `SiteConsole`, `PagedList` | 2 browsers, 2 pop-ups; 3 rows in pages of 2 | no form on a deleted row, no empty page beside a count |
| `PurgedWholeOrNotAtAll` | `TenantPurge` | 2 operators, 2 tenants, 2 tables | a tenant stands whole or is gone |
| `PrimaryUpkept` | `SectionTeachers` | 2 calls, 2 staff, 3 ids | only a removal that overlaps another call, or a crash, can part the primary from the staff |
| `LateWritersWereThere` | `Report` | 2 calls, 2 texts, 2 changes of the data | only who was under way at the approval may still write |
| `GreetedOncePerRow` | `SiteIntake` | 2 sign-ups, 1 name or none, 2 lives of the row | one `created` per row, no name lost |

Why these bounds are enough to be of interest: each hazard is a race of two calls (three where a
third may profit from the first two: the roster, the links); the cap, the capacity, the pool and the
batch are small enough to be hit; back-to-back slots tell an occupied slot from a free one and meet
at a boundary, overlapping ones make every move collide; two owners are the fewest for which the
last-owner guard has something to count; a window of one and a clock of two let a run be taken over
alive or dead and go on beside its successor, and two clashes let that happen twice. Every property of a
passing run has a mutant in `PROJECT.json`, a plausible mistake in the code under which the same run
fails. The properties of `school` that join two desks were tried with a mutant of each: besides the
listed ones `KeyWithoutStart` (`Reminders`), `OverflowKeepingOneMore` (`PushDevices`),
`UnlessOneIsStamped` (`ParentPortal`) and `NeverPastEnd` (`PagedList`) break them.

In `school` two calls are what each race takes. Two writes may wait in the queue of a page
(`MaxQueue`): `saveAll` then sends two fields of which the second may fail after the first was stored,
and a drawer is closed and opened again, on the same lesson too, while a write of the former one is
under way. Bounds of one (one stray section, one lesson elsewhere, one retry) let the case happen and
keep the sixteen desks within one run; the windows, limits and caps are as small as they can be for something to fall on either side
of them. Deadlock is not checked there: the histories and counters of a desk are bounded, so it stops.

**Fairness.** `FairSpec` asks strong fairness of each call's next statement. A call runs when its
promise resolves; what it can wait for is a connection (postgres-js queues first come, first
served), the advisory lock or a row lock (Postgres queues likewise), and each is given back after
finitely many statements. Weak fairness would not do: a connection that is taken and given back
for ever by others disables the step again and again, and the queue is what rules that out.
Arrivals, crashes and single-statement handlers are not fair. The desks of `school` have safety
properties only and no fairness: what a user or the cron scheduler does next is up to them, and a
lost answer or push is not repeated by the code.

### What the violated runs show

1. `campaign_copies`. A mail that SMTP accepted (line 146) and did not report in time, or a crash or
   a failed INSERT between the acceptance and the ledger (148-152), makes the retry mail those people
   again, which `db/schema/site.ts:101-102` says never happens. `ExtraCopiesExplained` and
   `LedgeredNotMailedAgain` are what does hold. With live takeovers, which the run `campaign` has,
   a second copy needs no fault at all: the two runs that met mail the same people.
2. `feeds`. Two first calls leave two active feeds; rotation and revocation turn off one.
3. `teachers_race`. Two overlapping staff changes leave a primary teacher who is not a member. What
   does hold is `PrimaryUpkept`: it takes a removal that overlaps another call, or a crash; additions
   may overlap each other freely, although each fills the primary it found empty.
4. `report_race`. A save that read the draft before the approval rewrites the approved report. What
   does hold is `LateWritersWereThere`: only calls that were under way at the approval can, each once,
   and the report is never a draft again.
5. `accounts_twice`. Two calls provision one address for one student. The one that minted the login
   meets the unique index on the link, which the other has just inserted, and tears the login down:
   the link, and the password that the other call has handed out, lead nowhere.
   `OnlyTheMinterTearsDown` is what does hold.

## 4. Proofs

`tlapm` proves, for every value of the constants that satisfies the named assumptions:

* **`Enrollment_proofs`** - `TypeCorrect`, `NeverOverfull`, `ReactivatedInPlace`, `NoRefusedWrite`,
  `OneActiveRow`, `ImplementsRoster`. None of these is inductive. The invariant is `Roster`: besides the types and the
  uniqueness of active rows, it says that a call at a stage has the locals this stage needs
  (`CallsPrepared`), that at most one call holds a section (`OneHolder`), and that what a holder has
  read is still so: the capacity (`LimitCurrent`), the pair (`PairCurrent`) and the free seat
  (`SeatFree`). The last one is the heart: from the count to the write only drops can happen, and
  they make room. `ImplementsRoster` (`Spec => RosterSpec`) needs besides that a row a call has read
  in order to drop it is not completed meanwhile (`LeftLive`); under both, the write is a `Seat`, the
  drop a `Leave` or, when another call dropped the row first, a stutter (`StepOfRoster`).
  `OldRowsReused` (`ReactivatedInPlace`) is checked as part of `RosterSpec`: `Seat` fixes the row.
* **`Reschedule_proofs`** - first the abstract book: `BookCollisionFree` and `BookCapped`, by the
  invariant `Sound`: types, no collision, the cap, and requests that name existing lessons. Then
  the handlers: `ImplementsBook`: `Spec => BookSpec`. The invariant `Handlers` says
  what each stage has established (`Ready`) and that no two calls hold the same lock or the same
  fresh id (`Apart`); under it every step is a step of the book or a stutter
  (`StepImplementsBook`). `NeverDoubleBooked`, `RequestsStayCapped` and `TypeCorrect` follow.
  `AnswerToldOnce` needs one more invariant, `Answers`: who is about to be told is the only one, and
  is told the status the request has. The last section is the provable part of "every call ends":
  `NeverAtAStandstill` says that while a call is in flight the next statement of some call waits for
  nothing (`MayGo`, and `StepMayGo`: a statement runs only when it may), in every state and for every
  size of the pool, since who holds a lock has its connection and waits for no second lock;
  `CallsRunOut` says that every statement leaves its call fewer statements to run (`Left`), so no
  call loops.

* **`Accounts_proofs`** - `TypeCorrect`, `OwnerStays`, `NobodyOrphaned`, `MinterTearsDown`. The
  invariant `Ledger` adds to the properties what a call's stage needs (`Prepared`), that a minted
  login stands and is one call's only (`MintStands`), that one call at a time is past the guard
  (`OneHolder`) and that another owner is left for it (`OthersLeft`). `CallStep` covers the steps that
  leave the accounts alone, `RowStep` those that rewrite one account.

* **`Campaign_proofs`** - `RunsAlone`, `DuplicatesAreExplained`, `SentMeansEveryone`, `CountIsTrue`,
  `NoMailToLedger`, `CampaignTyped`, with no assumption on how long a send takes. The invariant
  `Orderly` adds to the properties what a call knows (`Knows`): as long as it has met nobody, the row
  bears its claim, its list is disjoint from the ledger and its count is the size of it; whoever met
  another did so after an `overrun`. A call that met nobody works alone (`Sole`), and to the end
  (`AloneToTheEnd`). `LostToFaults`: an address that is not in the ledger has no more copies than
  faults and calls about to book it. `PaidFor` is the heart of `ExtraCopiesExplained`: copies that
  were sent, together with the calls that may still mail the address (`Mailers`), are at most one more
  than faults and clashes; a claim over a live call adds a mailer and a clash, a retry finds the
  address in the ledger or a fault that kept it out.
* **`Capability_proofs`** - `LinksTyped`, `ShareOffForGood`. The invariant `Guarded`: a token that was
  drawn is in the hands of one call and reaches nobody before it is stored (`CallsReady`, `HeldOnce`),
  and, where the partial index lets one row live (`OneLives`), what a rotation or a revocation is to
  turn off stands in no living row but the one it is about to write (`OnlyThereToEnd`). Only this last
  part asks for `~Feed`; for feeds it is false, as the run `feeds` shows.

The desks of `school` share three modules, a section for each:

* **`Teaching_proofs`**
  * `LessonRecords`: `AttendanceAndGradesAreRegisters` (`SpecRecords => CellsAreRegisters`) and
    `NotesLostOnlyAmongTwins`. The invariant `Sound` says what a call is about to write (`Prepared`),
    that the index keeps the cell to one row, that a call whose row has vanished has been overwritten
    (`RowOrTaken`: only a delete takes a row away, and it leaves nothing), and that a save that is
    done took effect or there are twins (`TakenOrTwins`). The register holds what a reader is shown
    (`CellValue`), a call in flight is a writer with its body (`CellWriters`). A statement whose body
    is shown afterwards is a `Take` that absorbs the saves it overlaps (`WritesSeen`), an answer is
    an `Acknowledge` or a `Fail` (`EndSeen`), all else is a stutter (`Unseen`).
  * `LessonEditor`: `BaselinesWereStored`, `UntypedNeedsAReason`. Neither is inductive. `Edited` says
    why a text may differ from its baseline (`TextsExplained`), from what the pending save sent
    (`SnapshotExplained`), and where the value of a coming baseline is: seen in the table, or a
    counted write still in the queue (`SnapshotComing`, with `QueueFits` and `OneLoad` for the order).
  * `WeekCalendar`: `BlocksComeBack`. Only the oldest drag is answered, so only it need know its way
    back (`WaysBackKnown`); a block that did not go astray is in place, or the oldest drag moved it
    (`BlocksStanding`).
  * `LessonList`: `TimesAreTheRowsOwn`. The times of an open form are those of its row (`Listed`).
  * `Timetable`: `NoDayDropped`. The rows of a batch are still to come, or have a lesson, or were
    counted (`DaysKept`); a section being made has meetings left to make (`MeetingsToMake`).
  * `SectionTeachers`: `StaffTyped`, `PrimaryStaysUpkept`. `PrimaryUpkept` speaks of the state after
    the calls; the invariant `Staffed` says what each knows on the way, as long as nothing disturbed
    them (`NeverDisturbed`). A removal then is alone (`RemovesAlone`), so the primary it read is the
    one there is and the row it selected is the user's only link (`RemovalsKnow`); an addition knows
    that its user is linked before it fills the primary (`AddsKnow`). The primary is linked, or a
    removal is about to name the next (`PrimaryLinked`); staff without a primary are about to get one
    (`StaffHavePrimary`). That the links stay unique and in order when one is taken out rests on
    `RemoveAtIs`, `DeleteLinks` and `InsertLink`.
  * `Report`: `ReportTyped`, `LateWritersOnly`, `FrozenForGood`. The invariant `Sealed`: who is under
    way on an approved report was overtaken by its approval. A step on an approved report takes at
    most calls out of `overtaken`, one per write (`ApprovedStep`), so when they have ended the row
    keeps its value for ever (`FrozenForGood`, for every row), however many calls come after.
* **`Outreach_proofs`**
  * `Reminders`: `RemindedAtMostOnce`, `NobodyLeftUnreminded`. A row was written within its lead
    (`WrittenInTime`), so it is pruned only when its lesson lies behind; who is about to be pushed to
    was not pushed to before, and by one scan only (`PushedWithRow`); a scan's lesson lies ahead, and
    whom it is through with has a row (`OnItsWay`).
  * `PushDevices`: `CapKept`, `SubscribedHasRow`. The rows that no save is about to take away fit
    (`WillFit`); that all but the `Cap` newest of a finite set are gone needs the numbers to be
    different (`Numbered`) and `NewestFit`, on cardinalities. A subscription is one browser's
    (`OwnEndpoint`), and the server has what the click's stage says (`Knows`).
  * `McpDesk`: `ChangesWrittenAsPreviewed`. A token is in one place: pending (`Untried`), carried by
    one call (`Carries`), written, or refused; and it carries what its preview was issued for
    (`Bound`). A new token is one more than there are (`NewNumber`).
  * `Drafting`: `LimiterCountsExactly`, `SentAfterAck`. The log forgets nothing that is in the window
    (`LimiterRemembers`), so a window that ends now is inside the log; for the windows that lie
    behind, nothing is added. A panel past the gate has seen the acknowledgement that is still
    there (`AckKnown`).
  * `ParentPortal`: `ParentsServedUnderConsent`. A load knows of each child still to serve that it is
    under consent and attends, or that it was overtaken (`LoadKnows`).
* **`School_proofs`**
  * `SiteConsole`: `FormNotOnDeletedRow`. What a browser has deleted stays deleted and is in no list
    it shows (`Consoled`), because ids are not used twice (`OnlyMade`).
  * `PagedList`: `NoEmptyPageUnlessOvertaken`. A read that nobody overtook holds what there is
    (`ReadIsTrue`); that the last page is not empty is arithmetic on division (`DivisionBounds`).
  * `TenantPurge`: `TenantsPurgedWhole`. The cleanup runs before the constraints and leaves no orphan
    in the tables behind it (`CleanBehind`), and they are never given up (`MigrateStep`). A purge was
    confirmed (`Confirmed`), and it is the one script at work (`Locked`, `AtWork`): it may run before
    the constraints too, and on an id that is no organization (`NoOrganizationStep`), but never beside
    a cleanup.
  * `SiteIntake`: `IntakeGreetedOncePerRow`. What a subscription that nobody overtook is about to
    write is worked out of the row that is there (`Undisturbed`); whoever changes the row overtakes
    all (`OvertakenAll`).
  * The school: `SchoolIsItsDesks`: a behaviour of `SpecSchool` is a behaviour of each desk's own
    specification, as each step is one desk's and leaves the variables of the others alone. With it
    `SchoolTyped`, `SchoolRemindsOnce`, `SchoolKnowsItsBrowsers`, `SchoolAsksConsent`,
    `SchoolShowsWhatIs` and `SchoolKeepsItsPromises` carry every property of the run over.

Assumptions, each named in the module that declares the constants: `SlotsAssumption`,
`NullAssumption`, `BookAssumption`, `JobAssumption`, `RosterAssumption`, `AccountAssumption`,
`SendAssumption`, `LinkAssumption`, `NothingAssumption`, `RecordAssumption`, `EditorAssumption`,
`CalendarAssumption`, `ListAssumption`, `TimetableAssumption`, `ReminderAssumption`, `PushAssumption`,
`McpAssumption`, `DraftAssumption`, `ConsoleAssumption`, `PageAssumption`, `PurgeAssumption`,
`IntakeAssumption`, `StaffAssumption`, `ReportAssumption`. Most are sanity conditions (numbers are
numbers, ranges are not empty, nulls are not rows, some sets are finite). Two carry a fact of the
code: leads of at most `Retention + 1` (a row is kept 90 days, a lead is at most one,
`notification-core.ts:85`, `reminder-core.ts:14`), and tables of earlier calls that satisfy the indexes
(`Seeds`, `Histories`). TLC evaluates each on the runs that use it. Beyond these and the definitions nothing is
assumed.

Only model-checked: `SomeCallCanProceed` (speaks of ENABLED), `CallsEnd` (liveness under fairness),
and the violated runs. Every other property of a passing run is a theorem. Of these two,
`NeverAtAStandstill` and `CallsRunOut` prove what can be said without ENABLED and fairness; that
a statement which may go is enabled, and that it is then run, is what the runs `requests` and
`booking` add.

## 5. Not modelled

* Sign-in and sessions are wrappers around Better Auth, which is not in the repository; its
  own writes (members, sessions) appear only as the tables `Accounts` and `TenantPurge` speak of.
* Report text, PDF layout, exports, the calendar file and the pages that only render compute no
  state. `suggestFreeSlots`, the popup query of the public pages and the read tools of MCP read only.
* The lesson-canceled and enrolled notices, courses, posts, the account note, `resetRateLimit`
  and titled grades are single statements that no modelled promise depends on.
* `cleanup-room-overlaps`, the seeds and the backup are run by hand, against a quiet database.
* Of failed section creations and lost notices the code promises nothing; the models have the steps.

## 6. Plan

1. Composition of `SectionTeachers` with `Reschedule`: ownership that is read before the transaction.
2. `SectionTeachers` with what the materialization of lessons reads of the primary (`Timetable`).
