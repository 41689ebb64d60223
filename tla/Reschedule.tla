----------------------------- MODULE Reschedule -----------------------------
(***************************************************************************)
(* The lesson and reschedule-request handlers as they run: each call is a  *)
(* job that executes one database statement at a time, so the statements   *)
(* of concurrent calls interleave under READ COMMITTED.  A step that runs  *)
(* outside a transaction borrows a connection of the pool for that one     *)
(* statement; a transaction keeps its connection until it ends.            *)
(*                                                                         *)
(* A transaction's writes are published by its last step; before that its  *)
(* row locks and its advisory lock are read off the jobs.  A crash of the  *)
(* server process drops a job: Postgres rolls its transaction back.        *)
(***************************************************************************)
EXTENDS LessonBook, Sequences

CONSTANTS
    Jobs,       \* calls in flight at one time
    Owned,      \* sections the reviewing staff may manage (actorOwnsSection)
    PoolSize    \* connections of the postgres-js pool

VARIABLES
    job,        \* job[p]: where call p stands, with its local variables
    told        \* told[q]: notification rows written for request q, by recipient

vars == <<lesson, request, job, told>>

Stages == {"idle", "create_begin", "create_lock", "create_count", "create_insert",
           "approve_begin", "approve_claim", "approve_check", "approve_move",
           "reject_write", "cancel_write", "book_insert", "move_write",
           "tell_requester", "tell_teacher"}

Outcomes == {"approved", "rejected"}

Job == [stage   : Stages,
        user    : Users \cup {NoRow},
        section : Sections \cup {NoRow},
        lesson  : Lessons \cup {NoRow},
        slot    : Slots \cup {NoRow},
        req     : Requests \cup {NoRow},
        outcome : Outcomes \cup {NoRow}]

Idle == [stage |-> "idle", user |-> NoRow, section |-> NoRow, lesson |-> NoRow,
         slot |-> NoRow, req |-> NoRow, outcome |-> NoRow]

ASSUME JobAssumption == /\ IsFiniteSet(Jobs)
                        /\ Owned \subseteq Sections
                        /\ PoolSize \in Nat \ {0}
                        /\ NoRow \notin Users \cup Sections \cup Lessons
                                         \cup Slots \cup Requests \cup Outcomes

TypeOK == /\ BookTypeOK
          /\ job \in [Jobs -> Job]
          /\ told \in [Requests -> [requester : Seq(Outcomes), teacher : Seq(Outcomes)]]

Init == /\ BookInit
        /\ job = [p \in Jobs |-> Idle]
        /\ told = [q \in Requests |-> [requester |-> <<>>, teacher |-> <<>>]]

-----------------------------------------------------------------------------
\* Stages inside db.transaction: the job holds a connection.
CreateTx  == {"create_lock", "create_count", "create_insert"}
ApproveTx == {"approve_claim", "approve_check", "approve_move"}
InTx(p)   == job[p].stage \in CreateTx \cup ApproveTx

ConnectionFree == Cardinality({p \in Jobs : InTx(p)}) < PoolSize

\* Holders of pg_advisory_xact_lock(tenant:user) and of the claimed request row's lock.
HoldsUserLock(p, u) == job[p].user = u /\ job[p].stage \in {"create_count", "create_insert"}
HoldsRowLock(p, q)  == job[p].req = q /\ job[p].stage \in {"approve_check", "approve_move"}

UserLockFree(p, u) == \A o \in Jobs \ {p} : ~HoldsUserLock(o, u)
RowLockFree(p, q)  == \A o \in Jobs \ {p} : ~HoldsRowLock(o, q)

At(p, stage)   == job[p].stage = stage
Goto(p, stage) == job' = [job EXCEPT ![p].stage = stage]
Finish(p)      == job' = [job EXCEPT ![p] = Idle]
Start(p, j)    == At(p, "idle") /\ ConnectionFree /\ job' = [job EXCEPT ![p] = j]

\* Ids come from a generator, so a new row's id is fresh and no other call has it.
FreshLesson(l)  == lesson[l] = NoRow /\ \A o \in Jobs : ~(At(o, "book_insert") /\ job[o].lesson = l)
FreshRequest(q) == request[q] = NoRow /\ \A o \in Jobs : job[o].req # q

OwnedLesson(l) == lesson[l] # NoRow /\ lesson[l].section \in Owned

-----------------------------------------------------------------------------
(* createRescheduleRequestCore *)

\* The link, the lesson and the enrollment are read before the transaction.
CreateCheck(p, u, l, s, q) ==
    /\ lesson[l] # NoRow
    /\ lesson[l].section \in Attends[u]
    /\ FreshRequest(q)
    /\ Start(p, [Idle EXCEPT !.stage = "create_begin", !.user = u, !.lesson = l,
                             !.slot = s, !.req = q])
    /\ UNCHANGED <<lesson, request, told>>

CreateBegin(p) == /\ At(p, "create_begin")
                  /\ ConnectionFree
                  /\ Goto(p, "create_lock")
                  /\ UNCHANGED <<lesson, request, told>>

\* Mutant: no advisory lock, so same-user creators count side by side.
CreateLockSkipped(p) == /\ At(p, "create_lock")
                        /\ Goto(p, "create_count")
                        /\ UNCHANGED <<lesson, request, told>>

CreateLock(p) == /\ At(p, "create_lock")
                 /\ UserLockFree(p, job[p].user)
                 /\ Goto(p, "create_count")
                 /\ UNCHANGED <<lesson, request, told>>

CreateCount(p) == /\ At(p, "create_count")
                  /\ IF Cardinality(Open(job[p].user)) < MaxOpen
                     THEN Goto(p, "create_insert")
                     ELSE Finish(p)
                  /\ UNCHANGED <<lesson, request, told>>

\* Mutant: the proposed times are left out of the row.
CreateInsertNoTimes(p) ==
    /\ At(p, "create_insert")
    /\ request' = [request EXCEPT ![job[p].req] =
                     [lesson |-> job[p].lesson, by |-> job[p].user,
                      slot |-> NoRow, status |-> "pending"]]
    /\ Finish(p)
    /\ UNCHANGED <<lesson, told>>

CreateInsert(p) ==
    /\ At(p, "create_insert")
    /\ request' = [request EXCEPT ![job[p].req] =
                     [lesson |-> job[p].lesson, by |-> job[p].user,
                      slot |-> job[p].slot, status |-> "pending"]]
    /\ Finish(p)
    /\ UNCHANGED <<lesson, told>>

-----------------------------------------------------------------------------
(* approveRescheduleRequestCore: claim and move in one transaction *)

ApproveRead(p, q) ==
    /\ Pending(q)
    /\ OwnedLesson(request[q].lesson)
    /\ Start(p, [Idle EXCEPT !.stage = "approve_begin", !.req = q])
    /\ UNCHANGED <<lesson, request, told>>

ApproveBegin(p) == /\ At(p, "approve_begin")
                   /\ ConnectionFree
                   /\ Goto(p, "approve_claim")
                   /\ UNCHANGED <<lesson, request, told>>

\* UPDATE ... WHERE status = 'pending' waits for the row lock, then re-reads the status.
ApproveClaim(p) == /\ At(p, "approve_claim")
                   /\ RowLockFree(p, job[p].req)
                   /\ IF Pending(job[p].req) THEN Goto(p, "approve_check") ELSE Finish(p)
                   /\ UNCHANGED <<lesson, request, told>>

\* rescheduleLessonCore's guards and pre-check; a soft conflict aborts the transaction.
MayMove(l, s) == /\ OwnedLesson(l)
                 /\ lesson[l].teacher # NoTeacher
                 /\ ~TeacherBusy(lesson, l, lesson[l].section, lesson[l].teacher, s)

\* Mutant: the pre-check borrows a second connection instead of using the transaction's.
ApproveCheckOnPool(p) ==
    /\ At(p, "approve_check")
    /\ ConnectionFree
    /\ IF MayMove(request[job[p].req].lesson, request[job[p].req].slot)
       THEN Goto(p, "approve_move") ELSE Finish(p)
    /\ UNCHANGED <<lesson, request, told>>

ApproveCheck(p) ==
    /\ At(p, "approve_check")
    /\ IF MayMove(request[job[p].req].lesson, request[job[p].req].slot)
       THEN Goto(p, "approve_move") ELSE Finish(p)
    /\ UNCHANGED <<lesson, request, told>>

\* Mutant: the claim is committed although the exclusion constraint refused the move.
ApproveMoveHalfDone(p) ==
    LET q == job[p].req
        l == request[q].lesson
        r == Moved(l, request[q].slot)
    IN  /\ At(p, "approve_move")
        /\ request' = [request EXCEPT ![q].status = "approved"]
        /\ lesson' = IF Admits(lesson, l, r) THEN [lesson EXCEPT ![l] = r] ELSE lesson
        /\ job' = [job EXCEPT ![p].stage = "tell_requester", ![p].outcome = "approved"]
        /\ UNCHANGED told

\* The UPDATE of the lesson and the COMMIT; 23P01 rolls the claim back too.
ApproveMove(p) ==
    LET q == job[p].req
        l == request[q].lesson
        r == Moved(l, request[q].slot)
    IN  /\ At(p, "approve_move")
        /\ \/ /\ Admits(lesson, l, r)
              /\ lesson' = [lesson EXCEPT ![l] = r]
              /\ request' = [request EXCEPT ![q].status = "approved"]
              /\ job' = [job EXCEPT ![p].stage = "tell_requester", ![p].outcome = "approved"]
           \/ /\ ~Admits(lesson, l, r)
              /\ Finish(p)
              /\ UNCHANGED <<lesson, request>>
        /\ UNCHANGED told

-----------------------------------------------------------------------------
(* rejectRescheduleRequestCore and cancelRescheduleRequestCore: a read, then a *)
(* compare-and-set on status = 'pending'                                       *)

RejectRead(p, q) ==
    /\ Pending(q)
    /\ OwnedLesson(request[q].lesson)
    /\ Start(p, [Idle EXCEPT !.stage = "reject_write", !.req = q])
    /\ UNCHANGED <<lesson, request, told>>

\* Mutant: the write is unconditional, so a request answered meanwhile is answered again.
RejectWriteBlind(p) ==
    /\ At(p, "reject_write")
    /\ ConnectionFree
    /\ RowLockFree(p, job[p].req)
    /\ request' = [request EXCEPT ![job[p].req].status = "rejected"]
    /\ job' = [job EXCEPT ![p].stage = "tell_requester", ![p].outcome = "rejected"]
    /\ UNCHANGED <<lesson, told>>

RejectWrite(p) ==
    /\ At(p, "reject_write")
    /\ ConnectionFree
    /\ RowLockFree(p, job[p].req)
    /\ \/ /\ Pending(job[p].req)
          /\ request' = [request EXCEPT ![job[p].req].status = "rejected"]
          /\ job' = [job EXCEPT ![p].stage = "tell_requester", ![p].outcome = "rejected"]
       \/ /\ ~Pending(job[p].req)
          /\ Finish(p)
          /\ UNCHANGED request
    /\ UNCHANGED <<lesson, told>>

CancelRead(p, u, q) ==
    /\ Pending(q)
    /\ request[q].by = u
    /\ Start(p, [Idle EXCEPT !.stage = "cancel_write", !.req = q])
    /\ UNCHANGED <<lesson, request, told>>

CancelWrite(p) ==
    /\ At(p, "cancel_write")
    /\ ConnectionFree
    /\ RowLockFree(p, job[p].req)
    /\ request' = IF Pending(job[p].req)
                  THEN [request EXCEPT ![job[p].req].status = "canceled"]
                  ELSE request
    /\ Finish(p)
    /\ UNCHANGED <<lesson, told>>

-----------------------------------------------------------------------------
(* notifyRescheduleOutcomeCore, after the answer is committed: one row per recipient *)

TellRequester(p) ==
    /\ At(p, "tell_requester")
    /\ ConnectionFree
    /\ told' = [told EXCEPT ![job[p].req].requester = Append(@, job[p].outcome)]
    /\ Goto(p, "tell_teacher")
    /\ UNCHANGED <<lesson, request>>

TellTeacher(p) ==
    /\ At(p, "tell_teacher")
    /\ ConnectionFree
    /\ told' = IF lesson[request[job[p].req].lesson].teacher # NoTeacher
               THEN [told EXCEPT ![job[p].req].teacher = Append(@, job[p].outcome)]
               ELSE told
    /\ Finish(p)
    /\ UNCHANGED <<lesson, request>>

-----------------------------------------------------------------------------
(* scheduleLessonCore and rescheduleLessonCore called directly *)

BookCheck(p, c, s, l) ==
    /\ c \in Owned
    /\ TeacherOf[c] # NoTeacher
    /\ FreshLesson(l)
    /\ ~TeacherBusy(lesson, l, c, TeacherOf[c], s)
    /\ Start(p, [Idle EXCEPT !.stage = "book_insert", !.section = c, !.slot = s, !.lesson = l])
    /\ UNCHANGED <<lesson, request, told>>

BookInsert(p) ==
    LET l == job[p].lesson
        r == NewLesson(job[p].section, job[p].slot)
    IN  /\ At(p, "book_insert")
        /\ ConnectionFree
        /\ lesson' = IF Admits(lesson, l, r) THEN [lesson EXCEPT ![l] = r] ELSE lesson
        /\ Finish(p)
        /\ UNCHANGED <<request, told>>

MoveCheck(p, l, s) ==
    /\ MayMove(l, s)
    /\ Start(p, [Idle EXCEPT !.stage = "move_write", !.lesson = l, !.slot = s])
    /\ UNCHANGED <<lesson, request, told>>

MoveWrite(p) ==
    LET l == job[p].lesson
        r == Moved(l, job[p].slot)
    IN  /\ At(p, "move_write")
        /\ ConnectionFree
        /\ lesson' = IF Admits(lesson, l, r) THEN [lesson EXCEPT ![l] = r] ELSE lesson
        /\ Finish(p)
        /\ UNCHANGED <<request, told>>

-----------------------------------------------------------------------------
(* Handlers that write with one statement *)

\* cancelLessonAction: the tombstone is unconditional.
CancelLesson(l) == /\ ConnectionFree
                   /\ OwnedLesson(l)
                   /\ Cancel({l})
                   /\ UNCHANGED <<job, told>>

\* cancelLessonsAction: ids of unowned sections and tombstones do not match.
CancelLessons(ids) == /\ ConnectionFree
                      /\ Cancel({l \in ids : OwnedLesson(l) /\ Live(lesson[l])})
                      /\ UNCHANGED <<job, told>>

\* cancelSeriesAction: every live lesson of the section from now on.
CancelSeries(c, now) == /\ ConnectionFree
                        /\ c \in Owned
                        /\ Cancel({l \in Lessons : /\ Live(lesson[l])
                                                   /\ lesson[l].section = c
                                                   /\ now <= lesson[l].slot[1]})
                        /\ UNCHANGED <<job, told>>

\* Mutant: the room is stored whatever other lesson has it.
SetRoomUnchecked(l, r) == /\ ConnectionFree
                          /\ OwnedLesson(l)
                          /\ lesson' = [lesson EXCEPT ![l].room = r]
                          /\ UNCHANGED <<request, job, told>>

\* updateLessonAction: 23P01 of the room constraint leaves the row alone.
SetRoom(l, r) == /\ ConnectionFree
                 /\ OwnedLesson(l)
                 /\ AssignRoom(l, r)
                 /\ UNCHANGED <<job, told>>

\* The server process dies under call p: its transaction, if any, is rolled back.
Crash(p) == /\ ~At(p, "idle")
            /\ Finish(p)
            /\ UNCHANGED <<lesson, request, told>>

-----------------------------------------------------------------------------
\* The next statement of call p.
Step(p) == \/ CreateBegin(p) \/ CreateLock(p) \/ CreateCount(p) \/ CreateInsert(p)
           \/ ApproveBegin(p) \/ ApproveClaim(p) \/ ApproveCheck(p) \/ ApproveMove(p)
           \/ RejectWrite(p) \/ CancelWrite(p)
           \/ TellRequester(p) \/ TellTeacher(p)
           \/ BookInsert(p) \/ MoveWrite(p)

\* A new call arrives.
Arrive(p) == \/ \E u \in Users, l \in Lessons, s \in Slots, q \in Requests :
                    CreateCheck(p, u, l, s, q)
             \/ \E q \in Requests : ApproveRead(p, q) \/ RejectRead(p, q)
             \/ \E u \in Users, q \in Requests : CancelRead(p, u, q)
             \/ \E c \in Sections, s \in Slots, l \in Lessons : BookCheck(p, c, s, l)
             \/ \E l \in Lessons, s \in Slots : MoveCheck(p, l, s)

SingleStatement == \/ \E l \in Lessons : CancelLesson(l)
                   \/ \E ids \in SUBSET Lessons : CancelLessons(ids)
                   \/ \E c \in Sections, s \in Slots : CancelSeries(c, s[1])
                   \/ \E l \in Lessons, r \in Rooms \cup {NoRoom} : SetRoom(l, r)

Next == \/ \E p \in Jobs : Step(p) \/ Arrive(p) \/ Crash(p)
        \/ SingleStatement

Spec == Init /\ [][Next]_vars

\* Postgres lock queues and the pool's queue are first come, first served, and a call that
\* can run its next statement does: strong fairness of each call's steps.
FairSpec == Spec /\ \A p \in Jobs : SF_vars(Step(p))

-----------------------------------------------------------------------------
\* A recipient hears of a request at most once, and what it hears is the final answer.
ToldTheAnswerOnce ==
    \A q \in Requests : \A who \in {"requester", "teacher"} :
        told[q][who] # <<>> => /\ request[q] # NoRow
                               /\ told[q][who] = <<request[q].status>>

\* A transaction never waits for a second connection of the pool: while some call is in
\* flight, some call can run its next statement (pool exhaustion, H7 in reschedule-core.ts).
SomeCallCanProceed == (\E p \in Jobs : ~At(p, "idle")) => \E p \in Jobs : ENABLED Step(p)

\* Every call ends: no wait on the pool, the advisory lock or a row lock lasts for ever.
CallsEnd == \A p \in Jobs : ~At(p, "idle") ~> At(p, "idle")
=============================================================================
