-------------------------- MODULE Reschedule_proofs --------------------------
(***************************************************************************)
(* The handlers, with their statements interleaved in any number of calls, *)
(* implement the lesson book, and with it inherit the book's guarantees.   *)
(* The argument: what a call read stays true until the call uses it,       *)
(* because of a lock it holds (the advisory lock of a user, the row lock   *)
(* of a claimed request) or because no handler undoes it (a row once there *)
(* stays, a lesson keeps its section and its teacher).                     *)
(***************************************************************************)
EXTENDS Reschedule, LessonBook, FiniteSetTheorems, TLAPS

-----------------------------------------------------------------------------
(* The abstract lesson book, for any number of lessons, users and          *)
(* requests. The tables are parameters of the lemmas, so that the proofs   *)
(* about the detailed handlers can cite them.                              *)

RequestTables == [Requests -> RequestRow \cup {NoRow}]

\* Open(u) in request table rq.
Waiting(rq, u) == {q \in Requests : /\ rq[q] # NoRow
                                    /\ rq[q].by = u
                                    /\ rq[q].status = "pending"}

\* The inductive invariant, of a lesson table and a request table.
Sound(t, rq) == /\ t \in Tables
                /\ rq \in RequestTables
                /\ CollisionFree(t)
                /\ \A u \in Users : Cardinality(Waiting(rq, u)) <= MaxOpen
                /\ \A q \in Requests : rq[q] # NoRow => t[rq[q].lesson] # NoRow

\* No handler deletes a row, changes a lesson's section or teacher, or edits a request's ask.
LessonsKept(t, u) ==
    \A l \in Lessons : t[l] # NoRow => /\ u[l] # NoRow
                                       /\ u[l].section = t[l].section
                                       /\ u[l].teacher = t[l].teacher

RequestsKept(rq, sq) ==
    \A q \in Requests : rq[q] # NoRow => /\ sq[q] # NoRow
                                         /\ sq[q].lesson = rq[q].lesson
                                         /\ sq[q].by = rq[q].by
                                         /\ sq[q].slot = rq[q].slot

-----------------------------------------------------------------------------
LEMMA WaitingFinite ==
    ASSUME NEW rq, NEW u
    PROVE  IsFiniteSet(Waiting(rq, u)) /\ Cardinality(Waiting(rq, u)) \in Nat
<1>1. Waiting(rq, u) \subseteq Requests  BY DEF Waiting
<1>2. IsFiniteSet(Waiting(rq, u))  BY <1>1, FS_Subset, BookAssumption
<1> QED  BY <1>2, FS_CardinalityType

\* One more element is at most one more.
LEMMA OneMore ==
    ASSUME NEW S, IsFiniteSet(S), NEW x
    PROVE  Cardinality(S \cup {x}) <= Cardinality(S) + 1
<1>1. Cardinality(S) \in Nat  BY FS_CardinalityType
<1>2. Cardinality(S \cup {x}) = IF x \in S THEN Cardinality(S) ELSE Cardinality(S) + 1
  BY FS_AddElement
<1> QED  BY <1>1, <1>2

\* The exclusion constraints speak of an unordered pair of rows.
LEMMA CollideSymmetric == ASSUME NEW a, NEW b PROVE Collide(a, b) <=> Collide(b, a)
BY DEF Collide, TeacherCollision, RoomCollision, Overlap

\* A row the constraints admit leaves the table free of collisions.
Put(t, l, r) == [t EXCEPT ![l] = r]

LEMMA PutLesson ==
    ASSUME NEW t \in Tables, CollisionFree(t), NEW l \in Lessons, NEW r \in LessonRow,
           Admits(t, l, r)
    PROVE  Put(t, l, r) \in Tables /\ CollisionFree(Put(t, l, r))
<1> DEFINE u == Put(t, l, r)
<1>1. u \in Tables  BY DEF Tables, Put
<1>2. \A m \in Lessons : u[m] = IF m = l THEN r ELSE t[m]  BY DEF Tables, Put
<1>3. ASSUME NEW m \in Lessons, NEW n \in Lessons, m # n
      PROVE  ~Collide(u[m], u[n])
  <2>1. CASE m = l  BY <1>3, <2>1, <1>2 DEF Admits
  <2>2. CASE n = l
    <3>1. ~Collide(u[n], u[m])  BY <1>3, <2>2, <1>2 DEF Admits
    <3> QED  BY <3>1, CollideSymmetric
  <2>3. CASE m # l /\ n # l  BY <1>3, <2>3, <1>2 DEF CollisionFree
  <2> QED  BY <2>1, <2>2, <2>3
<1> QED  BY <1>1, <1>3 DEF CollisionFree

\* Cancelling frees time, it takes none.
Canceled(t, L) == [l \in Lessons |-> IF l \in L THEN [t[l] EXCEPT !.status = "canceled"]
                                               ELSE t[l]]

LEMMA CancelLessonRows ==
    ASSUME NEW t \in Tables, CollisionFree(t), NEW L \in SUBSET Lessons,
           \A l \in L : t[l] # NoRow
    PROVE  /\ Canceled(t, L) \in Tables
           /\ CollisionFree(Canceled(t, L))
           /\ LessonsKept(t, Canceled(t, L))
<1> DEFINE u == Canceled(t, L)
<1>1. ASSUME NEW l \in L
      PROVE  /\ u[l] \in LessonRow /\ u[l].status = "canceled"
             /\ u[l].section = t[l].section /\ u[l].teacher = t[l].teacher
  <2>1. t[l] \in LessonRow  BY DEF Tables
  <2>2. u[l] = [t[l] EXCEPT !.status = "canceled"]  BY DEF Canceled
  <2> QED  BY <2>1, <2>2 DEF LessonRow, LessonStatus
<1>2. \A l \in Lessons \ L : u[l] = t[l]  BY DEF Canceled
<1>3. u \in Tables
  <2>1. \A l \in Lessons : u[l] \in LessonRow \cup {NoRow}  BY <1>1, <1>2 DEF Tables
  <2> QED  BY <2>1 DEF Canceled, Tables
<1>4. CollisionFree(u)
  <2>1. \A l \in Lessons : Live(u[l]) => u[l] = t[l]  BY <1>1, <1>2 DEF Live
  <2> QED  BY <2>1 DEF CollisionFree, Collide
<1>5. LessonsKept(t, u)  BY <1>1, <1>2, NullAssumption DEF LessonsKept
<1> QED  BY <1>3, <1>4, <1>5

\* A new pending request counts against its author, and against nobody else.
Asked(rq, q, r) == [rq EXCEPT ![q] = r]

LEMMA AskRow ==
    ASSUME NEW rq \in RequestTables, NEW q \in Requests, rq[q] = NoRow,
           NEW r \in RequestRow, r.status = "pending"
    PROVE  /\ Asked(rq, q, r) \in RequestTables
           /\ RequestsKept(rq, Asked(rq, q, r))
           /\ Asked(rq, q, r)[q] = r
           /\ \A p \in Requests \ {q} : Asked(rq, q, r)[p] = rq[p]
           /\ Waiting(Asked(rq, q, r), r.by) = Waiting(rq, r.by) \cup {q}
           /\ \A u \in Users \ {r.by} : Waiting(Asked(rq, q, r), u) = Waiting(rq, u)
<1> DEFINE s == Asked(rq, q, r)
<1>1. s \in RequestTables  BY DEF RequestTables, Asked
<1>2. \A p \in Requests : s[p] = IF p = q THEN r ELSE rq[p]  BY DEF RequestTables, Asked
<1>3. r # NoRow  BY BookAssumption
<1>4. RequestsKept(rq, s)  BY <1>2 DEF RequestsKept
<1>5. Waiting(s, r.by) = Waiting(rq, r.by) \cup {q}  BY <1>2, <1>3 DEF Waiting
<1>6. \A u \in Users \ {r.by} : Waiting(s, u) = Waiting(rq, u)  BY <1>2 DEF Waiting
<1> QED  BY <1>1, <1>2, <1>4, <1>5, <1>6

\* An answer ends the wait of one request.
Answered(rq, q, a) == [rq EXCEPT ![q].status = a]

LEMMA AnswerRow ==
    ASSUME NEW rq \in RequestTables, NEW q \in Requests, rq[q] # NoRow,
           NEW a \in {"approved", "rejected", "canceled"}
    PROVE  /\ Answered(rq, q, a) \in RequestTables
           /\ RequestsKept(rq, Answered(rq, q, a))
           /\ Answered(rq, q, a)[q] # NoRow
           /\ Answered(rq, q, a)[q].status = a
           /\ \A p \in Requests \ {q} : Answered(rq, q, a)[p] = rq[p]
           /\ \A u \in Users : Waiting(Answered(rq, q, a), u) \subseteq Waiting(rq, u)
<1> DEFINE s == Answered(rq, q, a)
           r == [rq[q] EXCEPT !.status = a]
<1>1. rq[q] \in RequestRow  BY DEF RequestTables
<1>2. /\ r \in RequestRow /\ r.status = a /\ r # NoRow
      /\ r.lesson = rq[q].lesson /\ r.by = rq[q].by /\ r.slot = rq[q].slot
  BY <1>1, BookAssumption DEF RequestRow, RequestStatus
<1>3. s \in RequestTables  BY <1>2 DEF RequestTables, Answered
<1>4. \A p \in Requests : s[p] = IF p = q THEN r ELSE rq[p]  BY DEF RequestTables, Answered
<1>5. RequestsKept(rq, s)  BY <1>2, <1>4 DEF RequestsKept
<1>6. \A u \in Users : Waiting(s, u) \subseteq Waiting(rq, u)  BY <1>2, <1>4 DEF Waiting
<1> QED  BY <1>2, <1>3, <1>4, <1>5, <1>6

-----------------------------------------------------------------------------
\* What each operation of the book keeps, given that its guard holds.
Keeps == /\ Sound(lesson', request')
         /\ LessonsKept(lesson, lesson')
         /\ RequestsKept(request, request')

LEMMA SoundInit == BookInit => Sound(lesson, request)
<1> SUFFICES ASSUME BookInit PROVE Sound(lesson, request)
  OBVIOUS
<1>1. lesson \in Tables /\ CollisionFree(lesson)  BY BookAssumption DEF BookInit
<1>2. request \in RequestTables /\ \A q \in Requests : request[q] = NoRow
  BY DEF BookInit, RequestTables
<1>3. \A u \in Users : Cardinality(Waiting(request, u)) <= MaxOpen
  <2>1. \A u \in Users : Waiting(request, u) = {}  BY <1>2 DEF Waiting
  <2> QED  BY <2>1, FS_EmptySet, BookAssumption
<1> QED  BY <1>1, <1>2, <1>3 DEF Sound

\* One lesson gets a row the constraints admit.
LEMMA PutKeeps ==
    ASSUME Sound(lesson, request), NEW l \in Lessons, NEW r \in LessonRow,
           Admits(lesson, l, r),
           lesson[l] # NoRow => r.section = lesson[l].section /\ r.teacher = lesson[l].teacher,
           lesson' = Put(lesson, l, r), UNCHANGED request
    PROVE  Keeps
<1> USE DEF Sound
<1>1. lesson' \in Tables /\ CollisionFree(lesson')  BY PutLesson
<1>2. \A m \in Lessons : lesson'[m] = IF m = l THEN r ELSE lesson[m]  BY DEF Tables, Put
<1>3. LessonsKept(lesson, lesson')  BY <1>2, NullAssumption DEF LessonsKept
<1>4. RequestsKept(request, request')  BY DEF RequestsKept
<1>5. \A q \in Requests : request[q] # NoRow => lesson'[request[q].lesson] # NoRow
  <2>1. \A q \in Requests : request[q] # NoRow => request[q].lesson \in Lessons
    BY DEF RequestTables, RequestRow
  <2> QED  BY <2>1, <1>3 DEF LessonsKept
<1> QED  BY <1>1, <1>3, <1>4, <1>5 DEF Keeps

LEMMA CancelKeeps ==
    ASSUME Sound(lesson, request), NEW L \in SUBSET Lessons, Cancel(L)
    PROVE  Keeps
<1> USE DEF Sound
<1>1. lesson' = Canceled(lesson, L) /\ \A l \in L : lesson[l] # NoRow
  BY DEF Cancel, Canceled
<1>2. lesson' \in Tables /\ CollisionFree(lesson') /\ LessonsKept(lesson, lesson')
  BY <1>1, CancelLessonRows
<1>3. request' = request  BY DEF Cancel
<1>4. RequestsKept(request, request')  BY <1>3 DEF RequestsKept
<1>5. \A q \in Requests : request[q] # NoRow => lesson'[request[q].lesson] # NoRow
  <2>1. \A q \in Requests : request[q] # NoRow => request[q].lesson \in Lessons
    BY DEF RequestTables, RequestRow
  <2> QED  BY <2>1, <1>2 DEF LessonsKept
<1> QED  BY <1>2, <1>3, <1>4, <1>5 DEF Keeps

LEMMA AskKeeps ==
    ASSUME Sound(lesson, request), NEW q \in Requests, NEW u \in Users, NEW l \in Lessons,
           NEW s \in Slots, Ask(q, u, l, s)
    PROVE  Keeps
<1> USE DEF Sound
<1> DEFINE r == [lesson |-> l, by |-> u, slot |-> s, status |-> "pending"]
<1>1. r \in RequestRow /\ r.status = "pending" /\ r.by = u /\ r.lesson = l
  BY DEF RequestRow, RequestStatus
<1>2. /\ request[q] = NoRow /\ lesson[l] # NoRow /\ lesson' = lesson
      /\ request' = Asked(request, q, r)
      /\ Cardinality(Waiting(request, u)) < MaxOpen
  BY DEF Ask, Asked, Open, Waiting
<1> HIDE DEF r
<1>3. /\ request' \in RequestTables /\ RequestsKept(request, request')
      /\ request'[q] = r /\ \A p \in Requests \ {q} : request'[p] = request[p]
      /\ Waiting(request', u) = Waiting(request, u) \cup {q}
      /\ \A v \in Users \ {u} : Waiting(request', v) = Waiting(request, v)
  BY <1>1, <1>2, AskRow
<1>4. Cardinality(Waiting(request', u)) <= MaxOpen
  <2>1. /\ IsFiniteSet(Waiting(request, u))
        /\ Cardinality(Waiting(request, u)) \in Nat
    BY WaitingFinite
  <2>2. Cardinality(Waiting(request, u) \cup {q}) <= Cardinality(Waiting(request, u)) + 1
    BY <2>1, OneMore
  <2>3. Cardinality(Waiting(request', u)) \in Nat  BY WaitingFinite
  <2> QED  BY <1>2, <1>3, <2>1, <2>2, <2>3, BookAssumption
<1>5. \A v \in Users : Cardinality(Waiting(request', v)) <= MaxOpen  BY <1>3, <1>4
<1>6. \A p \in Requests : request'[p] # NoRow => lesson'[request'[p].lesson] # NoRow
  BY <1>1, <1>2, <1>3
<1>7. LessonsKept(lesson, lesson')  BY <1>2 DEF LessonsKept
<1> QED  BY <1>2, <1>3, <1>5, <1>6, <1>7 DEF Keeps

\* A request is answered, beside a lesson table that keeps its rows.
LEMMA AnswerKeeps ==
    ASSUME Sound(lesson, request), NEW q \in Requests, Pending(q),
           NEW a \in {"approved", "rejected", "canceled"},
           request' = Answered(request, q, a),
           lesson' \in Tables, CollisionFree(lesson'), LessonsKept(lesson, lesson')
    PROVE  Keeps
<1> USE DEF Sound
<1>1. /\ request' \in RequestTables /\ RequestsKept(request, request')
      /\ \A p \in Requests \ {q} : request'[p] = request[p]
      /\ \A u \in Users : Waiting(request', u) \subseteq Waiting(request, u)
  BY AnswerRow DEF Pending
<1>2. ASSUME NEW u \in Users
      PROVE  Cardinality(Waiting(request', u)) <= MaxOpen
  <2>1. Cardinality(Waiting(request', u)) <= Cardinality(Waiting(request, u))
    <3>1. IsFiniteSet(Waiting(request, u))  BY WaitingFinite
    <3>2. Waiting(request', u) \subseteq Waiting(request, u)  BY <1>1
    <3> QED  BY <3>1, <3>2, FS_Subset
  <2>2. /\ Cardinality(Waiting(request', u)) \in Nat
        /\ Cardinality(Waiting(request, u)) \in Nat
    BY WaitingFinite
  <2> QED  BY <2>1, <2>2, BookAssumption
<1>3. ASSUME NEW p \in Requests, request'[p] # NoRow
      PROVE  lesson'[request'[p].lesson] # NoRow
  <2>1. request[p] # NoRow /\ request'[p].lesson = request[p].lesson
    BY <1>1, <1>3 DEF Pending, RequestsKept
  <2>2. request[p].lesson \in Lessons  BY <2>1 DEF RequestTables, RequestRow
  <2> QED  BY <2>1, <2>2 DEF LessonsKept
<1> QED  BY <1>1, <1>2, <1>3 DEF Keeps

LEMMA BookStep == Sound(lesson, request) /\ [BookNext]_bookVars => Keeps
<1> SUFFICES ASSUME Sound(lesson, request), [BookNext]_bookVars PROVE Keeps
  OBVIOUS
<1> USE DEF Sound
<1>1. ASSUME NEW l \in Lessons, NEW c \in Sections, NEW s \in Slots, Book(l, c, s)
      PROVE  Keeps
  <2>1. NewLesson(c, s) \in LessonRow
    BY BookAssumption DEF NewLesson, LessonRow, LessonStatus
  <2> QED  BY <1>1, <2>1, PutKeeps DEF Book, Put
<1>2. ASSUME NEW l \in Lessons, NEW s \in Slots, Move(l, s)
      PROVE  Keeps
  <2>1. lesson[l] \in LessonRow  BY <1>2 DEF Move, Tables
  <2>2. /\ Moved(l, s) \in LessonRow /\ Moved(l, s).section = lesson[l].section
        /\ Moved(l, s).teacher = lesson[l].teacher
    BY <2>1 DEF Moved, LessonRow
  <2> QED  BY <1>2, <2>2, PutKeeps DEF Move, Put
<1>3. ASSUME NEW L \in SUBSET Lessons, Cancel(L)
      PROVE  Keeps
  BY <1>3, CancelKeeps
<1>4. ASSUME NEW l \in Lessons, NEW r \in Rooms \cup {NoRoom}, AssignRoom(l, r)
      PROVE  Keeps
  <2> DEFINE n == [lesson[l] EXCEPT !.room = r]
  <2>1. lesson[l] \in LessonRow  BY <1>4 DEF AssignRoom, Tables
  <2>2. n \in LessonRow /\ n.section = lesson[l].section /\ n.teacher = lesson[l].teacher
    BY <2>1 DEF LessonRow
  <2>3. lesson' = Put(lesson, l, n) /\ Admits(lesson, l, n) /\ UNCHANGED request
    BY <1>4 DEF AssignRoom, Put
  <2> QED  BY <2>2, <2>3, PutKeeps
<1>5. ASSUME NEW q \in Requests, NEW u \in Users, NEW l \in Lessons, NEW s \in Slots,
             Ask(q, u, l, s)
      PROVE  Keeps
  BY <1>5, AskKeeps
<1>6. ASSUME NEW q \in Requests, Grant(q)
      PROVE  Keeps
  <2> DEFINE l == request[q].lesson
             r == Moved(l, request[q].slot)
  <2>1. /\ Pending(q) /\ Admits(lesson, l, r) /\ lesson' = Put(lesson, l, r)
        /\ request' = Answered(request, q, "approved") /\ lesson[l] # NoRow
    BY <1>6 DEF Grant, Put, Answered
  <2>2. request[q] \in RequestRow  BY <2>1 DEF Pending, RequestTables
  <2>3. l \in Lessons /\ request[q].slot \in Slots  BY <2>2 DEF RequestRow
  <2>4. lesson[l] \in LessonRow  BY <2>1, <2>3 DEF Tables
  <2>5. r \in LessonRow /\ r.section = lesson[l].section /\ r.teacher = lesson[l].teacher
    BY <2>3, <2>4 DEF Moved, LessonRow
  <2>6. lesson' \in Tables /\ CollisionFree(lesson')
    BY <2>1, <2>3, <2>5, PutLesson
  <2>7. \A m \in Lessons : lesson'[m] = IF m = l THEN r ELSE lesson[m]
    BY <2>1 DEF Tables, Put
  <2>8. LessonsKept(lesson, lesson')  BY <2>5, <2>7, NullAssumption DEF LessonsKept
  <2> QED  BY <2>1, <2>6, <2>8, AnswerKeeps
<1>7. ASSUME NEW q \in Requests, NEW a \in {"rejected", "canceled"}, Close(q, a)
      PROVE  Keeps
  <2>1. lesson' = lesson /\ Pending(q) /\ request' = Answered(request, q, a)
    BY <1>7 DEF Close, Answered
  <2>2. lesson' \in Tables /\ CollisionFree(lesson') /\ LessonsKept(lesson, lesson')
    BY <2>1 DEF LessonsKept
  <2> QED  BY <2>1, <2>2, AnswerKeeps
<1>8. CASE UNCHANGED bookVars
  BY <1>8 DEF bookVars, Keeps, LessonsKept, RequestsKept
<1> QED  BY <1>1, <1>2, <1>3, <1>4, <1>5, <1>6, <1>7, <1>8 DEF BookNext

\* In every behaviour of the book its tables are sound.
THEOREM BookSound == BookSpec => []Sound(lesson, request)
<1>1. BookInit => Sound(lesson, request)  BY SoundInit
<1>2. Sound(lesson, request) /\ [BookNext]_bookVars => Sound(lesson, request)'
  BY BookStep DEF Keeps, Sound, Waiting, CollisionFree, RequestTables
<1> QED  BY <1>1, <1>2, PTL DEF BookSpec

\* No operation of the book double-books a teacher or a room.
THEOREM BookCollisionFree == BookSpec => []NoDoubleBooking
<1>1. Sound(lesson, request) => NoDoubleBooking  BY DEF Sound, NoDoubleBooking
<1> QED  BY <1>1, BookSound, PTL

\* No user of the book gets beyond MaxOpen pending requests.
THEOREM BookCapped == BookSpec => []OpenRequestsCapped
<1>1. Sound(lesson, request) => OpenRequestsCapped
  BY DEF Sound, OpenRequestsCapped, Open, Waiting
<1> QED  BY <1>1, BookSound, PTL

-----------------------------------------------------------------------------
(* The handlers. What a call with local variables j has read is still so   *)
(* when it uses it.                                                        *)

CreateStages == {"create_begin", "create_lock", "create_count", "create_insert"}
AnswerStages == {"approve_begin", "approve_claim", "approve_check", "approve_move",
                 "reject_write", "cancel_write", "tell_requester", "tell_teacher"}
UserStages   == {"create_count", "create_insert"}
RowStages    == {"approve_check", "approve_move"}
TellStages   == {"tell_requester", "tell_teacher"}

\* What a call with local variables j knows of the tables.
Ready(j, t, rq) ==
    /\ j.stage \in CreateStages =>
         /\ j.user \in Users /\ j.lesson \in Lessons /\ j.slot \in Slots /\ j.req \in Requests
         /\ t[j.lesson] # NoRow
         /\ t[j.lesson].section \in Attends[j.user]
         /\ rq[j.req] = NoRow
    /\ j.stage \in AnswerStages => j.req \in Requests /\ rq[j.req] # NoRow
    /\ j.stage \in RowStages => rq[j.req].status = "pending"
    /\ j.stage = "approve_move" => t[rq[j.req].lesson].teacher # NoTeacher
    /\ j.stage = "create_insert" => Cardinality(Waiting(rq, j.user)) < MaxOpen
    /\ j.stage = "book_insert" =>
         /\ j.section \in Sections /\ j.slot \in Slots /\ j.lesson \in Lessons
         /\ TeacherOf[j.section] # NoTeacher
         /\ t[j.lesson] = NoRow
    /\ j.stage = "move_write" =>
         /\ j.lesson \in Lessons /\ j.slot \in Slots
         /\ t[j.lesson] # NoRow
         /\ t[j.lesson].teacher # NoTeacher
    /\ j.stage \in TellStages => j.outcome \in Outcomes

\* Two calls never hold one lock, nor ids from the generator.
Apart(j, k) ==
    /\ ~(j.stage \in CreateStages /\ k.stage \in CreateStages /\ j.req = k.req)
    /\ ~(j.stage \in UserStages /\ k.stage \in UserStages /\ j.user = k.user)
    /\ ~(j.stage \in RowStages /\ k.stage \in RowStages /\ j.req = k.req)
    /\ ~(j.stage = "book_insert" /\ k.stage = "book_insert" /\ j.lesson = k.lesson)

ToldTable == [Requests -> [requester : Seq(Outcomes), teacher : Seq(Outcomes)]]

\* The inductive invariant.
Handlers == /\ Sound(lesson, request)
            /\ job \in [Jobs -> Job]
            /\ told \in ToldTable
            /\ \A p \in Jobs : Ready(job[p], lesson, request)
            /\ \A p, o \in Jobs : p # o => Apart(job[p], job[o])

-----------------------------------------------------------------------------
LEMMA IdleIsJob == Idle \in Job /\ Idle.stage = "idle"
BY JobAssumption DEF Idle, Job, Stages

\* The operations of the lesson book that the handlers' writing statements carry out.
LEMMA CreateInsertAsks ==
    ASSUME Handlers, NEW p \in Jobs, CreateInsert(p)
    PROVE  Ask(job[p].req, job[p].user, job[p].lesson, job[p].slot)
<1>1. job[p].stage = "create_insert" /\ Ready(job[p], lesson, request)
  BY DEF CreateInsert, At, Handlers
<1>2. Cardinality(Waiting(request, job[p].user)) < MaxOpen  BY <1>1 DEF Ready
<1>3. Cardinality(Open(job[p].user)) < MaxOpen  BY <1>2 DEF Waiting, Open
<1> QED  BY <1>1, <1>3 DEF Ready, CreateStages, CreateInsert, Ask

LEMMA ApproveMoveGrants ==
    ASSUME Handlers, NEW p \in Jobs, ApproveMove(p), ~UNCHANGED bookVars
    PROVE  Grant(job[p].req)
<1>1. job[p].stage = "approve_move" /\ Ready(job[p], lesson, request)
  BY DEF ApproveMove, At, Handlers
<1>2. /\ job[p].req \in Requests /\ Pending(job[p].req)
      /\ lesson[request[job[p].req].lesson].teacher # NoTeacher
  BY <1>1 DEF Ready, AnswerStages, RowStages, Pending
<1>3. lesson[request[job[p].req].lesson] # NoRow  BY <1>2 DEF Handlers, Sound, Pending
<1> QED  BY <1>2, <1>3 DEF ApproveMove, Grant, bookVars

LEMMA BookInsertBooks ==
    ASSUME Handlers, NEW p \in Jobs, BookInsert(p), ~UNCHANGED bookVars
    PROVE  Book(job[p].lesson, job[p].section, job[p].slot)
<1>1. job[p].stage = "book_insert" /\ Ready(job[p], lesson, request)
  BY DEF BookInsert, At, Handlers
<1> QED  BY <1>1 DEF Ready, BookInsert, Book, bookVars

LEMMA MoveWriteMoves ==
    ASSUME Handlers, NEW p \in Jobs, MoveWrite(p), ~UNCHANGED bookVars
    PROVE  Move(job[p].lesson, job[p].slot)
<1>1. job[p].stage = "move_write" /\ Ready(job[p], lesson, request)
  BY DEF MoveWrite, At, Handlers
<1> QED  BY <1>1 DEF Ready, MoveWrite, Move, bookVars

\* Every step of the handlers is a step of the lesson book, or leaves the book alone.
LEMMA StepImplementsBook == Handlers /\ [Next]_vars => [BookNext]_bookVars
<1> SUFFICES ASSUME Handlers, [Next]_vars, ~UNCHANGED bookVars PROVE BookNext
  OBVIOUS
<1>1. \A p \in Jobs : Ready(job[p], lesson, request)  BY DEF Handlers
<1>2. ASSUME NEW p \in Jobs, CreateInsert(p)
      PROVE  BookNext
  <2>1. job[p].stage = "create_insert"  BY <1>2 DEF CreateInsert, At
  <2>2. /\ job[p].user \in Users /\ job[p].lesson \in Lessons
        /\ job[p].slot \in Slots /\ job[p].req \in Requests
    BY <1>1, <2>1 DEF Ready, CreateStages
  <2> QED  BY <1>2, <2>2, CreateInsertAsks DEF BookNext
<1>3. ASSUME NEW p \in Jobs, ApproveMove(p)
      PROVE  BookNext
  <2>1. job[p].req \in Requests
    BY <1>1, <1>3 DEF ApproveMove, At, Ready, AnswerStages
  <2> QED  BY <1>3, <2>1, ApproveMoveGrants DEF BookNext
<1>4. ASSUME NEW p \in Jobs, RejectWrite(p) \/ CancelWrite(p)
      PROVE  BookNext
  <2>1. job[p].req \in Requests
    BY <1>1, <1>4 DEF RejectWrite, CancelWrite, At, Ready, AnswerStages
  <2>2. Close(job[p].req, "rejected") \/ Close(job[p].req, "canceled")
    BY <1>4 DEF RejectWrite, CancelWrite, Close, bookVars
  <2> QED  BY <2>1, <2>2 DEF BookNext
<1>5. ASSUME NEW p \in Jobs, BookInsert(p)
      PROVE  BookNext
  <2>1. job[p].lesson \in Lessons /\ job[p].section \in Sections /\ job[p].slot \in Slots
    BY <1>1, <1>5 DEF BookInsert, At, Ready
  <2> QED  BY <1>5, <2>1, BookInsertBooks DEF BookNext
<1>6. ASSUME NEW p \in Jobs, MoveWrite(p)
      PROVE  BookNext
  <2>1. job[p].lesson \in Lessons /\ job[p].slot \in Slots
    BY <1>1, <1>6 DEF MoveWrite, At, Ready
  <2> QED  BY <1>6, <2>1, MoveWriteMoves DEF BookNext
<1>7. ASSUME SingleStatement
      PROVE  BookNext
  <2>1. \A l \in Lessons : CancelLesson(l) => BookNext  BY DEF CancelLesson, BookNext
  <2>2. ASSUME NEW ids \in SUBSET Lessons, CancelLessons(ids) PROVE BookNext
    <3>1. {l \in ids : OwnedLesson(l) /\ Live(lesson[l])} \in SUBSET Lessons  OBVIOUS
    <3> QED  BY <2>2, <3>1 DEF CancelLessons, BookNext
  <2>3. ASSUME NEW c \in Sections, NEW now, CancelSeries(c, now) PROVE BookNext
    <3>1. {l \in Lessons : /\ Live(lesson[l])
                           /\ lesson[l].section = c
                           /\ now <= lesson[l].slot[1]} \in SUBSET Lessons
      OBVIOUS
    <3> QED  BY <2>3, <3>1 DEF CancelSeries, BookNext
  <2>4. \A l \in Lessons, r \in Rooms \cup {NoRoom} : SetRoom(l, r) => BookNext
    BY DEF SetRoom, BookNext
  <2> QED  BY <1>7, <2>1, <2>2, <2>3, <2>4 DEF SingleStatement
<1>8. ASSUME NEW p \in Jobs, Step(p)
      PROVE  BookNext
  BY <1>8, <1>2, <1>3, <1>4, <1>5, <1>6
     DEF Step, bookVars, CreateBegin, CreateLock, CreateCount, ApproveBegin, ApproveClaim,
         ApproveCheck, TellRequester, TellTeacher
<1>9. ASSUME NEW p \in Jobs, Arrive(p) \/ Crash(p)
      PROVE  FALSE
  BY <1>9 DEF Arrive, Crash, bookVars, CreateCheck, ApproveRead, RejectRead, CancelRead,
              BookCheck, MoveCheck
<1> QED  BY <1>7, <1>8, <1>9 DEF Next, vars, bookVars
-----------------------------------------------------------------------------
\* The step leaves alone what a call with local variables j relies on.
Undisturbed(j) ==
    /\ j.stage \in CreateStages => request'[j.req] = NoRow
    /\ j.stage \in RowStages => request'[j.req].status = "pending"
    /\ j.stage = "create_insert" => Waiting(request', j.user) \subseteq Waiting(request, j.user)
    /\ j.stage = "book_insert" => lesson'[j.lesson] = NoRow

LEMMA OtherReady ==
    ASSUME Sound(lesson, request), Keeps, NEW j \in Job, Ready(j, lesson, request),
           Undisturbed(j)
    PROVE  Ready(j, lesson', request')
<1>1. LessonsKept(lesson, lesson') /\ RequestsKept(request, request')  BY DEF Keeps
<1>2. j.stage \in CreateStages =>
         /\ j.user \in Users /\ j.lesson \in Lessons /\ j.slot \in Slots /\ j.req \in Requests
         /\ lesson'[j.lesson] # NoRow
         /\ lesson'[j.lesson].section \in Attends[j.user]
         /\ request'[j.req] = NoRow
  BY <1>1 DEF Ready, Undisturbed, LessonsKept
<1>3. /\ j.stage \in AnswerStages => j.req \in Requests /\ request'[j.req] # NoRow
      /\ j.stage \in RowStages => request'[j.req].status = "pending"
  BY <1>1 DEF Ready, Undisturbed, RequestsKept
<1>4. j.stage = "approve_move" => lesson'[request'[j.req].lesson].teacher # NoTeacher
  <2> SUFFICES ASSUME j.stage = "approve_move"
               PROVE  lesson'[request'[j.req].lesson].teacher # NoTeacher
    OBVIOUS
  <2>1. /\ j.req \in Requests /\ request[j.req] # NoRow
        /\ lesson[request[j.req].lesson].teacher # NoTeacher
    BY DEF Ready, AnswerStages
  <2>2. request[j.req] \in RequestRow  BY <2>1 DEF Sound, RequestTables
  <2>3. request[j.req].lesson \in Lessons  BY <2>2 DEF RequestRow
  <2>4. lesson[request[j.req].lesson] # NoRow  BY <2>1 DEF Sound
  <2>5. request'[j.req].lesson = request[j.req].lesson  BY <1>1, <2>1 DEF RequestsKept
  <2> QED  BY <1>1, <2>1, <2>3, <2>4, <2>5 DEF LessonsKept
<1>5. j.stage = "create_insert" => Cardinality(Waiting(request', j.user)) < MaxOpen
  <2> SUFFICES ASSUME j.stage = "create_insert"
               PROVE  Cardinality(Waiting(request', j.user)) < MaxOpen
    OBVIOUS
  <2>1. Cardinality(Waiting(request, j.user)) < MaxOpen  BY DEF Ready
  <2>2. Waiting(request', j.user) \subseteq Waiting(request, j.user)  BY DEF Undisturbed
  <2>3. IsFiniteSet(Waiting(request, j.user))  BY WaitingFinite
  <2>4. Cardinality(Waiting(request', j.user)) <= Cardinality(Waiting(request, j.user))
    BY <2>2, <2>3, FS_Subset
  <2>5. /\ Cardinality(Waiting(request', j.user)) \in Nat
        /\ Cardinality(Waiting(request, j.user)) \in Nat
    BY WaitingFinite
  <2> QED  BY <2>1, <2>4, <2>5, BookAssumption
<1>6. j.stage = "book_insert" =>
         /\ j.section \in Sections /\ j.slot \in Slots /\ j.lesson \in Lessons
         /\ TeacherOf[j.section] # NoTeacher
         /\ lesson'[j.lesson] = NoRow
  BY DEF Ready, Undisturbed
<1>7. j.stage = "move_write" =>
         /\ j.lesson \in Lessons /\ j.slot \in Slots
         /\ lesson'[j.lesson] # NoRow
         /\ lesson'[j.lesson].teacher # NoTeacher
  BY <1>1 DEF Ready, LessonsKept
<1>8. j.stage \in TellStages => j.outcome \in Outcomes  BY DEF Ready
<1> QED  BY <1>2, <1>3, <1>4, <1>5, <1>6, <1>7, <1>8 DEF Ready

\* The shape of every step: call p goes on with local variables r, the others keep theirs.
LEMMA CallStep ==
    ASSUME Handlers, Keeps, told' \in ToldTable, NEW p \in Jobs, NEW r \in Job,
           job' = [job EXCEPT ![p] = r],
           Ready(r, lesson', request'),
           \A o \in Jobs \ {p} : Apart(r, job[o]) /\ Undisturbed(job[o])
    PROVE  Handlers'
<1>1. job \in [Jobs -> Job]  BY DEF Handlers
<1>2. job' \in [Jobs -> Job] /\ \A o \in Jobs : job'[o] = IF o = p THEN r ELSE job[o]
  BY <1>1
<1>3. ASSUME NEW o \in Jobs
      PROVE  Ready(job'[o], lesson', request')
  <2>1. CASE o = p  BY <2>1, <1>2
  <2>2. CASE o # p
    <3>1. job[o] \in Job /\ Ready(job[o], lesson, request) /\ Undisturbed(job[o])
      BY <2>2, <1>1 DEF Handlers
    <3>2. Ready(job[o], lesson', request')  BY <3>1, OtherReady DEF Handlers
    <3> QED  BY <2>2, <1>2, <3>2
  <2> QED  BY <2>1, <2>2
<1>4. ASSUME NEW o \in Jobs, NEW n \in Jobs, o # n
      PROVE  Apart(job'[o], job'[n])
  <2>1. CASE o = p  BY <1>4, <2>1, <1>2
  <2>2. CASE n = p
    <3>1. Apart(r, job[o])  BY <1>4, <2>2
    <3>2. Apart(job[o], r)  BY <3>1 DEF Apart
    <3> QED  BY <1>4, <2>2, <1>2, <3>2
  <2>3. CASE o # p /\ n # p  BY <1>4, <2>3, <1>2 DEF Handlers
  <2> QED  BY <2>1, <2>2, <2>3
<1>5. Sound(lesson', request')  BY DEF Keeps
<1> QED  BY <1>2, <1>3, <1>4, <1>5
         DEF Handlers, Sound, Ready, Apart, Waiting, CollisionFree, ToldTable, RequestTables

\* A step that leaves the tables alone disturbs nobody.
LEMMA QuietStep ==
    ASSUME Handlers, UNCHANGED <<lesson, request>>, told' \in ToldTable,
           NEW p \in Jobs, NEW r \in Job,
           job' = [job EXCEPT ![p] = r],
           Ready(r, lesson, request),
           \A o \in Jobs \ {p} : Apart(r, job[o])
    PROVE  Handlers'
<1>1. Keeps  BY BookStep DEF Handlers, bookVars
<1>2. \A o \in Jobs : Undisturbed(job[o])  BY DEF Undisturbed, Handlers, Ready
<1>3. Ready(r, lesson', request')  OBVIOUS
<1> QED  BY <1>1, <1>2, <1>3, CallStep

\* A handler of one statement runs beside the calls.
LEMMA StatementStep ==
    ASSUME Handlers, Keeps, UNCHANGED <<job, told>>, \A o \in Jobs : Undisturbed(job[o])
    PROVE  Handlers'
<1>1. \A o \in Jobs : Ready(job[o], lesson', request')  BY OtherReady DEF Handlers
<1>2. Sound(lesson', request')  BY DEF Keeps
<1> QED  BY <1>1, <1>2
         DEF Handlers, Sound, Ready, Apart, Waiting, CollisionFree, ToldTable, RequestTables

\* A call ends and leaves the tables alone.
LEMMA FinishStep ==
    ASSUME Handlers, NEW p \in Jobs, Finish(p), UNCHANGED <<lesson, request>>,
           told' \in ToldTable
    PROVE  Handlers'
<1>1. /\ Ready(Idle, lesson, request)
      /\ \A o \in Jobs \ {p} : Apart(Idle, job[o])
  BY IdleIsJob DEF Ready, Apart, CreateStages, AnswerStages, UserStages, RowStages, TellStages
<1> QED  BY <1>1, IdleIsJob, QuietStep DEF Finish

\* A call goes on to its next stage and leaves the tables alone.
LEMMA GotoStep ==
    ASSUME Handlers, NEW p \in Jobs, NEW stage \in Stages, Goto(p, stage),
           UNCHANGED <<lesson, request, told>>,
           Ready([job[p] EXCEPT !.stage = stage], lesson, request),
           \A o \in Jobs \ {p} : Apart([job[p] EXCEPT !.stage = stage], job[o])
    PROVE  Handlers'
<1> DEFINE r == [job[p] EXCEPT !.stage = stage]
<1>1. r \in Job  BY DEF Handlers, Job
<1>2. job' = [job EXCEPT ![p] = r]  BY DEF Goto, Handlers
<1>3. told' \in ToldTable  BY DEF Handlers
<1> HIDE DEF r
<1> QED  BY <1>1, <1>2, <1>3, QuietStep DEF r

\* A new call.
LEMMA ArriveStep ==
    ASSUME Handlers, NEW p \in Jobs, NEW r \in Job, Start(p, r),
           UNCHANGED <<lesson, request, told>>,
           Ready(r, lesson, request), \A o \in Jobs \ {p} : Apart(r, job[o])
    PROVE  Handlers'
<1>1. told' \in ToldTable  BY DEF Handlers
<1> QED  BY <1>1, QuietStep DEF Start

LEMMA ArriveKeeps ==
    ASSUME Handlers, NEW p \in Jobs, Arrive(p)
    PROVE  Handlers'
<1> USE DEF CreateStages, AnswerStages, UserStages, RowStages, TellStages
<1>1. ASSUME NEW u \in Users, NEW l \in Lessons, NEW s \in Slots, NEW q \in Requests,
             CreateCheck(p, u, l, s, q)
      PROVE  Handlers'
  <2> DEFINE r == [Idle EXCEPT !.stage = "create_begin", !.user = u, !.lesson = l,
                               !.slot = s, !.req = q]
  <2>1. /\ r \in Job /\ r.stage = "create_begin" /\ r.user = u /\ r.lesson = l
        /\ r.slot = s /\ r.req = q
    BY IdleIsJob DEF Idle, Job, Stages
  <2>2. /\ Start(p, r) /\ UNCHANGED <<lesson, request, told>>
        /\ request[q] = NoRow /\ lesson[l] # NoRow /\ lesson[l].section \in Attends[u]
        /\ \A o \in Jobs : job[o].req # q
    BY <1>1 DEF CreateCheck, FreshRequest
  <2> HIDE DEF r
  <2>3. Ready(r, lesson, request)  BY <2>1, <2>2 DEF Ready
  <2>4. \A o \in Jobs \ {p} : Apart(r, job[o])  BY <2>1, <2>2 DEF Apart
  <2> QED  BY <2>1, <2>2, <2>3, <2>4, ArriveStep
<1>2. ASSUME NEW q \in Requests, NEW stage \in {"approve_begin", "reject_write", "cancel_write"},
             Pending(q), Start(p, [Idle EXCEPT !.stage = stage, !.req = q]),
             UNCHANGED <<lesson, request, told>>
      PROVE  Handlers'
  <2> DEFINE r == [Idle EXCEPT !.stage = stage, !.req = q]
  <2>1. r \in Job /\ r.stage = stage /\ r.req = q  BY IdleIsJob DEF Idle, Job, Stages
  <2>2. Start(p, r)  BY <1>2
  <2> HIDE DEF r
  <2>3. Ready(r, lesson, request)  BY <1>2, <2>1 DEF Ready, Pending
  <2>4. \A o \in Jobs \ {p} : Apart(r, job[o])  BY <1>2, <2>1 DEF Apart
  <2> QED  BY <1>2, <2>1, <2>2, <2>3, <2>4, ArriveStep
<1>3. ASSUME NEW c \in Sections, NEW s \in Slots, NEW l \in Lessons, BookCheck(p, c, s, l)
      PROVE  Handlers'
  <2> DEFINE r == [Idle EXCEPT !.stage = "book_insert", !.section = c, !.slot = s, !.lesson = l]
  <2>1. r \in Job /\ r.stage = "book_insert" /\ r.section = c /\ r.slot = s /\ r.lesson = l
    BY IdleIsJob DEF Idle, Job, Stages
  <2>2. /\ Start(p, r) /\ UNCHANGED <<lesson, request, told>>
        /\ lesson[l] = NoRow /\ TeacherOf[c] # NoTeacher
        /\ \A o \in Jobs : ~(job[o].stage = "book_insert" /\ job[o].lesson = l)
    BY <1>3 DEF BookCheck, FreshLesson, At
  <2> HIDE DEF r
  <2>3. Ready(r, lesson, request)  BY <2>1, <2>2 DEF Ready
  <2>4. \A o \in Jobs \ {p} : Apart(r, job[o])  BY <2>1, <2>2 DEF Apart
  <2> QED  BY <2>1, <2>2, <2>3, <2>4, ArriveStep
<1>4. ASSUME NEW l \in Lessons, NEW s \in Slots, MoveCheck(p, l, s)
      PROVE  Handlers'
  <2> DEFINE r == [Idle EXCEPT !.stage = "move_write", !.lesson = l, !.slot = s]
  <2>1. r \in Job /\ r.stage = "move_write" /\ r.lesson = l /\ r.slot = s
    BY IdleIsJob DEF Idle, Job, Stages
  <2>2. /\ Start(p, r) /\ UNCHANGED <<lesson, request, told>>
        /\ lesson[l] # NoRow /\ lesson[l].teacher # NoTeacher
    BY <1>4 DEF MoveCheck, MayMove, OwnedLesson
  <2> HIDE DEF r
  <2>3. Ready(r, lesson, request)  BY <2>1, <2>2 DEF Ready
  <2>4. \A o \in Jobs \ {p} : Apart(r, job[o])  BY <2>1 DEF Apart
  <2> QED  BY <2>1, <2>2, <2>3, <2>4, ArriveStep
<1> QED  BY <1>1, <1>2, <1>3, <1>4 DEF Arrive, ApproveRead, RejectRead, CancelRead

-----------------------------------------------------------------------------
\* The steps of a call that read, lock or begin.
LEMMA ReadStep ==
    ASSUME Handlers, NEW p \in Jobs,
           \/ CreateBegin(p) \/ CreateLock(p) \/ CreateCount(p)
           \/ ApproveBegin(p) \/ ApproveClaim(p) \/ ApproveCheck(p)
    PROVE  Handlers'
<1> DEFINE next(stage) == [job[p] EXCEPT !.stage = stage]
<1>1. /\ job[p] \in Job /\ told \in ToldTable
      /\ Ready(job[p], lesson, request)
      /\ \A o \in Jobs \ {p} : Apart(job[p], job[o])
  BY DEF Handlers
<1>2. \A stage \in Stages : /\ next(stage).stage = stage
                            /\ next(stage).user = job[p].user
                            /\ next(stage).section = job[p].section
                            /\ next(stage).lesson = job[p].lesson
                            /\ next(stage).slot = job[p].slot
                            /\ next(stage).req = job[p].req
                            /\ next(stage).outcome = job[p].outcome
  BY <1>1 DEF Job
<1> USE DEF CreateStages, AnswerStages, UserStages, RowStages, TellStages
<1> HIDE DEF next
<1>3. ASSUME Finish(p), UNCHANGED <<lesson, request, told>>
      PROVE  Handlers'
  BY <1>1, <1>3, FinishStep
<1>4. ASSUME NEW stage \in Stages, Goto(p, stage), UNCHANGED <<lesson, request, told>>,
             Ready(next(stage), lesson, request),
             \A o \in Jobs \ {p} : Apart(next(stage), job[o])
      PROVE  Handlers'
  BY <1>4, GotoStep DEF next
<1>5. CASE CreateBegin(p)
  <2>1. /\ job[p].stage = "create_begin" /\ Goto(p, "create_lock")
        /\ UNCHANGED <<lesson, request, told>> /\ "create_lock" \in Stages
    BY <1>5 DEF CreateBegin, At, Stages
  <2>2. Ready(next("create_lock"), lesson, request)  BY <2>1, <1>1, <1>2 DEF Ready
  <2>3. \A o \in Jobs \ {p} : Apart(next("create_lock"), job[o])
    BY <2>1, <1>1, <1>2 DEF Apart
  <2> QED  BY <2>1, <2>2, <2>3, <1>4
<1>6. CASE CreateLock(p)
  <2>1. /\ job[p].stage = "create_lock" /\ Goto(p, "create_count")
        /\ UNCHANGED <<lesson, request, told>> /\ "create_count" \in Stages
        /\ \A o \in Jobs \ {p} : ~(job[o].user = job[p].user /\ job[o].stage \in UserStages)
    BY <1>6 DEF CreateLock, At, Stages, UserLockFree, HoldsUserLock
  <2>2. Ready(next("create_count"), lesson, request)  BY <2>1, <1>1, <1>2 DEF Ready
  <2>3. \A o \in Jobs \ {p} : Apart(next("create_count"), job[o])
    BY <2>1, <1>1, <1>2 DEF Apart
  <2> QED  BY <2>1, <2>2, <2>3, <1>4
<1>7. CASE CreateCount(p)
  <2>1. job[p].stage = "create_count" /\ UNCHANGED <<lesson, request, told>>
    BY <1>7 DEF CreateCount, At
  <2>2. CASE Finish(p)  BY <2>1, <2>2, <1>3
  <2>3. CASE ~Finish(p)
    <3>1. /\ Cardinality(Open(job[p].user)) < MaxOpen /\ Goto(p, "create_insert")
          /\ "create_insert" \in Stages
      BY <2>3, <1>7 DEF CreateCount, Stages
    <3>2. Cardinality(Waiting(request, job[p].user)) < MaxOpen  BY <3>1 DEF Open, Waiting
    <3>3. Ready(next("create_insert"), lesson, request)
      BY <2>1, <3>1, <3>2, <1>1, <1>2 DEF Ready
    <3>4. \A o \in Jobs \ {p} : Apart(next("create_insert"), job[o])
      BY <2>1, <3>1, <1>1, <1>2 DEF Apart
    <3> QED  BY <2>1, <3>1, <3>3, <3>4, <1>4
  <2> QED  BY <2>2, <2>3
<1>8. CASE ApproveBegin(p)
  <2>1. /\ job[p].stage = "approve_begin" /\ Goto(p, "approve_claim")
        /\ UNCHANGED <<lesson, request, told>> /\ "approve_claim" \in Stages
    BY <1>8 DEF ApproveBegin, At, Stages
  <2>2. Ready(next("approve_claim"), lesson, request)  BY <2>1, <1>1, <1>2 DEF Ready
  <2>3. \A o \in Jobs \ {p} : Apart(next("approve_claim"), job[o])
    BY <2>1, <1>2 DEF Apart
  <2> QED  BY <2>1, <2>2, <2>3, <1>4
<1>9. CASE ApproveClaim(p)
  <2>1. /\ job[p].stage = "approve_claim" /\ UNCHANGED <<lesson, request, told>>
        /\ \A o \in Jobs \ {p} : ~(job[o].req = job[p].req /\ job[o].stage \in RowStages)
    BY <1>9 DEF ApproveClaim, At, RowLockFree, HoldsRowLock
  <2>2. CASE Finish(p)  BY <2>1, <2>2, <1>3
  <2>3. CASE ~Finish(p)
    <3>1. Pending(job[p].req) /\ Goto(p, "approve_check") /\ "approve_check" \in Stages
      BY <2>3, <1>9 DEF ApproveClaim, Stages
    <3>2. Ready(next("approve_check"), lesson, request)
      BY <2>1, <3>1, <1>1, <1>2 DEF Ready, Pending
    <3>3. \A o \in Jobs \ {p} : Apart(next("approve_check"), job[o])
      BY <2>1, <3>1, <1>2 DEF Apart
    <3> QED  BY <2>1, <3>1, <3>2, <3>3, <1>4
  <2> QED  BY <2>2, <2>3
<1>10. CASE ApproveCheck(p)
  <2>1. job[p].stage = "approve_check" /\ UNCHANGED <<lesson, request, told>>
    BY <1>10 DEF ApproveCheck, At
  <2>2. CASE Finish(p)  BY <2>1, <2>2, <1>3
  <2>3. CASE ~Finish(p)
    <3>1. /\ lesson[request[job[p].req].lesson].teacher # NoTeacher
          /\ Goto(p, "approve_move") /\ "approve_move" \in Stages
      BY <2>3, <1>10 DEF ApproveCheck, MayMove, Stages
    <3>2. Ready(next("approve_move"), lesson, request)
      BY <2>1, <3>1, <1>1, <1>2 DEF Ready
    <3>3. \A o \in Jobs \ {p} : Apart(next("approve_move"), job[o])
      BY <2>1, <3>1, <1>1, <1>2 DEF Apart
    <3> QED  BY <2>1, <3>1, <3>2, <3>3, <1>4
  <2> QED  BY <2>2, <2>3
<1> QED  BY <1>5, <1>6, <1>7, <1>8, <1>9, <1>10

\* The steps that write a notification row.
LEMMA TellStep ==
    ASSUME Handlers, NEW p \in Jobs, TellRequester(p) \/ TellTeacher(p)
    PROVE  Handlers'
<1> USE DEF CreateStages, AnswerStages, UserStages, RowStages, TellStages
<1>1. /\ job[p] \in Job /\ told \in ToldTable /\ job \in [Jobs -> Job]
      /\ Ready(job[p], lesson, request)
  BY DEF Handlers
<1>2. job[p].stage \in TellStages /\ UNCHANGED <<lesson, request>>
  BY DEF TellRequester, TellTeacher, At
<1>3. job[p].req \in Requests /\ request[job[p].req] # NoRow /\ job[p].outcome \in Outcomes
  BY <1>1, <1>2 DEF Ready
<1>4. /\ told[job[p].req] \in [requester : Seq(Outcomes), teacher : Seq(Outcomes)]
      /\ Append(told[job[p].req].requester, job[p].outcome) \in Seq(Outcomes)
      /\ Append(told[job[p].req].teacher, job[p].outcome) \in Seq(Outcomes)
  BY <1>1, <1>3 DEF ToldTable
<1>5. told' \in ToldTable  BY <1>1, <1>4 DEF TellRequester, TellTeacher, ToldTable
<1>6. CASE TellTeacher(p)  BY <1>2, <1>5, <1>6, FinishStep DEF TellTeacher
<1>7. CASE TellRequester(p)
  <2> DEFINE r == [job[p] EXCEPT !.stage = "tell_teacher"]
  <2>1. /\ r \in Job /\ r.stage = "tell_teacher" /\ r.req = job[p].req
        /\ r.outcome = job[p].outcome
    BY <1>1 DEF Job, Stages
  <2>2. job' = [job EXCEPT ![p] = r]  BY <1>1, <1>7 DEF TellRequester, Goto
  <2> HIDE DEF r
  <2>3. Ready(r, lesson, request)  BY <1>3, <2>1 DEF Ready
  <2>4. \A o \in Jobs \ {p} : Apart(r, job[o])  BY <2>1 DEF Apart
  <2> QED  BY <1>2, <1>5, <2>1, <2>2, <2>3, <2>4, QuietStep
<1> QED  BY <1>6, <1>7

-----------------------------------------------------------------------------
\* The steps that write a request, a lesson, or both.

\* A pending request nobody else has claimed is answered; no other call relies on it.
LEMMA AnswerDisturbsNobody ==
    ASSUME Handlers, NEW p \in Jobs, NEW q \in Requests, Pending(q),
           NEW a \in {"approved", "rejected", "canceled"},
           request' = Answered(request, q, a),
           \A o \in Jobs \ {p} : ~(job[o].req = q /\ job[o].stage \in RowStages),
           \A l \in Lessons : lesson[l] = NoRow => lesson'[l] = NoRow
    PROVE  \A o \in Jobs \ {p} : Undisturbed(job[o])
<1>1. /\ \A r \in Requests \ {q} : request'[r] = request[r]
      /\ \A u \in Users : Waiting(request', u) \subseteq Waiting(request, u)
  BY AnswerRow DEF Handlers, Sound, Pending
<1> SUFFICES ASSUME NEW o \in Jobs \ {p} PROVE Undisturbed(job[o])
  OBVIOUS
<1>2. Ready(job[o], lesson, request)  BY DEF Handlers
<1>3. job[o].stage \in CreateStages => request'[job[o].req] = NoRow
  BY <1>1, <1>2 DEF Ready, Pending
<1>4. job[o].stage \in RowStages => request'[job[o].req].status = "pending"
  BY <1>1, <1>2 DEF Ready, RowStages, AnswerStages
<1>5. job[o].stage = "create_insert" =>
        Waiting(request', job[o].user) \subseteq Waiting(request, job[o].user)
  BY <1>1, <1>2 DEF Ready, CreateStages
<1>6. job[o].stage = "book_insert" => lesson'[job[o].lesson] = NoRow
  BY <1>2 DEF Ready
<1> QED  BY <1>3, <1>4, <1>5, <1>6 DEF Undisturbed

LEMMA CreateInsertStep ==
    ASSUME Handlers, NEW p \in Jobs, CreateInsert(p), Keeps
    PROVE  Handlers'
<1> DEFINE q == job[p].req
           u == job[p].user
           r == [lesson |-> job[p].lesson, by |-> u, slot |-> job[p].slot, status |-> "pending"]
<1>1. job[p].stage = "create_insert" /\ Ready(job[p], lesson, request)
  BY DEF CreateInsert, At, Handlers
<1>2. /\ q \in Requests /\ u \in Users /\ job[p].lesson \in Lessons /\ job[p].slot \in Slots
      /\ request[q] = NoRow
  BY <1>1 DEF Ready, CreateStages
<1>3. r \in RequestRow /\ r.status = "pending" /\ r.by = u
  BY <1>2 DEF RequestRow, RequestStatus
<1>4. request' = Asked(request, q, r) /\ UNCHANGED <<lesson, told>> /\ Finish(p)
  BY DEF CreateInsert, Asked
<1> HIDE DEF r
<1>5. /\ \A s \in Requests \ {q} : request'[s] = request[s]
      /\ \A v \in Users \ {u} : Waiting(request', v) = Waiting(request, v)
  BY <1>2, <1>3, <1>4, AskRow DEF Handlers, Sound
<1>6. ASSUME NEW o \in Jobs \ {p}
      PROVE  Apart(Idle, job[o]) /\ Undisturbed(job[o])
  <2>1. Ready(job[o], lesson, request) /\ Apart(job[p], job[o])  BY DEF Handlers
  <2>2. job[o].stage \in CreateStages => job[o].req # q  BY <1>1, <2>1 DEF Apart, CreateStages
  <2>3. job[o].stage = "create_insert" => job[o].user # u  BY <1>1, <2>1 DEF Apart, UserStages
  <2>4. Undisturbed(job[o])
    BY <1>2, <1>4, <1>5, <2>1, <2>2, <2>3
       DEF Undisturbed, Ready, CreateStages, RowStages, AnswerStages
  <2>5. Apart(Idle, job[o])  BY IdleIsJob DEF Apart, CreateStages, UserStages, RowStages
  <2> QED  BY <2>4, <2>5
<1>7. Ready(Idle, lesson', request')
  BY IdleIsJob DEF Ready, CreateStages, AnswerStages, RowStages, TellStages
<1>8. told' \in ToldTable  BY <1>4 DEF Handlers
<1> QED  BY <1>4, <1>6, <1>7, <1>8, IdleIsJob, CallStep DEF Finish

\* approveRescheduleRequestCore's last statement, rejectRescheduleRequestCore's and
\* cancelRescheduleRequestCore's write, when the request is still pending.
LEMMA AnswerStep ==
    ASSUME Handlers, Keeps, NEW p \in Jobs,
           NEW a \in {"approved", "rejected", "canceled"}, NEW r \in Job,
           job[p].stage \in AnswerStages, Pending(job[p].req),
           request' = Answered(request, job[p].req, a), UNCHANGED told,
           job' = [job EXCEPT ![p] = r],
           r.stage \in {"idle", "tell_requester"},
           r.stage # "idle" => r.req = job[p].req /\ r.outcome \in Outcomes,
           \A o \in Jobs \ {p} : ~(job[o].req = job[p].req /\ job[o].stage \in RowStages),
           \A l \in Lessons : lesson[l] = NoRow => lesson'[l] = NoRow
    PROVE  Handlers'
<1>1. Ready(job[p], lesson, request) /\ told' \in ToldTable  BY DEF Handlers
<1>2. job[p].req \in Requests  BY <1>1 DEF Ready
<1>3. \A o \in Jobs \ {p} : Undisturbed(job[o])  BY <1>2, AnswerDisturbsNobody
<1>4. request'[job[p].req] # NoRow  BY <1>2 DEF Keeps, RequestsKept, Pending
<1>5. /\ Ready(r, lesson', request')
      /\ \A o \in Jobs \ {p} : Apart(r, job[o])
  BY <1>2, <1>4 DEF Ready, Apart, CreateStages, AnswerStages, UserStages, RowStages, TellStages
<1> QED  BY <1>1, <1>3, <1>5, CallStep

LEMMA ApproveMoveStep ==
    ASSUME Handlers, NEW p \in Jobs, ApproveMove(p), Keeps
    PROVE  Handlers'
<1> DEFINE q == job[p].req
           l == request[q].lesson
           m == Moved(l, request[q].slot)
           r == [job[p] EXCEPT !.stage = "tell_requester", !.outcome = "approved"]
<1>1. /\ job[p].stage = "approve_move" /\ Ready(job[p], lesson, request)
      /\ UNCHANGED told /\ told \in ToldTable /\ job[p] \in Job /\ job \in [Jobs -> Job]
  BY DEF ApproveMove, At, Handlers
<1>2. q \in Requests /\ Pending(q)  BY <1>1 DEF Ready, AnswerStages, RowStages, Pending
<1>3. CASE Finish(p) /\ UNCHANGED <<lesson, request>>  BY <1>1, <1>3, FinishStep
<1>4. CASE ~(Finish(p) /\ UNCHANGED <<lesson, request>>)
  <2>1. /\ lesson' = [lesson EXCEPT ![l] = m]
        /\ request' = Answered(request, q, "approved")
        /\ job' = [job EXCEPT ![p] = r]
    BY <1>1, <1>4 DEF ApproveMove, Answered
  <2>2. /\ r \in Job /\ r.stage = "tell_requester" /\ r.req = q /\ r.outcome \in Outcomes
    BY <1>1 DEF Job, Stages, Outcomes
  <2>3. lesson[l] # NoRow  BY <1>2 DEF Handlers, Sound, Pending
  <2>4. \A k \in Lessons : lesson[k] = NoRow => lesson'[k] = NoRow
    BY <2>1, <2>3 DEF Handlers, Sound, Tables
  <2>5. \A o \in Jobs \ {p} : ~(job[o].req = q /\ job[o].stage \in RowStages)
    <3>1. \A o \in Jobs \ {p} : Apart(job[p], job[o])  BY DEF Handlers
    <3> QED  BY <1>1, <3>1 DEF Apart, RowStages
  <2> HIDE DEF r
  <2>6. job[p].stage \in AnswerStages  BY <1>1 DEF AnswerStages
  <2> QED  BY <1>1, <1>2, <2>1, <2>2, <2>4, <2>5, <2>6, AnswerStep
<1> QED  BY <1>3, <1>4

LEMMA CloseStep ==
    ASSUME Handlers, NEW p \in Jobs, RejectWrite(p) \/ CancelWrite(p), Keeps
    PROVE  Handlers'
<1> DEFINE q == job[p].req
           r == [job[p] EXCEPT !.stage = "tell_requester", !.outcome = "rejected"]
<1>1. /\ job[p].stage \in {"reject_write", "cancel_write"} /\ Ready(job[p], lesson, request)
      /\ UNCHANGED <<lesson, told>> /\ told \in ToldTable
      /\ job[p] \in Job /\ job \in [Jobs -> Job]
      /\ \A o \in Jobs \ {p} : ~(job[o].req = q /\ job[o].stage \in RowStages)
  BY DEF RejectWrite, CancelWrite, At, Handlers, RowLockFree, HoldsRowLock, RowStages
<1>2. job[p].stage \in AnswerStages  BY <1>1 DEF AnswerStages
<1>3. r \in Job /\ r.stage = "tell_requester" /\ r.req = q /\ r.outcome \in Outcomes
  BY <1>1 DEF Job, Stages, Outcomes
<1>4. CASE RejectWrite(p) /\ Pending(q)
  <2>1. request' = Answered(request, q, "rejected") /\ job' = [job EXCEPT ![p] = r]
    BY <1>1, <1>4 DEF RejectWrite, Answered
  <2> HIDE DEF r
  <2> QED  BY <1>1, <1>2, <1>3, <1>4, <2>1, AnswerStep
<1>5. CASE CancelWrite(p) /\ Pending(q)
  <2> DEFINE end == Idle
  <2>1. request' = Answered(request, q, "canceled") /\ job' = [job EXCEPT ![p] = end]
    BY <1>5 DEF CancelWrite, Answered, Finish
  <2>2. \A l \in Lessons : lesson[l] = NoRow => lesson'[l] = NoRow  BY <1>1
  <2>3. end \in Job /\ end.stage \in {"idle", "tell_requester"} /\ ~(end.stage # "idle")
    BY IdleIsJob
  <2> HIDE DEF r, end
  <2> QED  BY <1>1, <1>2, <1>5, <2>1, <2>2, <2>3, AnswerStep
<1>6. CASE ~Pending(q)
  <2>1. Finish(p) /\ UNCHANGED <<lesson, request>> /\ told' \in ToldTable
    BY <1>1, <1>6 DEF RejectWrite, CancelWrite
  <2> QED  BY <2>1, FinishStep
<1> QED  BY <1>4, <1>5, <1>6

\* scheduleLessonCore's INSERT and rescheduleLessonCore's UPDATE.
LEMMA LessonWriteStep ==
    ASSUME Handlers, NEW p \in Jobs, BookInsert(p) \/ MoveWrite(p), Keeps
    PROVE  Handlers'
<1> DEFINE l == job[p].lesson
<1>1. /\ job[p].stage \in {"book_insert", "move_write"} /\ Ready(job[p], lesson, request)
      /\ Finish(p) /\ UNCHANGED <<request, told>> /\ told' \in ToldTable
  BY DEF BookInsert, MoveWrite, At, Handlers
<1>2. \A k \in Lessons \ {l} : lesson'[k] = lesson[k]
  BY DEF BookInsert, MoveWrite, Handlers, Sound, Tables
<1>3. ASSUME NEW o \in Jobs \ {p}
      PROVE  Apart(Idle, job[o]) /\ Undisturbed(job[o])
  <2>1. Ready(job[o], lesson, request) /\ Apart(job[p], job[o])  BY DEF Handlers
  <2>2. job[o].stage = "book_insert" => /\ job[o].lesson \in Lessons
                                        /\ lesson[job[o].lesson] = NoRow
                                        /\ job[o].lesson # l
    BY <1>1, <2>1 DEF Ready, Apart
  <2>3. Undisturbed(job[o])
    BY <1>1, <1>2, <2>1, <2>2 DEF Undisturbed, Ready
  <2>4. Apart(Idle, job[o])  BY IdleIsJob DEF Apart, CreateStages, UserStages, RowStages
  <2> QED  BY <2>3, <2>4
<1>4. Ready(Idle, lesson', request')
  BY IdleIsJob DEF Ready, CreateStages, AnswerStages, RowStages, TellStages
<1> QED  BY <1>1, <1>3, <1>4, IdleIsJob, CallStep DEF Finish

LEMMA SingleStatementStep ==
    ASSUME Handlers, SingleStatement, Keeps
    PROVE  Handlers'
<1>1. UNCHANGED <<job, told, request>>
  BY DEF SingleStatement, CancelLesson, CancelLessons, CancelSeries, SetRoom, Cancel, AssignRoom
<1>2. \A k \in Lessons : lesson[k] = NoRow => lesson'[k] = NoRow
  <2>1. ASSUME NEW L \in SUBSET Lessons, Cancel(L), NEW k \in Lessons, lesson[k] = NoRow
        PROVE  lesson'[k] = NoRow
    BY <2>1 DEF Cancel
  <2>2. ASSUME NEW m \in Lessons, NEW r \in Rooms \cup {NoRoom}, AssignRoom(m, r),
               NEW k \in Lessons, lesson[k] = NoRow
        PROVE  lesson'[k] = NoRow
    BY <2>2 DEF AssignRoom, Handlers, Sound, Tables
  <2>3. \/ \E L \in SUBSET Lessons : Cancel(L)
        \/ \E m \in Lessons, r \in Rooms \cup {NoRoom} : AssignRoom(m, r)
    <3>1. \A m \in Lessons : CancelLesson(m) => \E L \in SUBSET Lessons : Cancel(L)
      BY DEF CancelLesson
    <3>2. \A ids \in SUBSET Lessons : CancelLessons(ids) => \E L \in SUBSET Lessons : Cancel(L)
      BY DEF CancelLessons
    <3>3. \A c \in Sections, s \in Slots : CancelSeries(c, s[1]) => \E L \in SUBSET Lessons : Cancel(L)
      BY DEF CancelSeries
    <3> QED  BY <3>1, <3>2, <3>3 DEF SingleStatement, SetRoom
  <2> QED  BY <2>1, <2>2, <2>3
<1>3. \A o \in Jobs : Undisturbed(job[o])
  <2>1. \A o \in Jobs : Ready(job[o], lesson, request)  BY DEF Handlers
  <2> QED  BY <1>1, <1>2, <2>1 DEF Undisturbed, Ready
<1> QED  BY <1>1, <1>3, StatementStep

LEMMA HandlersInit == Init => Handlers
<1> SUFFICES ASSUME Init PROVE Handlers
  OBVIOUS
<1>1. Sound(lesson, request)  BY SoundInit DEF Init
<1>2. job \in [Jobs -> Job] /\ \A p \in Jobs : job[p].stage = "idle"
  BY IdleIsJob DEF Init
<1>3. told \in ToldTable  BY DEF Init, ToldTable
<1>4. \A p \in Jobs : Ready(job[p], lesson, request)
  BY <1>2 DEF Ready, CreateStages, AnswerStages, RowStages, TellStages
<1>5. \A p, o \in Jobs : Apart(job[p], job[o])
  BY <1>2 DEF Apart, CreateStages, UserStages, RowStages
<1> QED  BY <1>1, <1>2, <1>3, <1>4, <1>5 DEF Handlers

LEMMA HandlersStep == Handlers /\ [Next]_vars => Handlers'
<1> SUFFICES ASSUME Handlers, [Next]_vars PROVE Handlers'
  OBVIOUS
<1>1. Keeps  BY StepImplementsBook, BookStep DEF Handlers
<1>2. ASSUME NEW p \in Jobs, Step(p)
      PROVE  Handlers'
  BY <1>1, <1>2, ReadStep, CreateInsertStep, ApproveMoveStep, CloseStep, TellStep,
     LessonWriteStep DEF Step
<1>3. ASSUME NEW p \in Jobs, Arrive(p)
      PROVE  Handlers'
  BY <1>3, ArriveKeeps
<1>4. ASSUME NEW p \in Jobs, Crash(p)
      PROVE  Handlers'
  BY <1>4, FinishStep DEF Crash, Handlers
<1>5. CASE SingleStatement  BY <1>1, <1>5, SingleStatementStep
<1>6. CASE UNCHANGED vars
  BY <1>6 DEF vars, Handlers, Sound, Ready, Apart, Waiting, CollisionFree, ToldTable,
              RequestTables
<1> QED  BY <1>2, <1>3, <1>4, <1>5, <1>6 DEF Next

\* The handlers' inductive invariant holds in every reachable state.
THEOREM HandlersInvariant == Spec => []Handlers
<1>1. Init => Handlers  BY HandlersInit
<1>2. Handlers /\ [Next]_vars => Handlers'  BY HandlersStep
<1> QED  BY <1>1, <1>2, PTL DEF Spec

-----------------------------------------------------------------------------
\* createRescheduleRequestCore, approve, reject and cancelRescheduleRequestCore,
\* scheduleLessonCore, rescheduleLessonCore and the schedule actions, a statement at a time
\* and side by side, do what the lesson book does in one step per operation.
THEOREM ImplementsBook == Spec => BookSpec
<1>1. Init => BookInit  BY DEF Init
<1>2. Handlers /\ [Next]_vars => [BookNext]_bookVars  BY StepImplementsBook
<1> QED  BY <1>1, <1>2, HandlersInvariant, PTL DEF Spec, BookSpec

\* The handlers keep lessons, requests, notifications and their local variables well typed.
THEOREM TypeCorrect == Spec => []TypeOK
<1>1. Handlers => TypeOK
  BY DEF Handlers, Sound, TypeOK, BookTypeOK, RequestTables, ToldTable
<1> QED  BY <1>1, HandlersInvariant, PTL

\* No interleaving of the handlers double-books a teacher or a room of a section.
THEOREM NeverDoubleBooked == Spec => []NoDoubleBooking
BY ImplementsBook, BookCollisionFree, PTL

\* No interleaving of create handlers gets a user beyond MaxOpen pending requests.
THEOREM RequestsStayCapped == Spec => []OpenRequestsCapped
BY ImplementsBook, BookCapped, PTL

-----------------------------------------------------------------------------
\* What the notification rows and the calls that write them have to do with the answers.
Settled(q) == request[q] # NoRow /\ request[q].status # "pending"

Answers ==
    /\ \A q \in Requests : ~Settled(q) => told[q].requester = <<>> /\ told[q].teacher = <<>>
    /\ \A q \in Requests : /\ told[q].requester \in {<<>>, <<request[q].status>>}
                           /\ told[q].teacher \in {<<>>, <<request[q].status>>}
    /\ \A p \in Jobs : job[p].stage \in TellStages =>
         /\ Settled(job[p].req)
         /\ request[job[p].req].status = job[p].outcome
         /\ told[job[p].req].teacher = <<>>
         /\ job[p].stage = "tell_requester" => told[job[p].req].requester = <<>>
    /\ \A p, o \in Jobs :
         job[p].stage \in TellStages /\ job[o].stage \in TellStages /\ p # o
           => job[p].req # job[o].req

\* Call p has just answered its request and goes on to tell.
NewAnswer(p) == /\ job[p].req \in Requests /\ Pending(job[p].req)
                /\ job'[p].stage = "tell_requester"
                /\ job'[p].req = job[p].req
                /\ request'[job[p].req].status = job'[p].outcome
                /\ job'[p].outcome \in Outcomes

\* An answer is final.
LEMMA SettledStays ==
    ASSUME Handlers, [Next]_vars, NEW q \in Requests, Settled(q)
    PROVE  request'[q] = request[q]
<1>1. [BookNext]_bookVars /\ request \in RequestTables
  BY StepImplementsBook DEF Handlers, Sound
<1> QED  BY <1>1 DEF BookNext, bookVars, Book, Move, Cancel, AssignRoom, Ask, Grant, Close,
                     Pending, Settled, RequestTables

LEMMA NothingTold ==
    ASSUME Handlers, [Next]_vars, \A p \in Jobs : ~(TellRequester(p) \/ TellTeacher(p))
    PROVE  /\ told' = told
           /\ \/ job' = job
              \/ \E p \in Jobs : /\ \A o \in Jobs \ {p} : job'[o] = job[o]
                                 /\ job'[p].stage \notin TellStages \/ NewAnswer(p)
<1>1. job \in [Jobs -> Job] /\ \A p \in Jobs : job[p] \in Job /\ Ready(job[p], lesson, request)
  BY DEF Handlers
<1>2. ASSUME NEW p \in Jobs, NEW r, job' = [job EXCEPT ![p] = r], r.stage \notin TellStages
      PROVE  /\ \A o \in Jobs \ {p} : job'[o] = job[o]
             /\ job'[p].stage \notin TellStages
  BY <1>1, <1>2
<1>3. ASSUME NEW p \in Jobs, Finish(p)
      PROVE  /\ \A o \in Jobs \ {p} : job'[o] = job[o]
             /\ job'[p].stage \notin TellStages
  BY <1>2, <1>3, IdleIsJob DEF Finish, TellStages
<1>4. ASSUME NEW p \in Jobs, NEW stage \in Stages \ TellStages, Goto(p, stage)
      PROVE  /\ \A o \in Jobs \ {p} : job'[o] = job[o]
             /\ job'[p].stage \notin TellStages
  BY <1>1, <1>4 DEF Goto, Job
<1>5. ASSUME NEW p \in Jobs,
             \/ CreateBegin(p) \/ CreateLock(p) \/ CreateCount(p) \/ CreateInsert(p)
             \/ ApproveBegin(p) \/ ApproveClaim(p) \/ ApproveCheck(p)
             \/ CancelWrite(p) \/ BookInsert(p) \/ MoveWrite(p) \/ Crash(p)
      PROVE  /\ told' = told
             /\ \A o \in Jobs \ {p} : job'[o] = job[o]
             /\ job'[p].stage \notin TellStages
  <2>1. told' = told
    BY <1>5 DEF CreateBegin, CreateLock, CreateCount, CreateInsert, ApproveBegin, ApproveClaim,
                ApproveCheck, CancelWrite, BookInsert, MoveWrite, Crash
  <2>2. Finish(p) \/ \E stage \in Stages \ TellStages : Goto(p, stage)
    BY <1>5 DEF CreateBegin, CreateLock, CreateCount, CreateInsert, ApproveBegin, ApproveClaim,
                ApproveCheck, CancelWrite, BookInsert, MoveWrite, Crash, Stages, TellStages
  <2> QED  BY <2>1, <2>2, <1>3, <1>4
<1>6. ASSUME NEW p \in Jobs, Arrive(p)
      PROVE  /\ told' = told
             /\ \A o \in Jobs \ {p} : job'[o] = job[o]
             /\ job'[p].stage \notin TellStages
  <2>1. told' = told
    BY <1>6 DEF Arrive, CreateCheck, ApproveRead, RejectRead, CancelRead, BookCheck, MoveCheck
  <2>2. /\ \A o \in Jobs \ {p} : job'[o] = job[o]
        /\ job'[p].stage \notin TellStages
    BY <1>1, <1>6 DEF Arrive, CreateCheck, ApproveRead, RejectRead, CancelRead, BookCheck,
                      MoveCheck, Start, Idle, TellStages
  <2> QED  BY <2>1, <2>2
<1>7. ASSUME NEW p \in Jobs, ApproveMove(p) \/ RejectWrite(p)
      PROVE  /\ told' = told
             /\ \A o \in Jobs \ {p} : job'[o] = job[o]
             /\ job'[p].stage \notin TellStages \/ NewAnswer(p)
  <2>1. told' = told  BY <1>7 DEF ApproveMove, RejectWrite
  <2>2. CASE Finish(p)  BY <2>1, <2>2, <1>3
  <2>3. CASE ~Finish(p)
    <3>1. PICK a \in Outcomes :
            /\ request' = [request EXCEPT ![job[p].req].status = a]
            /\ job' = [job EXCEPT ![p].stage = "tell_requester", ![p].outcome = a]
      BY <1>7, <2>3 DEF ApproveMove, RejectWrite, Outcomes
    <3>2. job[p].req \in Requests /\ Pending(job[p].req)
      BY <1>1, <1>7, <2>3 DEF ApproveMove, RejectWrite, At, Ready, AnswerStages, RowStages, Pending
    <3>3. request[job[p].req] \in RequestRow /\ request \in RequestTables
      BY <3>2 DEF Handlers, Sound, RequestTables, Pending
    <3>4. request'[job[p].req].status = a
      BY <3>1, <3>2, <3>3 DEF RequestTables, RequestRow
    <3>5. /\ job'[p].stage = "tell_requester" /\ job'[p].req = job[p].req /\ job'[p].outcome = a
          /\ \A o \in Jobs \ {p} : job'[o] = job[o]
      BY <1>1, <3>1 DEF Job
    <3> QED  BY <2>1, <3>2, <3>4, <3>5 DEF NewAnswer
  <2> QED  BY <2>2, <2>3
<1>8. CASE SingleStatement
  BY <1>8 DEF SingleStatement, CancelLesson, CancelLessons, CancelSeries, SetRoom
<1>9. CASE UNCHANGED vars  BY <1>9 DEF vars
<1>10. ASSUME NEW p \in Jobs, Step(p)
       PROVE  /\ told' = told
              /\ \A o \in Jobs \ {p} : job'[o] = job[o]
              /\ job'[p].stage \notin TellStages \/ NewAnswer(p)
  BY <1>10, <1>5, <1>7 DEF Step
<1> QED  BY <1>5, <1>6, <1>8, <1>9, <1>10 DEF Next

LEMMA AnswersStep == Handlers /\ Answers /\ [Next]_vars => Answers'
<1> SUFFICES ASSUME Handlers, Answers, [Next]_vars PROVE Answers'
  OBVIOUS
<1>1. \A q \in Requests : Settled(q) => request'[q] = request[q]  BY SettledStays
<1>2. \A p \in Jobs : Ready(job[p], lesson, request)  BY DEF Handlers
<1>3. \A p \in Jobs : job[p].stage \in TellStages => job[p].req \in Requests
  BY <1>2 DEF Ready, TellStages, AnswerStages
<1>4. ASSUME \A p \in Jobs : ~(TellRequester(p) \/ TellTeacher(p))
      PROVE  Answers'
  <2>1. told' = told  BY <1>4, NothingTold
  <2>2. \A q \in Requests : (~Settled(q))' =>
          told'[q].requester = <<>> /\ told'[q].teacher = <<>>
    BY <1>1, <2>1 DEF Answers, Settled
  <2>3. \A q \in Requests : /\ told'[q].requester \in {<<>>, <<request'[q].status>>}
                            /\ told'[q].teacher \in {<<>>, <<request'[q].status>>}
    BY <1>1, <2>1 DEF Answers
  <2>4. ASSUME NEW p \in Jobs, job'[p] = job[p], job[p].stage \in TellStages
        PROVE  /\ Settled(job[p].req)'
               /\ request'[job[p].req].status = job[p].outcome
               /\ told'[job[p].req].teacher = <<>>
               /\ job[p].stage = "tell_requester" => told'[job[p].req].requester = <<>>
    BY <1>1, <1>3, <2>1, <2>4 DEF Answers, Settled
  <2>5. CASE job' = job
    BY <2>2, <2>3, <2>4, <2>5 DEF Answers, Settled
  <2>6. ASSUME NEW p \in Jobs, \A o \in Jobs \ {p} : job'[o] = job[o],
               job'[p].stage \notin TellStages
        PROVE  Answers'
    BY <2>2, <2>3, <2>4, <2>6 DEF Answers, Settled
  <2>7. ASSUME NEW p \in Jobs, \A o \in Jobs \ {p} : job'[o] = job[o], NewAnswer(p)
        PROVE  Answers'
    <3>1. told[job[p].req].requester = <<>> /\ told[job[p].req].teacher = <<>>
      BY <2>7 DEF NewAnswer, Answers, Settled, Pending
    <3>2. \A o \in Jobs \ {p} : job[o].stage \in TellStages => job[o].req # job[p].req
      BY <2>7 DEF NewAnswer, Answers, Settled, Pending
    <3>3. request'[job[p].req] # NoRow
      <4>1. RequestsKept(request, request')  BY StepImplementsBook, BookStep DEF Handlers, Keeps
      <4> QED  BY <2>7, <4>1 DEF NewAnswer, RequestsKept, Pending
    <3>4. /\ request'[job'[p].req] # NoRow /\ request'[job'[p].req].status = job'[p].outcome
          /\ request'[job'[p].req].status # "pending"
          /\ told'[job'[p].req].teacher = <<>> /\ told'[job'[p].req].requester = <<>>
      BY <2>1, <2>7, <3>1, <3>3 DEF NewAnswer, Outcomes
    <3>5. \A o \in Jobs \ {p} : job'[o].stage \in TellStages => job'[o].req # job'[p].req
      BY <2>7, <3>2 DEF NewAnswer
    <3> QED  BY <2>2, <2>3, <2>4, <2>7, <3>4, <3>5 DEF Answers, Settled
  <2> QED  BY <1>4, <2>5, <2>6, <2>7, NothingTold
<1>5. ASSUME NEW p \in Jobs, TellRequester(p) \/ TellTeacher(p)
      PROVE  Answers'
  <2> DEFINE q == job[p].req
  <2>1. /\ job \in [Jobs -> Job] /\ told \in ToldTable /\ UNCHANGED request
        /\ job[p] \in Job /\ job[p].stage \in TellStages /\ q \in Requests
        /\ told[q] \in [requester : Seq(Outcomes), teacher : Seq(Outcomes)]
    BY <1>3, <1>5 DEF Handlers, TellRequester, TellTeacher, At, TellStages, ToldTable
  <2>2. /\ request[q] # NoRow /\ request[q].status # "pending"
        /\ request[q].status = job[p].outcome /\ told[q].teacher = <<>>
        /\ job[p].stage = "tell_requester" => told[q].requester = <<>>
    BY <2>1 DEF Answers, Settled
  <2>3. \A o \in Jobs \ {p} : job'[o] = job[o]
    BY <1>5, <2>1 DEF TellRequester, TellTeacher, Goto, Finish
  <2>4. \A o \in Jobs \ {p} : job[o].stage \in TellStages => job[o].req # q
    BY <2>1 DEF Answers
  <2>5. \A s \in Requests \ {q} : told'[s] = told[s]
    BY <1>5, <2>1 DEF TellRequester, TellTeacher, ToldTable
  <2>6. /\ told'[q].requester \in {<<>>, <<request[q].status>>}
        /\ told'[q].teacher \in {<<>>, <<request[q].status>>}
        /\ TellRequester(p) => told'[q].teacher = <<>>
    <3>1. CASE TellRequester(p)
      <4>1. told'[q] = [told[q] EXCEPT !.requester = Append(@, job[p].outcome)]
        BY <2>1, <3>1 DEF TellRequester, ToldTable
      <4>2. job[p].stage = "tell_requester"  BY <3>1 DEF TellRequester, At
      <4>3. /\ told'[q].requester = Append(<<>>, job[p].outcome)
            /\ told'[q].teacher = <<>>
        BY <2>1, <2>2, <4>1, <4>2
      <4>4. Append(<<>>, job[p].outcome) = <<job[p].outcome>>  OBVIOUS
      <4> QED  BY <2>2, <4>3, <4>4
    <3>2. CASE TellTeacher(p)
      <4>1. \/ told'[q] = [told[q] EXCEPT !.teacher = Append(@, job[p].outcome)]
            \/ told'[q] = told[q]
        BY <2>1, <3>2 DEF TellTeacher, ToldTable
      <4>2. ~TellRequester(p)  BY <3>2 DEF TellTeacher, TellRequester, At
      <4>3. told[q].requester \in {<<>>, <<request[q].status>>}  BY <2>1 DEF Answers
      <4>4. Append(<<>>, job[p].outcome) = <<job[p].outcome>>  OBVIOUS
      <4>5. /\ told'[q].requester = told[q].requester
            /\ told'[q].teacher \in {<<>>, <<job[p].outcome>>}
        BY <2>1, <2>2, <4>1, <4>4
      <4> QED  BY <2>2, <4>2, <4>3, <4>5
    <3> QED  BY <1>5, <3>1, <3>2
  <2>7. job'[p].stage \in TellStages =>
           TellRequester(p) /\ job'[p].stage = "tell_teacher" /\ job'[p].req = q
                            /\ job'[p].outcome = job[p].outcome
    BY <1>5, <2>1, IdleIsJob DEF TellRequester, TellTeacher, Goto, Finish, Job, TellStages
  <2>8. \A s \in Requests : (~Settled(s))' =>
          told'[s].requester = <<>> /\ told'[s].teacher = <<>>
    BY <2>1, <2>2, <2>5 DEF Answers, Settled
  <2>9. \A s \in Requests : /\ told'[s].requester \in {<<>>, <<request'[s].status>>}
                            /\ told'[s].teacher \in {<<>>, <<request'[s].status>>}
    BY <2>1, <2>5, <2>6 DEF Answers
  <2>10. ASSUME NEW o \in Jobs, job'[o].stage \in TellStages
         PROVE  /\ Settled(job[o].req)' /\ job'[o].req = job[o].req
                /\ request'[job'[o].req].status = job'[o].outcome
                /\ told'[job'[o].req].teacher = <<>>
                /\ job'[o].stage = "tell_requester" => told'[job'[o].req].requester = <<>>
    <3>1. CASE o = p  BY <2>1, <2>2, <2>6, <2>7, <2>10, <3>1 DEF Settled
    <3>2. CASE o # p
      BY <1>3, <2>1, <2>3, <2>4, <2>5, <2>10, <3>2 DEF Answers, Settled
    <3> QED  BY <3>1, <3>2
  <2>11. \A o, n \in Jobs :
           job'[o].stage \in TellStages /\ job'[n].stage \in TellStages /\ o # n
             => job'[o].req # job'[n].req
    BY <2>1, <2>3, <2>7, <2>10 DEF Answers
  <2> QED  BY <2>8, <2>9, <2>10, <2>11 DEF Answers, Settled
<1> QED  BY <1>4, <1>5

\* The requester and the teacher hear each answer at most once, and hear the final one.
THEOREM AnswerToldOnce == Spec => []ToldTheAnswerOnce
<1>1. Init => Answers
  BY IdleIsJob DEF Init, BookInit, Answers, Settled, TellStages
<1>2. Answers => ToldTheAnswerOnce
  BY DEF Answers, ToldTheAnswerOnce, Settled
<1> QED  BY <1>1, <1>2, AnswersStep, HandlersInvariant, PTL DEF Spec
-----------------------------------------------------------------------------
(* Why every call ends.  Liveness is TLC's, but its two halves are proved  *)
(* for any number of calls and any pool: somebody's next statement waits   *)
(* for nothing, and no call runs more statements than its stage allows.    *)

PoolStages  == {"create_begin", "approve_begin", "reject_write", "cancel_write", "book_insert",
                "move_write"} \cup TellStages
ClaimStages == {"approve_claim", "reject_write", "cancel_write"}

\* What the next statement of p waits for is free.
MayGo(p) == /\ ~At(p, "idle")
            /\ job[p].stage \in PoolStages => ConnectionFree
            /\ At(p, "create_lock") => UserLockFree(p, job[p].user)
            /\ job[p].stage \in ClaimStages => RowLockFree(p, job[p].req)

LEMMA StepMayGo ==
    ASSUME NEW p \in Jobs, Step(p)
    PROVE  MayGo(p)
<1>1. CASE CreateBegin(p) \/ CreateLock(p) \/ CreateCount(p) \/ CreateInsert(p)
  BY <1>1 DEF CreateBegin, CreateLock, CreateCount, CreateInsert, At, MayGo, PoolStages,
              ClaimStages, TellStages
<1>2. CASE ApproveBegin(p) \/ ApproveClaim(p) \/ ApproveCheck(p) \/ ApproveMove(p)
  BY <1>2 DEF ApproveBegin, ApproveClaim, ApproveCheck, ApproveMove, At, MayGo, PoolStages,
              ClaimStages, TellStages
<1>3. CASE RejectWrite(p) \/ CancelWrite(p) \/ TellRequester(p) \/ TellTeacher(p)
  BY <1>3 DEF RejectWrite, CancelWrite, TellRequester, TellTeacher, At, MayGo, PoolStages,
              ClaimStages, TellStages
<1>4. CASE BookInsert(p) \/ MoveWrite(p)
  BY <1>4 DEF BookInsert, MoveWrite, At, MayGo, PoolStages, ClaimStages, TellStages
<1> QED  BY <1>1, <1>2, <1>3, <1>4 DEF Step

\* While some call is in flight, the next statement of some call waits for nothing: whoever holds a
\* lock waits for none and has its connection, and whoever waits for a lock inside a transaction
\* has its connection too (pool exhaustion, H7 in reschedule-core.ts).
THEOREM NeverAtAStandstill ==
    (\E p \in Jobs : ~At(p, "idle")) => \E p \in Jobs : MayGo(p)
<1> SUFFICES ASSUME NEW p \in Jobs, ~At(p, "idle") PROVE \E o \in Jobs : MayGo(o)  OBVIOUS
<1> DEFINE locking == UserStages \cup RowStages
<1>1. CASE \E o \in Jobs : job[o].stage \in locking
  BY <1>1 DEF UserStages, RowStages, At, MayGo, PoolStages, ClaimStages, TellStages
<1>2. CASE ~\E o \in Jobs : job[o].stage \in locking
  <2>1. \A o \in Jobs : UserLockFree(o, job[o].user) /\ RowLockFree(o, job[o].req)
    BY <1>2 DEF UserLockFree, RowLockFree, HoldsUserLock, HoldsRowLock, UserStages, RowStages
  <2>2. CASE \E o \in Jobs : InTx(o)
    BY <1>2, <2>1, <2>2 DEF InTx, CreateTx, ApproveTx, UserStages, RowStages, At, MayGo,
                            PoolStages, ClaimStages, TellStages
  <2>3. CASE ~\E o \in Jobs : InTx(o)
    <3>1. {o \in Jobs : InTx(o)} = {}  BY <2>3
    <3>2. ConnectionFree  BY <3>1, FS_EmptySet, JobAssumption DEF ConnectionFree
    <3> QED  BY <2>1, <3>2 DEF MayGo
  <2> QED  BY <2>2, <2>3
<1> QED  BY <1>1, <1>2

\* How many statements a call has left at most, by its stage.
Left(stage) == CASE stage \in {"create_insert", "cancel_write", "book_insert", "move_write",
                               "tell_teacher"}                                -> 1
                 [] stage \in {"create_count", "tell_requester"}              -> 2
                 [] stage \in {"create_lock", "reject_write", "approve_move"} -> 3
                 [] stage \in {"create_begin", "approve_check"}               -> 4
                 [] stage = "approve_claim"                                   -> 5
                 [] stage = "approve_begin"                                   -> 6
                 [] OTHER                                                     -> 0

LEMMA StepLeavesLess ==
    ASSUME NEW p \in Jobs, job \in [Jobs -> Job], Step(p) \/ Crash(p)
    PROVE  /\ Left(job'[p].stage) < Left(job[p].stage)
           /\ \A o \in Jobs \ {p} : job'[o] = job[o]
<1>1. CASE CreateBegin(p) \/ CreateLock(p) \/ CreateCount(p) \/ CreateInsert(p)
  BY <1>1, IdleIsJob DEF CreateBegin, CreateLock, CreateCount, CreateInsert, Goto, Finish, At, Left, Job
<1>2. CASE ApproveBegin(p) \/ ApproveClaim(p) \/ ApproveCheck(p) \/ ApproveMove(p)
  BY <1>2, IdleIsJob DEF ApproveBegin, ApproveClaim, ApproveCheck, ApproveMove, Goto, Finish, At, Left, Job
<1>3. CASE RejectWrite(p) \/ CancelWrite(p) \/ TellRequester(p) \/ TellTeacher(p)
  BY <1>3, IdleIsJob DEF RejectWrite, CancelWrite, TellRequester, TellTeacher, Goto, Finish, At, Left, Job
<1>4. CASE BookInsert(p) \/ MoveWrite(p)
  BY <1>4, IdleIsJob DEF BookInsert, MoveWrite, Finish, At, Left, Job
<1>5. CASE Crash(p)
  <2>1. job[p].stage \in Stages \ {"idle"}  BY <1>5 DEF Crash, At, Job
  <2>2. job'[p] = Idle /\ \A o \in Jobs \ {p} : job'[o] = job[o]  BY <1>5 DEF Crash, Finish
  <2> QED  BY <2>1, <2>2, IdleIsJob DEF Left, Stages
<1> QED  BY <1>1, <1>2, <1>3, <1>4, <1>5 DEF Step

\* Each statement brings its call closer to the end, and nobody else's statement takes it back or
\* further: no handler retries, and none goes back to a stage it has left.
THEOREM CallsRunOut ==
    Spec => [][\A p \in Jobs : ~At(p, "idle") /\ job'[p] # job[p]
                                  => Left(job'[p].stage) < Left(job[p].stage)]_vars
<1> DEFINE Less == \A p \in Jobs : ~At(p, "idle") /\ job'[p] # job[p]
                                      => Left(job'[p].stage) < Left(job[p].stage)
<1>1. ASSUME Handlers, [Next]_vars PROVE [Less]_vars
  <2>1. job \in [Jobs -> Job]  BY <1>1 DEF Handlers
  <2>2. ASSUME NEW p \in Jobs, Step(p) \/ Crash(p) PROVE Less  BY <2>1, <2>2, StepLeavesLess
  <2>3. ASSUME NEW p \in Jobs, Arrive(p) PROVE Less
    <3>1. At(p, "idle") /\ \A o \in Jobs \ {p} : job'[o] = job[o]
      BY <2>1, <2>3 DEF Arrive, CreateCheck, ApproveRead, RejectRead, CancelRead, BookCheck,
                        MoveCheck, Start
    <3> QED  BY <3>1
  <2>4. CASE SingleStatement
    BY <2>4 DEF SingleStatement, CancelLesson, CancelLessons, CancelSeries, SetRoom
  <2> QED  BY <1>1, <2>2, <2>3, <2>4 DEF Next
<1> QED  BY <1>1, HandlersInvariant, PTL DEF Spec
=============================================================================
