------------------------------ MODULE McpDesk ------------------------------
(***************************************************************************)
(* The write tools an assistant reaches over MCP.  A preview checks a      *)
(* change and hands out a token for it; the confirmation that carries the  *)
(* token and the same arguments makes the change.  The tokens live in the  *)
(* server process, the assistant may call the tools in any order, twice or *)
(* with other arguments, and other desks move the lessons meanwhile.       *)
(***************************************************************************)
EXTENDS Statements, Integers, FiniteSets

CONSTANTS
    ClassSlots, \* the times a lesson of the class may take
    MaxToken,   \* bound: tokens ever issued
    LastTick,   \* bound: how far the clock goes
    Ttl         \* TTL_MS

ASSUME McpAssumption == Ttl \in Nat /\ MaxToken \in Nat /\ LastTick \in Nat

VARIABLES
    tick,       \* Date.now(), in units that Ttl counts
    pending,    \* store: what each token that was issued and not consumed is bound to
    principal,  \* what the configured user is: a teacher of the class, banned or not, or a "stranger"
    classBook,  \* the slots of the class's lessons, by id; lesson 1 is the one that moves
    tool,       \* tool[p]: the call, its arguments, and where it has got to
    issued,     \* history: the payload and the time of every token
    spoilt,     \* history: tokens that were refused once
    confirmed   \* history: the changes made, with the token and the time it was consumed

mcpVars == <<tick, pending, principal, classBook, tool, issued, spoilt, confirmed>>

Payloads == [change : {"schedule", "reschedule"}, slot : ClassSlots]
NoTool   == [stage |-> "idle", payload |-> Nothing, token |-> 0, at |-> 0]
Lesson   == 1..2
Moved    == 1

EndTool(p) == tool' = [tool EXCEPT ![p] = NoTool]

\* lesson_no_teacher_overlap, and checkTeacherConflict before it; a move does not meet itself.
Clash(a) == \E l \in Lesson : /\ classBook[l] = a.slot
                              /\ a.change = "reschedule" => l # Moved

InitMcp == /\ tick = 0
           /\ pending = {}
           /\ principal = "teacher"
           /\ classBook \in [Lesson -> ClassSlots \cup {Nothing}]
           /\ classBook[1] # Nothing /\ classBook[2] = Nothing
           /\ tool = [p \in Calls |-> NoTool]
           /\ issued = {}
           /\ spoilt = {}
           /\ confirmed = {}

-----------------------------------------------------------------------------
(* The tools.  resolveMcpAuthContext reads the principal anew in each, and *)
(* refuses one that is banned.                                             *)

\* A stranger to the class is told that it does not exist, and a conflict ends the preview; what
\* is read serves only to refuse, so it is one step.  issueConfirmation sweeps what has expired.
Preview(a) ==
    LET t == Cardinality(issued) + 1 IN
    /\ principal = "teacher"
    /\ ~Clash(a)
    /\ t <= MaxToken
    /\ pending' = {e \in pending : e.expires >= tick}
                     \cup {[token |-> t, payload |-> a, expires |-> tick + Ttl]}
    /\ issued' = issued \cup {[token |-> t, payload |-> a, at |-> tick]}
    /\ UNCHANGED <<tick, principal, classBook, tool, spoilt, confirmed>>

Fitting(a, t) == {e \in pending : e.token = t /\ e.payload = a /\ e.expires >= tick}
Accepted(t)   == \/ \E c \in confirmed : c.token = t
                 \/ \E p \in Calls : tool[p].token = t

\* consumeConfirmation deletes the token whether or not it fits, before anything is awaited.
ConsumeWhatFits(a, t) == pending' = pending \ Fitting(a, t)
Consume(a, t) == pending' = {e \in pending : e.token # t}

Confirm(p, a, t) ==
    /\ tool[p].stage = "idle"
    /\ principal # "banned"
    /\ Consume(a, t)
    /\ IF Fitting(a, t) # {}
       THEN /\ tool' = [tool EXCEPT ![p] = [stage |-> "write", payload |-> a, token |-> t,
                                            at |-> tick]]
            /\ UNCHANGED spoilt
       ELSE /\ spoilt' = IF Accepted(t) THEN spoilt ELSE spoilt \cup {t}
            /\ UNCHANGED tool
    /\ UNCHANGED <<tick, principal, classBook, issued, confirmed>>

\* scheduleLessonCore and rescheduleLessonCore: the class and the conflict are looked at again, but
\* the principal is the one read when the call began: a ban since then does not stop the write.
WriteChange(p) ==
    LET a == tool[p].payload
        l == IF a.change = "reschedule" THEN Moved ELSE 2 IN
    /\ tool[p].stage = "write"
    /\ IF principal # "stranger" /\ ~Clash(a) /\ (l # Moved => classBook[l] = Nothing)
       THEN /\ classBook' = [classBook EXCEPT ![l] = a.slot]
            /\ confirmed' = confirmed \cup {[token |-> tool[p].token, payload |-> a,
                                             at |-> tool[p].at, nth |-> Cardinality(confirmed)]}
       ELSE UNCHANGED <<classBook, confirmed>>
    /\ EndTool(p)
    /\ UNCHANGED <<tick, pending, principal, issued, spoilt>>

\* runTool turns what is thrown into an answer; the connection may also just end.
BreakTool(p) ==
    /\ tool[p].stage # "idle"
    /\ EndTool(p)
    /\ UNCHANGED <<tick, pending, principal, classBook, issued, spoilt, confirmed>>

-----------------------------------------------------------------------------
(* Around the tools *)

\* The process restarts: the tokens are gone, and the calls with them.
RestartServer ==
    /\ pending # {}
    /\ pending' = {}
    /\ tool' = [p \in Calls |-> NoTool]
    /\ UNCHANGED <<tick, principal, classBook, issued, spoilt, confirmed>>

TickMcp ==
    /\ tick < LastTick
    /\ tick' = tick + 1
    /\ UNCHANGED <<pending, principal, classBook, tool, issued, spoilt, confirmed>>

ChangePrincipal(st) ==
    /\ principal # st
    /\ principal' = st
    /\ UNCHANGED <<tick, pending, classBook, tool, issued, spoilt, confirmed>>

MoveAtAnotherDesk(l, s) ==
    /\ classBook[l] # Nothing
    /\ \A k \in Lesson : classBook[k] # s
    /\ classBook' = [classBook EXCEPT ![l] = s]
    /\ UNCHANGED <<tick, pending, principal, tool, issued, spoilt, confirmed>>

NextMcp ==
    \/ \E p \in Calls :
          \/ \E a \in Payloads, i \in issued : Confirm(p, a, i.token)
          \/ WriteChange(p) \/ BreakTool(p)
    \/ \E a \in Payloads : Preview(a)
    \/ RestartServer \/ TickMcp
    \/ \E st \in {"teacher", "stranger", "banned"} : ChangePrincipal(st)
    \/ \E l \in Lesson, s \in ClassSlots : MoveAtAnotherDesk(l, s)

SpecMcp == InitMcp /\ [][NextMcp]_mcpVars

-----------------------------------------------------------------------------
TypeOKMcp ==
    /\ tick \in 0..LastTick
    /\ pending \subseteq [token : 1..MaxToken, payload : Payloads, expires : 0..LastTick + Ttl]
    /\ principal \in {"teacher", "stranger", "banned"}
    /\ classBook \in [Lesson -> ClassSlots \cup {Nothing}]
    /\ \A p \in Calls : tool[p].stage \in {"idle", "write"}

\* An assistant changes the timetable only by what was previewed: each change has a token of its
\* own, was previewed with the same arguments no longer than the time to live before, and its
\* token had not been refused before.  So a confirmation that is sent again never undoes what
\* another desk did after the first (mcp-confirm.ts:43-54).
WrittenAsPreviewed ==
    /\ \A c \in confirmed :
          /\ c.token \notin spoilt
          /\ \E i \in issued : /\ i.token = c.token /\ i.payload = c.payload
                               /\ i.at <= c.at /\ c.at <= i.at + Ttl
    /\ \A c, d \in confirmed : c.token = d.token => c = d
=============================================================================
