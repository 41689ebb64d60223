------------------------------ MODULE Drafting ------------------------------
(***************************************************************************)
(* Drafting a progress report with a language model abroad: the panel of   *)
(* each teacher, the limiter in front of the draft, the organization's     *)
(* one-time acknowledgement that pupils' data leaves the country, the call *)
(* to the provider with its retry, and the draft that is stored.  What     *)
(* becomes of a draft is in Report.                                        *)
(***************************************************************************)
EXTENDS Statements, Integers, FiniteSets

CONSTANTS
    Teachers,   \* the panels in which a draft may be asked for
    Limit,      \* drafts a user may ask for in one window
    Window,     \* windowMs, in ticks of the clock
    Midnight,   \* bound: how far the clock goes
    MaxRetries  \* LLM_MAX_RETRIES

VARIABLES
    minute,     \* the clock
    hits,       \* hits[u]: what the limiter has on record for u's key, in no order
    orgAck,     \* who acknowledged in organization.metadata, or Nothing
    orgOthers,  \* the other keys there: "none", "some", or "corrupt" JSON
    ackRow,     \* the teacher whose transaction has the organization's row FOR UPDATE
    panel,      \* panel[u]: where u's transition stands, and whether the notice shows
    sent,       \* history: the acknowledgements found by the calls that sent data out
    admitted,   \* history: admitted[u], the hits of u's drafts that were let through
    refused     \* history: the refusals, by user and time

draftVars == <<minute, hits, orgAck, orgOthers, ackRow, panel, sent, admitted, refused>>

PanelAt(u, st) == panel[u].stage = st
GoTo(u, st)    == panel' = [panel EXCEPT ![u].stage = st]
Recent(hs, now) == {h \in hs : h.at > now - Window}

\* The next hit of u: two in one minute are two.
NextHit(u) == [at |-> minute, nth |-> Cardinality(admitted[u]) + 1]

ASSUME DraftAssumption == /\ Limit \in Nat /\ Window \in Nat /\ Midnight \in Nat /\ MaxRetries \in Nat
                          /\ Nothing \notin Teachers

InitDraft ==
    /\ minute = 0
    /\ hits = [u \in Teachers |-> {}] /\ admitted = hits
    /\ orgAck = Nothing
    /\ orgOthers \in {"some", "corrupt"}
    /\ ackRow = Nothing
    /\ panel = [u \in Teachers |-> [stage |-> "idle", notice |-> FALSE, tries |-> 0, found |-> Nothing]]
    /\ sent = {} /\ refused = {}

-----------------------------------------------------------------------------
(* createReportDraft *)

\* What the limiter keeps after a request it turns down, and one it lets through.
KeepBlockedToo(u) == Recent(hits[u], minute) \cup {NextHit(u)}
KeepBlocked(u) == Recent(hits[u], minute)

\* The form wants a pupil and both dates, the button is off while a transition is pending, and the
\* acknowledgement goes on to here by itself.  actorOwnsStudent and getReportData come next.
Generate(u) ==
    /\ PanelAt(u, "idle") \/ PanelAt(u, "again")
    /\ IF Cardinality(Recent(hits[u], minute)) >= Limit
       THEN /\ hits' = [hits EXCEPT ![u] = KeepBlocked(u)]
            /\ refused' = refused \cup {[user |-> u, at |-> minute]}
            /\ GoTo(u, "idle")
            /\ UNCHANGED admitted
       ELSE /\ hits' = [hits EXCEPT ![u] = Recent(@, minute) \cup {NextHit(u)}]
            /\ admitted' = [admitted EXCEPT ![u] = @ \cup {NextHit(u)}]
            /\ GoTo(u, "gate")
            /\ UNCHANGED refused
    /\ UNCHANGED <<minute, orgAck, orgOthers, ackRow, sent>>

\* requireCrossBorderAiAck: without an acknowledgement the panel shows the notice.
Gate(u) ==
    /\ PanelAt(u, "gate")
    /\ panel' = [panel EXCEPT ![u] =
                    IF orgAck = Nothing
                    THEN [@ EXCEPT !.stage = "idle", !.notice = TRUE]
                    ELSE [@ EXCEPT !.stage = "provider", !.tries = 0, !.found = orgAck]]
    /\ UNCHANGED <<minute, hits, orgAck, orgOthers, ackRow, sent, admitted, refused>>

\* draftNarrative: the SDK sends the prompt, and once more after a failure or a time-out.
SendPrompt(u) ==
    /\ PanelAt(u, "provider")
    /\ panel[u].tries <= MaxRetries
    /\ sent' = sent \cup {panel[u].found}
    /\ panel' = [panel EXCEPT ![u].tries = @ + 1]
    /\ UNCHANGED <<minute, hits, orgAck, orgOthers, ackRow, admitted, refused>>

\* A narrative that is neither empty nor a refusal is inserted as a draft; a missing key and
\* whatever else fails on the way there ends the transition with an error.
EndDraft(u, stored) ==
    /\ PanelAt(u, "provider")
    /\ stored => panel[u].tries > 0
    /\ panel' = [panel EXCEPT ![u] = [@ EXCEPT !.stage = "idle", !.tries = 0, !.found = Nothing,
                                               !.notice = panel[u].notice /\ ~stored]]
    /\ UNCHANGED <<minute, hits, orgAck, orgOthers, ackRow, sent, admitted, refused>>

-----------------------------------------------------------------------------
(* acknowledgeCrossBorderAi, from the notice; the draft is then asked for again *)

ConfirmAndGenerate(u) ==
    /\ PanelAt(u, "idle")
    /\ panel[u].notice
    /\ GoTo(u, "acknowledge")
    /\ UNCHANGED <<minute, hits, orgAck, orgOthers, ackRow, sent, admitted, refused>>

\* SELECT ... FOR UPDATE waits for the transaction that has the row; a second acknowledgement
\* finds the first one and ends there.
RowReadPlainly == TRUE
RowFree == ackRow = Nothing

Acknowledged(u) == panel' = [panel EXCEPT ![u] = [@ EXCEPT !.stage = "again", !.notice = FALSE]]

ReadMetadata(u) ==
    /\ PanelAt(u, "acknowledge")
    /\ RowFree
    /\ IF orgAck = Nothing
       THEN ackRow' = u /\ GoTo(u, "merge")
       ELSE UNCHANGED ackRow /\ Acknowledged(u)
    /\ UNCHANGED <<minute, hits, orgAck, orgOthers, sent, admitted, refused>>

\* withCrossBorderAck keeps the other keys, and starts afresh over JSON it cannot read; then the
\* update and the commit.
MergeAck(u) ==
    /\ PanelAt(u, "merge")
    /\ orgAck' = u
    /\ orgOthers' = IF orgOthers = "corrupt" THEN "none" ELSE orgOthers
    /\ ackRow' = Nothing
    /\ Acknowledged(u)
    /\ UNCHANGED <<minute, hits, sent, admitted, refused>>

-----------------------------------------------------------------------------
\* A statement fails or the session has ended: the panel shows the error and is free again, and
\* an open transaction is rolled back.
FailDraft(u) ==
    /\ \E st \in {"gate", "acknowledge", "merge", "again"} : PanelAt(u, st)
    /\ ackRow' = IF ackRow = u THEN Nothing ELSE ackRow
    /\ GoTo(u, "idle")
    /\ UNCHANGED <<minute, hits, orgAck, orgOthers, sent, admitted, refused>>

\* The process restarts: the limiter forgets, and its history starts again.
RestartProcess ==
    /\ \E u \in Teachers : hits[u] # {}
    /\ hits' = [u \in Teachers |-> {}] /\ admitted' = hits' /\ refused' = {}
    /\ panel' = [u \in Teachers |-> [panel[u] EXCEPT !.stage = "idle", !.tries = 0, !.found = Nothing]]
    /\ ackRow' = Nothing
    /\ UNCHANGED <<minute, orgAck, orgOthers, sent>>

MinutePasses ==
    /\ minute < Midnight
    /\ minute' = minute + 1
    /\ UNCHANGED <<hits, orgAck, orgOthers, ackRow, panel, sent, admitted, refused>>

NextDraft ==
    \/ \E u \in Teachers :
          \/ Generate(u) \/ Gate(u) \/ SendPrompt(u) \/ (\E b \in BOOLEAN : EndDraft(u, b))
          \/ ConfirmAndGenerate(u) \/ ReadMetadata(u) \/ MergeAck(u)
          \/ FailDraft(u)
    \/ RestartProcess \/ MinutePasses

SpecDraft == InitDraft /\ [][NextDraft]_draftVars

-----------------------------------------------------------------------------
TypeOKDraft ==
    /\ minute \in 0..Midnight
    /\ \A u \in Teachers : Cardinality(hits[u]) <= Limit
    /\ orgAck \in Teachers \cup {Nothing}
    /\ orgOthers \in {"none", "some", "corrupt"}
    /\ ackRow \in Teachers \cup {Nothing}
    /\ \A u \in Teachers : panel[u].notice \in BOOLEAN /\ panel[u].tries \in 0..MaxRetries + 1

\* Whenever pupils' data went to the provider, on a first try or a retry, the acknowledgement the
\* metadata shows today was already there: the first one stands however many teachers confirm
\* the notice at once, and no call goes out before it (report-consent.ts:87-103).
AckBehindEverySend == \A a \in sent : a # Nothing /\ a = orgAck

InWindow(u, now) == {h \in admitted[u] : now - Window < h.at /\ h.at <= now}

\* The limiter counts what it let through and nothing else: no window holds more drafts than the
\* limit, and a user is turned down only when the window is full, so hammering does not prolong
\* the wait (rate-limit.ts:38-41).
LimiterExact ==
    /\ \A u \in Teachers, now \in 0..minute : Cardinality(InWindow(u, now)) <= Limit
    /\ \A r \in refused : Cardinality(InWindow(r.user, r.at)) = Limit
=============================================================================
