------------------------------ MODULE Campaign ------------------------------
(***************************************************************************)
(* One e-mail campaign of the site console: sendCampaignCore claims the    *)
(* row with a conditional UPDATE, mails the active subscribers that are    *)
(* not in the delivery ledger batch by batch, and records each batch after *)
(* SMTP reported it.  A claim older than Stale counts as abandoned and may *)
(* be taken over, whether its call has died or is only slow: nothing       *)
(* bounds how long a send takes.  Calls of the admin overlap, crash and    *)
(* retry.                                                                  *)
(*                                                                         *)
(* lastRun, clashes and overrun, and the fields audience and met of a      *)
(* call, are history variables: no guard but the bound on SendRead reads   *)
(* them.  SMTP is configured in this model: without it every call throws before   *)
(* its first write (line 81).                                              *)
(***************************************************************************)
EXTENDS Naturals, FiniteSets

CONSTANTS
    Sends,      \* calls of sendCampaignCore in flight at one time
    Emails,     \* addresses
    BatchSize,  \* BATCH_SIZE
    Stale,      \* STALE_SENDING_MS
    MaxTime,    \* bound on the clock
    MaxFaults,  \* bound on crashes, failed statements and lost answers of SMTP
    MaxClashes  \* bound on calls begun after runs met

VARIABLES
    status,     \* email_campaigns.status, or "gone" once the row is deleted
    claimedAt,  \* email_campaigns.updated_at as the claim wrote it
    count,      \* email_campaigns.recipient_count
    ledger,     \* addresses in email_deliveries for this campaign
    active,     \* subscribers with status 'active'
    inbox,      \* inbox[e]: copies SMTP accepted for e
    send,       \* send[p]: where call p stands, with its local variables
    lastRun,    \* the run that marked the campaign sent: its audience, and whether it met another
    clashes,    \* claims made while another call works, and lists read once the campaign is gone
    overrun,    \* whether a call has outlived Stale
    now,        \* the clock
    faults      \* crashes, failed statements and lost answers so far

row     == <<status, claimedAt, count>>
history == <<lastRun, clashes, overrun>>
vars    == <<row, ledger, active, inbox, send, history, now, faults>>

Working == {"lists", "batch", "book", "mark_failed"}
Stages  == {"idle", "claim"} \cup Working

Send == [stage    : Stages,
         since    : 0..MaxTime,
         audience : SUBSET Emails,   \* the active subscribers it read
         todo     : SUBSET Emails,
         sent     : SUBSET Emails,
         done     : 0..Cardinality(Emails),
         bad      : BOOLEAN,
         met      : BOOLEAN]         \* whether another call worked beside it

Idle == [stage |-> "idle", since |-> 0, audience |-> {}, todo |-> {}, sent |-> {}, done |-> 0,
         bad |-> FALSE, met |-> FALSE]

ASSUME SendAssumption == /\ IsFiniteSet(Sends) /\ IsFiniteSet(Emails)
                         /\ BatchSize \in Nat \ {0}
                         /\ MaxTime \in Nat /\ MaxFaults \in Nat /\ MaxClashes \in Nat
                         /\ Stale \in Nat

TypeOK == /\ status \in {"draft", "sending", "sent", "failed", "gone"}
          /\ claimedAt \in 0..MaxTime
          /\ count \in 0..Cardinality(Emails)
          /\ ledger \subseteq Emails
          /\ active \subseteq Emails
          /\ inbox \in [Emails -> Nat]
          /\ send \in [Sends -> Send]
          /\ lastRun \in [audience : SUBSET Emails, alone : BOOLEAN]
          /\ clashes \in Nat
          /\ overrun \in BOOLEAN
          /\ now \in 0..MaxTime
          /\ faults \in 0..MaxFaults

Init == /\ status = "draft"
        /\ claimedAt = 0
        /\ count = 0
        /\ ledger = {}
        /\ active \in SUBSET Emails
        /\ inbox = [e \in Emails |-> 0]
        /\ send = [p \in Sends |-> Idle]
        /\ lastRun = [audience |-> {}, alone |-> TRUE]
        /\ clashes = 0
        /\ overrun = FALSE
        /\ now = 0
        /\ faults = 0

At(p, stage)   == send[p].stage = stage
Goto(p, stage) == send' = [send EXCEPT ![p].stage = stage]
Finish(p)      == send' = [send EXCEPT ![p] = Idle]
Others(p)      == {q \in Sends \ {p} : send[q].stage \in Working}

-----------------------------------------------------------------------------
(* sendCampaignCore *)

SendRead(p) == /\ At(p, "idle")
               /\ status # "gone"
               /\ clashes < MaxClashes
               /\ send' = [send EXCEPT ![p] = [Idle EXCEPT !.stage = "claim", !.since = now]]
               /\ UNCHANGED <<row, ledger, active, inbox, history, now, faults>>

\* The call takes the row; a call that still works on it is met.
Claim(p) == /\ status' = "sending"
            /\ claimedAt' = send[p].since
            /\ send' = [q \in Sends |->
                           IF q = p THEN [send[q] EXCEPT !.stage = "lists", !.met = Others(p) # {}]
                           ELSE [send[q] EXCEPT !.met = @ \/ q \in Others(p)]]
            /\ clashes' = IF Others(p) = {} THEN clashes ELSE clashes + 1

Claimable(p) == \/ status \in {"draft", "failed"}
                \/ status = "sending" /\ claimedAt + Stale < send[p].since

\* One UPDATE: of two calls that race for the row the second one matches nothing.
SendClaim(p) ==
    /\ At(p, "claim")
    /\ \/ Claimable(p) /\ Claim(p)
       \/ ~Claimable(p) /\ Finish(p) /\ UNCHANGED <<status, claimedAt, clashes>>
    /\ UNCHANGED <<count, ledger, active, inbox, lastRun, overrun, now, faults>>

\* The call has its lists: whom it shall mail, and how many it counts as done already.
WithLists(p, todo, done) ==
    /\ send' = [send EXCEPT ![p].audience = active, ![p].todo = todo, ![p].done = done,
                            ![p].stage = IF active = {} THEN "mark_failed" ELSE "batch"]
    /\ clashes' = IF status = "gone" THEN clashes + 1 ELSE clashes
    /\ UNCHANGED <<row, ledger, active, inbox, lastRun, overrun, now, faults>>

\* Mutant: the retry mails the whole audience again.
SendListsAll(p) == At(p, "lists") /\ WithLists(p, active, Cardinality(ledger))

\* Mutant: the count starts from everybody who has or shall get the mail.
SendListsUnion(p) == At(p, "lists") /\ WithLists(p, active \ ledger, Cardinality(ledger \cup active))

\* The two reads of the Promise.all and partitionRecipients.
SendLists(p) == At(p, "lists") /\ WithLists(p, active \ ledger, Cardinality(ledger))

NextBatch(p) == {b \in SUBSET send[p].todo :
                    \/ Cardinality(b) = BatchSize
                    \/ b = send[p].todo /\ Cardinality(b) < BatchSize}

AfterBatch(j, b, ok) == [j EXCEPT !.stage = IF ok = {} THEN "batch" ELSE "book",
                                  !.todo = @ \ b, !.sent = ok, !.bad = @ \/ ok # b]

\* sendMailBatchSettled: SMTP takes each mail of the batch (got) or not, and reports it as
\* delivered (ok) or failed; a mail it took is reported failed when its answer is lost, at the
\* latest after the socket's time-out.
SendBatch(p) ==
    /\ At(p, "batch")
    /\ send[p].todo # {}
    /\ \E b \in NextBatch(p) : \E got \in SUBSET b : \E ok \in SUBSET got :
          /\ inbox' = [e \in Emails |-> IF e \in got THEN inbox[e] + 1 ELSE inbox[e]]
          /\ send' = [send EXCEPT ![p] = AfterBatch(@, b, ok)]
          /\ \/ ok = got /\ faults' = faults
             \/ ok # got /\ faults < MaxFaults /\ faults' = faults + 1
    /\ UNCHANGED <<row, ledger, active, history, now>>

\* Mutant: a batch with a failed recipient is not booked.
SendBookWhole(p) ==
    /\ At(p, "book")
    /\ ledger' = IF send[p].bad THEN ledger ELSE ledger \cup send[p].sent
    /\ send' = [send EXCEPT ![p].stage = "batch", ![p].done = @ + Cardinality(send[p].sent)]
    /\ UNCHANGED <<row, active, inbox, history, now, faults>>

\* Mutant: the count is not carried over the batches.
SendBookNoCount(p) ==
    /\ At(p, "book")
    /\ ledger' = ledger \cup send[p].sent
    /\ Goto(p, "batch")
    /\ UNCHANGED <<row, active, inbox, history, now, faults>>

\* INSERT ... ON CONFLICT DO NOTHING into the ledger; its foreign key needs the campaign.
SendBook(p) ==
    /\ At(p, "book")
    /\ IF status = "gone"
       THEN Goto(p, "mark_failed") /\ UNCHANGED ledger
       ELSE /\ ledger' = ledger \cup send[p].sent
            /\ send' = [send EXCEPT ![p].stage = "batch",
                                    ![p].done = @ + Cardinality(send[p].sent)]
    /\ UNCHANGED <<row, active, inbox, history, now, faults>>

\* The final UPDATE goes by the id alone, whoever holds the claim by then.
SentBy(p) ==
    /\ IF status = "gone"
       THEN UNCHANGED <<status, count, lastRun>>
       ELSE /\ status' = "sent"
            /\ count' = send[p].done
            /\ lastRun' = [audience |-> send[p].audience, alone |-> ~send[p].met]
    /\ Finish(p)

\* Mutant: failed recipients do not keep the campaign from being marked sent.
SendEndAnyway(p) ==
    /\ At(p, "batch")
    /\ send[p].todo = {}
    /\ SentBy(p)
    /\ UNCHANGED <<claimedAt, ledger, active, inbox, clashes, overrun, now, faults>>

SendEnd(p) ==
    /\ At(p, "batch")
    /\ send[p].todo = {}
    /\ IF send[p].bad
       THEN Goto(p, "mark_failed") /\ UNCHANGED <<status, count, lastRun>>
       ELSE SentBy(p)
    /\ UNCHANGED <<claimedAt, ledger, active, inbox, clashes, overrun, now, faults>>

MarkFailed(p) ==
    /\ At(p, "mark_failed")
    /\ status' = IF status = "gone" THEN "gone" ELSE "failed"
    /\ Finish(p)
    /\ UNCHANGED <<claimedAt, count, ledger, active, inbox, history, now, faults>>

\* A statement after the claim throws: the catch block marks the campaign failed.
StatementFails(p) ==
    /\ faults < MaxFaults
    /\ \/ At(p, "lists") \/ At(p, "book")
       \/ At(p, "batch") /\ send[p].todo = {}
    /\ Goto(p, "mark_failed")
    /\ faults' = faults + 1
    /\ UNCHANGED <<row, ledger, active, inbox, history, now>>

\* The server process dies under the call, or the UPDATE of the catch block throws.
Crash(p) == /\ faults < MaxFaults
            /\ ~At(p, "idle")
            /\ Finish(p)
            /\ faults' = faults + 1
            /\ UNCHANGED <<row, ledger, active, inbox, history, now>>

-----------------------------------------------------------------------------
\* Mutant: a campaign can be deleted while it is being sent.
DeleteCampaignAny ==
    /\ status # "gone"
    /\ status' = "gone"
    /\ ledger' = {}
    /\ UNCHANGED <<claimedAt, count, active, inbox, send, history, now, faults>>

\* deleteCampaignCore; the ledger goes with the campaign (ON DELETE CASCADE).
DeleteCampaign ==
    /\ status \notin {"sending", "gone"}
    /\ status' = "gone"
    /\ ledger' = {}
    /\ UNCHANGED <<claimedAt, count, active, inbox, send, history, now, faults>>

\* recordSubscribe and deleteSubscriberCore, as far as the audience can tell.
Subscribe(e) == /\ active' = active \cup {e}
                /\ UNCHANGED <<row, ledger, inbox, send, history, now, faults>>

Leave(e) == /\ active' = active \ {e}
            /\ UNCHANGED <<row, ledger, inbox, send, history, now, faults>>

\* Time passes, however long the calls in flight take.
Tick == /\ now < MaxTime
        /\ now' = now + 1
        /\ overrun' = (overrun \/ \E p \in Sends : ~At(p, "idle") /\ send[p].since + Stale < now')
        /\ UNCHANGED <<row, ledger, active, inbox, send, lastRun, clashes, faults>>

Next == \/ \E p \in Sends : \/ SendRead(p) \/ SendClaim(p) \/ SendLists(p) \/ SendBatch(p)
                            \/ SendBook(p) \/ SendEnd(p) \/ MarkFailed(p)
                            \/ StatementFails(p) \/ Crash(p)
        \/ DeleteCampaign
        \/ \E e \in Emails : Subscribe(e) \/ Leave(e)
        \/ Tick

Spec == Init /\ [][Next]_vars

-----------------------------------------------------------------------------
\* An address in the ledger is mailed again only by a run that met another one: neither a retry
\* nor the takeover of a dead call does (defences 2-4 of campaigns-core.ts), and a run that meets
\* another does so only with what it read before.
LedgeredNotMailedAgain ==
    [][\A e \in ledger : inbox'[e] # inbox[e] =>
          \E p \in Sends : send[p].met /\ At(p, "batch") /\ send'[p] # send[p]]_vars

\* Every copy beyond the first is owed to a fault, a crash or an answer that was lost, or to a
\* clash, a call that took over one still alive or read its ledger too late: retries alone, and
\* calls that race for the claim, mail nobody twice.
ExtraCopiesExplained == \A e \in Emails : inbox[e] <= 1 + faults + clashes

\* A campaign marked sent has reached the whole audience of the run that marked it, also when
\* that run was the retry of one that failed half way (failed batches do not skip the tail), and
\* also when another run took it over.
SentReachedEveryone == status = "sent" => lastRun.audience \subseteq ledger

\* recipient_count is the number of people in the ledger, over all runs, when the last run met
\* no other; runs that met can only have missed each other's.
RecipientCountTrue ==
    status = "sent" => /\ count <= Cardinality(ledger)
                       /\ lastRun.alone => count = Cardinality(ledger)

\* A claim is what protects the ledger: as long as no call outlives the window, a call that works
\* on the campaign works alone and the row stays.
OneRunAtATime ==
    ~overrun => \A p \in Sends : send[p].stage \in Working => status = "sending" /\ Others(p) = {}

\* The ledger's promise as db/schema/site.ts words it: a retry never mails anybody twice.
AtMostOneCopy == \A e \in Emails : inbox[e] <= 1
=============================================================================
