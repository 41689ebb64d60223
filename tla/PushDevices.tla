---------------------------- MODULE PushDevices ----------------------------
(***************************************************************************)
(* Web push for one user: the subscription each of the user's browsers     *)
(* holds, the button that turns it on and off there, the rows the server   *)
(* keeps of them under a cap, and the sender that goes through the rows    *)
(* and drops those whose endpoint is gone.                                 *)
(***************************************************************************)
EXTENDS Statements, Integers, FiniteSets

CONSTANTS
    Devices,    \* the user's browsers
    Endpoints,  \* bound: endpoints the push service hands out, each one once
    Cap,        \* MAX_SUBSCRIPTIONS_PER_USER
    MaxSub      \* bound: rows ever inserted

VARIABLES
    browser,    \* browser[d]: the endpoint d is subscribed at, or Nothing
    used,       \* endpoints that have been handed out
    subs,       \* push_subscription rows; `born` is the row's id and createdAt
    born,       \* rows inserted so far
    button,     \* button[d]: what d's button shows, and where its click has got to
    sender,     \* the rows a sendPushToUserCore has still to go through
    overfull,   \* history: a save was cut off after its upsert and none has counted since
    excused     \* history: endpoints dropped over the cap, or whose answer was lost

pushVars == <<browser, used, subs, born, button, sender, overfull, excused>>

ClickAt(d)       == button[d].stage
MoveTo(d, st) == button' = [button EXCEPT ![d] = [@ EXCEPT !.stage = st, !.rows = {}]]
NewEndpoint == CHOOSE e \in Endpoints \ used : TRUE
RowsAt(e)   == {r \in subs : r.endpoint = e}

ASSUME PushAssumption == Cap \in Nat /\ MaxSub \in Nat /\ Nothing \notin Endpoints

InitPush == /\ browser = [d \in Devices |-> Nothing]
            /\ used = {}
            /\ subs = {}
            /\ born = 0
            /\ button = [d \in Devices |-> [shows |-> FALSE, stage |-> "idle", rows |-> {},
                                            endpoint |-> Nothing]]
            /\ sender = {}
            /\ overfull = FALSE
            /\ excused = {}

-----------------------------------------------------------------------------
(* Turning push on *)

\* subscribeToPush: the browser's subscription, made if there is none, before the server hears of it.
ClickEnable(d) ==
    /\ ClickAt(d) = "idle"
    /\ ~button[d].shows
    /\ browser[d] # Nothing \/ used # Endpoints
    /\ LET e == IF browser[d] # Nothing THEN browser[d] ELSE NewEndpoint IN
          /\ browser' = [browser EXCEPT ![d] = e]
          /\ used' = used \cup {e}
          /\ button' = [button EXCEPT ![d] = [@ EXCEPT !.stage = "upsert", !.endpoint = e]]
    /\ UNCHANGED <<subs, born, sender, overfull, excused>>

\* saveSubscriptionCore: one row per (user, endpoint); a row that is there keeps its createdAt.
Upsert(d) ==
    LET e == button[d].endpoint IN
    /\ ClickAt(d) = "upsert"
    /\ IF RowsAt(e) = {}
       THEN /\ born < MaxSub
            /\ subs' = subs \cup {[endpoint |-> e, born |-> born]}
            /\ born' = born + 1
       ELSE UNCHANGED <<subs, born>>
    /\ MoveTo(d, "count")
    /\ UNCHANGED <<browser, used, sender, overfull, excused>>

\* All but the Cap newest of the rows that were read.
OverflowKeepingOneMore == {r \in subs : Cardinality({q \in subs : q.born > r.born}) > Cap}
Overflow == {r \in subs : Cardinality({q \in subs : q.born > r.born}) >= Cap}

CountSubs(d) ==
    /\ ClickAt(d) = "count"
    /\ button' = [button EXCEPT ![d] = [@ EXCEPT !.stage = "trim", !.rows = Overflow]]
    /\ overfull' = FALSE
    /\ UNCHANGED <<browser, used, subs, born, sender, excused>>

TrimOne(d) ==
    /\ ClickAt(d) = "trim"
    /\ \E r \in button[d].rows :
          /\ subs' = subs \ {r}
          /\ excused' = excused \cup {r.endpoint}
          /\ button' = [button EXCEPT ![d].rows = @ \ {r}]
    /\ UNCHANGED <<browser, used, born, sender, overfull>>

TrimmedAll(d) ==
    /\ ClickAt(d) = "trim"
    /\ button[d].rows = {}
    /\ MoveTo(d, "saved")
    /\ UNCHANGED <<browser, used, subs, born, sender, overfull, excused>>

ShowOn(d) ==
    /\ ClickAt(d) = "saved"
    /\ button' = [button EXCEPT ![d] = [@ EXCEPT !.shows = TRUE, !.stage = "idle"]]
    /\ UNCHANGED <<browser, used, subs, born, sender, overfull, excused>>

\* The server could not save, at any of its statements.
SaveFails(d) ==
    /\ ClickAt(d) \in {"upsert", "count", "trim"}
    /\ overfull' = (overfull \/ ClickAt(d) \in {"count", "trim"})
    /\ MoveTo(d, "refused")
    /\ UNCHANGED <<browser, used, subs, born, sender, excused>>

\* The browser's subscription is rolled back, so that a retry starts clean.
KeepBrowser(d) == UNCHANGED browser
RollBack(d) == browser' = [browser EXCEPT ![d] = Nothing]

ShowRefused(d) ==
    /\ ClickAt(d) = "refused"
    /\ RollBack(d)
    /\ MoveTo(d, "idle")
    /\ UNCHANGED <<used, subs, born, sender, overfull, excused>>

-----------------------------------------------------------------------------
(* Turning push off *)

\* The browser forgets its subscription first; without one there is nothing to tell the server.
ClickDisable(d) ==
    /\ ClickAt(d) = "idle"
    /\ button[d].shows
    /\ button' = IF browser[d] = Nothing
                 THEN [button EXCEPT ![d].shows = FALSE]
                 ELSE [button EXCEPT ![d] = [@ EXCEPT !.stage = "find", !.endpoint = browser[d]]]
    /\ browser' = [browser EXCEPT ![d] = Nothing]
    /\ UNCHANGED <<used, subs, born, sender, overfull, excused>>

\* removeSubscriptionCore: the user's row of this endpoint is looked up, then deleted by id.
FindSub(d) ==
    /\ ClickAt(d) = "find"
    /\ button' = [button EXCEPT ![d] = [@ EXCEPT !.stage = "drop",
                                                 !.rows = RowsAt(button[d].endpoint)]]
    /\ UNCHANGED <<browser, used, subs, born, sender, overfull, excused>>

\* Whatever the server answers, the button shows off.
DropSub(d, ok) ==
    /\ ClickAt(d) \in {"find", "drop"}
    /\ ok => ClickAt(d) = "drop"
    /\ subs' = IF ok THEN subs \ button[d].rows ELSE subs
    /\ button' = [button EXCEPT ![d] = [@ EXCEPT !.shows = FALSE, !.stage = "idle", !.rows = {}]]
    /\ UNCHANGED <<browser, used, born, sender, overfull, excused>>

\* The call itself fails, or its answer never comes: nothing after the await runs.
LoseAnswer(d) ==
    /\ ClickAt(d) # "idle"
    /\ overfull' = (overfull \/ ClickAt(d) \in {"count", "trim"})
    /\ excused' = IF ClickAt(d) \in {"upsert", "count", "trim", "saved", "refused"}
                  THEN excused \cup {button[d].endpoint} ELSE excused
    /\ MoveTo(d, "idle")
    /\ UNCHANGED <<browser, used, subs, born, sender>>

\* The page is opened: the button shows whether the browser has a subscription.
OpenPage(d) ==
    /\ ClickAt(d) = "idle"
    /\ button[d].shows # (browser[d] # Nothing)
    /\ button' = [button EXCEPT ![d].shows = ~@]
    /\ UNCHANGED <<browser, used, subs, born, sender, overfull, excused>>

\* The user takes the permission back in the browser's settings.
Revoke(d) ==
    /\ ClickAt(d) = "idle"
    /\ browser[d] # Nothing
    /\ browser' = [browser EXCEPT ![d] = Nothing]
    /\ UNCHANGED <<used, subs, born, button, sender, overfull, excused>>

-----------------------------------------------------------------------------
(* sendPushToUserCore *)
BeginSend ==
    /\ sender = {}
    /\ subs # {}
    /\ sender' = subs
    /\ UNCHANGED <<browser, used, subs, born, button, overfull, excused>>

\* 404 and 410 say that the endpoint is gone, and its row goes too; any other failure is logged.
IsGone(r) == \A d \in Devices : browser[d] # r.endpoint

SendOne(r, answered) ==
    /\ r \in sender
    /\ sender' = sender \ {r}
    /\ subs' = IF IsGone(r) /\ answered THEN subs \ {r} ELSE subs
    /\ UNCHANGED <<browser, used, born, button, overfull, excused>>

NextPush ==
    \/ \E d \in Devices :
          \/ ClickEnable(d) \/ Upsert(d) \/ CountSubs(d) \/ TrimOne(d) \/ TrimmedAll(d)
          \/ ShowOn(d) \/ SaveFails(d) \/ ShowRefused(d)
          \/ ClickDisable(d) \/ FindSub(d) \/ (\E b \in BOOLEAN : DropSub(d, b))
          \/ LoseAnswer(d) \/ OpenPage(d) \/ Revoke(d)
    \/ BeginSend
    \/ \E r \in sender, b \in BOOLEAN : SendOne(r, b)

SpecPush == InitPush /\ [][NextPush]_pushVars

-----------------------------------------------------------------------------
TypeOKPush ==
    /\ browser \in [Devices -> Endpoints \cup {Nothing}]
    /\ used \subseteq Endpoints
    /\ subs \subseteq [endpoint : used, born : 0..MaxSub]
    /\ born \in 0..MaxSub
    /\ \A d \in Devices :
          /\ ClickAt(d) \in {"idle", "upsert", "count", "trim", "saved", "refused", "find", "drop"}
          /\ button[d].shows \in BOOLEAN
    /\ overfull \in BOOLEAN /\ excused \subseteq Endpoints

\* The user has no more rows than the cap once every save has come to its end, however many
\* devices registered at once; only a save cut off between its upsert and its count leaves more,
\* until the next one counts (push-core.ts:115-124).
DevicesWithinCap ==
    overfull \/ (\E d \in Devices : ClickAt(d) \in {"count", "trim"}) \/ Cardinality(subs) <= Cap

\* A browser that holds a subscription has its row on the server: a refused save is rolled back,
\* the sender takes no row of a living endpoint, and a removal takes only its own.  Only a row
\* dropped over the cap and an answer that was lost leave a browser subscribed to nothing
\* (push-subscribe-button.tsx:49-53).
SubscribedIsKnown ==
    \A d \in Devices : ClickAt(d) = "idle" /\ browser[d] \notin excused \cup {Nothing}
                          => RowsAt(browser[d]) # {}
=============================================================================
