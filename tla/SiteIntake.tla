----------------------------- MODULE SiteIntake -----------------------------
(***************************************************************************)
(* What the public site stores through /api/site: subscriptions and        *)
(* inquiries of visitors who may give the same address at the same time,   *)
(* while the console deletes the row and visitors unsubscribe.             *)
(***************************************************************************)
EXTENDS Statements, Integers

CONSTANTS
    GivenNames, \* names visitors give
    MaxLife     \* bound: how often the address gets a row

ASSUME IntakeAssumption == MaxLife \in Nat \ {0}

VARIABLES
    entry,      \* the row of the address in subscribers, or Nothing
    lives,      \* rows the address has had
    request,    \* request[p]: a subscription on its way
    greeted,    \* history: greeted[n]: `created` answers for the n-th row
    deceived,   \* history: `reactivated` was answered of a row nobody touched, and is not active
    unnamed     \* history: a name was lost that nobody gave while the subscription was on its way

intakeVars == <<entry, lives, request, greeted, deceived, unnamed>>

Resting    == [stage |-> "rest", name |-> Nothing, keeps |-> Nothing, overtaken |-> FALSE]
Stands(p, st) == request[p].stage = st
Names      == GivenNames \cup {Nothing}
Coalesce(a, b) == IF a = Nothing THEN b ELSE a

\* The row changed under every other subscription that has read it.
Overtake(p, r) == request' = [q \in Calls |->
    IF q = p THEN r ELSE [request[q] EXCEPT !.overtaken = @ \/ Stands(q, "update")]]

InitIntake ==
    /\ entry \in {Nothing} \cup [active : BOOLEAN, name : Names]
    /\ lives = IF entry = Nothing THEN 0 ELSE 1
    /\ request = [p \in Calls |-> Resting]
    /\ greeted = [n \in 1..MaxLife |-> 0]
    /\ deceived = FALSE /\ unnamed = FALSE

-----------------------------------------------------------------------------
(* recordSubscribeCore *)

NewRow(p, n) ==
    /\ lives < MaxLife
    /\ entry' = [active |-> TRUE, name |-> n]
    /\ lives' = lives + 1
    /\ greeted' = [greeted EXCEPT ![lives + 1] = @ + 1]
    /\ Overtake(p, Resting)
    /\ UNCHANGED <<deceived, unnamed>>

\* The insert, which meets the unique index on the address or makes the row.
Subscribe(p, n) ==
    /\ Stands(p, "rest")
    /\ IF entry = Nothing THEN NewRow(p, n)
       ELSE /\ request' = [request EXCEPT ![p] = [Resting EXCEPT !.stage = "select", !.name = n]]
            /\ UNCHANGED <<entry, lives, greeted, deceived, unnamed>>

\* already_active ends the call; the row that met the insert may be gone by now.
ReadEntry(p) ==
    /\ Stands(p, "select")
    /\ request' = [request EXCEPT ![p] =
           IF entry = Nothing THEN [@ EXCEPT !.stage = "insert"]
           ELSE IF entry.active THEN Resting
           ELSE [@ EXCEPT !.stage = "update", !.keeps = Coalesce(request[p].name, entry.name)]]
    /\ UNCHANGED <<entry, lives, greeted, deceived, unnamed>>

\* The second insert is not caught: a row that is there again answers 500.
InsertAgain(p) ==
    /\ Stands(p, "insert")
    /\ IF entry = Nothing THEN NewRow(p, request[p].name)
       ELSE /\ request' = [request EXCEPT ![p] = Resting]
            /\ UNCHANGED <<entry, lives, greeted, deceived, unnamed>>

\* What the update writes: name ?? existing.name.
GivenName(p) == request[p].name
KeptName(p) == request[p].keeps

UpdateEntry(p) ==
    LET fresh == ~request[p].overtaken IN
    /\ Stands(p, "update")
    /\ entry' = IF entry = Nothing THEN Nothing ELSE [active |-> TRUE, name |-> KeptName(p)]
    /\ deceived' = (deceived \/ (fresh /\ entry = Nothing))
    /\ unnamed' = (unnamed \/ (/\ fresh /\ entry # Nothing
                               /\ entry.name # Nothing /\ KeptName(p) = Nothing))
    /\ Overtake(p, Resting)
    /\ UNCHANGED <<lives, greeted>>

-----------------------------------------------------------------------------
\* recordContactCore with the box ticked: the inquiry and the upsert in one transaction; a name
\* that is there is kept.
Inquire(n) ==
    /\ lives < MaxLife \/ entry # Nothing
    /\ entry' = [active |-> TRUE, name |-> IF entry = Nothing THEN n ELSE Coalesce(entry.name, n)]
    /\ entry' # entry
    /\ lives' = IF entry = Nothing THEN lives + 1 ELSE lives
    /\ Overtake(Nothing, Resting)
    /\ UNCHANGED <<greeted, deceived, unnamed>>

\* The connection ends, or a statement fails: 500.
LoseRequest(p) ==
    /\ ~Stands(p, "rest")
    /\ request' = [request EXCEPT ![p] = Resting]
    /\ UNCHANGED <<entry, lives, greeted, deceived, unnamed>>

ChangeEntry(e) ==
    /\ entry # Nothing /\ entry # e
    /\ entry' = e
    /\ Overtake(Nothing, Resting)
    /\ UNCHANGED <<lives, greeted, deceived, unnamed>>

RemoveEntry == ChangeEntry(Nothing)
Unsubscribe == ChangeEntry([entry EXCEPT !.active = FALSE])

NextIntake ==
    \/ \E p \in Calls :
          \/ \E n \in Names : Subscribe(p, n)
          \/ ReadEntry(p) \/ InsertAgain(p) \/ UpdateEntry(p) \/ LoseRequest(p)
    \/ \E n \in GivenNames : Inquire(n)
    \/ RemoveEntry \/ Unsubscribe

SpecIntake == InitIntake /\ [][NextIntake]_intakeVars

-----------------------------------------------------------------------------
TypeOKIntake ==
    /\ entry \in {Nothing} \cup [active : BOOLEAN, name : Names]
    /\ lives \in 0..MaxLife
    /\ \A p \in Calls : request[p].stage \in {"rest", "select", "insert", "update"}

\* Of all who give one address at the same time exactly the one whose insert made the row is told
\* `created`, so that the site greets them once for each row; a subscription that comes back finds
\* its row, and costs it its name, only if somebody else changed it in between
\* (ingest-core.ts:80-128).
GreetedOncePerRow ==
    /\ \A n \in 1..MaxLife : greeted[n] <= IF n <= lives THEN 1 ELSE 0
    /\ ~deceived /\ ~unnamed
=============================================================================
