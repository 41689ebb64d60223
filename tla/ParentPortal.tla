---------------------------- MODULE ParentPortal ----------------------------
(***************************************************************************)
(* What one parent sees in the portal: the children linked to the account, *)
(* the consent that is asked for once and stamped on every link, the gate  *)
(* that asks in each open tab, and the loaders of notes, reports and       *)
(* timetable, which check the consent and then go from the links to what   *)
(* is read of the children, one read after the other while the school goes *)
(* on changing all of them.                                                *)
(***************************************************************************)
EXTENDS Statements, FiniteSets

CONSTANT Children   \* each in a class of one lesson

VARIABLES
    link,       \* link[c]: the portal_link row: "none", "bare" or "stamped" (consentedAt)
    attending,  \* the children who are in their class, and whose lesson is not canceled
    tab,        \* tab[p]: what a tab shows, and where its consent or its load stands
    improper    \* history: something served although nothing that changed during the load excuses it

portalVars == <<link, attending, tab, improper>>

TabAt(p, st) == tab[p].stage = st
Put(p, t)    == tab' = [tab EXCEPT ![p] = t]
Linked       == {c \in Children : link[c] # "none"}

\* c changed under every load that may still serve something of it.
Awaits(p, c) == TabAt(p, "links") \/ (tab[p].stage \in {"lessons", "notes"} /\ c \in tab[p].todo)
Stir(c) == tab' = [p \in Calls |-> IF Awaits(p, c) THEN [tab[p] EXCEPT !.moved = @ \cup {c}]
                                                   ELSE tab[p]]

\* The same test in the layout and in requireConsent: one link without a stamp is enough.
UnlessOneIsStamped == Linked # {} /\ \A c \in Linked : link[c] = "bare"
NeedsConsent == \E c \in Linked : link[c] = "bare"

Screen == IF NeedsConsent THEN "gate" ELSE "page"

InitPortal ==
    /\ link \in [Children -> {"none", "bare", "stamped"}]
    /\ attending = Children
    /\ tab = [p \in Calls |-> [shows |-> "page", stage |-> "idle", todo |-> {}, moved |-> {},
                               latched |-> FALSE]]
    /\ improper = FALSE

-----------------------------------------------------------------------------
(* The gate *)

\* The layout is rendered anew; a gate that was there before keeps its latch.
RenderPortal(p) ==
    /\ TabAt(p, "idle")
    /\ tab[p].shows # Screen
    /\ Put(p, [tab[p] EXCEPT !.shows = Screen, !.latched = FALSE])
    /\ UNCHANGED <<link, attending, improper>>

ReloadPage(p) ==
    /\ tab[p].latched
    /\ Put(p, [tab[p] EXCEPT !.shows = Screen, !.latched = FALSE, !.stage = "idle", !.todo = {}])
    /\ UNCHANGED <<link, attending, improper>>

\* The button, the cross and Esc; acknowledgeConsent reads the parent's links.
GiveConsent(p) ==
    /\ TabAt(p, "idle")
    /\ tab[p].shows = "gate" /\ ~tab[p].latched
    /\ Put(p, [tab[p] EXCEPT !.stage = "stamp", !.latched = TRUE,
                             !.todo = {c \in Linked : link[c] = "bare"}])
    /\ UNCHANGED <<link, attending, improper>>

\* A link that has been deleted meanwhile is updated to no effect.
StampLink(p, c) ==
    /\ TabAt(p, "stamp")
    /\ c \in tab[p].todo
    /\ link' = IF link[c] = "none" THEN link ELSE [link EXCEPT ![c] = "stamped"]
    /\ Put(p, [tab[p] EXCEPT !.todo = @ \ {c}])
    /\ UNCHANGED <<attending, improper>>

\* On success the page is refreshed and the latch stays; a failure gives the gate back.
Consented(p, ok) ==
    /\ TabAt(p, "stamp")
    /\ ok => tab[p].todo = {}
    /\ Put(p, [tab[p] EXCEPT !.stage = "idle", !.todo = {}, !.latched = ok,
                             !.shows = IF ok THEN Screen ELSE @])
    /\ UNCHANGED <<link, attending, improper>>

-----------------------------------------------------------------------------
(* The loaders; each asks for the consent itself, whatever the tab shows   *)

RequireConsent(p) ==
    /\ TabAt(p, "idle")
    /\ ~NeedsConsent
    /\ Put(p, [tab[p] EXCEPT !.stage = "links", !.moved = {}])
    /\ UNCHANGED <<link, attending, improper>>

\* No link, no class or no lesson ends the load with an empty page.
GoOnWith(p, st, found) ==
    /\ Put(p, IF found = {} THEN [tab[p] EXCEPT !.stage = "idle", !.todo = {}, !.moved = {}]
                            ELSE [tab[p] EXCEPT !.stage = st, !.todo = found,
                                                 !.moved = @ \cap found])
    /\ UNCHANGED <<link, attending, improper>>

ReadLinks(p) == TabAt(p, "links") /\ GoOnWith(p, "lessons", Linked)

\* The active enrollments, and of their classes the lessons that are not canceled; what changes
\* between the two reads is among the changes in `moved` either way, so they are one step.
ReadTimetable(p) == TabAt(p, "lessons") /\ GoOnWith(p, "notes", tab[p].todo \cap attending)

\* The end of a load: what of the children in `todo` is served.
Serve(p, served, allowed) ==
    /\ improper' = (improper \/ ~(served \subseteq allowed \cup tab[p].moved))
    /\ Put(p, [tab[p] EXCEPT !.stage = "idle", !.todo = {}, !.moved = {}])
    /\ UNCHANGED <<link, attending>>

UnderConsent == {c \in Children : link[c] = "stamped"}

\* Which of the notes are shared is looked at in the statement that reads them.
ReadNotes(p) ==
    /\ TabAt(p, "notes")
    /\ \E shared \in SUBSET tab[p].todo : Serve(p, shared, UnderConsent \cap attending)

\* getPortalReports and getPortalSchedule go from the links to the approved reports of the
\* children, and to a card for each child whose row is still there.
ReadReports(p) ==
    /\ TabAt(p, "lessons")
    /\ \E approved \in SUBSET tab[p].todo : Serve(p, approved, UnderConsent)

ReadCards(p) ==
    /\ TabAt(p, "lessons")
    /\ Serve(p, tab[p].todo, UnderConsent)

-----------------------------------------------------------------------------
(* The school *)

LinkChild(c) ==
    /\ link[c] = "none"
    /\ link' = [link EXCEPT ![c] = "bare"]
    /\ Stir(c)
    /\ UNCHANGED <<attending, improper>>

UnlinkChild(c) ==
    /\ link[c] # "none"
    /\ link' = [link EXCEPT ![c] = "none"]
    /\ Stir(c)
    /\ UNCHANGED <<attending, improper>>

\* Dropped and taken back, canceled and booked again.
ChangeAttendance(c) ==
    /\ attending' = IF c \in attending THEN attending \ {c} ELSE attending \cup {c}
    /\ Stir(c)
    /\ UNCHANGED <<link, improper>>

NextPortal ==
    \/ \E p \in Calls :
          \/ RenderPortal(p) \/ ReloadPage(p) \/ GiveConsent(p)
          \/ (\E c \in Children : StampLink(p, c)) \/ (\E b \in BOOLEAN : Consented(p, b))
          \/ RequireConsent(p) \/ ReadLinks(p) \/ ReadTimetable(p) \/ ReadNotes(p)
          \/ ReadReports(p) \/ ReadCards(p)
    \/ \E c \in Children : LinkChild(c) \/ UnlinkChild(c) \/ ChangeAttendance(c)

SpecPortal == InitPortal /\ [][NextPortal]_portalVars

-----------------------------------------------------------------------------
TypeOKPortal ==
    /\ link \in [Children -> {"none", "bare", "stamped"}]
    /\ attending \subseteq Children
    /\ \A p \in Calls : /\ tab[p].todo \subseteq Children /\ tab[p].moved \subseteq Children
                        /\ TabAt(p, "idle") => tab[p].todo = {}
    /\ improper \in BOOLEAN

\* Notes, reports and timetables reach a parent only through a child whose link is under consent, the
\* notes only of lessons that take place in the child's class; that something was overtaken while the
\* load went on is the only exception.  In particular a child linked after the consent is not read
\* about before the parent is asked again (auth/portal.ts:39-44, portal/notes/data.ts:21-27).
ServedUnderConsent == ~improper
=============================================================================
