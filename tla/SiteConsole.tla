----------------------------- MODULE SiteConsole -----------------------------
(***************************************************************************)
(* The pop-ups of the public site: the form that makes and edits them, and *)
(* the list with its edit and delete buttons, in two browsers of the       *)
(* console over one table.                                                 *)
(***************************************************************************)
EXTENDS Statements, Integers, FiniteSets

CONSTANT MaxPopup   \* bound: pop-ups ever made

VARIABLES
    popups,     \* the ids in popup
    made,       \* pop-ups made so far
    draft,      \* draft[c]: the form of browser c: the row it edits, and whether it has text
    shownRows,  \* shownRows[c]: the rows c's list shows
    action,     \* action[c]: the Server Action c's transition waits for
    undone      \* history: undone[c], rows c was told it has deleted

consoleVars == <<popups, made, draft, shownRows, action, undone>>

Blank    == [row |-> Nothing, text |-> FALSE]
NoAction == [op |-> "none", row |-> Nothing, drafted |-> Nothing, answer |-> "none"]
Pending(c) == action[c].op # "none"

ASSUME ConsoleAssumption == MaxPopup \in Nat \ {0} /\ \A p \in 1..MaxPopup : p # Nothing

InitConsole ==
    /\ popups \in {{}, {1}} /\ made = Cardinality(popups)
    /\ draft = [c \in Calls |-> Blank]
    /\ shownRows = [c \in Calls |-> popups]
    /\ action = [c \in Calls |-> NoAction]
    /\ undone = [c \in Calls |-> {}]

-----------------------------------------------------------------------------
(* The form.  Its inputs stay open while an action is pending.             *)

TypeInForm(c) ==
    /\ draft' = [draft EXCEPT ![c].text = TRUE]
    /\ UNCHANGED <<popups, made, shownRows, action, undone>>

ClickEdit(c, p) ==
    /\ ~Pending(c)
    /\ p \in shownRows[c]
    /\ draft' = [draft EXCEPT ![c] = [row |-> p, text |-> TRUE]]
    /\ UNCHANGED <<popups, made, shownRows, action, undone>>

CancelEdit(c) ==
    /\ draft[c].row # Nothing
    /\ draft' = [draft EXCEPT ![c] = Blank]
    /\ UNCHANGED <<popups, made, shownRows, action, undone>>

\* Two valid dates in order, and a title and a text that are not blank; what is not is said on the
\* spot.
Submit(c) ==
    /\ ~Pending(c)
    /\ draft[c].text
    /\ action' = [action EXCEPT ![c] = [NoAction EXCEPT !.op = "save", !.row = draft[c].row]]
    /\ UNCHANGED <<popups, made, draft, shownRows, undone>>

ClickRemove(c, p) ==
    /\ ~Pending(c)
    /\ p \in shownRows[c]
    /\ action' = [action EXCEPT ![c] = [NoAction EXCEPT !.op = "delete", !.row = p,
                                                        !.drafted = draft[c].row]]
    /\ UNCHANGED <<popups, made, draft, shownRows, undone>>

\* createPopupCore, updatePopupCore and deletePopupCore: one statement each, which says by the row
\* it returns whether there was one.
RunAction(c) ==
    LET a == action[c] IN
    /\ Pending(c) /\ a.answer = "none"
    /\ IF a.op = "save" /\ a.row = Nothing
       THEN made < MaxPopup /\ made' = made + 1 /\ popups' = popups \cup {made + 1}
       ELSE /\ popups' = IF a.op = "delete" THEN popups \ {a.row} ELSE popups
            /\ UNCHANGED made
    /\ action' = [action EXCEPT ![c].answer =
                     IF a.row \in popups \cup {Nothing} THEN "ok" ELSE "gone"]
    /\ UNCHANGED <<draft, shownRows, undone>>

\* A form that edits the row which was just deleted goes back to a new one.
KeepForm(c) == draft[c]
FormAfter(c) == IF action[c].op = "save" \/ action[c].drafted = action[c].row
                THEN Blank ELSE draft[c]

\* The transition is pending until the refreshed list is there.
AnswerOk(c) ==
    /\ action[c].answer = "ok"
    /\ draft' = [draft EXCEPT ![c] = FormAfter(c)]
    /\ shownRows' = [shownRows EXCEPT ![c] = popups]
    /\ undone' = [undone EXCEPT ![c] = IF action[c].op = "delete" THEN @ \cup {action[c].row} ELSE @]
    /\ action' = [action EXCEPT ![c] = NoAction]
    /\ UNCHANGED <<popups, made>>

\* The row is not there, or the call fails in the network, before or after it was carried out.
AnswerError(c) ==
    /\ Pending(c)
    /\ action' = [action EXCEPT ![c] = NoAction]
    /\ UNCHANGED <<popups, made, draft, shownRows, undone>>

OpenConsole(c) ==
    /\ ~Pending(c)
    /\ <<shownRows[c], draft[c]>> # <<popups, Blank>>
    /\ shownRows' = [shownRows EXCEPT ![c] = popups]
    /\ draft' = [draft EXCEPT ![c] = Blank]
    /\ UNCHANGED <<popups, made, action, undone>>

NextConsole ==
    \/ \E c \in Calls :
          \/ TypeInForm(c) \/ CancelEdit(c) \/ Submit(c)
          \/ (\E p \in shownRows[c] : ClickEdit(c, p) \/ ClickRemove(c, p))
          \/ RunAction(c) \/ AnswerOk(c) \/ AnswerError(c) \/ OpenConsole(c)

SpecConsole == InitConsole /\ [][NextConsole]_consoleVars

-----------------------------------------------------------------------------
TypeOKConsole ==
    /\ popups \subseteq 1..made /\ made \in 0..MaxPopup
    /\ \A c \in Calls : /\ draft[c].row \in 1..made \cup {Nothing}
                        /\ shownRows[c] \subseteq 1..made
                        /\ action[c].op \in {"none", "save", "delete"}
                        /\ undone[c] \subseteq 1..made

\* The form of a browser never edits a row that the same browser has deleted, although the edit
\* can be canceled and the text changed while the deletion is pending (popups-panel.tsx:142).
FormOnLivingRow == \A c \in Calls : draft[c].row \notin undone[c]
=============================================================================
