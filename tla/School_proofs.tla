---------------------------- MODULE School_proofs ----------------------------
(***************************************************************************)
(* The operator's and the public side of the school, and the desks side by *)
(* side: in a behavior of the school each desk keeps its own inductive     *)
(* invariant, because a step of another desk leaves its variables alone.   *)
(***************************************************************************)
EXTENDS MCSchool, Outreach_proofs

-----------------------------------------------------------------------------
(* The pop-ups of the site. A row that a browser has deleted stays deleted *)
(* and is in no list that the browser shows, so that its form cannot be    *)
(* opened on it; the deletion closes a form that was opened before.        *)

PopupIds  == 1..MaxPopup
DraftRow  == [row : PopupIds \cup {Nothing}, text : BOOLEAN]
ActionRow == [op : {"none", "save", "delete"}, row : PopupIds \cup {Nothing},
              drafted : PopupIds \cup {Nothing}, answer : {"none", "ok", "gone"}]

ConsoleShape ==
    /\ made \in 0..MaxPopup
    /\ draft \in [Calls -> DraftRow]
    /\ shownRows \in [Calls -> SUBSET PopupIds]
    /\ action \in [Calls -> ActionRow]
    /\ undone \in [Calls -> SUBSET PopupIds]

\* Nobody knows of a row that has not been made yet, so a new one is in no list and no form.
OnlyMade(c) == /\ draft[c].row \in 1..made \cup {Nothing}
               /\ action[c].row \in 1..made \cup {Nothing}
               /\ shownRows[c] \cup undone[c] \subseteq 1..made

\* A deletion that is on its way knows which row the form was about when it was clicked.
Deleting(c) ==
    action[c].op = "delete" => /\ action[c].row # Nothing
                               /\ draft[c].row \in {action[c].drafted, Nothing}
                               /\ action[c].answer = "ok" => action[c].row \notin popups

\* The inductive invariant: what a browser has deleted is in no list it shows, and stays deleted.
Consoled ==
    /\ ConsoleShape
    /\ popups \subseteq 1..made
    /\ \A c \in Calls : OnlyMade(c) /\ Deleting(c)
    /\ \A c \in Calls : undone[c] \cap (popups \cup shownRows[c]) = {}
    /\ FormOnLivingRow

LEMMA PopupNumbers ==
    ASSUME made \in 0..MaxPopup
    PROVE  /\ made \in Nat /\ 1..made \subseteq PopupIds /\ Nothing \notin 1..made
           /\ made < MaxPopup => made + 1 \in 0..MaxPopup /\ made + 1 \in 1..(made + 1)
           /\ 1..made \subseteq 1..(made + 1) /\ made + 1 \notin 1..made
<1>1. MaxPopup \in Nat /\ made \in Nat  BY ConsoleAssumption
<1>2. 1..made \subseteq PopupIds  BY <1>1 DEF PopupIds
<1>3. Nothing \notin 1..made  BY <1>2, ConsoleAssumption DEF PopupIds
<1> QED  BY <1>1, <1>2, <1>3

LEMMA InitConsoled == InitConsole => Consoled
<1> SUFFICES ASSUME InitConsole PROVE Consoled  OBVIOUS
<1>1. made \in 0..MaxPopup /\ popups \subseteq 1..made
  <2>1. Cardinality({}) = 0 /\ Cardinality({1}) = 1  BY FS_EmptySet, FS_Singleton
  <2>2. 0 \in 0..MaxPopup /\ 1 \in 0..MaxPopup /\ 1 \in 1..1  BY ConsoleAssumption
  <2> QED  BY <2>1, <2>2 DEF InitConsole
<1>2. popups \subseteq PopupIds  BY <1>1, PopupNumbers
<1>3. Blank \in DraftRow /\ Blank.row = Nothing  BY DEF Blank, DraftRow
<1>4. NoAction \in ActionRow /\ NoAction.op = "none" /\ NoAction.row = Nothing
  BY DEF NoAction, ActionRow
<1>5. /\ \A c \in Calls : draft[c] = Blank /\ action[c] = NoAction /\ shownRows[c] = popups
                          /\ undone[c] = {}
      /\ draft \in [Calls -> DraftRow] /\ action \in [Calls -> ActionRow]
      /\ shownRows \in [Calls -> SUBSET PopupIds] /\ undone \in [Calls -> SUBSET PopupIds]
  BY <1>2, <1>3, <1>4 DEF InitConsole
<1> QED
  BY <1>1, <1>3, <1>4, <1>5 DEF Consoled, ConsoleShape, OnlyMade, Deleting, FormOnLivingRow

LEMMA BrowserShape ==
    ASSUME Consoled, NEW c \in Calls
    PROVE  /\ draft[c] \in DraftRow /\ action[c] \in ActionRow
           /\ shownRows[c] \subseteq PopupIds /\ undone[c] \subseteq PopupIds
           /\ OnlyMade(c) /\ Deleting(c) /\ undone[c] \cap (popups \cup shownRows[c]) = {}
           /\ draft[c].row \notin undone[c] /\ Nothing \notin undone[c]
           /\ 1..made \subseteq PopupIds /\ Nothing \notin 1..made /\ popups \subseteq 1..made
BY PopupNumbers DEF Consoled, ConsoleShape, FormOnLivingRow, OnlyMade

\* What a browser with form d, call a, list s and deletions u may be.
FitsIn(d, a, s, u) ==
    /\ d \in DraftRow /\ a \in ActionRow /\ s \in SUBSET (1..made) /\ u \in SUBSET (1..made)
    /\ d.row \in 1..made \cup {Nothing} /\ a.row \in 1..made \cup {Nothing}
    /\ a.op = "delete" => /\ a.row # Nothing /\ d.row \in {a.drafted, Nothing}
                          /\ a.answer = "ok" => a.row \notin popups
    /\ u \cap (popups \cup s) = {} /\ d.row \notin u

\* One browser's form, list and call change, and the table does not.
LEMMA BrowserStep ==
    ASSUME Consoled, NEW c \in Calls, NEW d, NEW a, NEW s, NEW u, FitsIn(d, a, s, u),
           draft' = [draft EXCEPT ![c] = d], action' = [action EXCEPT ![c] = a],
           shownRows' = [shownRows EXCEPT ![c] = s], undone' = [undone EXCEPT ![c] = u],
           UNCHANGED <<popups, made>>
    PROVE  Consoled'
<1>1. s \subseteq PopupIds /\ u \subseteq PopupIds  BY BrowserShape DEF FitsIn
<1>2. /\ draft' \in [Calls -> DraftRow] /\ action' \in [Calls -> ActionRow]
      /\ shownRows' \in [Calls -> SUBSET PopupIds] /\ undone' \in [Calls -> SUBSET PopupIds]
      /\ draft'[c] = d /\ action'[c] = a /\ shownRows'[c] = s /\ undone'[c] = u
      /\ \A o \in Calls \ {c} : /\ draft'[o] = draft[o] /\ action'[o] = action[o]
                                /\ shownRows'[o] = shownRows[o] /\ undone'[o] = undone[o]
  BY <1>1 DEF Consoled, ConsoleShape, FitsIn
<1>3. ConsoleShape'  BY <1>2 DEF Consoled, ConsoleShape
<1>4. \A o \in Calls : OnlyMade(o)' /\ Deleting(o)'
  BY <1>2 DEF Consoled, OnlyMade, Deleting, FitsIn
<1>5. \A o \in Calls : /\ undone'[o] \cap (popups' \cup shownRows'[o]) = {}
                       /\ draft'[o].row \notin undone'[o]
  BY <1>2 DEF Consoled, FormOnLivingRow, FitsIn
<1> QED  BY <1>3, <1>4, <1>5 DEF Consoled, FormOnLivingRow

\* What is not mentioned stays.
LEMMA SameForAll ==
    ASSUME Consoled, NEW c \in Calls
    PROVE  /\ [draft EXCEPT ![c] = draft[c]] = draft
           /\ [action EXCEPT ![c] = action[c]] = action
           /\ [shownRows EXCEPT ![c] = shownRows[c]] = shownRows
           /\ [undone EXCEPT ![c] = undone[c]] = undone
           /\ shownRows[c] \in SUBSET (1..made) /\ undone[c] \in SUBSET (1..made)
BY BrowserShape DEF Consoled, ConsoleShape, OnlyMade

LEMMA FormStep ==
    ASSUME Consoled, NEW c \in Calls,
           TypeInForm(c) \/ CancelEdit(c) \/ \E p \in shownRows[c] : ClickEdit(c, p)
    PROVE  Consoled'
<1>1. UNCHANGED <<popups, made, shownRows, action, undone>>
  BY DEF TypeInForm, CancelEdit, ClickEdit
<1>2. PICK d \in DraftRow :
        /\ draft' = [draft EXCEPT ![c] = d]
        /\ \/ d.row \in {draft[c].row, Nothing}
           \/ d.row \in shownRows[c] /\ action[c].op = "none"
  <2>1. CASE TypeInForm(c)
    <3> DEFINE d == [draft[c] EXCEPT !.text = TRUE]
    <3>1. d \in DraftRow /\ d.row = draft[c].row  BY BrowserShape DEF DraftRow
    <3>2. draft' = [draft EXCEPT ![c] = d]  BY <2>1 DEF TypeInForm
    <3> QED  BY <3>1, <3>2
  <2>2. CASE CancelEdit(c)
    <3>1. Blank \in DraftRow /\ Blank.row = Nothing  BY DEF Blank, DraftRow
    <3> QED  BY <2>2, <3>1 DEF CancelEdit
  <2>3. CASE \E p \in shownRows[c] : ClickEdit(c, p)
    <3>1. PICK p \in shownRows[c] : ClickEdit(c, p)  BY <2>3
    <3>2. [row |-> p, text |-> TRUE] \in DraftRow  BY BrowserShape DEF DraftRow
    <3> QED  BY <3>1, <3>2 DEF ClickEdit, Pending
  <2> QED  BY <2>1, <2>2, <2>3
<1>3. /\ d.row \in 1..made \cup {Nothing} /\ d.row \notin undone[c]
      /\ action[c].row \in 1..made \cup {Nothing}
      /\ action[c].op = "delete" => /\ action[c].row # Nothing
                                    /\ d.row \in {action[c].drafted, Nothing}
                                    /\ action[c].answer = "ok" => action[c].row \notin popups
  BY <1>2, BrowserShape DEF OnlyMade, Deleting
<1>4. action[c] \in ActionRow /\ undone[c] \cap (popups \cup shownRows[c]) = {}
  BY BrowserShape
<1>5. /\ action' = [action EXCEPT ![c] = action[c]]
      /\ shownRows' = [shownRows EXCEPT ![c] = shownRows[c]]
      /\ undone' = [undone EXCEPT ![c] = undone[c]]
      /\ shownRows[c] \in SUBSET (1..made) /\ undone[c] \in SUBSET (1..made)
  BY <1>1, SameForAll
<1>6. FitsIn(d, action[c], shownRows[c], undone[c])  BY <1>3, <1>4, <1>5 DEF FitsIn
<1>7. UNCHANGED <<popups, made>>  BY <1>1
<1> QED  BY <1>2, <1>5, <1>6, <1>7, BrowserStep, Zenon

LEMMA AskStep ==
    ASSUME Consoled, NEW c \in Calls, Submit(c) \/ \E p \in shownRows[c] : ClickRemove(c, p)
    PROVE  Consoled'
<1>1. UNCHANGED <<popups, made, draft, shownRows, undone>>  BY DEF Submit, ClickRemove
<1>2. PICK a \in ActionRow :
        /\ action' = [action EXCEPT ![c] = a]
        /\ a.row \in 1..made \cup {Nothing} /\ a.answer = "none"
        /\ a.op = "delete" => a.row # Nothing /\ a.drafted = draft[c].row
  <2>1. CASE Submit(c)
    <3> DEFINE a == [NoAction EXCEPT !.op = "save", !.row = draft[c].row]
    <3>1. a \in ActionRow /\ a.row = draft[c].row /\ a.op = "save" /\ a.answer = "none"
      BY BrowserShape DEF NoAction, ActionRow, DraftRow
    <3>2. action' = [action EXCEPT ![c] = a]  BY <2>1 DEF Submit
    <3> HIDE DEF a
    <3> QED  BY <3>1, <3>2, BrowserShape DEF OnlyMade
  <2>2. CASE \E p \in shownRows[c] : ClickRemove(c, p)
    <3>1. PICK p \in shownRows[c] : ClickRemove(c, p)  BY <2>2
    <3> DEFINE a == [NoAction EXCEPT !.op = "delete", !.row = p, !.drafted = draft[c].row]
    <3>2. /\ a \in ActionRow /\ a.row = p /\ a.op = "delete" /\ a.answer = "none"
          /\ a.drafted = draft[c].row
      BY BrowserShape DEF NoAction, ActionRow, DraftRow
    <3>3. action' = [action EXCEPT ![c] = a]  BY <3>1 DEF ClickRemove
    <3> HIDE DEF a
    <3>4. p \in 1..made /\ p # Nothing  BY BrowserShape DEF OnlyMade
    <3> QED  BY <3>2, <3>3, <3>4
  <2> QED  BY <2>1, <2>2
<1>3. /\ draft[c] \in DraftRow /\ draft[c].row \in 1..made \cup {Nothing}
      /\ draft[c].row \notin undone[c] /\ undone[c] \cap (popups \cup shownRows[c]) = {}
  BY BrowserShape DEF OnlyMade
<1>4. /\ draft' = [draft EXCEPT ![c] = draft[c]]
      /\ shownRows' = [shownRows EXCEPT ![c] = shownRows[c]]
      /\ undone' = [undone EXCEPT ![c] = undone[c]]
      /\ shownRows[c] \in SUBSET (1..made) /\ undone[c] \in SUBSET (1..made)
  BY <1>1, SameForAll
<1>5. FitsIn(draft[c], a, shownRows[c], undone[c])  BY <1>2, <1>3, <1>4 DEF FitsIn
<1>6. UNCHANGED <<popups, made>>  BY <1>1
<1> QED  BY <1>2, <1>4, <1>5, <1>6, BrowserStep, Zenon

\* The table changes: a row is made with a fresh id, or goes for good.
LEMMA RunActionStep ==
    ASSUME Consoled, NEW c \in Calls, RunAction(c)
    PROVE  Consoled'
<1>1. UNCHANGED <<draft, shownRows, undone>>  BY DEF RunAction
<1>2. PICK a \in ActionRow :
        /\ action' = [action EXCEPT ![c] = a]
        /\ a.op = action[c].op /\ a.row = action[c].row /\ a.drafted = action[c].drafted
  <2> DEFINE r == IF action[c].row \in popups \cup {Nothing} THEN "ok" ELSE "gone"
             a == [action[c] EXCEPT !.answer = r]
  <2>1. r \in {"none", "ok", "gone"}  OBVIOUS
  <2>2. action' = [action EXCEPT ![c] = a]  BY DEF RunAction
  <2> HIDE DEF r
  <2>3. /\ a \in ActionRow /\ a.op = action[c].op /\ a.row = action[c].row
        /\ a.drafted = action[c].drafted
    BY <2>1, BrowserShape DEF ActionRow
  <2> QED  BY <2>2, <2>3
<1>3. /\ action' \in [Calls -> ActionRow] /\ action'[c] = a
      /\ \A o \in Calls \ {c} : action'[o] = action[o]
  BY <1>2 DEF Consoled, ConsoleShape
<1>4. /\ made' \in 0..MaxPopup /\ popups' \subseteq 1..made' /\ 1..made \subseteq 1..made'
      /\ popups' \cap (1..made) \subseteq popups
      /\ action[c].op = "delete" => popups' = popups \ {action[c].row}
  <2>1. made \in 0..MaxPopup /\ popups \subseteq 1..made  BY DEF Consoled, ConsoleShape
  <2>2. CASE action[c].op = "save" /\ action[c].row = Nothing
    <3>1. made < MaxPopup /\ made' = made + 1 /\ popups' = popups \cup {made + 1}
      BY <2>2 DEF RunAction
    <3> QED  BY <2>1, <2>2, <3>1, PopupNumbers
  <2>3. CASE ~(action[c].op = "save" /\ action[c].row = Nothing)
    BY <2>1, <2>3 DEF RunAction
  <2> QED  BY <2>2, <2>3
<1>5. ConsoleShape'  BY <1>1, <1>3, <1>4 DEF Consoled, ConsoleShape
<1>6. ASSUME NEW o \in Calls
      PROVE  OnlyMade(o)' /\ Deleting(o)' /\ undone'[o] \cap (popups' \cup shownRows'[o]) = {}
  <2>1. OnlyMade(o)'  BY <1>1, <1>2, <1>3, <1>4, BrowserShape DEF OnlyMade
  <2>2. Deleting(o)'
    <3>1. CASE o = c  BY <1>1, <1>2, <1>3, <1>4, <3>1, BrowserShape DEF Deleting
    <3>2. CASE o # c
      BY <1>1, <1>3, <1>4, <3>2, BrowserShape DEF Deleting, OnlyMade
    <3> QED  BY <3>1, <3>2
  <2>3. undone'[o] \cap (popups' \cup shownRows'[o]) = {}
    BY <1>1, <1>4, BrowserShape DEF OnlyMade
  <2> QED  BY <2>1, <2>2, <2>3
<1> QED  BY <1>1, <1>4, <1>5, <1>6 DEF Consoled, FormOnLivingRow

\* The answer to a deletion: the row leaves the list, and the form if it is about that row.
LEMMA AnswerOkStep ==
    ASSUME Consoled, NEW c \in Calls, AnswerOk(c)
    PROVE  Consoled'
<1>1. NoAction \in ActionRow /\ NoAction.op = "none" /\ NoAction.row = Nothing
  BY DEF NoAction, ActionRow
<1>2. FormAfter(c) \in DraftRow /\ FormAfter(c).row \in {draft[c].row, Nothing}
  BY BrowserShape DEF FormAfter, Blank, DraftRow
<1>3. CASE action[c].op = "delete"
  <2>1. action[c].row \in 1..made /\ action[c].row \notin popups
    BY <1>3, BrowserShape DEF AnswerOk, Deleting, OnlyMade
  <2>2. undone' = [undone EXCEPT ![c] = undone[c] \cup {action[c].row}]  BY <1>3 DEF AnswerOk
  <2>3. FormAfter(c).row # action[c].row
    <3>1. CASE action[c].drafted = action[c].row
      BY <2>1, <3>1, BrowserShape DEF FormAfter, Blank
    <3>2. CASE action[c].drafted # action[c].row
      <4>1. draft[c].row \in {action[c].drafted, Nothing} /\ action[c].row # Nothing
        BY <1>3, BrowserShape DEF Deleting
      <4> QED  BY <1>2, <3>2, <4>1
    <3> QED  BY <3>1, <3>2
  <2>4. /\ undone[c] \cup {action[c].row} \in SUBSET (1..made)
        /\ (undone[c] \cup {action[c].row}) \cap (popups \cup popups) = {}
        /\ FormAfter(c).row \notin undone[c] \cup {action[c].row}
        /\ FormAfter(c).row \in 1..made \cup {Nothing}
    BY <1>2, <2>1, <2>3, BrowserShape DEF OnlyMade
  <2>5. popups \in SUBSET (1..made)  BY BrowserShape
  <2>6. FitsIn(FormAfter(c), NoAction, popups, undone[c] \cup {action[c].row})
    BY <1>1, <1>2, <2>4, <2>5 DEF FitsIn
  <2> QED  BY <2>2, <2>6, BrowserStep DEF AnswerOk
<1>4. CASE action[c].op # "delete"
  <2>1. undone' = [undone EXCEPT ![c] = undone[c]]  BY <1>4 DEF AnswerOk
  <2>2. /\ undone[c] \in SUBSET (1..made) /\ undone[c] \cap (popups \cup popups) = {}
        /\ FormAfter(c).row \notin undone[c] /\ FormAfter(c).row \in 1..made \cup {Nothing}
        /\ popups \in SUBSET (1..made)
    BY <1>2, BrowserShape DEF OnlyMade
  <2>3. FitsIn(FormAfter(c), NoAction, popups, undone[c])  BY <1>1, <1>2, <2>2 DEF FitsIn
  <2> QED  BY <2>1, <2>3, BrowserStep DEF AnswerOk
<1> QED  BY <1>3, <1>4

LEMMA AnswerErrorStep ==
    ASSUME Consoled, NEW c \in Calls, AnswerError(c)
    PROVE  Consoled'
<1>1. NoAction \in ActionRow /\ NoAction.op = "none" /\ NoAction.row = Nothing
  BY DEF NoAction, ActionRow
<1>2. /\ draft[c] \in DraftRow /\ draft[c].row \in 1..made \cup {Nothing}
      /\ draft[c].row \notin undone[c] /\ undone[c] \cap (popups \cup shownRows[c]) = {}
  BY BrowserShape DEF OnlyMade
<1>3. /\ draft' = [draft EXCEPT ![c] = draft[c]]
      /\ shownRows' = [shownRows EXCEPT ![c] = shownRows[c]]
      /\ undone' = [undone EXCEPT ![c] = undone[c]]
      /\ shownRows[c] \in SUBSET (1..made) /\ undone[c] \in SUBSET (1..made)
  BY SameForAll DEF AnswerError
<1>4. FitsIn(draft[c], NoAction, shownRows[c], undone[c])  BY <1>1, <1>2, <1>3 DEF FitsIn
<1>5. action' = [action EXCEPT ![c] = NoAction] /\ UNCHANGED <<popups, made>>  BY DEF AnswerError
<1> QED  BY <1>3, <1>4, <1>5, BrowserStep, Zenon

LEMMA OpenConsoleStep ==
    ASSUME Consoled, NEW c \in Calls, OpenConsole(c)
    PROVE  Consoled'
<1>1. Blank \in DraftRow /\ Blank.row = Nothing  BY DEF Blank, DraftRow
<1>2. /\ action[c] \in ActionRow /\ action[c].row \in 1..made \cup {Nothing}
      /\ action[c].op # "delete"
      /\ popups \in SUBSET (1..made) /\ undone[c] \cap (popups \cup popups) = {}
      /\ Nothing \notin undone[c]
  BY BrowserShape DEF OnlyMade, OpenConsole, Pending
<1>3. /\ action' = [action EXCEPT ![c] = action[c]] /\ undone' = [undone EXCEPT ![c] = undone[c]]
      /\ undone[c] \in SUBSET (1..made)
  BY SameForAll DEF OpenConsole
<1>4. FitsIn(Blank, action[c], popups, undone[c])  BY <1>1, <1>2, <1>3 DEF FitsIn
<1> QED  BY <1>3, <1>4, BrowserStep DEF OpenConsole

LEMMA NextConsoled ==
    ASSUME Consoled, [NextConsole]_consoleVars
    PROVE  Consoled'
<1>1. CASE UNCHANGED consoleVars
  BY <1>1 DEF consoleVars, Consoled, ConsoleShape, OnlyMade, Deleting, FormOnLivingRow
<1>2. ASSUME NEW c \in Calls,
             TypeInForm(c) \/ CancelEdit(c) \/ \E p \in shownRows[c] : ClickEdit(c, p)
      PROVE  Consoled'
  BY <1>2, FormStep
<1>3. ASSUME NEW c \in Calls, Submit(c) \/ \E p \in shownRows[c] : ClickRemove(c, p)
      PROVE  Consoled'
  BY <1>3, AskStep
<1>4. ASSUME NEW c \in Calls, RunAction(c) \/ AnswerOk(c) \/ AnswerError(c) \/ OpenConsole(c)
      PROVE  Consoled'
  BY <1>4, RunActionStep, AnswerOkStep, AnswerErrorStep, OpenConsoleStep
<1> QED  BY <1>1, <1>2, <1>3, <1>4 DEF NextConsole

LEMMA ConsoledSuffices == Consoled => TypeOKConsole /\ FormOnLivingRow
BY DEF Consoled, ConsoleShape, OnlyMade, ActionRow, TypeOKConsole

\* The inductive invariant holds in every state of a behavior.
LEMMA AlwaysConsoled == SpecConsole => []Consoled
BY InitConsoled, NextConsoled, PTL DEF SpecConsole

\* The form of a browser is never about a pop-up that the browser was told it has deleted,
\* whatever is clicked and typed while the answer is on its way (popups-panel.tsx:120-160).
THEOREM FormNotOnDeletedRow == SpecConsole => []FormOnLivingRow
BY AlwaysConsoled, ConsoledSuffices, PTL

-----------------------------------------------------------------------------
(* The paged lists. A read that nothing has overtaken holds what there is, *)
(* and the last page of what there is has a row.                           *)

PageRecord == [page : 0..MaxEntries, rows : -1..PageSize, total : -1..MaxEntries, moved : BOOLEAN]

\* What a read that nothing has overtaken holds is what there is.
ReadIsTrue == /\ reader.page = 0 => reader = NoReader
              /\ ~reader.moved => /\ reader.total \in {-1, entries}
                                  /\ reader.rows \in {-1, OnPageOf(reader.page, entries)}

\* The inductive invariant.
Paged == /\ entries \in 0..MaxEntries
         /\ reader \in PageRecord
         /\ view \in PageRecord
         /\ ReadIsTrue
         /\ EmptyPageIsTrue

LEMMA TimesMonotone == ASSUME NEW m \in Int, NEW n \in Int, NEW p \in Nat, m <= n
                       PROVE  m * p <= n * p
OBVIOUS

LEMMA DivisionBounds == ASSUME NEW a \in Int, NEW b \in Nat \ {0}
                        PROVE  /\ a \div b \in Int
                               /\ (a \div b) * b <= a /\ a < (a \div b) * b + b
OBVIOUS

\* A page has between none and PageSize rows, and none only when it lies past the last one.
LEMMA RowsOfPage ==
    ASSUME NEW n \in Nat \ {0}, NEW t \in Nat
    PROVE  /\ OnPageOf(n, t) \in 0..PageSize
           /\ n <= LastPage(t) => OnPageOf(n, t) > 0
<1> DEFINE past == (n - 1) * PageSize
<1>1. PageSize \in Nat /\ PageSize > 0  BY PageAssumption
<1>2. past \in Int /\ past = n * PageSize - PageSize /\ n * PageSize \in Int  BY <1>1
<1>3. OnPageOf(n, t) = IF t <= past THEN 0 ELSE IF t - past < PageSize THEN t - past ELSE PageSize
  BY DEF OnPageOf
<1>4. OnPageOf(n, t) \in 0..PageSize
  <2> HIDE DEF past
  <2> QED  BY <1>1, <1>2, <1>3
<1>5. ASSUME n <= LastPage(t) PROVE OnPageOf(n, t) > 0
  <2> DEFINE q == (t + PageSize - 1) \div PageSize
  <2>1. t + PageSize - 1 \in Int  BY <1>1
  <2>2. q \in Int /\ q * PageSize <= t + PageSize - 1  BY <1>1, <2>1, DivisionBounds, PageAssumption
  <2>3. n <= q  BY <1>5 DEF LastPage
  <2> HIDE DEF q
  <2>4. n * PageSize <= q * PageSize /\ q * PageSize \in Int  BY <1>1, <2>2, <2>3, TimesMonotone
  <2> HIDE DEF past
  <2>5. past < t  BY <1>1, <1>2, <2>2, <2>4
  <2> QED  BY <1>1, <1>2, <1>3, <2>5
<1> QED  BY <1>4, <1>5

LEMMA LastPagePositive ==
    ASSUME NEW t \in Nat \ {0}
    PROVE  LastPage(t) \in Nat \ {0}
<1> DEFINE q == (t + PageSize - 1) \div PageSize
<1>1. PageSize \in Nat /\ PageSize > 0 /\ t + PageSize - 1 \in Int  BY PageAssumption
<1>2. q \in Int /\ t + PageSize - 1 < q * PageSize + PageSize
  BY <1>1, DivisionBounds, PageAssumption
<1>3. LastPage(t) = q  BY DEF LastPage
<1> HIDE DEF q
<1>4. CASE q <= 0
  <2>1. q * PageSize <= 0 * PageSize /\ q * PageSize \in Int  BY <1>1, <1>2, <1>4, TimesMonotone
  <2> QED  BY <1>1, <1>2, <2>1
<1> QED  BY <1>2, <1>3, <1>4

LEMMA PageRanges ==
    /\ MaxEntries \in Nat /\ PageSize \in Nat
    /\ 0 \in 0..MaxEntries /\ 1 \in 0..MaxEntries /\ -1 \in -1..PageSize /\ -1 \in -1..MaxEntries
    /\ 0..MaxEntries \subseteq -1..MaxEntries /\ 0..PageSize \subseteq -1..PageSize
    /\ \A n \in 0..MaxEntries : n \in Nat
    /\ \A k \in -1..PageSize : k >= 0 => k # -1
    /\ \A k \in -1..MaxEntries : k >= 0 => k \in Nat
<1>1. MaxEntries \in Nat /\ MaxEntries > 0 /\ PageSize \in Nat  BY PageAssumption
<1> QED  BY <1>1

LEMMA NoReaderTyped == NoReader \in PageRecord
BY PageRanges DEF NoReader, PageRecord

LEMMA InitPaged == InitPages => Paged
<1> SUFFICES ASSUME InitPages PROVE Paged  OBVIOUS
<1>1. entries \in 0..MaxEntries /\ entries \in Nat  BY PageRanges DEF InitPages
<1>2. OnPageOf(1, entries) \in 0..PageSize  BY <1>1, RowsOfPage
<1>3. OnPageOf(1, entries) = 0 => entries = 0
  <2>1. (1 - 1) * PageSize = 0  BY PageAssumption
  <2> QED  BY <1>1, <2>1, PageAssumption DEF OnPageOf
<1>4. view \in PageRecord
  BY <1>1, <1>2, PageRanges DEF InitPages, PageRecord
<1>5. EmptyPageIsTrue  BY <1>1, <1>3 DEF InitPages, EmptyPageIsTrue
<1>6. ReadIsTrue  BY DEF InitPages, ReadIsTrue, NoReader
<1> QED  BY <1>1, <1>4, <1>5, <1>6, NoReaderTyped DEF InitPages, Paged

LEMMA AskForPageStep ==
    ASSUME Paged, NEW n \in 1..MaxEntries, AskForPage(n)
    PROVE  Paged'
<1>1. n \in 0..MaxEntries /\ n # 0  BY PageRanges
<1>2. reader' = [NoReader EXCEPT !.page = n] /\ UNCHANGED <<entries, view>>  BY DEF AskForPage
<1>3. /\ reader' \in PageRecord /\ reader'.page = n /\ reader'.rows = -1 /\ reader'.total = -1
  BY <1>1, <1>2, PageRanges DEF NoReader, PageRecord
<1> QED  BY <1>1, <1>2, <1>3 DEF Paged, ReadIsTrue, EmptyPageIsTrue

LEMMA ReadRowsStep ==
    ASSUME Paged, ReadRows
    PROVE  Paged'
<1>1. /\ reader \in PageRecord /\ reader.page \in Nat \ {0} /\ entries \in Nat
      /\ reader' = [reader EXCEPT !.rows = OnPageOf(reader.page, entries)]
      /\ UNCHANGED <<entries, view>>
  BY PageRanges DEF ReadRows, Paged, PageRecord
<1>2. OnPageOf(reader.page, entries) \in -1..PageSize  BY <1>1, RowsOfPage, PageRanges
<1>3. /\ reader' \in PageRecord /\ reader'.page = reader.page /\ reader'.total = reader.total
      /\ reader'.rows = OnPageOf(reader.page, entries) /\ reader'.moved = reader.moved
  BY <1>1, <1>2 DEF PageRecord
<1> QED  BY <1>1, <1>3 DEF Paged, ReadIsTrue, EmptyPageIsTrue

LEMMA CountRowsStep ==
    ASSUME Paged, CountRows
    PROVE  Paged'
<1>1. /\ reader \in PageRecord /\ reader.page > 0 /\ entries \in -1..MaxEntries
      /\ reader' = [reader EXCEPT !.total = entries]
      /\ UNCHANGED <<entries, view>>
  BY PageRanges DEF CountRows, Paged
<1>2. /\ reader' \in PageRecord /\ reader'.page = reader.page /\ reader'.total = entries
      /\ reader'.rows = reader.rows /\ reader'.moved = reader.moved
  BY <1>1 DEF PageRecord
<1> QED  BY <1>1, <1>2 DEF Paged, ReadIsTrue, EmptyPageIsTrue

\* The page is read again as the last one there was when the rows were counted.
LEMMA ReadAgainStep ==
    ASSUME Paged, ReadAgain
    PROVE  Paged'
<1> DEFINE n == LastPage(reader.total)
<1>1. /\ reader \in PageRecord /\ entries \in Nat /\ reader.total \in Nat \ {0}
      /\ reader.page \in 0..MaxEntries /\ reader.page > n
      /\ reader' = [reader EXCEPT !.page = n, !.rows = OnPageOf(n, entries)]
      /\ UNCHANGED <<entries, view>>
  BY PageRanges DEF ReadAgain, PastEnd, Paged, PageRecord
<1>2. n \in Nat \ {0}  BY <1>1, LastPagePositive
<1> HIDE DEF n
<1>3. n \in 0..MaxEntries  BY <1>1, <1>2, PageRanges
<1>4. OnPageOf(n, entries) \in -1..PageSize  BY <1>1, <1>2, RowsOfPage, PageRanges
<1>5. /\ reader' \in PageRecord /\ reader'.page = n /\ reader'.total = reader.total
      /\ reader'.rows = OnPageOf(n, entries) /\ reader'.moved = reader.moved
  BY <1>1, <1>3, <1>4 DEF PageRecord
<1>6. n # 0  BY <1>2
<1> QED  BY <1>1, <1>5, <1>6 DEF Paged, ReadIsTrue, EmptyPageIsTrue

\* A page that is not past the end of its count shows a row, unless something went in between.
LEMMA ShowPageStep ==
    ASSUME Paged, ShowPage
    PROVE  Paged'
<1>1. /\ reader \in PageRecord /\ view' = reader /\ reader' = NoReader /\ UNCHANGED entries
      /\ reader.rows >= 0 /\ reader.total \in Nat
      /\ reader.total > 0 => ~(reader.page > LastPage(reader.total))
  BY PageRanges DEF ShowPage, PastEnd, Paged, PageRecord
<1>2. reader.page \in Nat \ {0}
  <2>1. reader.page # 0  BY <1>1 DEF Paged, ReadIsTrue, NoReader
  <2> QED  BY <1>1, <2>1, PageRanges DEF PageRecord
<1>3. ASSUME reader.rows = 0, reader.total > 0, ~reader.moved
      PROVE  FALSE
  <2>1. reader.total = entries /\ reader.rows = OnPageOf(reader.page, entries)
    BY <1>1, <1>3 DEF Paged, ReadIsTrue
  <2>2. LastPage(reader.total) \in Nat  BY <1>1, <1>3, LastPagePositive
  <2>3. reader.page <= LastPage(reader.total)  BY <1>1, <1>2, <1>3, <2>2
  <2>4. OnPageOf(reader.page, reader.total) > 0  BY <1>1, <1>2, <2>3, RowsOfPage
  <2> QED  BY <1>3, <2>1, <2>4
<1>4. EmptyPageIsTrue'  BY <1>1, <1>3 DEF EmptyPageIsTrue
<1>5. view' \in PageRecord  BY <1>1
<1>6. ReadIsTrue'  BY <1>1 DEF ReadIsTrue, NoReader
<1> QED  BY <1>1, <1>4, <1>5, <1>6, NoReaderTyped DEF Paged

LEMMA EntriesStep ==
    ASSUME Paged, DeleteEntry \/ NewEntry
    PROVE  Paged'
<1>1. PICK n \in 0..MaxEntries : ChangeEntries(n)
  <2>1. entries \in Nat /\ entries <= MaxEntries /\ MaxEntries \in Nat  BY PageRanges DEF Paged
  <2>2. CASE DeleteEntry
    <3>1. entries - 1 \in 0..MaxEntries  BY <2>1, <2>2 DEF DeleteEntry
    <3> QED  BY <2>2, <3>1 DEF DeleteEntry
  <2>3. CASE NewEntry
    <3>1. entries + 1 \in 0..MaxEntries  BY <2>1, <2>3 DEF NewEntry
    <3> QED  BY <2>3, <3>1 DEF NewEntry
  <2> QED  BY <2>2, <2>3
<1>2. entries' \in 0..MaxEntries /\ UNCHANGED view  BY <1>1 DEF ChangeEntries
<1>3. reader' \in PageRecord /\ ReadIsTrue'
  <2>1. CASE reader = NoReader
    <3>1. reader' = NoReader  BY <1>1, <2>1 DEF ChangeEntries
    <3> QED  BY <3>1, NoReaderTyped DEF ReadIsTrue, NoReader
  <2>2. CASE reader # NoReader
    <3>1. reader' = [reader EXCEPT !.moved = TRUE] /\ reader \in PageRecord
      BY <1>1, <2>2 DEF ChangeEntries, Paged
    <3>2. reader' \in PageRecord /\ reader'.moved = TRUE /\ reader'.page = reader.page
      BY <3>1 DEF PageRecord
    <3> QED  BY <2>2, <3>2 DEF Paged, ReadIsTrue
  <2> QED  BY <2>1, <2>2
<1> QED  BY <1>2, <1>3 DEF Paged, EmptyPageIsTrue

LEMMA NextPaged ==
    ASSUME Paged, [NextPages]_pageVars
    PROVE  Paged'
<1>1. CASE UNCHANGED pageVars
  BY <1>1 DEF pageVars, Paged, ReadIsTrue, EmptyPageIsTrue
<1>2. ASSUME NEW n \in 1..MaxEntries, AskForPage(n) PROVE Paged'  BY <1>2, AskForPageStep
<1> QED
  BY <1>1, <1>2, ReadRowsStep, CountRowsStep, ReadAgainStep, ShowPageStep, EntriesStep DEF NextPages

LEMMA PagedSuffices == Paged => TypeOKPages /\ EmptyPageIsTrue
BY DEF Paged, PageRecord, TypeOKPages

\* The inductive invariant holds in every state of a behavior.
LEMMA AlwaysPaged == SpecPages => []Paged
BY InitPaged, NextPaged, PTL DEF SpecPages

\* A list of any length, with pages of any size, shows no empty page beside a count of some,
\* whatever page is asked for, unless a deletion overtook the read (pagination.ts:30-66).
THEOREM NoEmptyPageUnlessOvertaken == SpecPages => []EmptyPageIsTrue
BY AlwaysPaged, PagedSuffices, PTL

-----------------------------------------------------------------------------
(* The operator's scripts. One of them is at work at a time, so the tables *)
(* the cleanup has behind it stay clean; once the constraints are there    *)
(* they stay, and only the purge takes an organization away.               *)

Purging == {"tables", "sessions", "organization"}
JobStages == Purging \cup {"none", "clean", "cleaned"}
Job == [stage : JobStages, tenant : Tenants \cup {Nothing}, dry : BOOLEAN,
        table : 1..Tables, gone : SUBSET TableRow]

PurgeShape ==
    /\ tenantFk \in BOOLEAN
    /\ orgs \subseteq Tenants
    /\ tableRows \in [Tenants -> SUBSET TableRow]
    /\ pointing \in [Tenants -> {"no", "old", "late"}]
    /\ job \in [Calls -> Job]
    /\ stored \in [Tenants -> SUBSET TableRow]

\* A purge that deletes was confirmed.
Confirmed == \A p \in Calls : job[p].stage \in Purging =>
    /\ job[p].tenant \in Tenants
    /\ ~job[p].dry => job[p].tenant \in meant
    /\ job[p].stage # "tables" => ~job[p].dry

\* The advisory lock: one script at a time is at work.
AtWork(p) == job[p].stage \notin {"none", "cleaned"}
Locked == \A p, q \in Calls : AtWork(p) /\ AtWork(q) => p = q

\* The cleanup runs before the constraints are there, and leaves no orphan in the tables behind it.
CleanBehind == \A p \in Calls : Doing(p, "clean") =>
    /\ ~tenantFk
    /\ \A o \in Tenants \ orgs : \A r \in tableRows[o] : job[p].table <= r[1]

\* The inductive invariant.
Whole == PurgeShape /\ Confirmed /\ Locked /\ CleanBehind /\ PurgedWholeOrNotAtAll

-----------------------------------------------------------------------------
LEMMA NoJobIsJob == NoJob \in Job /\ NoJob.stage = "none" /\ NoJob.table = 1
BY PurgeAssumption DEF NoJob, Job, JobStages

LEMMA TableRows == \A r \in TableRow : r[1] \in 1..Tables
BY PurgeAssumption DEF TableRow

\* A script that goes on, where the tables and the constraints stay as they are.
LEMMA JobStep ==
    ASSUME Whole, NEW p \in Calls, NEW j \in Job, GoOn(p, j),
           UNCHANGED <<tenantFk, orgs, tableRows, pointing, stored>>, meant \subseteq meant',
           j.stage \notin {"none", "cleaned"} => \A q \in Calls : AtWork(q) => q = p,
           j.stage \in Purging => /\ j.tenant \in Tenants
                                  /\ ~j.dry => j.tenant \in meant'
                                  /\ j.stage # "tables" => ~j.dry,
           j.stage = "clean" => ~tenantFk /\ j.table = 1,
           j.stage # "cleaned"
    PROVE  Whole'
<1>1. job \in [Calls -> Job] /\ job' = [job EXCEPT ![p] = j]  BY DEF Whole, PurgeShape, GoOn
<1>2. job' \in [Calls -> Job] /\ job'[p] = j /\ \A q \in Calls \ {p} : job'[q] = job[q]  BY <1>1
<1>3. PurgeShape'  BY <1>2 DEF Whole, PurgeShape
<1>4. Confirmed'  BY <1>2 DEF Whole, Confirmed
<1>5. CleanBehind'
  <2>1. \A o \in Tenants : \A r \in tableRows[o] : 1 <= r[1]  BY TableRows DEF Whole, PurgeShape
  <2> QED  BY <1>2, <2>1 DEF Whole, CleanBehind, Doing
<1>6. PurgedWholeOrNotAtAll'
  BY <1>2 DEF Whole, PurgedWholeOrNotAtAll, Doing, Orphans
<1>7. Locked'  BY <1>2 DEF Whole, Locked, AtWork
<1> QED  BY <1>3, <1>4, <1>5, <1>6, <1>7 DEF Whole

\* The orphans of one more table go; after the last table there are none.
LEMMA CleanStep ==
    ASSUME Whole, NEW p \in Calls, CleanTable(p)
    PROVE  Whole'
<1> DEFINE i == job[p].table
           j == IF i = Tables THEN [NoJob EXCEPT !.stage = "cleaned"]
                              ELSE [job[p] EXCEPT !.table = i + 1]
<1>0. /\ Doing(p, "clean") /\ job' = [job EXCEPT ![p] = j]
      /\ UNCHANGED <<tenantFk, orgs, pointing, stored, meant>>
      /\ tableRows' = [o \in Tenants |-> IF o \in orgs THEN tableRows[o]
                                         ELSE tableRows[o] \ AtTable(tableRows[o], i)]
  BY DEF CleanTable, GoOn
<1>1. job[p] \in Job /\ job \in [Calls -> Job] /\ i \in 1..Tables  BY DEF Whole, PurgeShape, Job
<1>2. /\ j \in Job
      /\ i = Tables => j.stage = "cleaned"
      /\ i # Tables => j.stage = "clean" /\ j.table = i + 1
  <2>1. CASE i = Tables
    <3>1. [NoJob EXCEPT !.stage = "cleaned"] \in Job
          /\ [NoJob EXCEPT !.stage = "cleaned"].stage = "cleaned"
      BY NoJobIsJob DEF Job, JobStages
    <3> QED  BY <2>1, <3>1
  <2>2. CASE i # Tables
    <3>1. i + 1 \in 1..Tables  BY <1>1, <2>2, PurgeAssumption
    <3>2. [job[p] EXCEPT !.table = i + 1] \in Job
          /\ [job[p] EXCEPT !.table = i + 1].stage = "clean"
          /\ [job[p] EXCEPT !.table = i + 1].table = i + 1
      BY <1>0, <1>1, <3>1 DEF Job, Doing
    <3> QED  BY <2>2, <3>2
  <2> QED  BY <2>1, <2>2
<1> HIDE DEF j
<1>3. job' \in [Calls -> Job] /\ job'[p] = j /\ \A q \in Calls \ {p} : job'[q] = job[q]
  BY <1>0, <1>1, <1>2
<1>4. tableRows' \in [Tenants -> SUBSET TableRow]  BY <1>0 DEF Whole, PurgeShape
<1>5. \A o \in orgs : tableRows'[o] = tableRows[o]  BY <1>0 DEF Whole, PurgeShape
<1>6. \A o \in Tenants \ orgs : \A r \in tableRows'[o] :
          r \in tableRows[o] /\ r[1] # i
  BY <1>0 DEF AtTable
<1>7. ASSUME NEW o \in Tenants \ orgs, NEW r \in tableRows'[o]
      PROVE  i + 1 <= r[1] /\ r[1] \in 1..Tables
  <2>1. r \in tableRows[o] /\ r[1] # i  BY <1>6
  <2>2. i <= r[1]  BY <1>0, <2>1 DEF Whole, CleanBehind
  <2>3. r[1] \in 1..Tables  BY <2>1, TableRows DEF Whole, PurgeShape
  <2> QED  BY <1>1, <2>1, <2>2, <2>3, PurgeAssumption
<1>8. PurgeShape'  BY <1>0, <1>3, <1>4 DEF Whole, PurgeShape
<1>9. Confirmed'  BY <1>0, <1>2, <1>3 DEF Whole, Confirmed, Purging
<1>10. CleanBehind'
  <2> SUFFICES ASSUME NEW q \in Calls, job'[q].stage = "clean"
               PROVE  ~tenantFk /\ \A o \in Tenants \ orgs : \A r \in tableRows'[o] : job'[q].table <= r[1]
    BY <1>0 DEF CleanBehind, Doing
  <2>1. CASE q = p  BY <1>0, <1>2, <1>3, <1>7, <2>1 DEF Whole, CleanBehind
  <2>2. CASE q # p  BY <1>3, <1>6, <2>2 DEF Whole, CleanBehind, Doing
  <2> QED  BY <2>1, <2>2
<1>11. i = Tables \/ Orphans = {} => Orphans' = {}
  <2>1. ASSUME i = Tables, NEW o \in Tenants \ orgs PROVE tableRows'[o] = {}
    BY <1>1, <1>7, <2>1, PurgeAssumption
  <2>2. ASSUME Orphans = {}, NEW o \in Tenants \ orgs PROVE tableRows'[o] = {}
    BY <1>6, <2>2 DEF Orphans
  <2> QED  BY <1>0, <2>1, <2>2 DEF Orphans
<1>12. PurgedWholeOrNotAtAll'
  <2>1. \A o \in orgs : tableRows'[o] = stored[o]  BY <1>5 DEF Whole, PurgedWholeOrNotAtAll
  <2>2. tenantFk \/ (\E q \in Calls : Doing(q, "cleaned"))' => Orphans' = {}
    BY <1>2, <1>3, <1>11 DEF Whole, PurgedWholeOrNotAtAll, Doing
  <2> QED  BY <1>0, <2>1, <2>2 DEF Whole, PurgedWholeOrNotAtAll
<1>13. Locked'  BY <1>0, <1>2, <1>3 DEF Whole, Locked, AtWork, Doing
<1> QED  BY <1>8, <1>9, <1>10, <1>12, <1>13 DEF Whole

\* The constraints are taken over, and are never given up.
LEMMA MigrateStep ==
    ASSUME Whole, NEW p \in Calls, Migrate(p)
    PROVE  Whole'
<1>1. Orphans = {}  BY DEF Migrate, Whole, PurgedWholeOrNotAtAll
<1>2. tenantFk' = TRUE /\ UNCHANGED <<orgs, tableRows, pointing, stored, meant>>
      /\ job' = [job EXCEPT ![p] = NoJob]
  BY <1>1 DEF Migrate, GoOn
<1>3. job \in [Calls -> Job]  BY DEF Whole, PurgeShape
<1>4. /\ job' \in [Calls -> Job] /\ job'[p] = NoJob
      /\ \A q \in Calls \ {p} : job'[q] = job[q]
  BY <1>2, <1>3, NoJobIsJob
<1>5. \A q \in Calls : job[q].stage # "clean"  BY DEF Migrate, LockFree, Doing
<1>6. PurgeShape'  BY <1>2, <1>4 DEF Whole, PurgeShape
<1>7. Confirmed'  BY <1>2, <1>4, NoJobIsJob DEF Whole, Confirmed, Purging
<1>8. CleanBehind'  BY <1>4, <1>5, NoJobIsJob DEF CleanBehind, Doing
<1>9. PurgedWholeOrNotAtAll'  BY <1>1, <1>2 DEF Whole, PurgedWholeOrNotAtAll, Orphans
<1>10. Locked'  BY <1>4, NoJobIsJob DEF Whole, Locked, AtWork
<1> QED  BY <1>6, <1>7, <1>8, <1>9, <1>10 DEF Whole

\* The organization goes with the last of its rows, and after an operator confirmed it.
LEMMA DeleteStep ==
    ASSUME Whole, NEW p \in Calls, DeleteOrganization(p)
    PROVE  Whole'
<1> DEFINE o == job[p].tenant
<1>0. /\ job[p].stage = "organization" /\ orgs' = orgs \ {o}
      /\ tableRows' = [tableRows EXCEPT ![o] = {}]
      /\ pointing' = [pointing EXCEPT ![o] = IF pointing[o] = "late" THEN pointing[o] ELSE "no"]
      /\ job' = [job EXCEPT ![p] = NoJob] /\ UNCHANGED <<tenantFk, stored, meant>>
  BY DEF DeleteOrganization, Doing, GoOn
<1>1. o \in Tenants /\ o \in meant  BY <1>0 DEF Whole, Confirmed, Purging
<1> HIDE DEF o
<1>2. job' \in [Calls -> Job] /\ job'[p] = NoJob /\ \A q \in Calls \ {p} : job'[q] = job[q]
  BY <1>0, NoJobIsJob DEF Whole, PurgeShape
<1>3. /\ tableRows' \in [Tenants -> SUBSET TableRow] /\ tableRows'[o] = {}
      /\ \A t \in Tenants \ {o} : tableRows'[t] = tableRows[t]
  BY <1>0, <1>1 DEF Whole, PurgeShape
<1>4. /\ pointing' \in [Tenants -> {"no", "old", "late"}] /\ pointing'[o] # "old"
      /\ \A t \in Tenants \ {o} : pointing'[t] = pointing[t]
  BY <1>0, <1>1 DEF Whole, PurgeShape
<1>5. PurgeShape'  BY <1>0, <1>2, <1>3, <1>4 DEF Whole, PurgeShape
<1>6. Confirmed'  BY <1>0, <1>2, NoJobIsJob DEF Whole, Confirmed, Purging
<1>7. CleanBehind'
  <2>1. \A q \in Calls : ~Doing(q, "clean")  BY <1>0 DEF Whole, Locked, AtWork, Doing
  <2> QED  BY <1>2, <2>1, NoJobIsJob DEF CleanBehind, Doing
<1>8. PurgedWholeOrNotAtAll'
  <2>1. \A t \in orgs' : tableRows'[t] = stored'[t]
    BY <1>0, <1>3 DEF Whole, PurgeShape, PurgedWholeOrNotAtAll
  <2>2. \A t \in Tenants \ orgs' : t \in meant' /\ pointing'[t] # "old"
    BY <1>0, <1>1, <1>4 DEF Whole, PurgedWholeOrNotAtAll
  <2>3. tenantFk \/ (\E q \in Calls : Doing(q, "cleaned"))' => Orphans' = {}
    <3>1. Orphans = {} => Orphans' = {}  BY <1>0, <1>3 DEF Orphans
    <3>2. (\E q \in Calls : Doing(q, "cleaned"))' => \E q \in Calls : Doing(q, "cleaned")
      BY <1>2, NoJobIsJob DEF Doing
    <3> QED  BY <3>1, <3>2 DEF Whole, PurgedWholeOrNotAtAll
  <2> QED  BY <1>0, <2>1, <2>2, <2>3 DEF PurgedWholeOrNotAtAll
<1>9. Locked'  BY <1>2, NoJobIsJob DEF Whole, Locked, AtWork
<1> QED  BY <1>5, <1>6, <1>7, <1>8, <1>9 DEF Whole

\* The purge of an id that is no organization ends, with or without its rows.
LEMMA NoOrganizationStep ==
    ASSUME Whole, NEW p \in Calls, Doing(p, "tables"), NEW rows \in SUBSET TableRow,
           GoOn(p, NoJob), tableRows' = [tableRows EXCEPT ![job[p].tenant] = rows],
           rows \subseteq tableRows[job[p].tenant],
           job[p].tenant \in orgs => rows = tableRows[job[p].tenant],
           UNCHANGED <<tenantFk, orgs, pointing, stored, meant>>
    PROVE  Whole'
<1> DEFINE o == job[p].tenant
<1>1. job' = [job EXCEPT ![p] = NoJob] /\ o \in Tenants
  BY DEF Whole, Confirmed, Purging, Doing, GoOn
<1>2. job' \in [Calls -> Job] /\ job'[p] = NoJob /\ \A q \in Calls \ {p} : job'[q] = job[q]
  BY <1>1, NoJobIsJob DEF Whole, PurgeShape
<1>3. /\ tableRows' \in [Tenants -> SUBSET TableRow] /\ tableRows'[o] = rows
      /\ \A t \in Tenants \ {o} : tableRows'[t] = tableRows[t]
  BY <1>1 DEF Whole, PurgeShape
<1> HIDE DEF o
<1>4. PurgeShape'  BY <1>2, <1>3 DEF Whole, PurgeShape
<1>5. Confirmed'  BY <1>2, NoJobIsJob DEF Whole, Confirmed, Purging
<1>6. Locked'  BY <1>2, NoJobIsJob DEF Whole, Locked, AtWork
<1>7. CleanBehind'
  <2>1. \A q \in Calls : ~Doing(q, "clean")  BY DEF Whole, Locked, AtWork, Doing
  <2> QED  BY <1>2, <2>1, NoJobIsJob DEF CleanBehind, Doing
<1>8. PurgedWholeOrNotAtAll'
  <2>1. \A t \in orgs : tableRows'[t] = stored[t]
    BY <1>3 DEF o, Whole, PurgeShape, PurgedWholeOrNotAtAll
  <2>2. Orphans = {} => Orphans' = {}  BY <1>3 DEF o, Orphans
  <2>3. (\E q \in Calls : Doing(q, "cleaned"))' => \E q \in Calls : Doing(q, "cleaned")
    BY <1>2, NoJobIsJob DEF Doing
  <2> QED  BY <2>1, <2>2, <2>3 DEF Whole, PurgedWholeOrNotAtAll
<1> QED  BY <1>4, <1>5, <1>6, <1>7, <1>8 DEF Whole

\* The application touches the rows of organizations that are there, or rows under the constraints.
LEMMA RowsStep ==
    ASSUME Whole, tenantFk, NEW o \in Tenants, NEW rows \in SUBSET TableRow, NEW kept \in SUBSET TableRow,
           tableRows' = [tableRows EXCEPT ![o] = rows], stored' = [stored EXCEPT ![o] = kept],
           o \in orgs => rows = kept,
           o \notin orgs => rows \subseteq tableRows[o],
           UNCHANGED <<tenantFk, orgs, pointing, job, meant>>
    PROVE  Whole'
<1>1. /\ tableRows' \in [Tenants -> SUBSET TableRow] /\ stored' \in [Tenants -> SUBSET TableRow]
      /\ tableRows'[o] = rows /\ stored'[o] = kept
      /\ \A t \in Tenants \ {o} : tableRows'[t] = tableRows[t] /\ stored'[t] = stored[t]
  BY DEF Whole, PurgeShape
<1>2. PurgeShape'  BY <1>1 DEF Whole, PurgeShape
<1>3. Confirmed'  BY DEF Whole, Confirmed
<1>4. CleanBehind'
  <2>1. \A q \in Calls : ~Doing(q, "clean")  BY DEF Whole, CleanBehind
  <2> QED  BY <2>1 DEF CleanBehind, Doing
<1>5. PurgedWholeOrNotAtAll'
  <2>1. \A t \in orgs : tableRows'[t] = stored'[t]
    BY <1>1 DEF Whole, PurgeShape, PurgedWholeOrNotAtAll
  <2>2. Orphans' = {}
    <3>1. Orphans = {}  BY DEF Whole, PurgedWholeOrNotAtAll
    <3> QED  BY <1>1, <3>1 DEF Orphans
  <2> QED  BY <2>1, <2>2 DEF Whole, PurgedWholeOrNotAtAll
<1>6. Locked'  BY DEF Whole, Locked, AtWork
<1> QED  BY <1>2, <1>3, <1>4, <1>5, <1>6 DEF Whole

-----------------------------------------------------------------------------
LEMMA WholeInit == InitPurge => Whole
<1> SUFFICES ASSUME InitPurge PROVE Whole  OBVIOUS
<1>1. \A i \in 1..Tables : <<i, 1>> \in TableRow  BY DEF TableRow
<1>2. PurgeShape  BY <1>1, NoJobIsJob DEF InitPurge, PurgeShape
<1>3. \A p \in Calls : job[p].stage = "none"  BY NoJobIsJob DEF InitPurge
<1>4. PurgedWholeOrNotAtAll  BY <1>3 DEF InitPurge, PurgedWholeOrNotAtAll, Doing
<1> QED  BY <1>2, <1>3, <1>4 DEF Whole, Confirmed, Locked, AtWork, CleanBehind, Purging, Doing

LEMMA WholeStep == Whole /\ [NextPurge]_purgeVars => Whole'
<1> SUFFICES ASSUME Whole, [NextPurge]_purgeVars PROVE Whole'  OBVIOUS
<1>0. job \in [Calls -> Job] /\ stored \in [Tenants -> SUBSET TableRow]
      /\ tableRows \in [Tenants -> SUBSET TableRow] /\ orgs \subseteq Tenants
  BY DEF Whole, PurgeShape
<1>1. ASSUME NEW p \in Calls, StartCleanup(p) PROVE Whole'
  <2> DEFINE j == [NoJob EXCEPT !.stage = "clean"]
  <2>1. j \in Job /\ j.stage = "clean" /\ j.table = 1
    BY NoJobIsJob DEF Job, JobStages
  <2>2. GoOn(p, j) /\ ~tenantFk /\ UNCHANGED <<tenantFk, orgs, tableRows, pointing, stored, meant>>
    BY <1>1 DEF StartCleanup
  <2>3. \A q \in Calls : ~AtWork(q)  BY <1>1 DEF StartCleanup, LockFree, AtWork
  <2> HIDE DEF j
  <2> QED  BY <2>1, <2>2, <2>3, JobStep DEF Purging
<1>2. ASSUME NEW p \in Calls, CleanTable(p) PROVE Whole'  BY <1>2, CleanStep
<1>3. ASSUME NEW p \in Calls, Migrate(p) PROVE Whole'  BY <1>3, MigrateStep
<1>4. ASSUME NEW p \in Calls, NEW o \in Tenants, NEW typed \in Tenants \cup {Nothing},
             NEW commit \in BOOLEAN, StartPurge(p, o, commit, typed)
      PROVE  Whole'
  <2> DEFINE j == [NoJob EXCEPT !.stage = "tables", !.tenant = o, !.dry = ~commit]
  <2>1. j \in Job /\ j.stage = "tables" /\ j.tenant = o /\ (~j.dry <=> commit)
    BY NoJobIsJob DEF Job, JobStages, Purging
  <2>2. /\ GoOn(p, j) /\ UNCHANGED <<tenantFk, orgs, tableRows, pointing, stored>>
        /\ meant \subseteq meant' /\ (commit => o \in meant')
    BY <1>4 DEF StartPurge, Confirmation
  <2>3. \A q \in Calls : ~AtWork(q)  BY <1>4 DEF StartPurge, LockFree, AtWork
  <2> HIDE DEF j
  <2> QED  BY <2>1, <2>2, <2>3, JobStep
<1>5. ASSUME NEW p \in Calls, PurgeTable(p) PROVE Whole'
  <2> DEFINE j == job[p]
             g == IF j.dry THEN {} ELSE j.gone \cup AtTable(tableRows[j.tenant], j.table)
             k == [j EXCEPT !.gone = g]
  <2>0. j \in Job /\ j.stage = "tables"  BY <1>0, <1>5 DEF PurgeTable, Doing
  <2>1. j.tenant \in Tenants /\ (~j.dry => j.tenant \in meant)
    BY <2>0 DEF Whole, Confirmed, Purging
  <2>2. AtTable(tableRows[j.tenant], j.table) \subseteq TableRow  BY <1>0, <2>1 DEF AtTable
  <2>3. g \in SUBSET TableRow /\ (j.dry => g = {})  BY <2>0, <2>2 DEF Job
  <2>4. k.gone = g  BY <2>0 DEF Job
  <2>5. \/ j.table < Tables /\ GoOn(p, [k EXCEPT !.table = @ + 1]) /\ UNCHANGED tableRows
        \/ /\ j.dry \/ j.tenant \notin orgs
           /\ GoOn(p, NoJob) /\ tableRows' = [tableRows EXCEPT ![j.tenant] = @ \ g]
        \/ ~j.dry /\ GoOn(p, [k EXCEPT !.stage = "sessions"]) /\ UNCHANGED tableRows
    BY <1>5, <2>4 DEF PurgeTable
  <2>6. UNCHANGED <<tenantFk, orgs, pointing, stored, meant>>  BY <1>5 DEF PurgeTable
  <2>7. \A q \in Calls : AtWork(q) => q = p  BY <2>0 DEF Whole, Locked, AtWork
  <2> HIDE DEF j, g
  <2>8. k \in Job /\ k.stage = "tables" /\ k.tenant = j.tenant /\ k.dry = j.dry /\ k.table = j.table
    BY <2>0, <2>3 DEF Job
  <2> HIDE DEF k
  <2>9. CASE j.table < Tables /\ GoOn(p, [k EXCEPT !.table = @ + 1]) /\ UNCHANGED tableRows
    <3>1. PICK n : n = [k EXCEPT !.table = @ + 1]  OBVIOUS
    <3>2. n \in Job /\ n.stage = "tables" /\ n.tenant = j.tenant /\ n.dry = j.dry
      BY <2>8, <2>9, <3>1, PurgeAssumption DEF Job
    <3>3. ~n.dry => n.tenant \in meant'
      <4>1. ~n.dry => ~j.dry  BY <3>2, Zenon
      <4> QED  BY <2>1, <2>6, <3>2, <4>1
    <3> QED  BY <2>1, <2>6, <2>7, <2>9, <3>1, <3>2, <3>3, JobStep
  <2>10. CASE /\ j.dry \/ j.tenant \notin orgs
              /\ GoOn(p, NoJob) /\ tableRows' = [tableRows EXCEPT ![j.tenant] = @ \ g]
    <3>1. PICK rows : rows = tableRows[j.tenant] \ g  OBVIOUS
    <3>2. rows \in SUBSET TableRow  BY <1>0, <2>1, <3>1
    <3>3. j.tenant \in orgs => rows = tableRows[j.tenant]  BY <2>3, <2>10, <3>1
    <3> QED  BY <2>0, <2>6, <2>10, <3>1, <3>2, <3>3, NoOrganizationStep DEF j, Doing
  <2>11. CASE ~j.dry /\ GoOn(p, [k EXCEPT !.stage = "sessions"]) /\ UNCHANGED tableRows
    <3>1. PICK n : n = [k EXCEPT !.stage = "sessions"]  OBVIOUS
    <3>2. n \in Job /\ n.stage = "sessions" /\ n.tenant = j.tenant /\ n.dry = k.dry
      BY <2>8, <3>1 DEF Job, JobStages, Purging
    <3>3. ~n.dry  BY <2>8, <2>11, <3>2, Zenon
    <3>4. n.tenant \in Tenants /\ n.tenant \in meant' /\ meant \subseteq meant'
      <4>1. j.tenant \in meant  BY <2>1, <2>11, Zenon
      <4> QED  BY <2>1, <2>6, <3>2, <4>1
    <3>5. GoOn(p, n) /\ UNCHANGED <<tenantFk, orgs, tableRows, pointing, stored>>
      BY <2>6, <2>11, <3>1
    <3>6. n.stage \in Purging => /\ n.tenant \in Tenants
                                 /\ ~n.dry => n.tenant \in meant'
                                 /\ n.stage # "tables" => ~n.dry
      BY <3>3, <3>4, Zenon
    <3> QED  BY <2>7, <3>2, <3>4, <3>5, <3>6, JobStep
  <2> QED  BY <2>5, <2>9, <2>10, <2>11
<1>6. ASSUME NEW p \in Calls, ClearSessions(p) PROVE Whole'
  <2> DEFINE j == [job[p] EXCEPT !.stage = "organization"]
  <2>1. /\ j \in Job /\ j.stage = "organization" /\ j.tenant = job[p].tenant /\ j.dry = job[p].dry
    BY <1>0 DEF Job, JobStages, Purging
  <2>2. GoOn(p, j) /\ UNCHANGED <<tenantFk, orgs, tableRows, pointing, stored, meant>>
    BY <1>6 DEF ClearSessions
  <2>3. /\ job[p].tenant \in Tenants /\ ~job[p].dry /\ job[p].tenant \in meant
    BY <1>6 DEF ClearSessions, Doing, Whole, Confirmed, Purging
  <2>4. \A q \in Calls : AtWork(q) => q = p
    BY <1>6 DEF ClearSessions, Doing, Whole, Locked, AtWork
  <2> HIDE DEF j
  <2> QED  BY <2>1, <2>2, <2>3, <2>4, JobStep
<1>7. ASSUME NEW p \in Calls, DeleteOrganization(p) PROVE Whole'  BY <1>7, DeleteStep
<1>8. ASSUME NEW p \in Calls, BreakJob(p) PROVE Whole'
  BY <1>8, NoJobIsJob, JobStep DEF BreakJob, Purging
<1>9. ASSUME NEW o \in Tenants, NEW r \in TableRow, StoreRow(o, r) PROVE Whole'
  <2>1. tableRows[o] = stored[o]  BY <1>9 DEF StoreRow, Whole, PurgedWholeOrNotAtAll
  <2>2. tableRows[o] \cup {r} \in SUBSET TableRow /\ stored[o] \cup {r} \in SUBSET TableRow
    BY <1>0
  <2> QED  BY <1>9, <2>1, <2>2, RowsStep DEF StoreRow
<1>10. ASSUME NEW o \in Tenants, NEW r \in TableRow, RemoveRow(o, r) PROVE Whole'
  <2>1. o \in orgs => tableRows[o] = stored[o]  BY DEF Whole, PurgedWholeOrNotAtAll
  <2>2. tableRows[o] \ {r} \in SUBSET TableRow /\ stored[o] \ {r} \in SUBSET TableRow
    BY <1>0
  <2> QED  BY <1>10, <2>1, <2>2, RowsStep DEF RemoveRow
<1>11. ASSUME NEW o \in Tenants, ChooseOrganization(o) PROVE Whole'
  <2> DEFINE s == IF \E p \in Calls : job[p].tenant = o /\ Doing(p, "organization")
                  THEN "late" ELSE "old"
  <2>1. /\ o \in orgs /\ pointing' = [pointing EXCEPT ![o] = s] /\ s \in {"late", "old"}
        /\ UNCHANGED <<tenantFk, orgs, tableRows, job, stored, meant>>
    BY <1>11 DEF ChooseOrganization
  <2> HIDE DEF s
  <2>2. /\ pointing' \in [Tenants -> {"no", "old", "late"}]
        /\ \A t \in Tenants \ orgs : pointing'[t] = pointing[t]
    BY <2>1 DEF Whole, PurgeShape
  <2> QED  BY <2>1, <2>2
           DEF Whole, PurgeShape, Confirmed, Locked, AtWork, CleanBehind, PurgedWholeOrNotAtAll,
               Doing, Orphans
<1>12. CASE UNCHANGED purgeVars
  BY <1>12 DEF purgeVars, Whole, PurgeShape, Confirmed, Locked, AtWork, CleanBehind,
               PurgedWholeOrNotAtAll, Doing, Orphans
<1> QED  BY <1>1, <1>2, <1>3, <1>4, <1>5, <1>6, <1>7, <1>8, <1>9, <1>10, <1>11, <1>12 DEF NextPurge

\* What a script is about to delete is still there.
PurgeKept ==
    /\ Whole
    /\ \A p \in Calls : job[p].gone # {} => /\ job[p].stage \in Purging
                                            /\ job[p].gone \subseteq tableRows[job[p].tenant]

LEMMA PurgeKeptInit == InitPurge => PurgeKept
<1> SUFFICES ASSUME InitPurge PROVE PurgeKept  OBVIOUS
<1>1. \A p \in Calls : job[p].stage = "none" /\ job[p].gone = {}  BY DEF InitPurge, NoJob
<1> QED  BY <1>1, WholeInit DEF PurgeKept

\* A script goes on with j, and no row goes that another script is about to delete.
LEMMA ScriptStep ==
    ASSUME PurgeKept, Whole', NEW p \in Calls, NEW j \in Job, GoOn(p, j),
           j.gone # {} => j.stage \in Purging /\ j.gone \subseteq tableRows'[j.tenant],
           \A q \in Calls \ {p} : job[q].gone # {} =>
               job[q].gone \subseteq tableRows'[job[q].tenant]
    PROVE  PurgeKept'
<1>1. job' = [job EXCEPT ![p] = j] /\ job \in [Calls -> Job]
  BY DEF GoOn, PurgeKept, Whole, PurgeShape
<1>2. job'[p] = j /\ \A q \in Calls \ {p} : job'[q] = job[q]  BY <1>1
<1> QED  BY <1>2 DEF PurgeKept

LEMMA PurgeKeptStep ==
    ASSUME PurgeKept, [NextPurge]_purgeVars
    PROVE  PurgeKept'
<1>0. Whole /\ Whole' /\ job \in [Calls -> Job]  BY WholeStep DEF PurgeKept, Whole, PurgeShape
<1>1. \A q \in Calls : job[q].gone # {} => /\ job[q].tenant \in Tenants /\ AtWork(q)
                                           /\ job[q].gone \subseteq tableRows[job[q].tenant]
  BY <1>0 DEF PurgeKept, Whole, Confirmed, AtWork, Purging
\* The tables stay, and the script has no more to delete than it had.
<1>2. ASSUME NEW p \in Calls, NEW j \in Job, GoOn(p, j), tableRows' = tableRows,
             j.gone # {} => j.stage \in Purging /\ j.gone \subseteq tableRows[j.tenant]
      PROVE  PurgeKept'
  BY <1>0, <1>1, <1>2, ScriptStep
\* The script at work is the only one with something to delete.
<1>21. ASSUME NEW p \in Calls, AtWork(p) PROVE \A q \in Calls \ {p} : job[q].gone = {}
  BY <1>0, <1>1, <1>21 DEF Whole, Locked
<1>3. NoJob \in Job /\ NoJob.stage = "none" /\ NoJob.gone = {}  BY NoJobIsJob DEF NoJob
<1>4. ASSUME NEW p \in Calls, StartCleanup(p) PROVE PurgeKept'
  <2>0. PICK n \in Job : n = NoJob /\ n.gone = {}  BY <1>3
  <2>1. PICK j : j = [n EXCEPT !.stage = "clean"]  OBVIOUS
  <2>2. j \in Job /\ j.gone = {} /\ j.stage = "clean"  BY <2>0, <2>1 DEF Job, JobStages
  <2>3. GoOn(p, j) /\ tableRows' = tableRows
    BY <1>4, <2>0, <2>1 DEF StartCleanup
  <2> QED  BY <1>2, <2>2, <2>3
<1>5. ASSUME NEW p \in Calls, Migrate(p) \/ BreakJob(p) PROVE PurgeKept'
  BY <1>2, <1>3, <1>5 DEF Migrate, BreakJob
<1>6. ASSUME NEW p \in Calls, NEW o \in Tenants, NEW typed, NEW commit \in BOOLEAN,
             StartPurge(p, o, commit, typed)
      PROVE  PurgeKept'
  <2>0. PICK n \in Job : n = NoJob /\ n.gone = {}  BY <1>3
  <2>1. PICK j : j = [n EXCEPT !.stage = "tables", !.tenant = o, !.dry = ~commit]  OBVIOUS
  <2>2. j \in Job /\ j.gone = {} /\ j.stage = "tables"
    BY <2>0, <2>1 DEF Job, JobStages, Purging
  <2>3. GoOn(p, j) /\ tableRows' = tableRows
    BY <1>6, <2>0, <2>1 DEF StartPurge
  <2> QED  BY <1>2, <2>2, <2>3
<1>7. ASSUME NEW p \in Calls, CleanTable(p) PROVE PurgeKept'
  <2>1. job[p] \in Job /\ job[p].stage = "clean" /\ job[p].gone = {} /\ AtWork(p)
    BY <1>0, <1>7 DEF CleanTable, Doing, AtWork, PurgeKept, Purging
  <2>2. PICK j : j = IF job[p].table = Tables THEN [NoJob EXCEPT !.stage = "cleaned"]
                                              ELSE [job[p] EXCEPT !.table = job[p].table + 1]
    OBVIOUS
  <2>3. j \in Job /\ j.gone = {}
    <3>1. job[p].table # Tables => job[p].table + 1 \in 1..Tables
      BY <2>1, PurgeAssumption DEF Job
    <3> QED  BY <1>3, <2>1, <2>2, <3>1 DEF Job, JobStages
  <2>4. GoOn(p, j)  BY <1>7, <2>2 DEF CleanTable
  <2> QED  BY <1>0, <1>21, <2>1, <2>3, <2>4, ScriptStep
<1>8. ASSUME NEW p \in Calls, PurgeTable(p) PROVE PurgeKept'
  <2>1. /\ job[p] \in Job /\ job[p].stage = "tables" /\ AtWork(p) /\ job[p].tenant \in Tenants
    BY <1>0, <1>8 DEF PurgeTable, Doing, AtWork, Whole, Confirmed, Purging
  <2>2. PICK gone : gone = IF job[p].dry THEN {}
                           ELSE job[p].gone \cup AtTable(tableRows[job[p].tenant], job[p].table)
    OBVIOUS
  <2>3. gone \subseteq tableRows[job[p].tenant] /\ gone \in SUBSET TableRow
    BY <1>0, <1>1, <2>1, <2>2 DEF AtTable, Whole, PurgeShape
  <2>4. PICK k \in Job : k = [job[p] EXCEPT !.gone = gone]  BY <2>1, <2>3 DEF Job
  <2>5. k.stage = "tables" /\ k.tenant = job[p].tenant /\ k.gone = gone /\ k.table = job[p].table
    BY <2>1, <2>4 DEF Job
  <2>6. CASE k.table < Tables /\ GoOn(p, [k EXCEPT !.table = @ + 1]) /\ UNCHANGED tableRows
    <3>1. PICK j : j = [k EXCEPT !.table = @ + 1]  OBVIOUS
    <3>2. j \in Job /\ j.stage = "tables" /\ j.tenant = k.tenant /\ j.gone = k.gone
      BY <2>5, <2>6, <3>1, PurgeAssumption DEF Job
    <3> QED  BY <1>2, <2>3, <2>5, <2>6, <3>1, <3>2 DEF Purging
  <2>7. CASE GoOn(p, NoJob)
    BY <1>0, <1>3, <1>21, <2>1, <2>7, ScriptStep
  <2>8. CASE GoOn(p, [k EXCEPT !.stage = "sessions"]) /\ UNCHANGED tableRows
    <3>1. PICK j : j = [k EXCEPT !.stage = "sessions"]  OBVIOUS
    <3>2. j \in Job /\ j.stage = "sessions" /\ j.tenant = k.tenant /\ j.gone = k.gone
      BY <2>5, <3>1 DEF Job, JobStages, Purging
    <3> QED  BY <1>2, <2>3, <2>5, <2>8, <3>1, <3>2 DEF Purging
  <2> QED  BY <1>8, <2>2, <2>4, <2>5, <2>6, <2>7, <2>8 DEF PurgeTable
<1>9. ASSUME NEW p \in Calls, ClearSessions(p) PROVE PurgeKept'
  <2>1. job[p] \in Job /\ AtWork(p) /\ tableRows' = tableRows
    BY <1>0, <1>9 DEF ClearSessions, Doing, AtWork
  <2>2. PICK j \in Job : j = [job[p] EXCEPT !.stage = "organization"]
    BY <2>1 DEF Job, JobStages, Purging
  <2>3. j.gone = job[p].gone /\ j.tenant = job[p].tenant /\ j.stage = "organization"
    BY <2>1, <2>2 DEF Job
  <2> QED  BY <1>1, <1>2, <1>9, <2>1, <2>2, <2>3 DEF ClearSessions, Purging
<1>10. ASSUME NEW p \in Calls, DeleteOrganization(p) PROVE PurgeKept'
  <2>1. AtWork(p) /\ GoOn(p, NoJob)  BY <1>10 DEF DeleteOrganization, Doing, AtWork
  <2> QED  BY <1>0, <1>3, <1>21, <2>1, ScriptStep
<1>11. ASSUME NEW o \in Tenants, NEW r \in TableRow, StoreRow(o, r) \/ RemoveRow(o, r)
       PROVE  PurgeKept'
  <2>1. job' = job  BY <1>11 DEF StoreRow, RemoveRow
  <2>2. tableRows \in [Tenants -> SUBSET TableRow]  BY <1>0 DEF Whole, PurgeShape
  <2>3. ASSUME NEW q \in Calls, job[q].gone # {}
        PROVE  job[q].gone \subseteq tableRows'[job[q].tenant]
    <3>1. CASE StoreRow(o, r)
      <4>1. tableRows' = [tableRows EXCEPT ![o] = tableRows[o] \cup {r}]  BY <3>1 DEF StoreRow
      <4> QED  BY <1>1, <2>2, <2>3, <4>1
    <3>2. CASE RemoveRow(o, r)
      <4>1. tableRows' = [tableRows EXCEPT ![o] = tableRows[o] \ {r}] /\ r \in Standing(o)
        BY <3>2 DEF RemoveRow
      <4>2. job[q].tenant = o => r \notin job[q].gone  BY <4>1 DEF Standing
      <4> QED  BY <1>1, <2>2, <2>3, <4>1, <4>2
    <3> QED  BY <1>11, <3>1, <3>2
  <2> QED  BY <1>0, <1>1, <2>1, <2>3 DEF PurgeKept
<1>12. ASSUME NEW o \in Tenants, ChooseOrganization(o) PROVE PurgeKept'
  BY <1>0, <1>12 DEF ChooseOrganization, PurgeKept
<1>13. CASE UNCHANGED purgeVars  BY <1>0, <1>13 DEF purgeVars, PurgeKept
<1> QED
  BY <1>4, <1>5, <1>6, <1>7, <1>8, <1>9, <1>10, <1>11, <1>12, <1>13 DEF NextPurge

LEMMA PurgeKeptSuffices == PurgeKept => TypeOKPurge /\ PurgedWholeOrNotAtAll
BY DEF PurgeKept, Whole, PurgeShape, Job, TypeOKPurge

\* A tenant is purged whole or not at all, whatever the scripts and the application do side by
\* side and wherever a script breaks off (purgeTenant, purge-tenant.ts:102-168;
\* cleanupOrphanTenants, cleanup-orphan-tenants.ts:106-138).
THEOREM TenantsPurgedWhole == SpecPurge => []PurgedWholeOrNotAtAll
<1>1. SpecPurge => []Whole  BY WholeInit, WholeStep, PTL DEF SpecPurge
<1>2. Whole => PurgedWholeOrNotAtAll  BY DEF Whole
<1> QED  BY <1>1, <1>2, PTL

-----------------------------------------------------------------------------
(* The greeting of the public site. A row is greeted by the step that      *)
(* makes it, and its number is new then; a subscription that nobody        *)
(* overtook still sees the row it read, and writes a name that is given    *)
(* unless neither of them is.                                              *)

IntakeStages == {"rest", "select", "insert", "update"}
Request == [stage : IntakeStages, name : Names, keeps : Names, overtaken : BOOLEAN]
Entry == [active : BOOLEAN, name : Names]

IntakeShape ==
    /\ entry \in {Nothing} \cup Entry
    /\ lives \in 0..MaxLife
    /\ request \in [Calls -> Request]
    /\ greeted \in [1..MaxLife -> Nat]

\* What p is about to write is worked out of the row that is there.
StillSees(p) == entry # Nothing /\ request[p].keeps = Coalesce(request[p].name, entry.name)
Undisturbed == \A p \in Calls : Stands(p, "update") /\ ~request[p].overtaken => StillSees(p)

\* The inductive invariant.
Intake == IntakeShape /\ Undisturbed /\ GreetedOncePerRow

-----------------------------------------------------------------------------
LEMMA RestingIsRequest == Resting \in Request /\ Resting.stage = "rest"
BY DEF Resting, Request, IntakeStages, Names

\* Whoever changes the row leaves no subscription that would write what it read before.
LEMMA OvertakenAll ==
    ASSUME IntakeShape, NEW p, Overtake(p, Resting)
    PROVE  /\ request' \in [Calls -> Request]
           /\ Undisturbed'
<1> DEFINE r(q) == [request[q] EXCEPT !.overtaken = @ \/ Stands(q, "update")]
<1>1. ASSUME NEW q \in Calls
      PROVE  /\ r(q) \in Request
             /\ r(q).stage = request[q].stage
             /\ r(q).stage = "update" => r(q).overtaken
  <2>1. request[q] \in Request  BY DEF IntakeShape
  <2>2. (request[q].overtaken \/ Stands(q, "update")) \in BOOLEAN  BY <2>1 DEF Request, Stands
  <2> QED  BY <2>1, <2>2 DEF Request, Stands
<1>2. request' = [q \in Calls |-> IF q = p THEN Resting ELSE r(q)]  BY DEF Overtake
<1> HIDE DEF r
<1>3. request' \in [Calls -> Request]  BY <1>1, <1>2, RestingIsRequest
<1>4. ASSUME NEW q \in Calls, request'[q].stage = "update" PROVE request'[q].overtaken
  BY <1>1, <1>2, <1>4, RestingIsRequest
<1> QED  BY <1>3, <1>4 DEF Undisturbed, Stands

\* The row that the insert makes has a number of its own.
LEMMA NewRowStep ==
    ASSUME Intake, NEW p, NEW n \in Names, NewRow(p, n)
    PROVE  Intake'
<1> USE IntakeAssumption
<1>1. /\ lives \in 0..MaxLife /\ lives < MaxLife /\ lives' = lives + 1
      /\ greeted \in [1..MaxLife -> Nat]
      /\ greeted' = [greeted EXCEPT ![lives + 1] = greeted[lives + 1] + 1]
  BY DEF Intake, IntakeShape, NewRow
<1>2. lives' \in 0..MaxLife /\ lives + 1 \in 1..MaxLife  BY <1>1
<1>3. greeted' \in [1..MaxLife -> Nat]  BY <1>1, <1>2
<1>4. ASSUME NEW k \in 1..MaxLife PROVE greeted'[k] <= IF k <= lives' THEN 1 ELSE 0
  <2>1. greeted[k] \in Nat /\ greeted[k] <= IF k <= lives THEN 1 ELSE 0
    BY <1>1 DEF Intake, GreetedOncePerRow
  <2>2. CASE k = lives + 1
    <3>1. greeted'[k] = greeted[k] + 1  BY <1>1, <2>2
    <3> QED  BY <1>1, <2>1, <2>2, <3>1
  <2>3. CASE k # lives + 1
    <3>1. greeted'[k] = greeted[k]  BY <1>1, <2>3
    <3> QED  BY <1>1, <2>1, <2>3, <3>1
  <2> QED  BY <2>2, <2>3
<1>5. Undisturbed' /\ request' \in [Calls -> Request]
  BY OvertakenAll DEF Intake, NewRow
<1>6. entry' \in Entry  BY DEF NewRow, Entry
<1> QED  BY <1>2, <1>3, <1>4, <1>5, <1>6 DEF Intake, IntakeShape, GreetedOncePerRow, NewRow

\* A step of the subscription of p that leaves the row alone, and leaves p resting, or with a
\* name that was worked out of the row.
LEMMA RequestStep ==
    ASSUME Intake, NEW p \in Calls, NEW r \in Request,
           request' = [request EXCEPT ![p] = r],
           UNCHANGED <<entry, lives, greeted, deceived, unnamed>>,
           r.stage = "update" =>
               entry # Nothing /\ r.keeps = Coalesce(r.name, entry.name)
    PROVE  Intake'
<1>1. request' \in [Calls -> Request]  BY DEF Intake, IntakeShape
<1>2. Undisturbed'
  <2> SUFFICES ASSUME NEW q \in Calls, request'[q].stage = "update", ~request'[q].overtaken
               PROVE  entry # Nothing /\ request'[q].keeps = Coalesce(request'[q].name, entry.name)
    BY DEF Undisturbed, Stands, StillSees, Coalesce
  <2>1. CASE q = p  BY <2>1 DEF Intake, IntakeShape
  <2>2. CASE q # p  BY <2>2 DEF Intake, IntakeShape, Undisturbed, Stands, StillSees
  <2> QED  BY <2>1, <2>2
<1> QED  BY <1>1, <1>2 DEF Intake, IntakeShape, GreetedOncePerRow

\* A row that changes by another hand, without a row being made that is greeted.
LEMMA ElsewhereStep ==
    ASSUME Intake, NEW p, Overtake(p, Resting), entry' \in {Nothing} \cup Entry,
           lives' \in {lives, lives + 1}, lives' <= MaxLife,
           UNCHANGED <<greeted, deceived, unnamed>>
    PROVE  Intake'
<1>1. lives \in Nat /\ lives' \in 0..MaxLife /\ lives <= lives'
  BY IntakeAssumption DEF Intake, IntakeShape
<1>2. ASSUME NEW k \in 1..MaxLife PROVE greeted[k] <= IF k <= lives' THEN 1 ELSE 0
  <2>1. greeted[k] \in Nat /\ greeted[k] <= IF k <= lives THEN 1 ELSE 0
    BY DEF Intake, GreetedOncePerRow, IntakeShape
  <2> QED  BY <1>1, <2>1, IntakeAssumption
<1>3. Undisturbed' /\ request' \in [Calls -> Request]  BY OvertakenAll DEF Intake
<1> QED  BY <1>1, <1>2, <1>3 DEF Intake, IntakeShape, GreetedOncePerRow

\* The update of a subscription that nobody overtook finds its row, and takes no name from it.
LEMMA UpdateStep ==
    ASSUME Intake, NEW p \in Calls, UpdateEntry(p)
    PROVE  Intake'
<1>1. request[p] \in Request  BY DEF Intake, IntakeShape
<1>2. ASSUME ~request[p].overtaken
      PROVE  entry # Nothing /\ (request[p].keeps = Nothing => entry.name = Nothing)
  BY <1>2 DEF Intake, Undisturbed, StillSees, Coalesce, UpdateEntry
<1>3. ~deceived' /\ ~unnamed'
  BY <1>2 DEF Intake, GreetedOncePerRow, UpdateEntry, KeptName
<1>4. entry' \in {Nothing} \cup Entry
  BY <1>1 DEF UpdateEntry, KeptName, Entry, Request
<1>5. UNCHANGED <<lives, greeted>> /\ Overtake(p, Resting)  BY DEF UpdateEntry
<1>6. Undisturbed' /\ request' \in [Calls -> Request]  BY <1>5, OvertakenAll DEF Intake
<1> QED  BY <1>3, <1>4, <1>5, <1>6 DEF Intake, IntakeShape, GreetedOncePerRow

-----------------------------------------------------------------------------
LEMMA IntakeInit == InitIntake => Intake
<1> SUFFICES ASSUME InitIntake PROVE Intake  OBVIOUS
<1>1. lives \in 0..MaxLife  BY IntakeAssumption DEF InitIntake
<1>2. request \in [Calls -> Request] /\ \A p \in Calls : request[p].stage = "rest"
  BY RestingIsRequest DEF InitIntake
<1>3. greeted \in [1..MaxLife -> Nat] /\ \A n \in 1..MaxLife : greeted[n] = 0
  BY DEF InitIntake
<1>4. entry \in {Nothing} \cup Entry  BY DEF InitIntake, Entry
<1> QED  BY <1>1, <1>2, <1>3, <1>4
         DEF Intake, IntakeShape, Undisturbed, Stands, GreetedOncePerRow, InitIntake

LEMMA IntakeStep == Intake /\ [NextIntake]_intakeVars => Intake'
<1> SUFFICES ASSUME Intake, [NextIntake]_intakeVars PROVE Intake'  OBVIOUS
<1> USE RestingIsRequest
<1>1. ASSUME NEW p \in Calls, NEW n \in Names, Subscribe(p, n) PROVE Intake'
  <2>1. CASE entry = Nothing  BY <1>1, <2>1, NewRowStep DEF Subscribe
  <2>2. CASE entry # Nothing
    <3> DEFINE r == [Resting EXCEPT !.stage = "select", !.name = n]
    <3>1. r \in Request /\ r.stage = "select"  BY DEF Resting, Request, IntakeStages, Names
    <3>2. request' = [request EXCEPT ![p] = r] /\ UNCHANGED <<entry, lives, greeted, deceived, unnamed>>
      BY <1>1, <2>2 DEF Subscribe
    <3> HIDE DEF r
    <3> QED  BY <3>1, <3>2, RequestStep
  <2> QED  BY <2>1, <2>2
<1>2. ASSUME NEW p \in Calls, ReadEntry(p) PROVE Intake'
  <2>0. request[p] \in Request /\ UNCHANGED <<entry, lives, greeted, deceived, unnamed>>
        /\ entry \in {Nothing} \cup Entry
    BY <1>2 DEF ReadEntry, Intake, IntakeShape
  <2>1. CASE entry = Nothing
    <3> DEFINE r == [request[p] EXCEPT !.stage = "insert"]
    <3>1. r \in Request /\ r.stage = "insert"  BY <2>0 DEF Request, IntakeStages
    <3>2. request' = [request EXCEPT ![p] = r]  BY <1>2, <2>1 DEF ReadEntry
    <3> HIDE DEF r
    <3> QED  BY <2>0, <3>1, <3>2, RequestStep
  <2>2. CASE entry # Nothing /\ entry.active
    <3>1. request' = [request EXCEPT ![p] = Resting]  BY <1>2, <2>2 DEF ReadEntry
    <3> QED  BY <2>0, <3>1, RequestStep
  <2>3. CASE entry # Nothing /\ ~entry.active
    <3> DEFINE r == [request[p] EXCEPT !.stage = "update",
                                       !.keeps = Coalesce(request[p].name, entry.name)]
    <3>1. Coalesce(request[p].name, entry.name) \in Names
      BY <2>0, <2>3 DEF Coalesce, Request, Entry
    <3>2. r \in Request /\ r.keeps = Coalesce(r.name, entry.name)
      BY <2>0, <3>1 DEF Request, IntakeStages
    <3>3. request' = [request EXCEPT ![p] = r]  BY <1>2, <2>3 DEF ReadEntry
    <3> HIDE DEF r
    <3> QED  BY <2>0, <2>3, <3>2, <3>3, RequestStep
  <2> QED  BY <2>1, <2>2, <2>3
<1>3. ASSUME NEW p \in Calls, InsertAgain(p) PROVE Intake'
  <2>1. CASE entry = Nothing
    <3>1. request[p].name \in Names  BY DEF Intake, IntakeShape, Request
    <3> QED  BY <1>3, <2>1, <3>1, NewRowStep DEF InsertAgain
  <2>2. CASE entry # Nothing  BY <1>3, <2>2, RequestStep DEF InsertAgain
  <2> QED  BY <2>1, <2>2
<1>4. ASSUME NEW p \in Calls, UpdateEntry(p) PROVE Intake'  BY <1>4, UpdateStep
<1>5. ASSUME NEW p \in Calls, LoseRequest(p) PROVE Intake'  BY <1>5, RequestStep DEF LoseRequest
<1>6. ASSUME NEW n \in GivenNames, Inquire(n) PROVE Intake'
  <2>1. entry \in {Nothing} \cup Entry /\ lives \in 0..MaxLife  BY DEF Intake, IntakeShape
  <2>2. entry' \in Entry  BY <1>6, <2>1 DEF Inquire, Coalesce, Entry, Names
  <2>3. lives' \in {lives, lives + 1} /\ lives' <= MaxLife
    BY <1>6, <2>1, IntakeAssumption DEF Inquire
  <2> QED  BY <1>6, <2>2, <2>3, ElsewhereStep DEF Inquire
<1>7. ASSUME NEW e \in {Nothing} \cup Entry, ChangeEntry(e) PROVE Intake'
  <2>1. lives \in 0..MaxLife  BY DEF Intake, IntakeShape
  <2>2. lives' = lives /\ lives <= MaxLife  BY <1>7, <2>1, IntakeAssumption DEF ChangeEntry
  <2> QED  BY <1>7, <2>2, ElsewhereStep DEF ChangeEntry
<1>8. CASE RemoveEntry  BY <1>7, <1>8 DEF RemoveEntry
<1>9. CASE Unsubscribe
  <2>1. entry \in Entry  BY <1>9 DEF Unsubscribe, ChangeEntry, Intake, IntakeShape
  <2>2. [entry EXCEPT !.active = FALSE] \in Entry  BY <2>1 DEF Entry
  <2> QED  BY <1>7, <1>9, <2>2 DEF Unsubscribe
<1>10. CASE UNCHANGED intakeVars
  BY <1>10 DEF intakeVars, Intake, IntakeShape, Undisturbed, StillSees, Stands, GreetedOncePerRow, Coalesce
<1> QED  BY <1>1, <1>2, <1>3, <1>4, <1>5, <1>6, <1>8, <1>9, <1>10 DEF NextIntake, Names

\* Whatever visitors subscribe and inquire at once, and whoever deletes or ends the subscription
\* meanwhile: a row is greeted at most once, and nobody who is told of a reactivation is mistaken
\* about a row that was left alone (recordSubscribeCore, ingest-core.ts:80-128).
THEOREM IntakeGreetedOncePerRow == SpecIntake => []GreetedOncePerRow
<1>1. SpecIntake => []Intake  BY IntakeInit, IntakeStep, PTL DEF SpecIntake
<1>2. Intake => GreetedOncePerRow  BY DEF Intake
<1> QED  BY <1>1, <1>2, PTL

-----------------------------------------------------------------------------
(* The desks side by side.  A behavior of the school is, for each desk,    *)
(* one of the desk's own: its steps are the desk's, and the others leave   *)
(* its variables alone.  So what holds of each desk holds of the school.   *)

LEMMA SchoolBegins ==
    InitSchool => /\ InitRecords /\ InitEditor /\ InitCalendar /\ InitList /\ InitTimetable
                  /\ InitReminders /\ InitPush /\ InitMcp /\ InitDraft /\ InitPortal
                  /\ InitConsole /\ InitPages /\ InitPurge /\ InitIntake
                  /\ InitStaff /\ InitReport
BY DEF InitSchool

LEMMA OthersStay ==
    /\ \A d : OthersRest(d) => /\ d # "records" => UNCHANGED recordVars
                               /\ d # "editor" => UNCHANGED editorVars
                               /\ d # "calendar" => UNCHANGED calendarVars
                               /\ d # "list" => UNCHANGED listVars
                               /\ d # "timetable" => UNCHANGED timetableVars
                               /\ d # "reminders" => UNCHANGED reminderVars
                               /\ d # "push" => UNCHANGED pushVars
                               /\ d # "mcp" => UNCHANGED mcpVars
                               /\ d # "draft" => UNCHANGED draftVars
                               /\ d # "portal" => UNCHANGED portalVars
                               /\ d # "console" => UNCHANGED consoleVars
                               /\ d # "pages" => UNCHANGED pageVars
                               /\ d # "purge" => UNCHANGED purgeVars
                               /\ d # "intake" => UNCHANGED intakeVars
                               /\ d # "staff" => UNCHANGED staffVars
                               /\ d # "reports" => UNCHANGED reportVars
    /\ UNCHANGED deskVars =>
           /\ UNCHANGED recordVars /\ UNCHANGED editorVars /\ UNCHANGED calendarVars
           /\ UNCHANGED listVars /\ UNCHANGED timetableVars /\ UNCHANGED reminderVars
           /\ UNCHANGED pushVars /\ UNCHANGED mcpVars /\ UNCHANGED draftVars
           /\ UNCHANGED portalVars /\ UNCHANGED consoleVars /\ UNCHANGED pageVars
           /\ UNCHANGED purgeVars /\ UNCHANGED intakeVars /\ UNCHANGED staffVars
           /\ UNCHANGED reportVars
BY DEF OthersRest, deskVars

LEMMA EachDeskSteps ==
    [NextSchool]_deskVars =>
        /\ [NextRecords]_recordVars     /\ [NextEditor]_editorVars
        /\ [NextCalendar]_calendarVars  /\ [NextList]_listVars
        /\ [NextTimetable]_timetableVars /\ [NextReminders]_reminderVars
        /\ [NextPush]_pushVars          /\ [NextMcp]_mcpVars
        /\ [NextDraft]_draftVars        /\ [NextPortal]_portalVars
        /\ [NextConsole]_consoleVars    /\ [NextPages]_pageVars
        /\ [NextPurge]_purgeVars        /\ [NextIntake]_intakeVars
        /\ [NextStaff]_staffVars        /\ [NextReport]_reportVars
<1>1. CASE UNCHANGED deskVars  BY <1>1, OthersStay
<1>2. CASE NextSchool
  <2>1. CASE NextRecords /\ OthersRest("records")  BY <2>1, OthersStay
  <2>2. CASE NextEditor /\ OthersRest("editor")  BY <2>2, OthersStay
  <2>3. CASE NextCalendar /\ OthersRest("calendar")  BY <2>3, OthersStay
  <2>4. CASE NextList /\ OthersRest("list")  BY <2>4, OthersStay
  <2>5. CASE NextTimetable /\ OthersRest("timetable")  BY <2>5, OthersStay
  <2>6. CASE NextReminders /\ OthersRest("reminders")  BY <2>6, OthersStay
  <2>7. CASE NextPush /\ OthersRest("push")  BY <2>7, OthersStay
  <2>8. CASE NextMcp /\ OthersRest("mcp")  BY <2>8, OthersStay
  <2>9. CASE NextDraft /\ OthersRest("draft")  BY <2>9, OthersStay
  <2>10. CASE NextPortal /\ OthersRest("portal")  BY <2>10, OthersStay
  <2>11. CASE NextConsole /\ OthersRest("console")  BY <2>11, OthersStay
  <2>12. CASE NextPages /\ OthersRest("pages")  BY <2>12, OthersStay
  <2>13. CASE NextPurge /\ OthersRest("purge")  BY <2>13, OthersStay
  <2>14. CASE NextIntake /\ OthersRest("intake")  BY <2>14, OthersStay
  <2>15. CASE NextStaff /\ OthersRest("staff")  BY <2>15, OthersStay
  <2>16. CASE NextReport /\ OthersRest("reports")  BY <2>16, OthersStay
  <2> QED  BY <1>2, <2>1, <2>2, <2>3, <2>4, <2>5, <2>6, <2>7, <2>8, <2>9, <2>10, <2>11, <2>12,
              <2>13, <2>14, <2>15, <2>16 DEF NextSchool
<1> QED  BY <1>1, <1>2

\* Whatever order the desks' calls, clicks and scans come in, each desk does what it does alone.
THEOREM SchoolIsItsDesks ==
    SpecSchool => /\ SpecRecords /\ SpecEditor /\ SpecCalendar /\ SpecList /\ SpecTimetable
                  /\ SpecReminders /\ SpecPush /\ SpecMcp /\ SpecDraft /\ SpecPortal
                  /\ SpecConsole /\ SpecPages /\ SpecPurge /\ SpecIntake
                  /\ SpecStaff /\ SpecReport
BY SchoolBegins, EachDeskSteps, PTL
DEF SpecSchool, SpecRecords, SpecEditor, SpecCalendar, SpecList, SpecTimetable, SpecReminders,
    SpecPush, SpecMcp, SpecDraft, SpecPortal, SpecConsole, SpecPages, SpecPurge, SpecIntake,
    SpecStaff, SpecReport

\* The tables, forms and calls of every desk hold what their code can put there, in a school of any
\* size (for one, a selection that was left holds no row, section-lessons.tsx:201).
THEOREM SchoolTyped == SpecSchool => []TypesOK
<1>1. SpecRecords => []Sound  BY SoundInit, SoundStep, PTL DEF SpecRecords
<1>2. SpecMcp => []McpTyped  BY McpTypedInit, McpTypedStep, PTL DEF SpecMcp
<1>3. SpecPurge => []PurgeKept  BY PurgeKeptInit, PurgeKeptStep, PTL DEF SpecPurge
<1>4. SpecIntake => []Intake  BY IntakeInit, IntakeStep, PTL DEF SpecIntake
<1>5. Sound /\ McpTyped /\ PurgeKept /\ Intake =>
          TypeOKRecords /\ TypeOKMcp /\ TypeOKPurge /\ TypeOKIntake
  BY PurgeKeptSuffices DEF Sound, McpTyped, Intake, IntakeShape, Entry, Request, IntakeStages,
                           TypeOKIntake
<1> QED
  BY <1>1, <1>2, <1>3, <1>4, <1>5, SchoolIsItsDesks, AlwaysEdited, AlwaysPlaced,
     AlwaysListed, AlwaysFilled, AlwaysReminded, AlwaysPushed, AlwaysDrafted, AlwaysPortalKept,
     AlwaysConsoled, AlwaysPaged, EditedSuffices, PlacedSuffices,
     ListedSuffices, FilledSuffices, RemindedSuffices, PushedSuffices, DraftedSuffices,
     PortalKeptSuffices, ConsoledSuffices, PagedSuffices, StaffTyped, ReportTyped, PTL
  DEF TypesOK

\* A reminder is pushed to a person at most once, and a scan that has gone through a lesson leaves
\* nobody without a row, whatever the scans and the leads (reminder-core.ts:32-77).
THEOREM SchoolRemindsOnce == SpecSchool => []EachRemindedOnce
BY SchoolIsItsDesks, RemindedAtMostOnce, NobodyLeftUnreminded, PTL DEF EachRemindedOnce

\* The server and the browsers agree on who is subscribed, for any number of devices and any cap
\* (push-core.ts:87-125, push-client.ts:19-56).
THEOREM SchoolKnowsItsBrowsers == SpecSchool => []BrowsersAgree
BY SchoolIsItsDesks, CapKept, SubscribedHasRow, PTL DEF BrowsersAgree

\* Nothing of a pupil goes to the provider or to a parent without a consent that stands
\* (report-consent.ts:67-103, auth/portal.ts:34-44).
THEOREM SchoolAsksConsent == SpecSchool => []OnlyUnderConsent
BY SchoolIsItsDesks, SentAfterAck, ParentsServedUnderConsent, PTL DEF OnlyUnderConsent

\* The console edits no row it has deleted, and shows no empty page beside a count of some that
\* was not overtaken (popups-panel.tsx:142, pagination.ts:50-64).
THEOREM SchoolShowsWhatIs == SpecSchool => []ConsoleShowsWhatIs
BY SchoolIsItsDesks, FormNotOnDeletedRow, NoEmptyPageUnlessOvertaken, PTL DEF ConsoleShowsWhatIs

\* What each desk promises alone it promises in the school: notes and cells, baselines, blocks, times
\* and days (lesson-note-core.ts:19-42, lesson-detail.tsx:216, calendar.tsx:170,
\* section-lessons.tsx:113, lesson-insert.ts:30), changes as previewed (mcp-confirm.ts:43-54), drafts
\* within the limit (rate-limit.ts:38-41), tenants purged whole and rows greeted once, a primary among
\* the staff (section-teacher-actions.ts:16-18) and reports only late writers change (report-core.ts:56-91).
THEOREM SchoolKeepsItsPromises ==
    SpecSchool => /\ [](NoteLostOnlyAmongTwins /\ CleanMeansStored /\ UntypedWrittenOnlyWhenStale)
                  /\ [](BlockStandsWhereListed /\ MovedToTimesTypedForIt /\ EveryDayAccounted)
                  /\ [](WrittenAsPreviewed /\ LimiterExact)
                  /\ [](PurgedWholeOrNotAtAll /\ GreetedOncePerRow /\ PrimaryUpkept)
                  /\ CellsAreRegisters /\ LateWritersWereThere
BY SchoolIsItsDesks, NotesLostOnlyAmongTwins, AttendanceAndGradesAreRegisters, BaselinesWereStored,
   UntypedNeedsAReason, BlocksComeBack, TimesAreTheRowsOwn, NoDayDropped, ChangesWrittenAsPreviewed,
   LimiterCountsExactly, TenantsPurgedWhole, IntakeGreetedOncePerRow, PrimaryStaysUpkept,
   LateWritersOnly, PTL
=============================================================================
