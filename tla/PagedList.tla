------------------------------ MODULE PagedList ------------------------------
(***************************************************************************)
(* The paged lists of the site console, subscribers and inquiries: the     *)
(* rows of a page and their count are read side by side, and read again    *)
(* when the page asked for lies past the end, while visitors and other     *)
(* browsers add rows and delete them.  The number in the URL may be any.   *)
(***************************************************************************)
EXTENDS Statements, Integers

CONSTANTS
    MaxEntries, \* bound: rows of the list
    PageSize    \* limit

VARIABLES
    entries,    \* the number of rows
    reader,     \* the read of one page, under way
    view        \* the page that was shown last

pageVars == <<entries, reader, view>>

ASSUME PageAssumption == MaxEntries \in Nat \ {0} /\ PageSize \in Nat \ {0}

NoReader == [page |-> 0, rows |-> -1, total |-> -1, moved |-> FALSE]

\* Rows of page n when there are `total`.
OnPageOf(n, total) == LET past == (n - 1) * PageSize IN
                      IF total <= past THEN 0
                      ELSE IF total - past < PageSize THEN total - past ELSE PageSize
LastPage(total) == (total + PageSize - 1) \div PageSize

InitPages ==
    /\ entries \in 0..MaxEntries
    /\ reader = NoReader
    /\ view = [page |-> 1, rows |-> OnPageOf(1, entries), total |-> entries, moved |-> FALSE]

-----------------------------------------------------------------------------

AskForPage(n) ==
    /\ reader = NoReader
    /\ reader' = [NoReader EXCEPT !.page = n]
    /\ UNCHANGED <<entries, view>>

\* Promise.all: the two statements run side by side.
ReadRows ==
    /\ reader.page > 0 /\ reader.rows < 0
    /\ reader' = [reader EXCEPT !.rows = OnPageOf(reader.page, entries)]
    /\ UNCHANGED <<entries, view>>

CountRows ==
    /\ reader.page > 0 /\ reader.total < 0
    /\ reader' = [reader EXCEPT !.total = entries]
    /\ UNCHANGED <<entries, view>>

\* clampPage: a page past the last one is read again as the last one; an empty table stays empty.
NeverPastEnd == FALSE
PastEnd == reader.total > 0 /\ reader.page > LastPage(reader.total)

ReadAgain ==
    /\ reader.rows >= 0 /\ reader.total >= 0
    /\ PastEnd
    /\ reader' = [reader EXCEPT !.page = LastPage(reader.total),
                                !.rows = OnPageOf(LastPage(reader.total), entries)]
    /\ UNCHANGED <<entries, view>>

ShowPage ==
    /\ reader.rows >= 0 /\ reader.total >= 0
    /\ ~PastEnd
    /\ view' = reader
    /\ reader' = NoReader
    /\ UNCHANGED entries

\* deleteSubscriberCore from any browser, and the visitors of the site.
ChangeEntries(n) ==
    /\ entries' = n
    /\ reader' = IF reader = NoReader THEN reader ELSE [reader EXCEPT !.moved = TRUE]
    /\ UNCHANGED view

DeleteEntry == entries > 0 /\ ChangeEntries(entries - 1)
NewEntry    == entries < MaxEntries /\ ChangeEntries(entries + 1)

NextPages ==
    \/ \E n \in 1..MaxEntries : AskForPage(n)
    \/ ReadRows \/ CountRows \/ ReadAgain \/ ShowPage \/ DeleteEntry \/ NewEntry

SpecPages == InitPages /\ [][NextPages]_pageVars

-----------------------------------------------------------------------------
TypeOKPages ==
    /\ entries \in 0..MaxEntries
    /\ \A r \in {reader, view} : /\ r.page \in 0..MaxEntries /\ r.rows \in -1..PageSize
                                /\ r.total \in -1..MaxEntries /\ r.moved \in BOOLEAN

\* A page that shows no row, while the count beside it says that there are some, was overtaken by
\* a deletion during the read; it does not come of the page asked for (pagination.ts:50-64).
EmptyPageIsTrue == view.rows = 0 /\ view.total > 0 => view.moved
=============================================================================
