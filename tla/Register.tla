------------------------------ MODULE Register ------------------------------
(***************************************************************************)
(* What a save promises about the cell it writes: the cell is a register.  *)
(* A save that is acknowledged took effect at one instant between its      *)
(* start and its answer; it may have been overwritten since, but only by a *)
(* save that took effect after it.  A save that fails promises nothing.    *)
(***************************************************************************)
CONSTANTS Writers, Values

VARIABLES value, writer

registerVars == <<value, writer>>

\* A writer that is not saving keeps the answer it got last.
Off(ok) == [on |-> FALSE, ok |-> ok]
On(v)   == [on |-> TRUE, arg |-> v, took |-> FALSE]
Busy    == {w \in Writers : writer[w].on}

RegisterInit == value \in Values /\ writer = [w \in Writers |-> Off(FALSE)]

\* The steps of a writer that is not saving, and of one that is.
Begin(w) == /\ writer'[w].on
            /\ \E v \in Values : writer' = [writer EXCEPT ![w] = On(v)]
            /\ UNCHANGED value

\* w takes effect; those in absorbed took effect just before it, and may take effect again.
Take(w) ==
    /\ value' = writer[w].arg
    /\ \E absorbed \in SUBSET Busy :
           writer' = [u \in Writers |-> IF u \in absorbed \cup {w}
                                        THEN [writer[u] EXCEPT !.took = TRUE]
                                        ELSE writer[u]]

Acknowledge(w) == /\ writer[w].took
                  /\ writer' = [writer EXCEPT ![w] = Off(TRUE)]
                  /\ UNCHANGED value

Fail(w) == /\ writer' = [writer EXCEPT ![w] = Off(FALSE)]
           /\ UNCHANGED value

RegisterNext == \E w \in Writers : IF writer[w].on THEN Take(w) \/ Acknowledge(w) \/ Fail(w)
                                                   ELSE Begin(w)

RegisterSpec == RegisterInit /\ [][RegisterNext]_registerVars
=============================================================================
