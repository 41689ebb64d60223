--------------------------- MODULE Campaign_proofs ---------------------------
(***************************************************************************)
(* The properties of an e-mail campaign for any number of calls and        *)
(* addresses, any batch size and any window, however long a send takes.    *)
(* As long as no run has met another the claim keeps everybody else out    *)
(* and the ledger is as the run counted it; a run that was taken over goes *)
(* on with what it read.  What holds of both is that a run counts the      *)
(* addresses it knows to be in the ledger, that a copy SMTP accepted is    *)
(* in the ledger, or in the hands of a run about to book it, or lost to a  *)
(* fault, and that whoever may still be mailed is paid for: by the first   *)
(* copy, a fault, or a clash.                                              *)
(***************************************************************************)
EXTENDS Campaign, FiniteSetTheorems, TLAPS

Mailing == {"batch", "book"}

\* Reported by SMTP and not in the ledger yet, by a call with local variables j.
Unbooked(j) == IF j.stage = "book" THEN j.sent ELSE {}

\* The addresses K that a run with local variables j counts as done are in the ledger; of
\* its audience it has dealt with them, has them in hand, or has failed.
Counts(j, K) ==
    /\ j.done = Cardinality(K)
    /\ K \cap (j.todo \cup Unbooked(j)) = {}
    /\ j.todo \cap Unbooked(j) = {}
    /\ status # "gone" => K \subseteq ledger
    /\ ~j.met => K = ledger
    /\ ~j.bad => j.audience \subseteq K \cup j.todo \cup Unbooked(j)

\* What a call with local variables j knows of the campaign.
Knows(j) ==
    /\ j.stage # "idle" => j.since <= now /\ (~overrun => now <= j.since + Stale)
    /\ j.met => overrun
    /\ j.stage \in Working /\ ~j.met => status = "sending" /\ claimedAt = j.since
    /\ j.stage \in Mailing => \E K \in SUBSET Emails : Counts(j, K)

Sole == \A p \in Sends : send[p].stage \in Working /\ ~send[p].met => Others(p) = {}

\* Who marks the campaign sent without having met anybody leaves nobody at work.
AloneToTheEnd == status = "sent" /\ lastRun.alone => \A p \in Sends : send[p].stage \notin Working

\* A copy to an address that is not in the ledger is in the hands of a call, or a fault lost it.
Holders(e)   == {p \in Sends : e \in Unbooked(send[p])}
LostToFaults == status # "gone" =>
                  \A e \in Emails \ ledger : inbox[e] <= faults + Cardinality(Holders(e))

\* The calls that may still mail e, each of them paid for.
MayMail(j, e) == \/ j.stage = "lists" /\ status # "gone" /\ e \notin ledger
                 \/ j.stage \in Mailing /\ e \in j.todo
Mailers(e)    == {p \in Sends : MayMail(send[p], e)}
PaidFor       == \A e \in Emails : inbox[e] + Cardinality(Mailers(e)) <= 1 + faults + clashes

\* The inductive invariant.
Orderly == /\ TypeOK
           /\ \A p \in Sends : Knows(send[p])
           /\ Sole
           /\ AloneToTheEnd
           /\ LostToFaults
           /\ PaidFor
           /\ SentReachedEveryone
           /\ RecipientCountTrue

-----------------------------------------------------------------------------
(* Sets of calls and of addresses *)

LEMMA SomeCalls ==
    ASSUME NEW S \in SUBSET Sends
    PROVE  IsFiniteSet(S) /\ Cardinality(S) \in Nat
BY SendAssumption, FS_Subset, FS_CardinalityType

LEMMA FewerCalls ==
    ASSUME NEW S \in SUBSET Sends, NEW T \in SUBSET S
    PROVE  Cardinality(T) <= Cardinality(S)
BY SomeCalls, FS_Subset

LEMMA OneMoreCall ==
    ASSUME NEW S \in SUBSET Sends, NEW x \in Sends, NEW T \in SUBSET (S \cup {x})
    PROVE  Cardinality(T) <= Cardinality(S) + 1
<1>1. IsFiniteSet(S) /\ Cardinality(S) \in Nat  BY SomeCalls
<1>2. Cardinality(S \cup {x}) <= Cardinality(S) + 1  BY <1>1, FS_AddElement
<1>3. S \cup {x} \in SUBSET Sends  OBVIOUS
<1>4. Cardinality(T) <= Cardinality(S \cup {x})  BY <1>3, FewerCalls
<1>5. Cardinality(T) \in Nat /\ Cardinality(S \cup {x}) \in Nat  BY <1>3, SomeCalls
<1> QED  BY <1>1, <1>2, <1>4, <1>5

LEMMA OneCallLess ==
    ASSUME NEW S \in SUBSET Sends, NEW x \in S, NEW T \in SUBSET (S \ {x})
    PROVE  Cardinality(T) + 1 <= Cardinality(S)
<1>1. IsFiniteSet(S) /\ Cardinality(S) \in Nat  BY SomeCalls
<1>2. Cardinality(S \ {x}) = Cardinality(S) - 1  BY <1>1, FS_RemoveElement
<1>3. S \ {x} \in SUBSET Sends  OBVIOUS
<1>4. Cardinality(T) <= Cardinality(S \ {x})  BY <1>3, FewerCalls
<1>5. Cardinality(T) \in Nat  BY SomeCalls
<1> QED  BY <1>1, <1>2, <1>4, <1>5

LEMMA SomeEmails ==
    ASSUME NEW K \in SUBSET Emails
    PROVE  IsFiniteSet(K) /\ Cardinality(K) \in 0..Cardinality(Emails)
<1>1. IsFiniteSet(K) /\ Cardinality(K) <= Cardinality(Emails)  BY SendAssumption, FS_Subset
<1> QED  BY <1>1, SendAssumption, FS_CardinalityType

-----------------------------------------------------------------------------
LEMMA IdleIsSend == Idle \in Send /\ Idle.stage = "idle" /\ Idle.todo = {} /\ Idle.met = FALSE
<1>1. Cardinality(Emails) \in Nat  BY SendAssumption, FS_CardinalityType
<1> QED  BY <1>1, SendAssumption DEF Idle, Send, Stages

LEMMA InitOrderly == Init => Orderly
<1> SUFFICES ASSUME Init PROVE Orderly  OBVIOUS
<1>1. Cardinality(Emails) \in Nat  BY SendAssumption, FS_CardinalityType
<1>2. TypeOK
  <2>1. lastRun \in [audience : SUBSET Emails, alone : BOOLEAN]  BY DEF Init
  <2>2. send \in [Sends -> Send] /\ inbox \in [Emails -> Nat]  BY IdleIsSend DEF Init
  <2>3. /\ claimedAt \in 0..MaxTime /\ now \in 0..MaxTime /\ faults \in 0..MaxFaults
        /\ count \in 0..Cardinality(Emails)
    BY <1>1, SendAssumption DEF Init
  <2>4. status = "draft" /\ ledger = {} /\ active \subseteq Emails /\ clashes = 0 /\ overrun = FALSE
    BY DEF Init
  <2> QED  BY <2>1, <2>2, <2>3, <2>4 DEF TypeOK
<1>3. \A p \in Sends : Knows(send[p])  BY IdleIsSend DEF Init, Knows, Working, Mailing
<1>4. Sole  BY IdleIsSend DEF Init, Sole, Working
<1>5. LostToFaults
  <2>1. \A e : Cardinality(Holders(e)) \in Nat  BY SomeCalls DEF Holders
  <2> QED  BY <2>1 DEF Init, LostToFaults
<1>6. PaidFor
  <2> SUFFICES ASSUME NEW e \in Emails PROVE Cardinality(Mailers(e)) <= 1
    <3>1. \A x : Cardinality(Mailers(x)) \in Nat  BY SomeCalls DEF Mailers
    <3> QED  BY <3>1 DEF Init, PaidFor
  <2>1. Mailers(e) = {}  BY IdleIsSend DEF Init, Mailers, MayMail, Mailing
  <2> QED  BY <2>1, FS_EmptySet
<1> QED
  BY <1>2, <1>3, <1>4, <1>5, <1>6
  DEF Init, Orderly, SentReachedEveryone, RecipientCountTrue, AloneToTheEnd

\* A call that moves without touching the campaign: it may mail nobody new, and drops what it
\* has to book by a fault or with the campaign only.
LEMMA CallStep ==
    ASSUME Orderly, NEW p \in Sends, NEW r \in Send,
           send' = [send EXCEPT ![p] = r],
           UNCHANGED <<row, ledger, active, inbox, history, now>>,
           Knows(r),
           r.stage \in Working => send[p].stage \in Working /\ r.met = send[p].met,
           \A e \in Emails : MayMail(r, e) => MayMail(send[p], e),
           faults' \in 0..MaxFaults,
           \/ faults' = faults /\ (status = "gone" \/ Unbooked(send[p]) \subseteq Unbooked(r))
           \/ faults' = faults + 1
    PROVE  Orderly'
<1>1. /\ send' \in [Sends -> Send] /\ send'[p] = r
      /\ \A q \in Sends \ {p} : send'[q] = send[q]
  BY DEF Orderly, TypeOK
<1>2. faults \in Nat /\ faults <= faults' /\ faults' \in Nat /\ clashes \in Nat
  BY DEF Orderly, TypeOK
<1>3. inbox \in [Emails -> Nat]  BY DEF Orderly, TypeOK
<1>4. TypeOK'  BY <1>1 DEF Orderly, TypeOK, row, history
<1>5. \A q \in Sends : Knows(send[q])'
  BY <1>1 DEF Orderly, Knows, Counts, row, history
<1>6. Sole'
  <2> SUFFICES ASSUME NEW q \in Sends, send'[q].stage \in Working, ~send'[q].met
               PROVE  Others(q)' = {}
    BY DEF Sole
  <2>1. send[q].stage \in Working /\ ~send[q].met  BY <1>1
  <2>2. Others(q) = {}  BY <2>1 DEF Orderly, Sole
  <2> QED  BY <1>1, <2>2 DEF Others
<1>7. AloneToTheEnd'  BY <1>1 DEF Orderly, AloneToTheEnd, row, history
<1>8. LostToFaults'
  <2> SUFFICES ASSUME status # "gone", NEW e \in Emails \ ledger
               PROVE  inbox[e] <= faults' + Cardinality(Holders(e)')
    BY DEF LostToFaults, row
  <2>1. Holders(e) \in SUBSET Sends /\ Holders(e)' \in SUBSET Sends  BY DEF Holders
  <2>2. Cardinality(Holders(e)) \in Nat /\ Cardinality(Holders(e)') \in Nat
    BY <2>1, SomeCalls
  <2>3. inbox[e] <= faults + Cardinality(Holders(e))  BY DEF Orderly, LostToFaults
  <2>4. CASE faults' = faults + 1
    <3>1. Holders(e) \in SUBSET (Holders(e)' \cup {p})  BY <1>1 DEF Holders
    <3>2. Cardinality(Holders(e)) <= Cardinality(Holders(e)') + 1  BY <2>1, <3>1, OneMoreCall
    <3> QED  BY <1>2, <1>3, <2>2, <2>3, <2>4, <3>2
  <2>5. CASE faults' = faults /\ Unbooked(send[p]) \subseteq Unbooked(r)
    <3>1. Holders(e) \in SUBSET (Holders(e)')  BY <1>1, <2>5 DEF Holders
    <3>2. Cardinality(Holders(e)) <= Cardinality(Holders(e)')  BY <2>1, <3>1, FewerCalls
    <3> QED  BY <1>2, <1>3, <2>2, <2>3, <2>5, <3>2
  <2> QED  BY <2>4, <2>5
<1>9. PaidFor'
  <2> SUFFICES ASSUME NEW e \in Emails
               PROVE  inbox[e] + Cardinality(Mailers(e)') <= 1 + faults' + clashes
    BY DEF PaidFor, history
  <2>1. Mailers(e) \in SUBSET Sends  BY DEF Mailers
  <2>2. Mailers(e)' \in SUBSET Mailers(e)  BY <1>1 DEF Mailers, MayMail, row
  <2>3. Cardinality(Mailers(e)') <= Cardinality(Mailers(e))  BY <2>1, <2>2, FewerCalls
  <2>4. Cardinality(Mailers(e)) \in Nat /\ Cardinality(Mailers(e)') \in Nat
    BY <2>1, <2>2, SomeCalls
  <2> QED  BY <1>2, <1>3, <2>3, <2>4 DEF Orderly, PaidFor
<1>10. SentReachedEveryone' /\ RecipientCountTrue'
  BY DEF Orderly, SentReachedEveryone, RecipientCountTrue, row, history
<1> QED  BY <1>4, <1>5, <1>6, <1>7, <1>8, <1>9, <1>10 DEF Orderly

LEMMA FinishStep ==
    ASSUME Orderly, NEW p \in Sends, Finish(p),
           UNCHANGED <<row, ledger, active, inbox, history, now>>,
           \/ faults' = faults /\ (status = "gone" \/ ~At(p, "book"))
           \/ faults < MaxFaults /\ faults' = faults + 1
    PROVE  Orderly'
<1>1. Idle \in Send /\ Knows(Idle) /\ Idle.stage \notin Working /\ \A e : ~MayMail(Idle, e)
  BY IdleIsSend DEF Knows, Working, Mailing, MayMail
<1>2. faults \in 0..MaxFaults  BY DEF Orderly, TypeOK
<1>3. faults' \in 0..MaxFaults  BY <1>2, SendAssumption
<1> QED  BY <1>1, <1>3, CallStep DEF Finish, At, Unbooked

LEMMA SendReadStep ==
    ASSUME Orderly, NEW p \in Sends, SendRead(p)
    PROVE  Orderly'
<1> DEFINE r == [Idle EXCEPT !.stage = "claim", !.since = now]
<1>1. now \in 0..MaxTime /\ faults \in 0..MaxFaults  BY DEF Orderly, TypeOK
<1>2. r \in Send /\ r.stage = "claim" /\ r.since = now /\ ~r.met
  BY <1>1, IdleIsSend DEF Send, Stages
<1>3. /\ send' = [send EXCEPT ![p] = r] /\ send[p].stage = "idle"
      /\ UNCHANGED <<row, ledger, active, inbox, history, now, faults>>
  BY DEF SendRead, At
<1> HIDE DEF r
<1>4. Knows(r) /\ \A e : ~MayMail(r, e)
  BY <1>1, <1>2, SendAssumption DEF Knows, Working, Mailing, MayMail
<1> QED  BY <1>1, <1>2, <1>3, <1>4, CallStep DEF Unbooked, Working

\* A claim that a live call holds is too young to be taken over, until a call outlives it.
LEMMA NobodyElseWorks ==
    ASSUME Orderly, NEW p \in Sends, At(p, "claim"), Claimable(p), ~overrun
    PROVE  Others(p) = {}
<1> SUFFICES ASSUME NEW o \in Sends, send[o].stage \in Working
             PROVE  FALSE
  BY DEF Others
<1>1. send[p] \in Send /\ send[o] \in Send /\ now \in Nat  BY DEF Orderly, TypeOK
<1>2. send[p].since \in Nat /\ send[o].since \in Nat  BY <1>1 DEF Send
<1>3. send[p].since <= now  BY DEF Orderly, Knows, At
<1>4. ~send[o].met /\ status = "sending" /\ claimedAt = send[o].since
  BY DEF Orderly, Knows
<1>5. now <= send[o].since + Stale  BY DEF Orderly, Knows, Working
<1>6. send[o].since + Stale < send[p].since  BY <1>4 DEF Claimable
<1> QED  BY <1>1, <1>2, <1>3, <1>5, <1>6, SendAssumption

LEMMA SendClaimStep ==
    ASSUME Orderly, NEW p \in Sends, SendClaim(p)
    PROVE  Orderly'
<1>1. CASE ~Claimable(p)
  BY <1>1, FinishStep DEF SendClaim, row, history, At, Claim
<1>2. CASE Claimable(p)
  <2>1. /\ send[p] \in Send /\ send \in [Sends -> Send] /\ inbox \in [Emails -> Nat]
        /\ faults \in Nat /\ clashes \in Nat
    BY DEF Orderly, TypeOK
  <2>2. /\ status' = "sending" /\ claimedAt' = send[p].since /\ send[p].stage = "claim"
        /\ clashes' = IF Others(p) = {} THEN clashes ELSE clashes + 1
        /\ UNCHANGED <<count, ledger, active, inbox, lastRun, overrun, now, faults>>
    BY <1>2 DEF SendClaim, Claim, At
  <2>3. send' = [q \in Sends |->
                   IF q = p THEN [send[q] EXCEPT !.stage = "lists", !.met = Others(p) # {}]
                   ELSE [send[q] EXCEPT !.met = @ \/ q \in Others(p)]]
    BY <1>2 DEF SendClaim, Claim
  <2>4. \A q \in Sends :
           /\ send'[q] \in Send
           /\ send'[q].since = send[q].since /\ send'[q].todo = send[q].todo
           /\ send'[q].sent = send[q].sent /\ send'[q].done = send[q].done
           /\ send'[q].bad = send[q].bad /\ send'[q].audience = send[q].audience
    BY <2>1, <2>3 DEF Send, Stages, Working
  <2>5. send'[p].stage = "lists" /\ send'[p].met = (Others(p) # {})
    BY <2>1, <2>3 DEF Send
  <2>6. \A q \in Sends \ {p} : /\ send'[q].stage = send[q].stage
                               /\ send'[q].met = (send[q].met \/ q \in Others(p))
    BY <2>1, <2>3 DEF Send
  <2>7. status # "gone"  BY <1>2 DEF Claimable
  <2>8. Others(p) # {} => overrun  BY <1>2, <2>2, NobodyElseWorks DEF At
  <2>9. send' \in [Sends -> Send]  BY <2>3, <2>4
  <2>10. TypeOK'
    <3>1. claimedAt' \in 0..MaxTime /\ clashes' \in Nat  BY <2>1, <2>2 DEF Send
    <3> QED  BY <2>2, <2>9, <3>1 DEF Orderly, TypeOK
  <2>11. \A q \in Sends : Unbooked(send'[q]) = Unbooked(send[q])
    BY <2>2, <2>4, <2>5, <2>6 DEF Unbooked
  <2>12. \A q \in Sends : Knows(send[q])'
    <3>1. Knows(send[p])'
      BY <2>2, <2>4, <2>5, <2>8 DEF Orderly, Knows, Mailing
    <3>2. ASSUME NEW q \in Sends \ {p} PROVE Knows(send[q])'
      <4>1. Knows(send[q])  BY DEF Orderly
      <4>2. send'[q].met => overrun  BY <2>6, <2>8, <4>1 DEF Knows
      <4>3. send'[q].stage \in Working => send'[q].met  BY <2>6 DEF Others
      <4>4. ASSUME send'[q].stage \in Mailing
            PROVE  \E K \in SUBSET Emails : Counts(send[q], K)'
        <5>1. PICK K \in SUBSET Emails : Counts(send[q], K)
          BY <2>6, <4>1, <4>4 DEF Knows
        <5>2. send'[q].met  BY <4>3, <4>4 DEF Mailing, Working
        <5>3. Counts(send[q], K)'
          BY <2>2, <2>4, <2>7, <2>11, <5>1, <5>2 DEF Counts
        <5> QED  BY <5>3
      <4>5. send'[q].stage # "idle" =>
              send'[q].since <= now /\ (~overrun => now <= send'[q].since + Stale)
        BY <2>4, <2>6, <4>1 DEF Knows
      <4> QED  BY <2>2, <4>2, <4>3, <4>4, <4>5 DEF Knows
    <3> QED  BY <3>1, <3>2
  <2>13. Sole'
    <3> SUFFICES ASSUME NEW q \in Sends, send'[q].stage \in Working, ~send'[q].met
                 PROVE  Others(q)' = {}
      BY DEF Sole
    <3>1. q = p  BY <2>6 DEF Others
    <3>2. Others(p) = {}  BY <2>5, <3>1
    <3> QED  BY <2>6, <3>1, <3>2 DEF Others
  <2>14. LostToFaults'
    <3>1. \A e : Holders(e)' = Holders(e)  BY <2>11 DEF Holders
    <3> QED  BY <2>2, <2>7, <3>1 DEF Orderly, LostToFaults
  <2>15. PaidFor'
    <3> SUFFICES ASSUME NEW e \in Emails
                 PROVE  inbox[e] + Cardinality(Mailers(e)') <= 1 + faults + clashes'
      BY <2>2 DEF PaidFor
    <3>1. /\ Mailers(e) \in SUBSET Sends /\ Mailers(e)' \in SUBSET Sends
          /\ Holders(e) \in SUBSET Sends
      BY DEF Mailers, Holders
    <3>2. /\ Cardinality(Mailers(e)) \in Nat /\ Cardinality(Mailers(e)') \in Nat
          /\ Cardinality(Holders(e)) \in Nat /\ inbox[e] \in Nat
      BY <2>1, <3>1, SomeCalls
    <3>3. Mailers(e)' \in SUBSET (Mailers(e) \cup {p})
      BY <2>2, <2>4, <2>6, <2>7 DEF Mailers, MayMail
    <3>4. inbox[e] + Cardinality(Mailers(e)) <= 1 + faults + clashes
      BY DEF Orderly, PaidFor
    <3>5. CASE Others(p) # {}
      <4>1. Cardinality(Mailers(e)') <= Cardinality(Mailers(e)) + 1
        BY <3>1, <3>3, OneMoreCall
      <4> QED  BY <2>1, <2>2, <3>2, <3>4, <3>5, <4>1
    <3>6. CASE Others(p) = {}
      <4>1. clashes' = clashes  BY <2>2, <3>6
      <4>2. \A q \in Sends : send[q].stage \notin Working
        BY <2>2, <3>6 DEF Others, Working
      <4>3. Mailers(e) = {} /\ Holders(e) = {}
        BY <4>2 DEF Mailers, Holders, MayMail, Unbooked, Mailing, Working
      <4>4. CASE e \in ledger
        <5>1. Mailers(e)' = {}
          BY <2>2, <2>5, <2>6, <4>2, <4>4 DEF Mailers, MayMail, Mailing, Working
        <5> QED  BY <2>1, <3>4, <4>1, <4>3, <5>1
      <4>5. CASE e \notin ledger
        <5>1. inbox[e] <= faults
          <6>1. Cardinality(Holders(e)) = 0  BY <4>3, FS_EmptySet
          <6>2. inbox[e] <= faults + Cardinality(Holders(e))
            BY <2>7, <4>5 DEF Orderly, LostToFaults
          <6> QED  BY <2>1, <6>1, <6>2
        <5>2. Cardinality(Mailers(e)') <= 1
          <6>1. Cardinality(Mailers(e)') <= Cardinality(Mailers(e)) + 1
            BY <3>1, <3>3, OneMoreCall
          <6>2. Cardinality(Mailers(e)) = 0  BY <4>3, FS_EmptySet
          <6> QED  BY <3>2, <6>1, <6>2
        <5> QED  BY <2>1, <3>2, <4>1, <5>1, <5>2
      <4> QED  BY <4>4, <4>5
    <3> QED  BY <3>5, <3>6
  <2> QED
    BY <2>2, <2>10, <2>12, <2>13, <2>14, <2>15
    DEF Orderly, AloneToTheEnd, SentReachedEveryone, RecipientCountTrue
<1> QED  BY <1>1, <1>2

\* At work on a campaign that still has its row: who meets nobody works alone.
LEMMA OthersHaveMet ==
    ASSUME Orderly, NEW p \in Sends, send[p].stage \in Working
    PROVE  \A q \in Sends \ {p} : send[q].stage \in Working => send[q].met
BY DEF Orderly, Sole, Others

LEMMA SendListsStep ==
    ASSUME Orderly, NEW p \in Sends, SendLists(p)
    PROVE  Orderly'
<1> DEFINE r == [send[p] EXCEPT !.audience = active, !.todo = active \ ledger,
                                !.done = Cardinality(ledger),
                                !.stage = IF active = {} THEN "mark_failed" ELSE "batch"]
<1>1. /\ send[p] \in Send /\ send \in [Sends -> Send] /\ inbox \in [Emails -> Nat]
      /\ active \subseteq Emails /\ ledger \subseteq Emails /\ faults \in Nat /\ clashes \in Nat
  BY DEF Orderly, TypeOK
<1>2. Cardinality(ledger) \in 0..Cardinality(Emails)  BY <1>1, SomeEmails
<1>3. /\ r \in Send /\ r.since = send[p].since /\ r.met = send[p].met
      /\ r.stage \in {"batch", "mark_failed"}
      /\ r.audience = active /\ r.todo = active \ ledger /\ r.done = Cardinality(ledger)
  BY <1>1, <1>2 DEF Send, Stages, Working
<1>4. /\ send' = [send EXCEPT ![p] = r] /\ send[p].stage = "lists"
      /\ clashes' = IF status = "gone" THEN clashes + 1 ELSE clashes
      /\ UNCHANGED <<row, ledger, active, inbox, lastRun, overrun, now, faults>>
  BY <1>1 DEF SendLists, WithLists, At, Send
<1> HIDE DEF r
<1>5. /\ send' \in [Sends -> Send] /\ send'[p] = r
      /\ \A q \in Sends \ {p} : send'[q] = send[q]
  BY <1>1, <1>3, <1>4
<1>6. clashes' \in Nat  BY <1>1, <1>4
<1>7. TypeOK'  BY <1>4, <1>5, <1>6 DEF Orderly, TypeOK, row
<1>8. \A q \in Sends : Knows(send[q])'
  <2>1. Knows(send[p])'
    <3>1. Knows(send[p])  BY DEF Orderly
    <3>2. send'[p].stage \in Mailing => Counts(send[p], ledger)'
      BY <1>3, <1>4, <1>5 DEF Counts, Unbooked, Mailing, row
    <3>3. ledger' \in SUBSET Emails  BY <1>1, <1>4
    <3> QED  BY <1>3, <1>4, <1>5, <3>1, <3>2, <3>3 DEF Knows, Working, Mailing, row
  <2>2. \A q \in Sends \ {p} : Knows(send[q])'
    BY <1>4, <1>5 DEF Orderly, Knows, Counts, row
  <2> QED  BY <2>1, <2>2
<1>9. Sole'
  <2>1. \A q \in Sends : Others(q)' = Others(q)
    BY <1>3, <1>4, <1>5 DEF Others, Working
  <2> QED  BY <1>3, <1>4, <1>5, <2>1 DEF Orderly, Sole, Working
<1>10. AloneToTheEnd'
  BY <1>3, <1>4, <1>5 DEF Orderly, AloneToTheEnd, row, Working
<1>11. LostToFaults'
  <2>1. \A e : Holders(e)' = Holders(e)  BY <1>3, <1>4, <1>5 DEF Holders, Unbooked
  <2> QED  BY <1>4, <2>1 DEF Orderly, LostToFaults, row
<1>12. PaidFor'
  <2> SUFFICES ASSUME NEW e \in Emails
               PROVE  inbox[e] + Cardinality(Mailers(e)') <= 1 + faults + clashes'
    BY <1>4 DEF PaidFor
  <2>1. Mailers(e) \in SUBSET Sends /\ Mailers(e)' \in SUBSET Sends  BY DEF Mailers
  <2>2. /\ Cardinality(Mailers(e)) \in Nat /\ Cardinality(Mailers(e)') \in Nat
        /\ inbox[e] \in Nat
    BY <1>1, <2>1, SomeCalls
  <2>3. inbox[e] + Cardinality(Mailers(e)) <= 1 + faults + clashes
    BY DEF Orderly, PaidFor
  <2>4. CASE status = "gone"
    <3>1. Mailers(e)' \in SUBSET (Mailers(e) \cup {p})
      BY <1>4, <1>5 DEF Mailers, MayMail, row
    <3>2. Cardinality(Mailers(e)') <= Cardinality(Mailers(e)) + 1  BY <2>1, <3>1, OneMoreCall
    <3> QED  BY <1>1, <1>4, <2>2, <2>3, <2>4, <3>2
  <2>5. CASE status # "gone"
    <3>1. Mailers(e)' \in SUBSET Mailers(e)
      BY <1>3, <1>4, <1>5, <2>5 DEF Mailers, MayMail, row
    <3>2. Cardinality(Mailers(e)') <= Cardinality(Mailers(e))  BY <2>1, <3>1, FewerCalls
    <3> QED  BY <1>1, <1>4, <2>2, <2>3, <2>5, <3>2
  <2> QED  BY <2>4, <2>5
<1>13. SentReachedEveryone' /\ RecipientCountTrue'
  BY <1>4 DEF Orderly, SentReachedEveryone, RecipientCountTrue, row
<1> QED  BY <1>7, <1>8, <1>9, <1>10, <1>11, <1>12, <1>13 DEF Orderly

\* Whoever is mailed was to be mailed by this call, which takes them off its list; the copy is
\* booked next, or its answer is lost, which is a fault.
LEMMA SendBatchStep ==
    ASSUME Orderly, NEW p \in Sends, SendBatch(p)
    PROVE  Orderly'
<1>1. PICK b \in NextBatch(p) : \E got \in SUBSET b : \E ok \in SUBSET got :
        /\ inbox' = [e \in Emails |-> IF e \in got THEN inbox[e] + 1 ELSE inbox[e]]
        /\ send' = [send EXCEPT ![p] = AfterBatch(send[p], b, ok)]
        /\ (ok = got /\ faults' = faults) \/ (ok # got /\ faults < MaxFaults /\ faults' = faults + 1)
  BY DEF SendBatch
<1>2. PICK got \in SUBSET b : \E ok \in SUBSET got :
        /\ inbox' = [e \in Emails |-> IF e \in got THEN inbox[e] + 1 ELSE inbox[e]]
        /\ send' = [send EXCEPT ![p] = AfterBatch(send[p], b, ok)]
        /\ (ok = got /\ faults' = faults) \/ (ok # got /\ faults < MaxFaults /\ faults' = faults + 1)
  BY <1>1
<1>3. PICK ok \in SUBSET got :
        /\ inbox' = [e \in Emails |-> IF e \in got THEN inbox[e] + 1 ELSE inbox[e]]
        /\ send' = [send EXCEPT ![p] = AfterBatch(send[p], b, ok)]
        /\ (ok = got /\ faults' = faults) \/ (ok # got /\ faults < MaxFaults /\ faults' = faults + 1)
  BY <1>2
<1> DEFINE r == AfterBatch(send[p], b, ok)
<1>4. /\ send[p] \in Send /\ send \in [Sends -> Send] /\ inbox \in [Emails -> Nat]
      /\ faults \in 0..MaxFaults /\ clashes \in Nat
  BY DEF Orderly, TypeOK
<1>5. b \subseteq send[p].todo /\ send[p].todo \subseteq Emails
  BY <1>4 DEF NextBatch, Send
<1>6. /\ r \in Send /\ r.since = send[p].since /\ r.done = send[p].done /\ r.met = send[p].met
      /\ r.audience = send[p].audience /\ r.todo = send[p].todo \ b /\ r.sent = ok
      /\ r.stage = IF ok = {} THEN "batch" ELSE "book"
      /\ ~r.bad => ~send[p].bad /\ ok = b
  BY <1>4, <1>5 DEF Send, Stages, Working, AfterBatch
<1>7. /\ send' = [send EXCEPT ![p] = r] /\ send[p].stage = "batch"
      /\ UNCHANGED <<row, ledger, active, history, now>>
  BY <1>3 DEF SendBatch, At
<1> HIDE DEF r
<1>8. /\ send' \in [Sends -> Send] /\ send'[p] = r
      /\ \A q \in Sends \ {p} : send'[q] = send[q]
  BY <1>4, <1>6, <1>7
<1>9. /\ faults \in Nat /\ faults' \in 0..MaxFaults /\ faults <= faults'
      /\ ok # got => faults' = faults + 1
  BY <1>3, <1>4, SendAssumption
<1>10. Unbooked(r) = ok /\ Unbooked(send[p]) = {}  BY <1>6, <1>7 DEF Unbooked
<1>11. inbox' \in [Emails -> Nat]  BY <1>3, <1>4
<1>12. TypeOK'  BY <1>7, <1>8, <1>9, <1>11 DEF Orderly, TypeOK, row, history
<1>13. \A q \in Sends : Knows(send[q])'
  <2>1. Knows(send[p])'
    <3>1. Knows(send[p])  BY DEF Orderly
    <3>2. PICK K \in SUBSET Emails : Counts(send[p], K)  BY <1>7, <3>1 DEF Knows, Mailing
    <3>3. /\ K \cap (r.todo \cup Unbooked(r)) = {} /\ r.todo \cap Unbooked(r) = {}
          /\ ~r.bad => r.audience \subseteq K \cup r.todo \cup Unbooked(r)
      BY <1>5, <1>6, <1>10, <3>2 DEF Counts
    <3>4. Counts(send[p], K)'
      BY <1>6, <1>7, <1>8, <3>2, <3>3 DEF Counts, Unbooked, row
    <3> QED  BY <1>6, <1>7, <1>8, <3>1, <3>4 DEF Knows, Working, row, history
  <2>2. \A q \in Sends \ {p} : Knows(send[q])'
    BY <1>7, <1>8 DEF Orderly, Knows, Counts, row, history
  <2> QED  BY <2>1, <2>2
<1>14. Sole'
  <2>1. \A q \in Sends : Others(q)' = Others(q)
    BY <1>6, <1>7, <1>8 DEF Others, Working
  <2> QED  BY <1>6, <1>7, <1>8, <2>1 DEF Orderly, Sole, Working
<1>15. AloneToTheEnd'
  BY <1>6, <1>7, <1>8 DEF Orderly, AloneToTheEnd, row, history, Working
<1>16. LostToFaults'
  <2> SUFFICES ASSUME status # "gone", NEW e \in Emails \ ledger
               PROVE  inbox'[e] <= faults' + Cardinality(Holders(e)')
    BY <1>7 DEF LostToFaults, row
  <2>1. Holders(e) \in SUBSET Sends /\ Holders(e)' \in SUBSET Sends  BY DEF Holders
  <2>2. /\ Cardinality(Holders(e)) \in Nat /\ Cardinality(Holders(e)') \in Nat
        /\ inbox[e] \in Nat
    BY <1>4, <2>1, SomeCalls
  <2>3. inbox[e] <= faults + Cardinality(Holders(e))  BY DEF Orderly, LostToFaults
  <2>4. Holders(e) \in SUBSET (Holders(e)') /\ p \notin Holders(e)
    BY <1>8, <1>10 DEF Holders
  <2>5. Cardinality(Holders(e)) <= Cardinality(Holders(e)')  BY <2>1, <2>4, FewerCalls
  <2>6. CASE e \in ok
    <3>1. p \in Holders(e)' /\ Holders(e) \in SUBSET ((Holders(e)') \ {p})
      BY <1>8, <1>10, <2>4, <2>6 DEF Holders
    <3>2. Cardinality(Holders(e)) + 1 <= Cardinality(Holders(e)')
      BY <2>1, <3>1, OneCallLess
    <3>3. inbox'[e] = inbox[e] + 1  BY <1>3, <2>6
    <3> QED  BY <1>9, <2>2, <2>3, <3>2, <3>3
  <2>7. CASE e \in got \ ok
    <3>1. inbox'[e] = inbox[e] + 1 /\ faults' = faults + 1  BY <1>3, <1>9, <2>7
    <3> QED  BY <1>9, <2>2, <2>3, <2>5, <3>1
  <2>8. CASE e \notin got
    <3>1. inbox'[e] = inbox[e]  BY <1>3, <2>8
    <3> QED  BY <1>9, <2>2, <2>3, <2>5, <3>1
  <2> QED  BY <2>6, <2>7, <2>8
<1>17. PaidFor'
  <2> SUFFICES ASSUME NEW e \in Emails
               PROVE  inbox'[e] + Cardinality(Mailers(e)') <= 1 + faults' + clashes
    BY <1>7 DEF PaidFor, history
  <2>1. Mailers(e) \in SUBSET Sends  BY DEF Mailers
  <2>2. Mailers(e)' \in SUBSET Mailers(e)
    BY <1>6, <1>7, <1>8 DEF Mailers, MayMail, Mailing, row
  <2>3. Cardinality(Mailers(e)') <= Cardinality(Mailers(e))  BY <2>1, <2>2, FewerCalls
  <2>4. /\ Cardinality(Mailers(e)) \in Nat /\ Cardinality(Mailers(e)') \in Nat
        /\ inbox[e] \in Nat
    BY <1>4, <2>1, <2>2, SomeCalls
  <2>5. inbox[e] + Cardinality(Mailers(e)) <= 1 + faults + clashes
    BY DEF Orderly, PaidFor
  <2>6. CASE e \in got
    <3>1. p \in Mailers(e)  BY <1>5, <1>7, <2>6 DEF Mailers, MayMail, Mailing
    <3>2. Mailers(e)' \in SUBSET (Mailers(e) \ {p})
      BY <1>6, <1>8, <2>2, <2>6 DEF Mailers, MayMail
    <3>3. Cardinality(Mailers(e)') + 1 <= Cardinality(Mailers(e))
      BY <2>1, <3>1, <3>2, OneCallLess
    <3>4. inbox'[e] = inbox[e] + 1  BY <1>3, <2>6
    <3> QED  BY <1>4, <1>9, <2>4, <2>5, <3>3, <3>4
  <2>7. CASE e \notin got
    <3>1. inbox'[e] = inbox[e]  BY <1>3, <2>7
    <3> QED  BY <1>4, <1>9, <2>3, <2>4, <2>5, <3>1
  <2> QED  BY <2>6, <2>7
<1>18. SentReachedEveryone' /\ RecipientCountTrue'
  BY <1>7 DEF Orderly, SentReachedEveryone, RecipientCountTrue, row, history
<1> QED  BY <1>12, <1>13, <1>14, <1>15, <1>16, <1>17, <1>18 DEF Orderly

LEMMA SendBookStep ==
    ASSUME Orderly, NEW p \in Sends, SendBook(p)
    PROVE  Orderly'
<1>1. /\ send[p] \in Send /\ send \in [Sends -> Send] /\ ledger \subseteq Emails
      /\ inbox \in [Emails -> Nat] /\ faults \in 0..MaxFaults /\ clashes \in Nat
  BY DEF Orderly, TypeOK
<1>2. Knows(send[p]) /\ send[p].stage = "book"  BY DEF SendBook, At, Orderly
<1>3. CASE status = "gone"
  <2> DEFINE r == [send[p] EXCEPT !.stage = "mark_failed"]
  <2>1. r \in Send /\ r.stage = "mark_failed" /\ r.since = send[p].since /\ r.met = send[p].met
    BY <1>1 DEF Send, Stages, Working
  <2>2. send' = [send EXCEPT ![p] = r] /\ UNCHANGED <<row, ledger, active, inbox, history, now, faults>>
    BY <1>3 DEF SendBook, Goto
  <2> HIDE DEF r
  <2>3. Knows(r) /\ \A e : ~MayMail(r, e)
    BY <1>2, <2>1 DEF Knows, Working, Mailing, MayMail
  <2> QED  BY <1>1, <1>2, <1>3, <2>1, <2>2, <2>3, CallStep DEF Working
<1>4. CASE status # "gone"
  <2> DEFINE r == [send[p] EXCEPT !.stage = "batch", !.done = @ + Cardinality(send[p].sent)]
  <2>1. /\ ledger' = ledger \cup send[p].sent /\ send' = [send EXCEPT ![p] = r]
        /\ UNCHANGED <<row, active, inbox, history, now, faults>>
    BY <1>4 DEF SendBook
  <2>2. PICK K \in SUBSET Emails : Counts(send[p], K)  BY <1>2 DEF Knows, Mailing
  <2>3. send[p].sent \subseteq Emails /\ ledger' \subseteq Emails  BY <1>1, <2>1 DEF Send
  <2>4. /\ K \cap send[p].sent = {} /\ K \cap send[p].todo = {}
        /\ send[p].sent \cap send[p].todo = {} /\ K \subseteq ledger
        /\ send[p].done = Cardinality(K) /\ (~send[p].met => K = ledger)
        /\ ~send[p].bad => send[p].audience \subseteq K \cup send[p].todo \cup send[p].sent
    BY <1>2, <1>4, <2>2 DEF Counts, Unbooked
  <2>5. PICK M \in SUBSET Emails : M = K \cup send[p].sent  BY <2>3
  <2>6. Cardinality(M) = send[p].done + Cardinality(send[p].sent)
    <3>1. IsFiniteSet(K) /\ IsFiniteSet(send[p].sent)  BY <2>3, SomeEmails
    <3>2. Cardinality(K) \in Nat /\ Cardinality(send[p].sent) \in Nat
      BY <3>1, FS_CardinalityType
    <3>3. Cardinality(K \cap send[p].sent) = 0  BY <2>4, FS_EmptySet
    <3>4. Cardinality(K \cup send[p].sent)
            = Cardinality(K) + Cardinality(send[p].sent) - Cardinality(K \cap send[p].sent)
      BY <3>1, FS_Union
    <3> QED  BY <2>4, <2>5, <3>2, <3>3, <3>4
  <2>7. Cardinality(M) \in 0..Cardinality(Emails)  BY SomeEmails
  <2>8. /\ r \in Send /\ r.since = send[p].since /\ r.stage = "batch" /\ r.met = send[p].met
        /\ r.todo = send[p].todo /\ r.bad = send[p].bad /\ r.done = Cardinality(M)
        /\ r.audience = send[p].audience
    BY <1>1, <2>6, <2>7 DEF Send, Stages, Working
  <2> HIDE DEF r
  <2>9. /\ send' \in [Sends -> Send] /\ send'[p] = r
        /\ \A q \in Sends \ {p} : send'[q] = send[q]
    BY <1>1, <2>1, <2>8
  <2>10. TypeOK'  BY <2>1, <2>3, <2>9 DEF Orderly, TypeOK, row, history
  <2>11. \A q \in Sends : Knows(send[q])'
    <3>1. Knows(send[p])'
      <4>1. Counts(send[p], M)'
        BY <2>1, <2>4, <2>5, <2>8, <2>9 DEF Counts, Unbooked
      <4> QED  BY <1>2, <2>1, <2>8, <2>9, <4>1 DEF Knows, Working, row, history
    <3>2. ASSUME NEW q \in Sends \ {p} PROVE Knows(send[q])'
      <4>1. Knows(send[q]) /\ (send[q].stage \in Working => send[q].met)
        BY <1>2, OthersHaveMet DEF Orderly, Working
      <4>2. ASSUME send[q].stage \in Mailing
            PROVE  \E L \in SUBSET Emails : Counts(send[q], L)'
        <5>1. PICK L \in SUBSET Emails : Counts(send[q], L)  BY <4>1, <4>2 DEF Knows
        <5>2. send[q].met  BY <4>1, <4>2 DEF Mailing, Working
        <5>3. Counts(send[q], L)'
          BY <1>4, <2>1, <2>9, <5>1, <5>2 DEF Counts, Unbooked, row
        <5> QED  BY <5>3
      <4> QED  BY <2>1, <2>9, <4>1, <4>2 DEF Knows, row, history
    <3> QED  BY <3>1, <3>2
  <2>12. Sole'
    <3>1. \A q \in Sends : Others(q)' = Others(q)
      BY <1>2, <2>8, <2>9 DEF Others, Working
    <3> QED  BY <1>2, <2>8, <2>9, <3>1 DEF Orderly, Sole, Working
  <2>13. ~(status = "sent" /\ lastRun.alone)
    BY <1>2 DEF Orderly, AloneToTheEnd, Working
  <2>14. AloneToTheEnd'  BY <2>1, <2>13 DEF AloneToTheEnd, row, history
  <2>15. LostToFaults'
    <3>1. \A e \in Emails : e \notin ledger' => e \notin ledger /\ Holders(e)' = Holders(e)
      BY <1>2, <2>1, <2>8, <2>9 DEF Holders, Unbooked
    <3> QED  BY <1>4, <2>1, <3>1 DEF Orderly, LostToFaults
  <2>16. PaidFor'
    <3> SUFFICES ASSUME NEW e \in Emails
                 PROVE  inbox[e] + Cardinality(Mailers(e)') <= 1 + faults + clashes
      BY <2>1 DEF PaidFor, history
    <3>1. Mailers(e) \in SUBSET Sends  BY DEF Mailers
    <3>2. Mailers(e)' \in SUBSET Mailers(e)
      BY <1>2, <2>1, <2>8, <2>9 DEF Mailers, MayMail, Mailing, row
    <3>3. Cardinality(Mailers(e)') <= Cardinality(Mailers(e))  BY <3>1, <3>2, FewerCalls
    <3>4. /\ Cardinality(Mailers(e)) \in Nat /\ Cardinality(Mailers(e)') \in Nat
          /\ inbox[e] \in Nat
      BY <1>1, <3>1, <3>2, SomeCalls
    <3>5. inbox[e] + Cardinality(Mailers(e)) <= 1 + faults + clashes  BY DEF Orderly, PaidFor
    <3> QED  BY <1>1, <3>3, <3>4, <3>5
  <2>17. SentReachedEveryone'  BY <2>1 DEF Orderly, SentReachedEveryone, row, history
  <2>18. RecipientCountTrue'
    <3>1. Cardinality(ledger) <= Cardinality(ledger')
      BY <2>1, <2>3, SomeEmails, FS_Subset
    <3>2. Cardinality(ledger) \in Nat /\ Cardinality(ledger') \in Nat /\ count \in Nat
      BY <1>1, <2>3, SomeEmails DEF Orderly, TypeOK
    <3>3. status = "sent" => count <= Cardinality(ledger)  BY DEF Orderly, RecipientCountTrue
    <3>4. count' = count /\ status' = status /\ lastRun' = lastRun  BY <2>1 DEF row, history
    <3>5. status' = "sent" => count' <= Cardinality(ledger')  BY <3>1, <3>2, <3>3, <3>4
    <3> QED  BY <2>13, <3>4, <3>5 DEF RecipientCountTrue
  <2> QED  BY <2>10, <2>11, <2>12, <2>14, <2>15, <2>16, <2>17, <2>18 DEF Orderly
<1> QED  BY <1>3, <1>4

\* A working call ends and says how, whoever holds the claim by then: sent, or failed.
LEMMA CloseStep ==
    ASSUME Orderly, NEW p \in Sends, send[p].stage \in {"batch", "mark_failed"}, Finish(p),
           status # "gone", status' \in {"sent", "failed"}, count' \in 0..Cardinality(Emails),
           lastRun' \in [audience : SUBSET Emails, alone : BOOLEAN],
           status' = "sent" => /\ lastRun'.audience \subseteq ledger
                               /\ count' <= Cardinality(ledger)
                               /\ lastRun'.alone => ~send[p].met /\ count' = Cardinality(ledger),
           UNCHANGED <<claimedAt, ledger, active, inbox, clashes, overrun, now, faults>>
    PROVE  Orderly'
<1>1. /\ send' \in [Sends -> Send] /\ send'[p] = Idle
      /\ \A q \in Sends \ {p} : send'[q] = send[q]
  BY IdleIsSend DEF Orderly, TypeOK, Finish
<1>2. \A q \in Sends \ {p} : send[q].stage \in Working => send[q].met
  BY OthersHaveMet DEF Working
<1>3. Idle.stage \notin Working /\ Idle.stage \notin Mailing /\ ~Idle.met
  BY IdleIsSend DEF Working, Mailing
<1>4. TypeOK'  BY <1>1 DEF Orderly, TypeOK
<1>5. \A q \in Sends : Knows(send[q])'
  <2>1. Knows(send[p])'  BY <1>1, <1>3, IdleIsSend DEF Knows
  <2>2. ASSUME NEW q \in Sends \ {p} PROVE Knows(send[q])'
    <3>1. Knows(send[q])  BY DEF Orderly
    <3>2. ASSUME send[q].stage \in Mailing
          PROVE  \E K \in SUBSET Emails : Counts(send[q], K)'
      <4>1. PICK K \in SUBSET Emails : Counts(send[q], K)  BY <3>1, <3>2 DEF Knows
      <4>2. Counts(send[q], K)'  BY <1>1, <4>1 DEF Counts, Unbooked
      <4> QED  BY <4>2
    <3> QED  BY <1>1, <1>2, <3>1, <3>2 DEF Knows
  <2> QED  BY <2>1, <2>2
<1>6. Sole'
  <2> SUFFICES ASSUME NEW q \in Sends, send'[q].stage \in Working, ~send'[q].met
               PROVE  FALSE
    BY DEF Sole
  <2> QED  BY <1>1, <1>2, <1>3
<1>7. AloneToTheEnd'
  <2> SUFFICES ASSUME status' = "sent", lastRun'.alone, NEW q \in Sends
               PROVE  send'[q].stage \notin Working
    BY DEF AloneToTheEnd
  <2>1. Others(p) = {}  BY DEF Orderly, Sole, Working
  <2> QED  BY <1>1, <1>3, <2>1 DEF Others
<1>8. LostToFaults'
  <2>1. \A e : Holders(e)' = Holders(e)  BY <1>1, IdleIsSend DEF Holders, Unbooked
  <2> QED  BY <2>1 DEF Orderly, LostToFaults
<1>9. PaidFor'
  <2> SUFFICES ASSUME NEW e \in Emails
               PROVE  inbox[e] + Cardinality(Mailers(e)') <= 1 + faults + clashes
    BY DEF PaidFor
  <2>1. Mailers(e) \in SUBSET Sends  BY DEF Mailers
  <2>2. Mailers(e)' \in SUBSET Mailers(e)
    BY <1>1, IdleIsSend DEF Mailers, MayMail, Mailing
  <2>3. Cardinality(Mailers(e)') <= Cardinality(Mailers(e))  BY <2>1, <2>2, FewerCalls
  <2>4. /\ Cardinality(Mailers(e)) \in Nat /\ Cardinality(Mailers(e)') \in Nat
        /\ inbox[e] \in Nat /\ faults \in Nat /\ clashes \in Nat
    BY <2>1, <2>2, SomeCalls DEF Orderly, TypeOK
  <2>5. inbox[e] + Cardinality(Mailers(e)) <= 1 + faults + clashes  BY DEF Orderly, PaidFor
  <2> QED  BY <2>3, <2>4, <2>5
<1>10. SentReachedEveryone' /\ RecipientCountTrue'
  BY DEF SentReachedEveryone, RecipientCountTrue
<1> QED  BY <1>4, <1>5, <1>6, <1>7, <1>8, <1>9, <1>10 DEF Orderly

LEMMA SendEndStep ==
    ASSUME Orderly, NEW p \in Sends, SendEnd(p)
    PROVE  Orderly'
<1>1. /\ send[p] \in Send /\ send \in [Sends -> Send] /\ faults \in 0..MaxFaults
      /\ ledger \subseteq Emails
  BY DEF Orderly, TypeOK
<1>2. Knows(send[p]) /\ send[p].stage = "batch" /\ send[p].todo = {}
  BY DEF SendEnd, At, Orderly
<1>3. CASE send[p].bad
  <2> DEFINE r == [send[p] EXCEPT !.stage = "mark_failed"]
  <2>1. r \in Send /\ r.stage = "mark_failed" /\ r.since = send[p].since /\ r.met = send[p].met
    BY <1>1 DEF Send, Stages, Working
  <2>2. send' = [send EXCEPT ![p] = r] /\ UNCHANGED <<row, ledger, active, inbox, history, now, faults>>
    BY <1>3 DEF SendEnd, Goto, row, history
  <2> HIDE DEF r
  <2>3. Knows(r) /\ \A e : ~MayMail(r, e)
    BY <1>2, <2>1 DEF Knows, Working, Mailing, MayMail
  <2> QED  BY <1>1, <1>2, <2>1, <2>2, <2>3, CallStep DEF Unbooked, Working
<1>4. CASE ~send[p].bad /\ status = "gone"
  BY <1>2, <1>4, FinishStep DEF SendEnd, SentBy, At, row, history
<1>5. CASE ~send[p].bad /\ status # "gone"
  <2>1. /\ status' = "sent" /\ count' = send[p].done /\ Finish(p)
        /\ lastRun' = [audience |-> send[p].audience, alone |-> ~send[p].met]
        /\ UNCHANGED <<claimedAt, ledger, active, inbox, clashes, overrun, now, faults>>
    BY <1>5 DEF SendEnd, SentBy
  <2>2. PICK K \in SUBSET Emails : Counts(send[p], K)  BY <1>2 DEF Knows, Mailing
  <2>3. /\ send[p].audience \subseteq K /\ K \subseteq ledger /\ send[p].done = Cardinality(K)
        /\ ~send[p].met => K = ledger
    BY <1>2, <1>5, <2>2 DEF Counts, Unbooked
  <2>4. Cardinality(K) <= Cardinality(ledger)  BY <1>1, <2>3, SomeEmails, FS_Subset
  <2>5. send[p].done \in 0..Cardinality(Emails)  BY <1>1 DEF Send
  <2>6. lastRun' \in [audience : SUBSET Emails, alone : BOOLEAN]  BY <1>1, <2>1 DEF Send
  <2>7. lastRun'.audience = send[p].audience /\ lastRun'.alone = ~send[p].met  BY <2>1
  <2> QED  BY <1>2, <1>5, <2>1, <2>3, <2>4, <2>5, <2>6, <2>7, CloseStep
<1> QED  BY <1>3, <1>4, <1>5

LEMMA MarkFailedStep ==
    ASSUME Orderly, NEW p \in Sends, MarkFailed(p)
    PROVE  Orderly'
<1>1. /\ send[p].stage = "mark_failed" /\ count \in 0..Cardinality(Emails)
      /\ lastRun \in [audience : SUBSET Emails, alone : BOOLEAN]
  BY DEF MarkFailed, At, Orderly, TypeOK
<1>2. CASE status = "gone"  BY <1>1, <1>2, FinishStep DEF MarkFailed, At, row
<1>3. CASE status # "gone"  BY <1>1, <1>3, CloseStep DEF MarkFailed, history
<1> QED  BY <1>2, <1>3

LEMMA StatementFailsStep ==
    ASSUME Orderly, NEW p \in Sends, StatementFails(p)
    PROVE  Orderly'
<1> DEFINE r == [send[p] EXCEPT !.stage = "mark_failed"]
<1>1. send[p] \in Send /\ faults \in 0..MaxFaults  BY DEF Orderly, TypeOK
<1>2. r \in Send /\ r.stage = "mark_failed" /\ r.since = send[p].since /\ r.met = send[p].met
  BY <1>1 DEF Send, Stages, Working
<1>3. /\ send' = [send EXCEPT ![p] = r] /\ send[p].stage \in {"lists", "book", "batch"}
      /\ UNCHANGED <<row, ledger, active, inbox, history, now>>
      /\ faults < MaxFaults /\ faults' = faults + 1
  BY DEF StatementFails, Goto, At
<1> HIDE DEF r
<1>4. Knows(r) /\ \A e : ~MayMail(r, e)
  BY <1>2, <1>3 DEF Orderly, Knows, Working, Mailing, MayMail
<1>5. faults' \in 0..MaxFaults  BY <1>1, <1>3, SendAssumption
<1> QED  BY <1>2, <1>3, <1>4, <1>5, CallStep DEF Working

\* Whoever still works on a campaign that is deleted has met another run.
LEMMA DeleteStep ==
    ASSUME Orderly, DeleteCampaign
    PROVE  Orderly'
<1>1. /\ status' = "gone" /\ ledger' = {} /\ status \notin {"sending", "gone"}
      /\ UNCHANGED <<claimedAt, count, active, inbox, send, history, now, faults>>
  BY DEF DeleteCampaign
<1>2. TypeOK'  BY <1>1 DEF Orderly, TypeOK, history
<1>3. \A p \in Sends : Knows(send[p])'
  <2> SUFFICES ASSUME NEW p \in Sends PROVE Knows(send[p])'  OBVIOUS
  <2>1. Knows(send[p]) /\ (send[p].stage \in Working => send[p].met)
    BY <1>1 DEF Orderly, Knows
  <2>2. ASSUME send[p].stage \in Mailing
        PROVE  \E K \in SUBSET Emails : Counts(send[p], K)'
    <3>1. PICK K \in SUBSET Emails : Counts(send[p], K)  BY <2>1, <2>2 DEF Knows
    <3>2. send[p].met  BY <2>1, <2>2 DEF Mailing, Working
    <3>3. Counts(send[p], K)'  BY <1>1, <3>1, <3>2 DEF Counts, Unbooked
    <3> QED  BY <3>3
  <2> QED  BY <1>1, <2>1, <2>2 DEF Knows, history
<1>4. Sole'  BY <1>1 DEF Orderly, Sole, Others
<1>5. PaidFor'
  <2> SUFFICES ASSUME NEW e \in Emails
               PROVE  inbox[e] + Cardinality(Mailers(e)') <= 1 + faults + clashes
    BY <1>1 DEF PaidFor, history
  <2>1. Mailers(e) \in SUBSET Sends  BY DEF Mailers
  <2>2. Mailers(e)' \in SUBSET Mailers(e)  BY <1>1 DEF Mailers, MayMail
  <2>3. Cardinality(Mailers(e)') <= Cardinality(Mailers(e))  BY <2>1, <2>2, FewerCalls
  <2>4. /\ Cardinality(Mailers(e)) \in Nat /\ Cardinality(Mailers(e)') \in Nat
        /\ inbox[e] \in Nat /\ faults \in Nat /\ clashes \in Nat
    BY <2>1, <2>2, SomeCalls DEF Orderly, TypeOK
  <2>5. inbox[e] + Cardinality(Mailers(e)) <= 1 + faults + clashes  BY DEF Orderly, PaidFor
  <2> QED  BY <2>3, <2>4, <2>5
<1> QED
  BY <1>1, <1>2, <1>3, <1>4, <1>5
  DEF Orderly, AloneToTheEnd, LostToFaults, SentReachedEveryone, RecipientCountTrue

LEMMA AudienceStep ==
    ASSUME Orderly, active' \subseteq Emails,
           UNCHANGED <<row, ledger, inbox, send, history, now, faults>>
    PROVE  Orderly'
<1>1. TypeOK'  BY DEF Orderly, TypeOK, row, history
<1>2. \A p \in Sends : Knows(send[p])'  BY DEF Orderly, Knows, Counts, row, history
<1>3. LostToFaults' /\ PaidFor'
  BY DEF Orderly, LostToFaults, PaidFor, Holders, Mailers, MayMail, row, history
<1>4. Sole' /\ AloneToTheEnd'  BY DEF Orderly, Sole, Others, AloneToTheEnd, row, history
<1> QED
  BY <1>1, <1>2, <1>3, <1>4
  DEF Orderly, SentReachedEveryone, RecipientCountTrue, row, history

LEMMA TickStep ==
    ASSUME Orderly, Tick
    PROVE  Orderly'
<1>1. now \in 0..MaxTime /\ send \in [Sends -> Send] /\ overrun \in BOOLEAN
  BY DEF Orderly, TypeOK
<1>2. /\ now' = now + 1 /\ now' \in 0..MaxTime
      /\ UNCHANGED <<row, ledger, active, inbox, send, lastRun, clashes, faults>>
  BY <1>1, SendAssumption DEF Tick
<1>3. /\ overrun' \in BOOLEAN /\ (overrun => overrun')
      /\ \A p \in Sends : ~overrun' /\ send[p].stage # "idle" => ~(send[p].since + Stale < now')
  BY DEF Tick, At
<1>4. TypeOK'  BY <1>2, <1>3 DEF Orderly, TypeOK, row
<1>5. \A p \in Sends : Knows(send[p])'
  <2> SUFFICES ASSUME NEW p \in Sends PROVE Knows(send[p])'  OBVIOUS
  <2>1. send[p].since \in Nat /\ now \in Nat  BY <1>1 DEF Send
  <2>2. Knows(send[p])  BY DEF Orderly
  <2>3. send[p].stage # "idle" =>
          send[p].since <= now' /\ (~overrun' => now' <= send[p].since + Stale)
    BY <1>2, <1>3, <2>1, <2>2, SendAssumption DEF Knows
  <2>4. \A K : Counts(send[p], K)' <=> Counts(send[p], K)
    BY <1>2 DEF Counts, Unbooked, row
  <2> QED  BY <1>2, <1>3, <2>2, <2>3, <2>4 DEF Knows, row
<1>6. LostToFaults' /\ PaidFor'
  BY <1>2 DEF Orderly, LostToFaults, PaidFor, Holders, Mailers, MayMail, row
<1>7. Sole' /\ AloneToTheEnd'  BY <1>2 DEF Orderly, Sole, Others, AloneToTheEnd, row
<1> QED
  BY <1>2, <1>4, <1>5, <1>6, <1>7
  DEF Orderly, SentReachedEveryone, RecipientCountTrue, row

LEMMA NextOrderly ==
    ASSUME Orderly, [Next]_vars
    PROVE  Orderly'
<1>1. CASE UNCHANGED vars
  <2>1. active \subseteq Emails  BY DEF Orderly, TypeOK
  <2> QED  BY <1>1, <2>1, AudienceStep DEF vars
<1>2. ASSUME NEW p \in Sends, SendRead(p) \/ SendClaim(p) \/ SendLists(p) \/ SendBatch(p)
                              \/ SendBook(p) \/ SendEnd(p) \/ MarkFailed(p)
      PROVE  Orderly'
  BY <1>2, SendReadStep, SendClaimStep, SendListsStep, SendBatchStep, SendBookStep, SendEndStep,
     MarkFailedStep
<1>3. ASSUME NEW p \in Sends, StatementFails(p) \/ Crash(p)
      PROVE  Orderly'
  BY <1>3, StatementFailsStep, FinishStep DEF Crash
<1>4. CASE DeleteCampaign  BY <1>4, DeleteStep
<1>5. ASSUME NEW e \in Emails, Subscribe(e) \/ Leave(e)
      PROVE  Orderly'
  <2>1. active' \subseteq Emails /\ UNCHANGED <<row, ledger, inbox, send, history, now, faults>>
    BY <1>5 DEF Subscribe, Leave, Orderly, TypeOK
  <2> QED  BY <2>1, AudienceStep
<1>6. CASE Tick  BY <1>6, TickStep
<1> QED  BY <1>1, <1>2, <1>3, <1>4, <1>5, <1>6 DEF Next

-----------------------------------------------------------------------------
\* The invariant holds throughout (sendCampaignCore, deleteCampaignCore and the clock).
THEOREM CampaignOrderly == Spec => []Orderly
<1>1. Init => Orderly  BY InitOrderly
<1>2. Orderly /\ [Next]_vars => Orderly'  BY NextOrderly
<1> QED  BY <1>1, <1>2, PTL DEF Spec

\* The campaign, its ledger and the local variables of the calls keep their types; above all
\* the count a call carries over its batches never exceeds the number of addresses.
THEOREM CampaignTyped == Spec => []TypeOK
<1>1. Orderly => TypeOK  BY DEF Orderly
<1> QED  BY <1>1, CampaignOrderly, PTL

\* As long as no call outlives STALE_SENDING_MS the conditional UPDATE admits one call at a time
\* and the row cannot be deleted under it (campaigns-core.ts, defence 1 and deleteCampaignCore).
THEOREM RunsAlone == Spec => []OneRunAtATime
<1>1. Orderly => OneRunAtATime
  <2> SUFFICES ASSUME Orderly, ~overrun, NEW p \in Sends, send[p].stage \in Working
               PROVE  status = "sending" /\ Others(p) = {}
    BY DEF OneRunAtATime
  <2>1. Knows(send[p])  BY DEF Orderly
  <2>2. send[p].met \in BOOLEAN  BY DEF Orderly, TypeOK, Send
  <2>3. ~send[p].met  BY <2>1, <2>2 DEF Knows
  <2> QED  BY <2>1, <2>3 DEF Knows, Orderly, Sole
<1> QED  BY <1>1, CampaignOrderly, PTL

\* A copy beyond the first is owed to a crash, a failed statement or an answer SMTP gave in vain,
\* or to a run that met another; calls that only retry, or race for the claim, add none, and each
\* fault and each clash adds one at most.
THEOREM DuplicatesAreExplained == Spec => []ExtraCopiesExplained
<1>1. Orderly => ExtraCopiesExplained
  <2> SUFFICES ASSUME Orderly, NEW e \in Emails
               PROVE  inbox[e] <= 1 + faults + clashes
    BY DEF ExtraCopiesExplained
  <2>1. inbox[e] + Cardinality(Mailers(e)) <= 1 + faults + clashes  BY DEF Orderly, PaidFor
  <2>2. Cardinality(Mailers(e)) \in Nat  BY SomeCalls DEF Mailers
  <2>3. inbox[e] \in Nat /\ faults \in Nat /\ clashes \in Nat  BY DEF Orderly, TypeOK
  <2> QED  BY <2>1, <2>2, <2>3
<1> QED  BY <1>1, CampaignOrderly, PTL

\* "Sent" means that the whole audience of the run that said so is in the ledger, taken over or not.
THEOREM SentMeansEveryone == Spec => []SentReachedEveryone
<1>1. Orderly => SentReachedEveryone  BY DEF Orderly
<1> QED  BY <1>1, CampaignOrderly, PTL

\* recipient_count is the size of the ledger, however many runs it took to fill it, unless the
\* last one met another; then it may only be too low.
THEOREM CountIsTrue == Spec => []RecipientCountTrue
<1>1. Orderly => RecipientCountTrue  BY DEF Orderly
<1> QED  BY <1>1, CampaignOrderly, PTL

\* Whoever is in the ledger gets no further copy from a run that met no other: it takes its
\* batches from those that were not in the ledger when it read it, and nobody else has written.
THEOREM NoMailToLedger == Spec => LedgeredNotMailedAgain
<1>1. ASSUME Orderly, [Next]_vars
      PROVE  [\A e \in ledger : inbox'[e] # inbox[e] =>
                 \E p \in Sends : send[p].met /\ At(p, "batch") /\ send'[p] # send[p]]_vars
  <2> SUFFICES ASSUME Next, NEW e \in ledger, inbox'[e] # inbox[e]
               PROVE  \E p \in Sends : send[p].met /\ At(p, "batch") /\ send'[p] # send[p]
    BY <1>1
  <2>1. /\ e \in Emails /\ inbox \in [Emails -> Nat] /\ send \in [Sends -> Send]
    BY <1>1 DEF Orderly, TypeOK
  <2>2. ASSUME NEW p \in Sends, SendBatch(p)
        PROVE  send[p].met /\ At(p, "batch") /\ send'[p] # send[p]
    <3>1. At(p, "batch") /\ Knows(send[p])  BY <1>1, <2>2 DEF Orderly, SendBatch
    <3>2. PICK b \in NextBatch(p) : \E got \in SUBSET b : \E ok \in SUBSET got :
            /\ inbox' = [x \in Emails |-> IF x \in got THEN inbox[x] + 1 ELSE inbox[x]]
            /\ send' = [send EXCEPT ![p] = AfterBatch(send[p], b, ok)]
      BY <2>2 DEF SendBatch
    <3>3. b \subseteq send[p].todo  BY DEF NextBatch
    <3>4. e \in b  BY <2>1, <3>2
    <3>5. send[p].met
      <4>1. PICK K \in SUBSET Emails : Counts(send[p], K)  BY <3>1 DEF Knows, Mailing, At
      <4> QED  BY <3>3, <3>4, <4>1 DEF Counts
    <3>6. send'[p].todo = send[p].todo \ b
      BY <2>1, <3>2 DEF AfterBatch, Send
    <3> QED  BY <3>1, <3>3, <3>4, <3>5, <3>6
  <2>3. ASSUME NEW p \in Sends,
               SendRead(p) \/ SendClaim(p) \/ SendLists(p) \/ SendBook(p)
               \/ SendEnd(p) \/ MarkFailed(p) \/ StatementFails(p) \/ Crash(p)
        PROVE  inbox' = inbox
    BY <2>3 DEF SendRead, SendClaim, SendLists, WithLists, SendBook, SendEnd, MarkFailed,
                StatementFails, Crash
  <2>4. ASSUME NEW a \in Emails, Subscribe(a) \/ Leave(a)
        PROVE  inbox' = inbox
    BY <2>4 DEF Subscribe, Leave
  <2> QED  BY <2>2, <2>3, <2>4 DEF Next, DeleteCampaign, Tick
<1> QED  BY <1>1, CampaignOrderly, PTL DEF Spec, LedgeredNotMailedAgain
=============================================================================
