-------------------------- MODULE Capability_proofs --------------------------
(***************************************************************************)
(* Share links for any number of calls, rows and tokens.  A drawn token is *)
(* in the hands of one call and reaches nobody before it stands in a row;  *)
(* so what a rotation or a revocation found out when it began can stand in *)
(* no row but the one it is about to write, since the partial unique index *)
(* lets no second row live beside that one.                                *)
(***************************************************************************)
EXTENDS Capability, TLAPS

Holding == {"create", "rotate", "rotate_create"}    \* with a new token
ByRow   == {"renew", "rotate", "revoke"}            \* about to write a row by id
Ending  == {"rotate", "revoke"}                     \* about to turn off what was out

TokensPlaced ==
    /\ void \subseteq out
    /\ \A i \in Rows : link[i] # NoRow => link[i].token \in out

CallsReady == \A p \in Calls :
    /\ call[p].was \subseteq out
    /\ call[p].stage \in ByRow => call[p].row \in Rows /\ link[call[p].row] # NoRow
    /\ call[p].stage = "renew" => call[p].token \in out
    /\ call[p].stage \in Holding => call[p].token \in drawn \ out

HeldOnce == \A p, q \in Calls :
    /\ call[p].stage \in Holding
    /\ call[q].stage \in Holding
    /\ call[p].token = call[q].token
    => p = q

OneLives == \A i, j \in Unrevoked : i = j

\* What an ending call is to turn off stands in no living row but its own.
OnlyThereToEnd == \A p \in Calls : call[p].stage \in Ending =>
    \A i \in Unrevoked \ {call[p].row} : link[i].token \notin call[p].was

LivingNotVoid == \A i \in Unrevoked : link[i].token \notin void

\* The inductive invariant; its last part is what the index of the share tables adds.
Guarded == /\ TypeOK
           /\ TokensPlaced
           /\ CallsReady
           /\ HeldOnce
           /\ ~Feed => OneLives /\ OnlyThereToEnd /\ LivingNotVoid

-----------------------------------------------------------------------------
LEMMA IdleIsCall == Idle \in Call /\ Idle.stage = "idle" /\ Idle.was = {}
BY DEF Idle, Call, Stages

LEMMA RowTyped ==
    ASSUME TypeOK, NEW i \in Rows, link[i] # NoRow
    PROVE  link[i] \in LinkRow /\ link[i].token \in Tokens
BY DEF TypeOK, LinkRow

LEMMA InitGuarded == Init => Guarded
<1> SUFFICES ASSUME Init PROVE Guarded  OBVIOUS
<1>1. TypeOK  BY IdleIsCall DEF Init, TypeOK
<1>2. TokensPlaced /\ OneLives /\ LivingNotVoid
  BY DEF Init, TokensPlaced, OneLives, LivingNotVoid, Unrevoked
<1>3. CallsReady /\ HeldOnce /\ OnlyThereToEnd
  BY IdleIsCall DEF Init, CallsReady, HeldOnce, OnlyThereToEnd, ByRow, Holding, Ending
<1> QED  BY <1>1, <1>2, <1>3 DEF Guarded

\* A call that moves while the rows stay; it may have drawn the token t.
LEMMA CallStep ==
    ASSUME Guarded, NEW p \in Calls, NEW r \in Call,
           call' = [call EXCEPT ![p] = r],
           UNCHANGED <<link, out, void>>,
           drawn \subseteq drawn', drawn' \subseteq Tokens,
           r.was \subseteq out,
           r.stage \in ByRow => r.row \in Rows /\ link[r.row] # NoRow,
           r.stage = "renew" => r.token \in out,
           r.stage \in Holding => r.token \in drawn' \ drawn,
           ~Feed /\ r.stage \in Ending => r.row \in Unrevoked
    PROVE  Guarded'
<1>1. /\ call' \in [Calls -> Call] /\ call'[p] = r
      /\ \A q \in Calls \ {p} : call'[q] = call[q]
  BY DEF Guarded, TypeOK
<1>2. TypeOK'  BY <1>1 DEF Guarded, TypeOK
<1>3. TokensPlaced'  BY DEF Guarded, TokensPlaced
<1>4. CallsReady'
  <2>1. out \subseteq drawn  BY DEF Guarded, TypeOK
  <2> QED  BY <1>1, <2>1 DEF Guarded, CallsReady
<1>5. HeldOnce'
  <2>1. \A q \in Calls \ {p} : call[q].stage \in Holding => call[q].token \in drawn
    BY DEF Guarded, CallsReady
  <2> QED  BY <1>1, <2>1 DEF Guarded, HeldOnce
<1>6. ASSUME ~Feed PROVE OneLives' /\ OnlyThereToEnd' /\ LivingNotVoid'
  BY <1>1, <1>6 DEF Guarded, OneLives, OnlyThereToEnd, LivingNotVoid, Unrevoked
<1> QED  BY <1>2, <1>3, <1>4, <1>5, <1>6 DEF Guarded

LEMMA FinishStep ==
    ASSUME Guarded, NEW p \in Calls, Finish(p), UNCHANGED <<link, drawn, out, void>>
    PROVE  Guarded'
<1>1. drawn \subseteq Tokens  BY DEF Guarded, TypeOK
<1> QED  BY <1>1, IdleIsCall, CallStep DEF Finish, ByRow, Holding, Ending

LEMMA BeginStep ==
    ASSUME Guarded, NEW p \in Calls, NEW stage \in Stages, NEW i \in Rows \cup {NoRow},
           NEW t \in Tokens \cup {NoRow},
           Begin(p, stage, i, t),
           UNCHANGED <<link, out, void>>,
           drawn \subseteq drawn', drawn' \subseteq Tokens,
           stage \in ByRow => i \in Unrevoked,
           stage = "renew" => t \in out,
           stage \in Holding => t \in drawn' \ drawn
    PROVE  Guarded'
<1> DEFINE r == [stage |-> stage, row |-> i, token |-> t, was |-> out]
<1>1. out \subseteq Tokens  BY DEF Guarded, TypeOK
<1>2. /\ r \in Call /\ r.stage = stage /\ r.row = i /\ r.token = t /\ r.was = out
      /\ call' = [call EXCEPT ![p] = r]
  BY <1>1 DEF Begin, Call
<1> HIDE DEF r
<1>3. stage \in ByRow => i \in Rows /\ link[i] # NoRow  BY DEF Unrevoked
<1> QED  BY <1>2, <1>3, CallStep DEF Ending, ByRow

LEMMA GetReadStep ==
    ASSUME Guarded, NEW p \in Calls, NEW t \in Tokens, GetRead(p, t)
    PROVE  Guarded'
<1>1. drawn \subseteq Tokens  BY DEF Guarded, TypeOK
<1>2. ASSUME NEW i \in Unrevoked
      PROVE  i \in Rows /\ link[i].token \in out /\ link[i].token \in Tokens
  BY RowTyped DEF Unrevoked, Guarded, TokensPlaced
<1>3. ASSUME NEW i \in Served, out' = out \cup {link[i].token}, UNCHANGED <<drawn, call>>
      PROVE  Guarded'
  <2>1. UNCHANGED vars  BY <1>2, <1>3 DEF Served, GetRead, vars
  <2> QED
    BY <2>1 DEF vars, Guarded, TypeOK, TokensPlaced, CallsReady, HeldOnce, OneLives,
                OnlyThereToEnd, LivingNotVoid, Unrevoked
<1>4. ASSUME NEW i \in Unrevoked \ Served, Begin(p, "renew", i, link[i].token),
             UNCHANGED <<drawn, out>>
      PROVE  Guarded'
  BY <1>1, <1>2, <1>4, BeginStep DEF GetRead, Stages, Holding
<1>5. ASSUME t \notin drawn, drawn' = drawn \cup {t}, Begin(p, "create", NoRow, t), UNCHANGED out
      PROVE  Guarded'
  BY <1>1, <1>5, BeginStep DEF GetRead, Stages, ByRow
<1> QED  BY <1>3, <1>4, <1>5 DEF GetRead

LEMMA RotateReadStep ==
    ASSUME Guarded, NEW p \in Calls, NEW t \in Tokens, RotateRead(p, t)
    PROVE  Guarded'
<1>1. drawn \subseteq Tokens  BY DEF Guarded, TypeOK
<1>2. ASSUME NEW i \in Unrevoked, Begin(p, "rotate", i, t)
      PROVE  Guarded'
  <2>1. i \in Rows  BY DEF Unrevoked
  <2> QED  BY <1>1, <1>2, <2>1, BeginStep DEF RotateRead, Stages
<1>3. ASSUME Begin(p, "rotate_create", NoRow, t)
      PROVE  Guarded'
  BY <1>1, <1>3, BeginStep DEF RotateRead, Stages, ByRow
<1> QED  BY <1>2, <1>3 DEF RotateRead

LEMMA RevokeReadStep ==
    ASSUME Guarded, NEW p \in Calls, RevokeRead(p)
    PROVE  Guarded'
<1>1. ASSUME NEW i \in Unrevoked, Begin(p, "revoke", i, NoRow), UNCHANGED void
      PROVE  Guarded'
  <2>1. i \in Rows /\ drawn \subseteq Tokens  BY DEF Unrevoked, Guarded, TypeOK
  <2> QED  BY <1>1, <2>1, BeginStep DEF RevokeRead, Stages, Holding
<1>2. ASSUME Unrevoked = {}, void' = void \cup out, UNCHANGED call
      PROVE  Guarded'
  <2>1. UNCHANGED <<link, drawn, out, call>>  BY <1>2 DEF RevokeRead
  <2>2. TypeOK' /\ TokensPlaced'
    BY <1>2, <2>1 DEF Guarded, TypeOK, TokensPlaced
  <2>3. Unrevoked' = {}  BY <1>2, <2>1 DEF Unrevoked
  <2>4. CallsReady' /\ HeldOnce'
    BY <2>1 DEF Guarded, CallsReady, HeldOnce
  <2> QED
    BY <2>2, <2>3, <2>4 DEF Guarded, OneLives, OnlyThereToEnd, LivingNotVoid
<1> QED  BY <1>1, <1>2 DEF RevokeRead

-----------------------------------------------------------------------------
\* A call writes row i and ends: nobody else's row changes, nothing comes out but the token of
\* the row, and if that is new it was held by this call.
LEMMA WriteStep ==
    ASSUME Guarded, NEW p \in Calls, Finish(p), UNCHANGED drawn,
           NEW i \in Rows, NEW r \in LinkRow, link' = [link EXCEPT ![i] = r],
           NEW t, t = r.token, out' = out \cup {t},
           t \in out \/ (call[p].stage \in Holding /\ t = call[p].token),
           void' \in {void, void \cup call[p].was},
           ~Feed /\ ~r.revoked => \A j \in Unrevoked : j = i,
           ~Feed /\ ~r.revoked => t \notin void',
           ~Feed /\ ~r.revoked /\ t \in out => link[i].token = t /\ i \in Unrevoked,
           ~Feed /\ void' # void /\ call[p].stage = "rotate_create" => Unrevoked = {},
           void' # void => call[p].stage \in {"rotate", "revoke", "rotate_create"},
           void' # void /\ call[p].stage \in Ending => i = call[p].row
    PROVE  Guarded'
<1>1. /\ call' \in [Calls -> Call] /\ call'[p] = Idle
      /\ \A q \in Calls \ {p} : call'[q] = call[q]
  BY IdleIsCall DEF Guarded, TypeOK, Finish
<1>2. /\ link' \in [Rows -> LinkRow \cup {NoRow}] /\ link'[i] = r
      /\ \A j \in Rows \ {i} : link'[j] = link[j]
  BY DEF Guarded, TypeOK
<1>3. r # NoRow  BY LinkAssumption
<1>4. t \in drawn /\ out \subseteq drawn /\ call[p].was \subseteq out
  BY DEF Guarded, TypeOK, CallsReady
<1>5. TypeOK'
  BY <1>1, <1>2, <1>4 DEF Guarded, TypeOK, TokensPlaced
<1>6. TokensPlaced'
  BY <1>2, <1>4 DEF Guarded, TokensPlaced
<1>7. CallsReady'
  <2>1. ASSUME NEW q \in Calls \ {p}, call[q].stage \in Holding
        PROVE  call[q].token \in drawn \ out'
    BY <2>1 DEF Guarded, CallsReady, HeldOnce
  <2> QED
    BY <1>1, <1>2, <1>3, <2>1, IdleIsCall DEF Guarded, CallsReady, ByRow, Holding
<1>8. HeldOnce'  BY <1>1, IdleIsCall DEF Guarded, HeldOnce, Holding
<1>9. ASSUME ~Feed PROVE OneLives' /\ OnlyThereToEnd' /\ LivingNotVoid'
  <2>1. \A j \in Unrevoked' : j \in Unrevoked \/ (j = i /\ ~r.revoked)
    BY <1>2 DEF Unrevoked
  <2>2. \A j \in Unrevoked' : j \in Rows /\ (j # i => link'[j] = link[j] /\ j \in Unrevoked)
    BY <1>2 DEF Unrevoked
  <2>3. i \in Unrevoked' => ~r.revoked  BY <1>2 DEF Unrevoked
  <2>4. OneLives'
    BY <1>9, <2>2, <2>3 DEF Guarded, OneLives
  <2>5. OnlyThereToEnd'
    <3> SUFFICES ASSUME NEW q \in Calls \ {p}, call[q].stage \in Ending,
                        NEW j \in Unrevoked', j # call[q].row
                 PROVE  link'[j].token \notin call[q].was
      BY <1>1, IdleIsCall DEF OnlyThereToEnd, Ending
    <3>1. CASE j # i
      BY <1>9, <2>2, <3>1 DEF Guarded, OnlyThereToEnd
    <3>2. CASE j = i /\ t \notin out
      BY <1>2, <3>2 DEF Guarded, CallsReady
    <3>3. CASE j = i /\ t \in out
      BY <1>2, <1>9, <2>3, <3>3 DEF Guarded, OnlyThereToEnd
    <3> QED  BY <3>1, <3>2, <3>3
  <2>6. LivingNotVoid'
    <3> SUFFICES ASSUME NEW j \in Unrevoked' PROVE link'[j].token \notin void'
      BY DEF LivingNotVoid
    <3>1. CASE j = i  BY <1>2, <1>9, <2>3, <3>1
    <3>2. CASE j # i
      <4>1. link'[j] = link[j] /\ j \in Unrevoked  BY <2>2, <3>2
      <4>2. link[j].token \notin void  BY <1>9, <4>1 DEF Guarded, LivingNotVoid
      <4>3. void' # void => link[j].token \notin call[p].was
        BY <1>9, <3>2, <4>1 DEF Guarded, OnlyThereToEnd, Ending
      <4> QED  BY <4>1, <4>2, <4>3
    <3> QED  BY <3>1, <3>2
  <2> QED  BY <2>4, <2>5, <2>6
<1> QED  BY <1>5, <1>6, <1>7, <1>8, <1>9 DEF Guarded


LEMMA GetRenewStep ==
    ASSUME Guarded, NEW p \in Calls, GetRenew(p)
    PROVE  Guarded'
<1> DEFINE i == call[p].row
           r == [link[i] EXCEPT !.expired = FALSE]
<1>1. i \in Rows /\ link[i] # NoRow /\ call[p].stage = "renew" /\ call[p].token \in out
  BY DEF Guarded, CallsReady, ByRow, GetRenew, At
<1>2. link[i] \in LinkRow /\ link[i].token \in out /\ link \in [Rows -> LinkRow \cup {NoRow}]
  BY <1>1, RowTyped DEF Guarded, TokensPlaced, TypeOK
<1>3. r \in LinkRow /\ r.token = link[i].token /\ r.revoked = link[i].revoked
  BY <1>2 DEF LinkRow
<1>4. link' = [link EXCEPT ![i] = r] /\ Finish(p) /\ UNCHANGED <<drawn, void>>
      /\ out' = out \cup {r.token}
  BY <1>1, <1>2, <1>3 DEF GetRenew
<1> HIDE DEF r
<1>5. ~Feed /\ ~r.revoked => /\ i \in Unrevoked /\ link[i].token \notin void
                             /\ \A j \in Unrevoked : j = i
  <2>1. ~r.revoked => i \in Unrevoked  BY <1>1, <1>3 DEF Unrevoked
  <2> QED  BY <2>1 DEF Guarded, OneLives, LivingNotVoid
<1> HIDE DEF i
<1> QED  BY <1>1, <1>2, <1>3, <1>4, <1>5, WriteStep

\* A new row, where the index allows it.
LEMMA InsertStep ==
    ASSUME Guarded, NEW p \in Calls, call[p].stage \in {"create", "rotate_create"}, ~Refused,
           Insert(call[p].token), Finish(p), UNCHANGED drawn,
           \/ UNCHANGED void
           \/ call[p].stage = "rotate_create" /\ void' = void \cup call[p].was
    PROVE  Guarded'
<1> DEFINE t == call[p].token
           r == Fresh(t)
<1>1. t \in drawn \ out /\ t \in Tokens /\ void \subseteq out /\ call[p].was \subseteq out
  BY DEF Guarded, TypeOK, CallsReady, TokensPlaced, Holding
<1>2. r \in LinkRow /\ r.token = t /\ ~r.revoked  BY <1>1 DEF Fresh, LinkRow
<1>3. PICK i \in Rows : link[i] = NoRow /\ link' = [link EXCEPT ![i] = r]  BY DEF Insert
<1>4. out' = out \cup {t}  BY DEF Insert
<1> HIDE DEF r
<1>5. ~Feed => Unrevoked = {}  BY DEF Refused
<1>6. /\ void' \in {void, void \cup call[p].was}
      /\ void' # void => call[p].stage = "rotate_create"
  OBVIOUS
<1>7. t \notin void'  BY <1>1
<1>8. t \in out \/ (call[p].stage \in Holding /\ t = call[p].token)  BY DEF Holding
<1>9. call[p].stage \notin Ending  BY DEF Ending
<1> HIDE DEF t
<1> QED  BY <1>1, <1>2, <1>3, <1>4, <1>5, <1>6, <1>7, <1>8, <1>9, WriteStep

LEMMA CreateStep ==
    ASSUME Guarded, NEW p \in Calls, GetCreate(p) \/ RotateCreate(p)
    PROVE  Guarded'
<1>1. CASE UNCHANGED <<link, out, void>>
  BY <1>1, FinishStep DEF GetCreate, RotateCreate
<1>2. CASE ~Refused /\ Insert(call[p].token) /\ GetCreate(p)
  BY <1>2, InsertStep DEF GetCreate, At
<1>3. CASE ~Refused /\ Insert(call[p].token) /\ RotateCreate(p) /\ void' = void \cup call[p].was
  BY <1>3, InsertStep DEF RotateCreate, At
<1> QED  BY <1>1, <1>2, <1>3 DEF GetCreate, RotateCreate

\* The row of a rotation may have been revoked since the read; another may live by now, but
\* what stands in it was not out when the rotation began.
LEMMA RotateWriteStep ==
    ASSUME Guarded, NEW p \in Calls, RotateWrite(p)
    PROVE  Guarded'
<1> DEFINE i == call[p].row
           t == call[p].token
           r == [link[i] EXCEPT !.token = t, !.expired = FALSE]
<1>1. /\ i \in Rows /\ link[i] # NoRow /\ call[p].stage = "rotate" /\ t \in drawn \ out
      /\ call[p].was \subseteq out
  BY DEF Guarded, CallsReady, ByRow, Holding, RotateWrite, At
<1>2. link[i] \in LinkRow /\ t \in Tokens /\ void \subseteq out
  BY <1>1, RowTyped DEF Guarded, TokensPlaced, TypeOK
<1>3. r \in LinkRow /\ r.token = t /\ r.revoked = link[i].revoked
  BY <1>2 DEF LinkRow
<1>4. /\ link' = [link EXCEPT ![i] = r] /\ Finish(p) /\ UNCHANGED drawn
      /\ out' = out \cup {t} /\ void' = void \cup call[p].was
  BY DEF RotateWrite
<1> HIDE DEF r
<1>5. ~Feed /\ ~r.revoked => \A j \in Unrevoked : j = i
  <2>1. ~r.revoked => i \in Unrevoked  BY <1>1, <1>3 DEF Unrevoked
  <2> QED  BY <2>1 DEF Guarded, OneLives
<1>6. t \notin void' /\ t \notin out /\ call[p].stage \in Holding
  BY <1>1, <1>2, <1>4 DEF Holding
<1>7. t = call[p].token /\ i = call[p].row  OBVIOUS
<1> HIDE DEF i, t
<1> QED  BY <1>1, <1>2, <1>3, <1>4, <1>5, <1>6, <1>7, WriteStep

LEMMA RevokeWriteStep ==
    ASSUME Guarded, NEW p \in Calls, RevokeWrite(p)
    PROVE  Guarded'
<1> DEFINE i == call[p].row
           r == [link[i] EXCEPT !.revoked = TRUE]
<1>1. i \in Rows /\ link[i] # NoRow /\ call[p].stage = "revoke"
  BY DEF Guarded, CallsReady, ByRow, RevokeWrite, At
<1>2. link[i] \in LinkRow /\ link[i].token \in out
  BY <1>1, RowTyped DEF Guarded, TokensPlaced
<1>3. r \in LinkRow /\ r.token = link[i].token /\ r.revoked
  BY <1>2 DEF LinkRow
<1>4. /\ link' = [link EXCEPT ![i] = r] /\ Finish(p) /\ UNCHANGED <<drawn, out>>
      /\ void' = void \cup call[p].was
  BY DEF RevokeWrite
<1> HIDE DEF r
<1>5. out' = out \cup {r.token} /\ r.token \in out  BY <1>2, <1>3, <1>4
<1>6. i = call[p].row  OBVIOUS
<1> HIDE DEF i
<1> QED  BY <1>1, <1>3, <1>4, <1>5, <1>6, WriteStep

LEMMA ExpireStep ==
    ASSUME Guarded, NEW i \in Rows, Expire(i)
    PROVE  Guarded'
<1> DEFINE r == [link[i] EXCEPT !.expired = TRUE]
<1>1. i \in Unrevoked /\ link[i] # NoRow  BY DEF Expire, Served, Unrevoked
<1>2. link[i] \in LinkRow /\ link[i].token \in out  BY <1>1, RowTyped DEF Guarded, TokensPlaced
<1>3. r \in LinkRow /\ r.token = link[i].token /\ r.revoked = link[i].revoked
  BY <1>2 DEF LinkRow
<1>4. link' = [link EXCEPT ![i] = r] /\ UNCHANGED <<drawn, out, void, call>>  BY DEF Expire
<1> HIDE DEF r
<1>5. /\ link' \in [Rows -> LinkRow \cup {NoRow}] /\ link'[i] = r
      /\ \A j \in Rows \ {i} : link'[j] = link[j]
  BY <1>3, <1>4 DEF Guarded, TypeOK
<1>6. r # NoRow  BY <1>3, LinkAssumption
<1>7. Unrevoked' = Unrevoked /\ \A j \in Unrevoked : link'[j].token = link[j].token
  BY <1>1, <1>3, <1>5, <1>6 DEF Unrevoked
<1>8. TypeOK' /\ TokensPlaced' /\ CallsReady' /\ HeldOnce'
  BY <1>2, <1>3, <1>4, <1>5, <1>6 DEF Guarded, TypeOK, TokensPlaced, CallsReady, HeldOnce
<1>9. ASSUME ~Feed PROVE OneLives' /\ OnlyThereToEnd' /\ LivingNotVoid'
  BY <1>4, <1>7, <1>9 DEF Guarded, OneLives, OnlyThereToEnd, LivingNotVoid
<1> QED  BY <1>8, <1>9 DEF Guarded

LEMMA NextGuarded ==
    ASSUME Guarded, [Next]_vars
    PROVE  Guarded'
<1>1. CASE UNCHANGED vars
  BY <1>1 DEF vars, Guarded, TypeOK, TokensPlaced, CallsReady, HeldOnce, OneLives,
              OnlyThereToEnd, LivingNotVoid, Unrevoked
<1>2. ASSUME NEW p \in Calls, NEW t \in Tokens, GetRead(p, t) \/ RotateRead(p, t)
      PROVE  Guarded'
  BY <1>2, GetReadStep, RotateReadStep
<1>3. ASSUME NEW p \in Calls,
             GetRenew(p) \/ GetCreate(p) \/ RotateWrite(p) \/ RotateCreate(p)
      PROVE  Guarded'
  BY <1>3, GetRenewStep, CreateStep, RotateWriteStep
<1>4. ASSUME NEW p \in Calls, RevokeRead(p) \/ RevokeWrite(p) \/ Crash(p)
      PROVE  Guarded'
  BY <1>4, RevokeReadStep, RevokeWriteStep, FinishStep DEF Crash
<1>5. ASSUME NEW i \in Rows, Expire(i) PROVE Guarded'  BY <1>5, ExpireStep
<1> QED  BY <1>1, <1>2, <1>3, <1>4, <1>5 DEF Next

-----------------------------------------------------------------------------
\* The invariant holds throughout, of a share link and of a feed (only its last part asks
\* which of the two it is).
THEOREM LinksGuarded == Spec => []Guarded
<1>1. Init => Guarded  BY InitGuarded
<1>2. Guarded /\ [Next]_vars => Guarded'  BY NextGuarded
<1> QED  BY <1>1, <1>2, PTL DEF Spec

\* Rows, tokens and calls keep their types, of a share link and of a feed: nothing comes out
\* that was not drawn, and a row that a call writes by id is there.
THEOREM LinksTyped == Spec => []TypeOK
<1>1. Guarded => TypeOK  BY DEF Guarded
<1> QED  BY <1>1, LinksGuarded, PTL

\* A share link that was rotated or revoked stays off, for any number of overlapping calls,
\* renewals, expiries and crashes.  (Of a feed it is false: that table has no such index.)
THEOREM ShareOffForGood == ~Feed => (Spec => []TurnedOffForGood)
<1> SUFFICES ASSUME ~Feed PROVE Spec => []TurnedOffForGood  OBVIOUS
<1>1. Guarded => TurnedOffForGood  BY DEF Guarded, LivingNotVoid, TurnedOffForGood, Served
<1> QED  BY <1>1, LinksGuarded, PTL
=============================================================================
