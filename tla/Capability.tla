----------------------------- MODULE Capability -----------------------------
(***************************************************************************)
(* The capability links of one owner (a student's or a section's schedule  *)
(* share, a calendar feed): getOrCreate, rotate and revoke each read the   *)
(* active row and then write it by id, without a transaction; the public   *)
(* route serves whoever knows the token of a row that is neither revoked   *)
(* nor expired.  The three features have the same handlers and differ in   *)
(* one index: the share tables allow one active row per owner, the feed    *)
(* table allows any number.  (Renewing a feed also returns the token as    *)
(* the call read it, renewing a share the token as it is then.)            *)
(***************************************************************************)
EXTENDS FiniteSets, Naturals

CONSTANTS
    Calls,          \* calls in flight at one time
    Rows,           \* row ids
    Tokens,         \* values nanoid(32) may return; each is drawn once
    Feed,           \* a calendar feed; otherwise a share link
    NoRow           \* the id names no row

VARIABLES
    link,       \* the owner's rows
    drawn,      \* tokens already drawn
    out,        \* tokens that a call has returned
    void,       \* tokens that the rotations and revocations that ended were to turn off
    call        \* call[p]: where call p stands, with its local variables

vars == <<link, drawn, out, void, call>>

LinkRow == [token : Tokens, revoked : BOOLEAN, expired : BOOLEAN]

Stages == {"idle", "renew", "create", "rotate", "rotate_create", "revoke"}

Call == [stage : Stages,
         row   : Rows \cup {NoRow},
         token : Tokens \cup {NoRow},   \* the token read, or the new one
         was   : SUBSET Tokens]         \* what was out when the call began

Idle == [stage |-> "idle", row |-> NoRow, token |-> NoRow, was |-> {}]

ASSUME LinkAssumption == /\ Feed \in BOOLEAN
                         /\ NoRow \notin LinkRow \cup Rows \cup Tokens

TypeOK == /\ link \in [Rows -> LinkRow \cup {NoRow}]
          /\ drawn \subseteq Tokens
          /\ out \subseteq drawn
          /\ void \subseteq drawn
          /\ call \in [Calls -> Call]

Init == /\ link = [i \in Rows |-> NoRow]
        /\ drawn = {}
        /\ out = {}
        /\ void = {}
        /\ call = [p \in Calls |-> Idle]

-----------------------------------------------------------------------------
At(p, stage) == call[p].stage = stage
Finish(p)    == call' = [call EXCEPT ![p] = Idle]

\* What findActiveFeed and getActiveShare select: revokedAt IS NULL, expired or not.
Unrevoked == {i \in Rows : link[i] # NoRow /\ ~link[i].revoked}

\* Rows the public route answers for.
Served == {i \in Unrevoked : ~link[i].expired}

Begin(p, stage, i, t) ==
    call' = [call EXCEPT ![p] = [stage |-> stage, row |-> i, token |-> t, was |-> out]]

Fresh(t) == [token |-> t, revoked |-> FALSE, expired |-> FALSE]

\* The partial unique index of the share tables; the feed table has none.
Refused == ~Feed /\ Unrevoked # {}

Insert(t) == /\ \E i \in Rows : /\ link[i] = NoRow
                                /\ link' = [link EXCEPT ![i] = Fresh(t)]
             /\ out' = out \cup {t}

-----------------------------------------------------------------------------
(* getOrCreateFeed; getOrCreateShare with ensureActiveShare *)

GetRead(p, t) ==
    /\ At(p, "idle")
    /\ \/ /\ \E i \in Served : out' = out \cup {link[i].token}
          /\ UNCHANGED <<drawn, call>>
       \/ /\ \E i \in Unrevoked \ Served : Begin(p, "renew", i, link[i].token)
          /\ UNCHANGED <<drawn, out>>
       \/ /\ Unrevoked = {}
          /\ t \notin drawn
          /\ drawn' = drawn \cup {t}
          /\ Begin(p, "create", NoRow, t)
          /\ UNCHANGED out
    /\ UNCHANGED <<link, void>>

\* Renewed in place: the same token gets a new expiry.
GetRenew(p) ==
    /\ At(p, "renew")
    /\ link' = [link EXCEPT ![call[p].row].expired = FALSE]
    /\ out' = out \cup {IF Feed THEN call[p].token ELSE link[call[p].row].token}
    /\ Finish(p)
    /\ UNCHANGED <<drawn, void>>

\* A refused INSERT throws: the caller gets no token.
GetCreate(p) ==
    /\ At(p, "create")
    /\ \/ Refused /\ UNCHANGED <<link, out>>
       \/ ~Refused /\ Insert(call[p].token)
    /\ Finish(p)
    /\ UNCHANGED <<drawn, void>>

-----------------------------------------------------------------------------
(* rotateFeed, rotateShare *)

RotateRead(p, t) ==
    /\ At(p, "idle")
    /\ t \notin drawn
    /\ drawn' = drawn \cup {t}
    /\ \/ \E i \in Unrevoked : Begin(p, "rotate", i, t)
       \/ Unrevoked = {} /\ Begin(p, "rotate_create", NoRow, t)
    /\ UNCHANGED <<link, out, void>>

\* The token is replaced by id, also in a row that was revoked since the read.
RotateWrite(p) ==
    /\ At(p, "rotate")
    /\ link' = [link EXCEPT ![call[p].row] = [@ EXCEPT !.token = call[p].token,
                                                       !.expired = FALSE]]
    /\ out' = out \cup {call[p].token}
    /\ void' = void \cup call[p].was
    /\ Finish(p)
    /\ UNCHANGED drawn

RotateCreate(p) ==
    /\ At(p, "rotate_create")
    /\ \/ Refused /\ UNCHANGED <<link, out, void>>
       \/ ~Refused /\ Insert(call[p].token) /\ void' = void \cup call[p].was
    /\ Finish(p)
    /\ UNCHANGED drawn

-----------------------------------------------------------------------------
(* revokeFeed, revokeShare *)

RevokeRead(p) ==
    /\ At(p, "idle")
    /\ \/ \E i \in Unrevoked : Begin(p, "revoke", i, NoRow) /\ UNCHANGED void
       \/ Unrevoked = {} /\ void' = void \cup out /\ UNCHANGED call
    /\ UNCHANGED <<link, drawn, out>>

\* Mutant: the row is made to expire, and the next look at the panel renews it.
RevokeByExpiry(p) ==
    /\ At(p, "revoke")
    /\ link' = [link EXCEPT ![call[p].row].expired = TRUE]
    /\ void' = void \cup call[p].was
    /\ Finish(p)
    /\ UNCHANGED <<drawn, out>>

RevokeWrite(p) ==
    /\ At(p, "revoke")
    /\ link' = [link EXCEPT ![call[p].row].revoked = TRUE]
    /\ void' = void \cup call[p].was
    /\ Finish(p)
    /\ UNCHANGED <<drawn, out>>

-----------------------------------------------------------------------------
\* SHARE_TOKEN_TTL_DAYS pass for row i.
Expire(i) == /\ i \in Served
             /\ link' = [link EXCEPT ![i].expired = TRUE]
             /\ UNCHANGED <<drawn, out, void, call>>

\* The server process dies under call p.
Crash(p) == /\ ~At(p, "idle")
            /\ Finish(p)
            /\ UNCHANGED <<link, drawn, out, void>>

Next == \/ \E p \in Calls, t \in Tokens : GetRead(p, t) \/ RotateRead(p, t)
        \/ \E p \in Calls : \/ GetRenew(p) \/ GetCreate(p)
                            \/ RotateWrite(p) \/ RotateCreate(p)
                            \/ RevokeRead(p) \/ RevokeWrite(p)
                            \/ Crash(p)
        \/ \E i \in Rows : Expire(i)

Spec == Init /\ [][Next]_vars

-----------------------------------------------------------------------------
\* A URL that was out when a rotation or a revocation began is off for good once it ended,
\* whatever other calls, renewals and crashes came in between ("The old URL 404s
\* immediately", "Its URL 404s on the next poll").
TurnedOffForGood == \A i \in Served : link[i].token \notin void
=============================================================================
