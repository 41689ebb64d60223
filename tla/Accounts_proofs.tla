--------------------------- MODULE Accounts_proofs ---------------------------
(***************************************************************************)
(* The properties of the accounts for any number of calls, accounts,       *)
(* owners and students.  Two arguments meet: a call that passed the        *)
(* last-owner guard still holds the rows, so another owner is left for it; *)
(* and nobody ever becomes an owner, so what the unlocked calls change is  *)
(* no owner's account.                                                     *)
(***************************************************************************)
EXTENDS Accounts, FiniteSetTheorems, TLAPS

NotOwner(a) == account[a] # NoRow => account[a].role # "owner"

\* Between the mint and the end of the call.
Minting == {"join", "link_find", "link_insert", "undo"}

\* A call's local variables are set as its stage needs them.
Prepared ==
    \A p \in Calls :
        /\ call[p].stage \in Minting \cup {"reuse", "guard", "change", "info_write"}
              => call[p].who \in Accounts
        /\ call[p].stage \in {"create", "join"} => call[p].role \in {"teacher", "parent"}
        /\ call[p].stage \in {"create", "info_write"} => call[p].email \in Emails
        /\ call[p].stage \in {"link_find", "link_insert"} => call[p].student \in Students
        /\ call[p].stage \in {"join", "undo"} => call[p].minted
        /\ At(p, "guard") /\ ~call[p].wasOwner => NotOwner(call[p].who)

\* The login a call minted is there until the call ends, and is nobody else's mint.
MintStands ==
    \A p \in Calls : call[p].minted =>
        /\ call[p].stage \in Minting
        /\ account[call[p].who] # NoRow
        /\ NotOwner(call[p].who)
        /\ \A q \in Calls : call[q].minted /\ call[q].who = call[p].who => q = p

\* SELECT ... FOR UPDATE: one call at a time is past the guard.
OneHolder == \A p, q \in Calls : HoldsRows(p) /\ HoldsRows(q) => p = q

\* What the call counted under the lock.
OthersLeft == \A p \in Calls : HoldsRows(p) => \E o \in UsableOwners : o # call[p].who

\* The inductive invariant.
Ledger == /\ TypeOK
          /\ Prepared
          /\ MintStands
          /\ OneHolder
          /\ OthersLeft
          /\ OwnerRemains
          /\ NoOrphan

-----------------------------------------------------------------------------
\* A row is not the absence of one.
LEMMA RowIsSome == \A x \in AccountRow : x # NoRow
BY AccountAssumption

LEMMA IdleIsCall == Idle \in Call /\ Idle.stage = "idle" /\ ~Idle.minted
BY DEF Idle, Call, Stages

\* More than one usable owner: one of them is not a.
LEMMA AnotherOwner ==
    ASSUME NEW a, ~(Cardinality(UsableOwners) <= 1)
    PROVE  \E o \in UsableOwners : o # a
<1>1. IsFiniteSet(UsableOwners)  BY AccountAssumption, FS_Subset DEF UsableOwners
<1>2. Cardinality(UsableOwners) \in Nat  BY <1>1, FS_CardinalityType
<1>3. IsFiniteSet({a}) /\ Cardinality({a}) = 1  BY FS_Singleton
<1>4. UsableOwners \subseteq {a} => Cardinality(UsableOwners) <= 1  BY <1>3, FS_Subset
<1> QED  BY <1>2, <1>4

LEMMA LedgerInit == Init => Ledger
<1> SUFFICES ASSUME Init PROVE Ledger
  OBVIOUS
<1>1. \A a \in Owners : /\ [email |-> SeedEmail[a], role |-> "owner", banned |-> FALSE] \in AccountRow
                        /\ account[a] = [email |-> SeedEmail[a], role |-> "owner", banned |-> FALSE]
                        /\ account[a] # NoRow
  <2> TAKE a \in Owners
  <2> DEFINE x == [email |-> SeedEmail[a], role |-> "owner", banned |-> FALSE]
  <2>1. SeedEmail[a] \in Emails  BY AccountAssumption
  <2>2. x \in AccountRow  BY <2>1 DEF AccountRow, Roles
  <2>3. account[a] = x  BY AccountAssumption DEF Init
  <2> QED  BY <2>2, <2>3, RowIsSome
<1>2. TypeOK  BY <1>1, IdleIsCall DEF Init, TypeOK
<1>3. \A p \in Calls : call[p] = Idle  BY DEF Init
<1>4. Prepared /\ MintStands /\ OneHolder /\ OthersLeft
  BY <1>3 DEF Prepared, MintStands, OneHolder, OthersLeft, HoldsRows, At, Idle, Minting
<1>5. OwnerRemains
  <2> PICK a \in Owners : TRUE  BY AccountAssumption
  <2>1. [email |-> SeedEmail[a], role |-> "owner", banned |-> FALSE].role = "owner"
        /\ ~[email |-> SeedEmail[a], role |-> "owner", banned |-> FALSE].banned
    OBVIOUS
  <2>2. a \in Accounts /\ account[a] # NoRow /\ account[a].role = "owner" /\ ~account[a].banned
    BY <1>1, <2>1, AccountAssumption
  <2> QED  BY <2>2 DEF OwnerRemains, UsableOwners
<1>6. NoOrphan
  BY <1>1 DEF Init, NoOrphan
<1> QED  BY <1>2, <1>4, <1>5, <1>6 DEF Ledger

\* A step of one call that leaves the accounts alone.
LEMMA CallStep ==
    ASSUME Ledger, NEW p \in Calls, NEW r \in Call,
           call' = [call EXCEPT ![p] = r],
           account' = account, links' \subseteq Students \X Accounts, died' \in BOOLEAN,
           r.stage \in Minting \cup {"reuse", "guard", "change", "info_write"} => r.who \in Accounts,
           r.stage \in {"create", "join"} => r.role \in {"teacher", "parent"},
           r.stage \in {"create", "info_write"} => r.email \in Emails,
           r.stage \in {"link_find", "link_insert"} => r.student \in Students,
           r.stage \in {"join", "undo"} => r.minted,
           r.stage = "guard" /\ ~r.wasOwner => NotOwner(r.who),
           r.minted => call[p].minted /\ r.who = call[p].who /\ r.stage \in Minting,
           r.stage = "change" => RowsFree(p) /\ \E o \in UsableOwners : o # r.who,
           ~died' => /\ ~died
                     /\ call[p].minted /\ call[p].stage \in {"join", "undo"}
                           => r.minted /\ r.stage \in {"join", "undo"}
    PROVE  Ledger'
<1> USE DEF Ledger
<1>1. \A q \in Calls : call'[q] = IF q = p THEN r ELSE call[q]  BY DEF TypeOK
<1>2. TypeOK'  BY <1>1 DEF TypeOK
<1>3. Prepared'  BY <1>1 DEF Prepared, NotOwner, At
<1>4. MintStands'  BY <1>1 DEF MintStands, NotOwner
<1>5. OneHolder'  BY <1>1 DEF OneHolder, RowsFree, HoldsRows, At
<1>6. UsableOwners' = UsableOwners  BY DEF UsableOwners
<1>7. OthersLeft'  BY <1>1, <1>6 DEF OthersLeft, HoldsRows, At
<1>8. OwnerRemains'  BY <1>6 DEF OwnerRemains
<1>9. NoOrphan'
  <2> SUFFICES ASSUME ~died', NEW a \in Accounts, account[a] # NoRow, account[a].role = "none"
               PROVE  \E q \in Calls : /\ call'[q].who = a /\ call'[q].minted
                                       /\ call'[q].stage \in {"join", "undo"}
    BY DEF NoOrphan
  <2>1. PICK q \in Calls : /\ call[q].who = a /\ call[q].minted
                           /\ call[q].stage \in {"join", "undo"}
    BY DEF NoOrphan
  <2> QED  BY <2>1, <1>1
<1> QED  BY <1>2, <1>3, <1>4, <1>5, <1>7, <1>8, <1>9

\* A step that rewrites the row of account a, and may end calls.
LEMMA RowStep ==
    ASSUME Ledger, NEW a \in Accounts, NEW x \in AccountRow \cup {NoRow},
           account' = [account EXCEPT ![a] = x], UNCHANGED <<links, died>>,
           call' \in [Calls -> Call],
           \A q \in Calls : call'[q] = call[q] \/ call'[q] = Idle,
           NotOwner(a) => x = NoRow \/ x.role # "owner",
           a \in UsableOwners =>
               \/ x # NoRow /\ x.role = "owner" /\ ~x.banned
               \/ \E p \in Calls : HoldsRows(p) /\ call[p].who = a /\ call'[p] = Idle,
           x = NoRow => \A q \in Calls : call[q].minted /\ call[q].who = a => call'[q] = Idle,
           x # NoRow /\ x.role = "none" => account[a] # NoRow /\ account[a].role = "none",
           \A q \in Calls : /\ call[q].minted /\ call[q].stage \in {"join", "undo"}
                            /\ call'[q] = Idle
                            => call[q].who = a /\ (x = NoRow \/ x.role # "none")
    PROVE  Ledger'
<1> USE DEF Ledger
<1>1. \A b \in Accounts : account'[b] = IF b = a THEN x ELSE account[b]  BY DEF TypeOK
<1>2. TypeOK'  BY <1>1 DEF TypeOK
<1>3. /\ Idle.stage = "idle" /\ ~Idle.minted /\ Idle.stage \notin Minting
  BY IdleIsCall DEF Minting
<1>4. \A b \in Accounts : NotOwner(b) => NotOwner(b)'  BY <1>1 DEF NotOwner
<1>5. Prepared'
  <2> SUFFICES ASSUME NEW q \in Calls, call'[q] = call[q]
               PROVE  At(q, "guard") /\ ~call[q].wasOwner => NotOwner(call[q].who)'
    BY <1>3 DEF Prepared, At, NotOwner, Minting
  <2> QED  BY <1>4 DEF Prepared, At
<1>6. MintStands'
  <2> SUFFICES ASSUME NEW q \in Calls, call'[q] = call[q], call[q].minted
               PROVE  account'[call[q].who] # NoRow /\ NotOwner(call[q].who)'
    BY <1>3 DEF MintStands, NotOwner
  <2>1. call[q].who \in Accounts  BY DEF Prepared, MintStands
  <2>2. ~(x = NoRow /\ call[q].who = a)  BY <1>3
  <2> QED  BY <1>1, <1>4, <2>1, <2>2 DEF MintStands
<1>7. OneHolder'  BY <1>3 DEF OneHolder, HoldsRows, At
<1>8. \A o \in UsableOwners : o # a => o \in UsableOwners'  BY <1>1 DEF UsableOwners
<1>9. ASSUME ~\E p \in Calls : HoldsRows(p) /\ call[p].who = a /\ call'[p] = Idle
      PROVE  UsableOwners \subseteq UsableOwners'
  BY <1>1, <1>8, <1>9 DEF UsableOwners
<1>10. OthersLeft'
  <2> SUFFICES ASSUME NEW q \in Calls, call'[q] = call[q], HoldsRows(q)
               PROVE  \E o \in UsableOwners' : o # call[q].who
    BY <1>3 DEF OthersLeft, HoldsRows, At
  <2>1. ~\E p \in Calls : HoldsRows(p) /\ call[p].who = a /\ call'[p] = Idle
    BY <1>3 DEF OneHolder, HoldsRows, At
  <2> QED  BY <1>9, <2>1 DEF OthersLeft
<1>11. OwnerRemains'
  <2>1. CASE \E p \in Calls : HoldsRows(p) /\ call[p].who = a /\ call'[p] = Idle
    BY <1>8, <2>1 DEF OthersLeft, OwnerRemains
  <2>2. CASE ~\E p \in Calls : HoldsRows(p) /\ call[p].who = a /\ call'[p] = Idle
    BY <1>9, <2>2 DEF OwnerRemains
  <2> QED  BY <2>1, <2>2
<1>12. NoOrphan'
  <2> SUFFICES ASSUME ~died, NEW b \in Accounts, account'[b] # NoRow, account'[b].role = "none"
               PROVE  \E q \in Calls : /\ call'[q].who = b /\ call'[q].minted
                                       /\ call'[q].stage \in {"join", "undo"}
    BY DEF NoOrphan
  <2>1. account[b] # NoRow /\ account[b].role = "none"  BY <1>1
  <2>2. PICK q \in Calls : /\ call[q].who = b /\ call[q].minted
                           /\ call[q].stage \in {"join", "undo"}
    BY <2>1 DEF NoOrphan
  <2>3. call'[q] # Idle  BY <1>1, <2>2
  <2> QED  BY <2>2, <2>3
<1> QED  BY <1>2, <1>5, <1>6, <1>7, <1>10, <1>11, <1>12

-----------------------------------------------------------------------------
\* auth.api.createUser.
LEMMA CreateStep ==
    ASSUME Ledger, NEW p \in Calls, NEW a \in Accounts, Create(p, a)
    PROVE  Ledger'
<1> USE DEF Ledger
<1>1. CASE Known(call[p].email) # {} /\ Finish(p) /\ UNCHANGED account
  <2>1. ~call[p].minted  BY DEF MintStands, Create, At, Minting
  <2> QED  BY <1>1, <2>1, IdleIsCall, CallStep DEF Create, Finish, Idle, Minting, TypeOK
<1>2. CASE FreshId(a) /\ account' = [account EXCEPT ![a] = [email |-> call[p].email, role |-> "none",
                                                            banned |-> FALSE]]
           /\ call' = [call EXCEPT ![p].stage = "join", ![p].email = NoRow, ![p].who = a,
                                   ![p].minted = TRUE]
  <2> DEFINE x == [email |-> call[p].email, role |-> "none", banned |-> FALSE]
             r == [call[p] EXCEPT !.stage = "join", !.email = NoRow, !.who = a, !.minted = TRUE]
  <2>1. /\ call[p].stage = "create" /\ call[p].email \in Emails
        /\ call[p].role \in {"teacher", "parent"} /\ call[p] \in Call
    BY DEF Create, At, Prepared, TypeOK
  <2>2. r \in Call /\ r.stage = "join" /\ r.who = a /\ r.minted /\ r.role = call[p].role
    BY <2>1 DEF Call, Stages
  <2>3. x \in AccountRow /\ x # NoRow /\ x.role = "none"
    <3>1. x \in AccountRow  BY <2>1 DEF AccountRow
    <3> QED  BY <3>1, RowIsSome
  <2>4. \A q \in Calls : call'[q] = IF q = p THEN r ELSE call[q]  BY <1>2 DEF TypeOK
  <2>5. \A b \in Accounts : account'[b] = IF b = a THEN x ELSE account[b]  BY <1>2 DEF TypeOK
  <2>6. account[a] = NoRow /\ \A q \in Calls : call[q].who # a  BY <1>2 DEF FreshId
  <2>7. links' = links /\ died' = died  BY DEF Create
  <2>8. TypeOK'
    <3>1. call' \in [Calls -> Call]  BY <1>2, <2>2 DEF TypeOK
    <3>2. account' \in [Accounts -> AccountRow \cup {NoRow}]  BY <1>2, <2>3 DEF TypeOK
    <3> QED  BY <3>1, <3>2, <2>7 DEF TypeOK
  <2> HIDE DEF x, r
  <2>9. Prepared'
    BY <2>1, <2>2, <2>3, <2>4, <2>5, <2>6 DEF Prepared, NotOwner, At, Minting
  <2>10. MintStands'
    <3>1. \A q \in Calls : call[q].minted => call[q].who \in Accounts
      BY DEF MintStands, Prepared
    <3> QED  BY <3>1, <2>2, <2>3, <2>4, <2>5, <2>6 DEF MintStands, NotOwner, Minting
  <2>11. OneHolder'  BY <2>2, <2>4 DEF OneHolder, HoldsRows, At
  <2>12. UsableOwners \subseteq UsableOwners'  BY <2>5, <2>6 DEF UsableOwners
  <2>13. OthersLeft'  BY <2>2, <2>4, <2>12 DEF OthersLeft, HoldsRows, At
  <2>14. OwnerRemains'  BY <2>12 DEF OwnerRemains
  <2>15. NoOrphan'
    <3> SUFFICES ASSUME ~died, NEW b \in Accounts, account'[b] # NoRow, account'[b].role = "none"
                 PROVE  \E q \in Calls : /\ call'[q].who = b /\ call'[q].minted
                                         /\ call'[q].stage \in {"join", "undo"}
      BY <2>7 DEF NoOrphan
    <3>1. CASE b = a  BY <3>1, <2>2, <2>4
    <3>2. CASE b # a
      <4>1. PICK q \in Calls : /\ call[q].who = b /\ call[q].minted
                               /\ call[q].stage \in {"join", "undo"}
        BY <3>2, <2>5 DEF NoOrphan
      <4> QED  BY <4>1, <2>1, <2>4
    <3> QED  BY <3>1, <3>2
  <2> QED  BY <2>8, <2>9, <2>10, <2>11, <2>13, <2>14, <2>15
<1> QED  BY <1>1, <1>2 DEF Create

\* auth.api.addMember.
LEMMA JoinStep ==
    ASSUME Ledger, NEW p \in Calls, Join(p)
    PROVE  Ledger'
<1> USE DEF Ledger
<1> PICK a \in Accounts : a = call[p].who  BY DEF Join, At, Prepared, Minting
<1>1. /\ call[p].stage = "join" /\ call[p].minted /\ call[p].role \in {"teacher", "parent"}
      /\ account[a] # NoRow /\ NotOwner(a) /\ call[p] \in Call
      /\ \A q \in Calls : call[q].minted /\ call[q].who = a => q = p
  BY DEF Join, At, Prepared, MintStands, Minting, TypeOK
<1>2. PICK x \in AccountRow : /\ x # NoRow /\ x.role = call[p].role
                              /\ account' = [account EXCEPT ![a] = x]
  <2> DEFINE y == [account[a] EXCEPT !.role = call[p].role]
  <2>1. account[a] \in AccountRow  BY <1>1 DEF TypeOK
  <2>2. y \in AccountRow /\ y.role = call[p].role  BY <1>1, <2>1 DEF AccountRow, Roles
  <2>3. account' = [account EXCEPT ![a] = y]  BY DEF Join
  <2> QED  BY <2>2, <2>3, RowIsSome
<1>3. x.role # "none" /\ x.role # "owner"  BY <1>1, <1>2
<1>4. UNCHANGED <<links, died>>  BY DEF Join
<1>5. CASE Finish(p)
  <2>1. call' = [call EXCEPT ![p] = Idle]  BY <1>5 DEF Finish
  <2>2. call' \in [Calls -> Call] /\ \A q \in Calls : call'[q] = IF q = p THEN Idle ELSE call[q]
    BY <2>1, IdleIsCall DEF TypeOK
  <2>3. a \notin UsableOwners  BY <1>1 DEF NotOwner, UsableOwners
  <2>4. \A q \in Calls : call'[q] = call[q] \/ call'[q] = Idle  BY <2>2
  <2>5. \A q \in Calls : call[q].minted /\ call'[q] = Idle => call[q].who = a
    BY <1>1, <2>2, IdleIsCall
  <2> HIDE DEF Ledger
  <2> QED  BY <1>2, <1>3, <1>4, <2>2, <2>3, <2>4, <2>5, RowStep
<1>6. CASE call[p].student # NoRow /\ Goto(p, "link_find")
  <2> DEFINE r == [call[p] EXCEPT !.stage = "link_find"]
  <2>1. /\ r \in Call /\ r.stage = "link_find" /\ r.minted /\ r.who = a
        /\ r.student \in Students
    BY <1>1, <1>6 DEF Call, Stages
  <2>2. \A q \in Calls : call'[q] = IF q = p THEN r ELSE call[q]  BY <1>6 DEF Goto, TypeOK
  <2>3. \A b \in Accounts : account'[b] = IF b = a THEN x ELSE account[b]  BY <1>2 DEF TypeOK
  <2>4. TypeOK'
    <3>1. call' \in [Calls -> Call]  BY <1>6, <2>1 DEF Goto, TypeOK
    <3>2. account' \in [Accounts -> AccountRow \cup {NoRow}]  BY <1>2 DEF TypeOK
    <3> QED  BY <3>1, <3>2, <1>4 DEF TypeOK
  <2> HIDE DEF r
  <2>5. NotOwner(a)' /\ \A b \in Accounts : NotOwner(b) => NotOwner(b)'
    BY <1>1, <1>2, <1>3, <2>3 DEF NotOwner
  <2>6. Prepared'
    <3> SUFFICES ASSUME NEW q \in Calls \ {p}
                 PROVE  At(q, "guard") /\ ~call[q].wasOwner => NotOwner(call[q].who)'
      BY <1>1, <2>1, <2>2 DEF Prepared, At, NotOwner, Minting
    <3> QED  BY <2>2, <2>5 DEF Prepared, At, Minting
  <2>7. MintStands'
    <3>1. \A q \in Calls : call[q].minted => call[q].who \in Accounts
      BY DEF MintStands, Prepared
    <3>2. ASSUME NEW q \in Calls, NEW b \in Accounts, call[q].minted, b = call[q].who
          PROVE  account'[b] # NoRow /\ NotOwner(b)'
      BY <3>2, <1>2, <2>3, <2>5 DEF MintStands
    <3> QED  BY <3>1, <3>2, <1>1, <2>1, <2>2 DEF MintStands, NotOwner, Minting
  <2>8. OneHolder'  BY <2>1, <2>2 DEF OneHolder, HoldsRows, At
  <2>9. UsableOwners \subseteq UsableOwners'  BY <1>1, <2>3 DEF UsableOwners, NotOwner
  <2>10. OthersLeft'  BY <2>1, <2>2, <2>9 DEF OthersLeft, HoldsRows, At
  <2>11. OwnerRemains'  BY <2>9 DEF OwnerRemains
  <2>12. NoOrphan'
    <3> SUFFICES ASSUME ~died, NEW b \in Accounts, account'[b] # NoRow, account'[b].role = "none"
                 PROVE  \E q \in Calls : /\ call'[q].who = b /\ call'[q].minted
                                         /\ call'[q].stage \in {"join", "undo"}
      BY <1>4 DEF NoOrphan
    <3>1. b # a  BY <1>1, <1>2, <1>3, <2>3
    <3>2. PICK q \in Calls : /\ call[q].who = b /\ call[q].minted
                             /\ call[q].stage \in {"join", "undo"}
      BY <3>1, <2>3 DEF NoOrphan
    <3> QED  BY <3>1, <3>2, <2>2
  <2> QED  BY <2>4, <2>6, <2>7, <2>8, <2>10, <2>11, <2>12
<1> QED  BY <1>5, <1>6 DEF Join, GoLink

\* deprovisionPortalMember.
LEMMA UndoStep ==
    ASSUME Ledger, NEW p \in Calls, Undo(p)
    PROVE  Ledger'
<1> USE DEF Ledger
<1>1. /\ call[p].stage = "undo" /\ call[p].minted /\ call[p].who \in Accounts
      /\ NotOwner(call[p].who)
      /\ \A q \in Calls : call[q].minted /\ call[q].who = call[p].who => q = p
  BY DEF Undo, At, Prepared, MintStands, Minting
<1>2. account' = [account EXCEPT ![call[p].who] = NoRow] /\ UNCHANGED <<links, died>>
  BY DEF Undo
<1>3. call' \in [Calls -> Call] /\ \A q \in Calls : call'[q] = IF q = p THEN Idle ELSE call[q]
  BY IdleIsCall DEF Undo, Finish, TypeOK
<1>4. call[p].who \notin UsableOwners  BY <1>1 DEF NotOwner, UsableOwners
<1> QED  BY <1>1, <1>2, <1>3, <1>4, IdleIsCall, RowStep

\* What setStaffRoleCore and deactivateStaffCore write.
LEMMA ChangedRow ==
    ASSUME TypeOK, NEW p \in Calls, call[p].who \in Accounts
    PROVE  \E x \in AccountRow \cup {NoRow} :
              /\ Changed(p) = [account EXCEPT ![call[p].who] = x]
              /\ NotOwner(call[p].who) => x = NoRow \/ x.role # "owner"
              /\ x = NoRow <=> account[call[p].who] = NoRow
              /\ x # NoRow /\ x.role = "none" => account[call[p].who].role = "none"
<1> DEFINE a == call[p].who
<1>1. CASE account[a] = NoRow
  <2>1. Changed(p) = [account EXCEPT ![a] = NoRow]  BY <1>1 DEF Changed, TypeOK
  <2> QED  BY <1>1, <2>1
<1>2. CASE account[a] # NoRow
  <2>1. account[a] \in AccountRow  BY <1>2 DEF TypeOK
  <2> DEFINE d == [account[a] EXCEPT !.role = IF @ = "none" THEN @ ELSE "teacher"]
             b == [account[a] EXCEPT !.banned = TRUE]
  <2>2. /\ d \in AccountRow /\ d # NoRow /\ d.role # "owner"
        /\ d.role = "none" => account[a].role = "none"
    <3>1. /\ d \in AccountRow /\ d.role # "owner"
          /\ d.role = "none" => account[a].role = "none"
      BY <2>1 DEF AccountRow, Roles
    <3> QED  BY <3>1, RowIsSome
  <2>3. b \in AccountRow /\ b # NoRow /\ b.role = account[a].role
    <3>1. b \in AccountRow /\ b.role = account[a].role  BY <2>1 DEF AccountRow
    <3> QED  BY <3>1, RowIsSome
  <2>4. CASE call[p].change = "demote"
    <3>1. Changed(p) = [account EXCEPT ![a] = d]  BY <1>2, <2>4 DEF Changed
    <3> QED  BY <1>2, <2>2, <3>1
  <2>5. CASE call[p].change # "demote"
    <3>1. Changed(p) = [account EXCEPT ![a] = b]  BY <1>2, <2>5 DEF Changed
    <3> QED  BY <1>2, <2>3, <3>1 DEF NotOwner
  <2> QED  BY <2>4, <2>5
<1> QED  BY <1>1, <1>2

\* A staff change written: under the lock, or to somebody who is no owner.
LEMMA StaffStep ==
    ASSUME Ledger, NEW p \in Calls, call[p].stage \in {"guard", "change"},
           At(p, "change") \/ NotOwner(call[p].who),
           account' = Changed(p), Finish(p), UNCHANGED <<links, died>>
    PROVE  Ledger'
<1> USE DEF Ledger
<1> DEFINE a == call[p].who
<1>1. a \in Accounts /\ ~call[p].minted  BY DEF Prepared, MintStands, Minting
<1>2. PICK x \in AccountRow \cup {NoRow} :
              /\ Changed(p) = [account EXCEPT ![a] = x]
              /\ NotOwner(a) => x = NoRow \/ x.role # "owner"
              /\ x = NoRow <=> account[a] = NoRow
              /\ x # NoRow /\ x.role = "none" => account[a].role = "none"
  BY <1>1, ChangedRow
<1>3. call' \in [Calls -> Call] /\ \A q \in Calls : call'[q] = IF q = p THEN Idle ELSE call[q]
  BY IdleIsCall DEF Finish, TypeOK
<1>4. a \in UsableOwners => HoldsRows(p)  BY DEF NotOwner, UsableOwners, HoldsRows
<1>5. \A q \in Calls : call[q].minted => account[call[q].who] # NoRow  BY DEF MintStands
<1>6. \A q \in Calls : call[q].minted => call'[q] # Idle /\ ~(x = NoRow /\ call[q].who = a)
  BY <1>1, <1>2, <1>3, <1>5, IdleIsCall
<1>7. \A q \in Calls : call'[q] = call[q] \/ call'[q] = Idle  BY <1>3
<1>8. x # NoRow /\ x.role = "none" => account[a] # NoRow /\ account[a].role = "none"  BY <1>2
<1>9. a \in UsableOwners => \E o \in Calls : HoldsRows(o) /\ call[o].who = a /\ call'[o] = Idle
  BY <1>3, <1>4
<1>10. account' = [account EXCEPT ![a] = x]  BY <1>2
<1>11. NotOwner(a) => x = NoRow \/ x.role # "owner"  BY <1>2
<1> HIDE DEF Ledger
<1> QED  BY <1>1, <1>3, <1>6, <1>7, <1>8, <1>9, <1>10, <1>11, RowStep

\* The last-owner guard.
LEMMA GuardStep ==
    ASSUME Ledger, NEW p \in Calls, Guard(p)
    PROVE  Ledger'
<1> USE DEF Ledger
<1>1. /\ call[p].stage = "guard" /\ call[p].who \in Accounts /\ ~call[p].minted
      /\ call[p] \in Call /\ RowsFree(p)
  BY DEF Guard, At, Prepared, MintStands, Minting, TypeOK
<1>2. CASE ~call[p].wasOwner /\ account' = Changed(p) /\ Finish(p)
  <2>1. NotOwner(call[p].who)  BY <1>1, <1>2 DEF Prepared, At
  <2> QED  BY <1>1, <1>2, <2>1, StaffStep DEF Guard
<1>3. CASE Finish(p) /\ UNCHANGED account
  BY <1>1, <1>3, IdleIsCall, CallStep DEF Guard, Finish, Idle, Minting, TypeOK
<1>4. CASE ~(Cardinality(UsableOwners) <= 1) /\ Goto(p, "change") /\ UNCHANGED account
  <2> DEFINE r == [call[p] EXCEPT !.stage = "change"]
  <2>1. r \in Call /\ r.stage = "change" /\ r.who = call[p].who /\ ~r.minted
    BY <1>1 DEF Call, Stages
  <2>2. \E o \in UsableOwners : o # r.who  BY <1>4, AnotherOwner
  <2>3. call' = [call EXCEPT ![p] = r]  BY <1>4 DEF Goto
  <2>4. account' = account /\ links' \subseteq Students \X Accounts /\ died' \in BOOLEAN /\ died' = died
    BY <1>4 DEF Guard, TypeOK
  <2> HIDE DEF r
  <2> QED  BY <1>1, <2>1, <2>2, <2>3, <2>4, CallStep DEF Minting
<1> QED  BY <1>2, <1>3, <1>4 DEF Guard

\* reactivateStaffCore and updateUserInfoCore.
LEMMA ReactivateStep ==
    ASSUME Ledger, NEW a \in Accounts, Reactivate(a)
    PROVE  Ledger'
<1> USE DEF Ledger
<1> DEFINE x == [account[a] EXCEPT !.banned = FALSE]
<1>1. account[a] \in AccountRow /\ account[a] # NoRow  BY DEF Reactivate, Member, TypeOK
<1>2. x \in AccountRow /\ x # NoRow /\ x.role = account[a].role /\ ~x.banned
  <2>1. x \in AccountRow /\ x.role = account[a].role /\ ~x.banned  BY <1>1 DEF AccountRow
  <2> QED  BY <2>1, RowIsSome
<1>3. /\ account' = [account EXCEPT ![a] = x] /\ UNCHANGED <<links, died>>
      /\ call' = call /\ call' \in [Calls -> Call]
  BY DEF Reactivate, TypeOK
<1>4. a \in UsableOwners => x.role = "owner"  BY <1>2 DEF UsableOwners
<1>5. Idle.stage = "idle"  BY DEF Idle
<1> QED  BY <1>1, <1>2, <1>3, <1>4, <1>5, RowStep DEF NotOwner

LEMMA InfoWriteStep ==
    ASSUME Ledger, NEW p \in Calls, InfoWrite(p)
    PROVE  Ledger'
<1> USE DEF Ledger
<1> DEFINE a == call[p].who
           x == IF account[a] # NoRow /\ Known(call[p].email) \subseteq {a}
                THEN [account[a] EXCEPT !.email = call[p].email]
                ELSE account[a]
<1>1. call[p].stage = "info_write" /\ a \in Accounts /\ call[p].email \in Emails /\ ~call[p].minted
  BY DEF InfoWrite, At, Prepared, MintStands, Minting
<1>2. account[a] \in AccountRow \cup {NoRow}  BY <1>1 DEF TypeOK
<1>3. /\ x \in AccountRow \cup {NoRow} /\ (x = NoRow <=> account[a] = NoRow)
      /\ x # NoRow => x.role = account[a].role /\ x.banned = account[a].banned
  <2>1. ASSUME account[a] # NoRow
        PROVE  /\ [account[a] EXCEPT !.email = call[p].email] \in AccountRow
               /\ [account[a] EXCEPT !.email = call[p].email].role = account[a].role
               /\ [account[a] EXCEPT !.email = call[p].email].banned = account[a].banned
    BY <1>1, <1>2, <2>1 DEF AccountRow
  <2> QED  BY <1>2, <2>1, RowIsSome
<1>4. account' = [account EXCEPT ![a] = x] /\ UNCHANGED <<links, died>>
  BY <1>1 DEF InfoWrite, TypeOK
<1>5. call' \in [Calls -> Call] /\ \A q \in Calls : call'[q] = IF q = p THEN Idle ELSE call[q]
  BY IdleIsCall DEF InfoWrite, Finish, TypeOK
<1>6. \A q \in Calls : call[q].minted => account[call[q].who] # NoRow  BY DEF MintStands
<1>7. a \in UsableOwners => x # NoRow /\ x.role = "owner" /\ ~x.banned  BY <1>3 DEF UsableOwners
<1> HIDE DEF x
<1>8. \A q \in Calls : call[q].minted => call'[q] # Idle /\ ~(x = NoRow /\ call[q].who = a)
  BY <1>1, <1>3, <1>5, <1>6, IdleIsCall
<1>9. \A q \in Calls : call'[q] = call[q] \/ call'[q] = Idle  BY <1>5
<1>10. x # NoRow /\ x.role = "none" => account[a] # NoRow /\ account[a].role = "none"  BY <1>3
<1>11. NotOwner(a) => x = NoRow \/ x.role # "owner"  BY <1>3 DEF NotOwner
<1> HIDE DEF Ledger
<1> QED  BY <1>1, <1>3, <1>4, <1>5, <1>7, <1>8, <1>9, <1>10, <1>11, RowStep

\* The steps of a call that read, start, end or write a link.
LEMMA CallsStep ==
    ASSUME Ledger, NEW p \in Calls,
           \/ \E e \in Emails, s \in Students \cup {NoRow} : Provision(p, e, s)
           \/ \E e \in Emails : CreateStaff(p, e)
           \/ \E a \in Accounts, e \in Emails : InfoRead(p, a, e)
           \/ \E a \in Accounts, s \in Students : AssignRead(p, a, s)
           \/ \E a \in Accounts, c \in {"demote", "ban"} : StaffRead(p, a, c)
           \/ Reuse(p) \/ LinkFind(p) \/ LinkInsert(p) \/ StatementFails(p) \/ Crash(p)
    PROVE  Ledger'
<1> USE DEF Ledger
<1>1. /\ call[p] \in Call /\ links \subseteq Students \X Accounts /\ died \in BOOLEAN
      /\ TRUE \in BOOLEAN
  BY DEF TypeOK
<1>2. ASSUME NEW r \in Call, At(p, "idle"), call' = [call EXCEPT ![p] = r],
             UNCHANGED <<account, links, died>>, ~r.minted,
             r.stage \in {"reuse", "create", "link_find", "guard", "info_write"},
             r.stage # "create" => r.who \in Accounts,
             r.stage = "create" => r.role \in {"teacher", "parent"},
             r.stage \in {"create", "info_write"} => r.email \in Emails,
             r.stage = "link_find" => r.student \in Students,
             r.stage = "guard" /\ ~r.wasOwner => NotOwner(r.who)
      PROVE  Ledger'
  <2> ~call[p].minted  BY <1>2 DEF MintStands, At, Minting
  <2> QED  BY <1>1, <1>2, CallStep DEF Minting
<1>3. ASSUME Finish(p), account' = account, links' \subseteq Students \X Accounts,
             died' \in BOOLEAN,
             died' \/ (died' = died /\ call[p].stage \notin {"join", "undo"})
      PROVE  Ledger'
  <2>1. call' = [call EXCEPT ![p] = Idle]  BY <1>3 DEF Finish
  <2>2. ~died' => ~died /\ call[p].stage \notin {"join", "undo"}  BY <1>3
  <2>3. /\ Idle \in Call /\ Idle.stage = "idle" /\ ~Idle.minted
        /\ Idle.stage \notin Minting \cup {"reuse", "guard", "change", "info_write", "create"}
    BY IdleIsCall DEF Minting
  <2> HIDE DEF Ledger
  <2> QED  BY <1>3, <2>1, <2>2, <2>3, CallStep DEF Minting
<1>4. ASSUME NEW stage \in {"link_find", "link_insert", "undo"}, Goto(p, stage),
             UNCHANGED <<account, links, died>>,
             call[p].who \in Accounts,
             stage # "undo" => call[p].student \in Students /\ call[p].stage \notin {"join", "undo"},
             stage = "undo" => call[p].minted
      PROVE  Ledger'
  <2> DEFINE r == [call[p] EXCEPT !.stage = stage]
  <2>1. /\ r \in Call /\ r.stage = stage /\ r.who = call[p].who
        /\ r.student = call[p].student /\ r.minted = call[p].minted
    BY <1>1 DEF Call, Stages
  <2>2. call' = [call EXCEPT ![p] = r]  BY <1>4 DEF Goto
  <2> HIDE DEF r
  <2> QED  BY <1>1, <1>4, <2>1, <2>2, CallStep DEF Minting
<1>5. ASSUME NEW e \in Emails, NEW s \in Students \cup {NoRow}, Provision(p, e, s)
      PROVE  Ledger'
  <2>1. CASE \E a \in Known(e) : Start(p, [Idle EXCEPT !.stage = "reuse", !.student = s, !.who = a])
    <3> PICK a \in Known(e) : Start(p, [Idle EXCEPT !.stage = "reuse", !.student = s, !.who = a])
      BY <2>1
    <3> DEFINE r == [Idle EXCEPT !.stage = "reuse", !.student = s, !.who = a]
    <3>1. a \in Accounts  BY DEF Known
    <3>2. r \in Call /\ r.stage = "reuse" /\ r.who = a /\ ~r.minted
      BY <3>1 DEF Idle, Call, Stages
    <3>3. call' = [call EXCEPT ![p] = r] /\ At(p, "idle")  BY DEF Start
    <3> HIDE DEF r
    <3> QED  BY <1>2, <1>5, <3>1, <3>2, <3>3 DEF Provision
  <2>2. CASE Start(p, [Idle EXCEPT !.stage = "create", !.email = e, !.student = s, !.role = "parent"])
    <3> DEFINE r == [Idle EXCEPT !.stage = "create", !.email = e, !.student = s, !.role = "parent"]
    <3>1. r \in Call /\ r.stage = "create" /\ r.email = e /\ r.role = "parent" /\ ~r.minted
      BY DEF Idle, Call, Stages
    <3>2. call' = [call EXCEPT ![p] = r] /\ At(p, "idle")  BY <2>2 DEF Start
    <3> HIDE DEF r
    <3> QED  BY <1>2, <1>5, <3>1, <3>2 DEF Provision
  <2> QED  BY <1>5, <2>1, <2>2 DEF Provision
<1>6. ASSUME NEW e \in Emails, CreateStaff(p, e)
      PROVE  Ledger'
  <2> DEFINE r == [Idle EXCEPT !.stage = "create", !.email = e, !.role = "teacher"]
  <2>1. r \in Call /\ r.stage = "create" /\ r.email = e /\ r.role = "teacher" /\ ~r.minted
    BY DEF Idle, Call, Stages
  <2>2. call' = [call EXCEPT ![p] = r] /\ At(p, "idle")  BY <1>6 DEF CreateStaff, Start
  <2> HIDE DEF r
  <2> QED  BY <1>2, <1>6, <2>1, <2>2 DEF CreateStaff
<1>7. ASSUME NEW a \in Accounts, NEW e \in Emails, InfoRead(p, a, e)
      PROVE  Ledger'
  <2> DEFINE r == [Idle EXCEPT !.stage = "info_write", !.who = a, !.email = e]
  <2>1. r \in Call /\ r.stage = "info_write" /\ r.email = e /\ r.who = a /\ ~r.minted
    BY DEF Idle, Call, Stages
  <2>2. call' = [call EXCEPT ![p] = r] /\ At(p, "idle")  BY <1>7 DEF InfoRead, Start
  <2> HIDE DEF r
  <2> QED  BY <1>2, <1>7, <2>1, <2>2 DEF InfoRead
<1>8. ASSUME NEW a \in Accounts, NEW s \in Students, AssignRead(p, a, s)
      PROVE  Ledger'
  <2> DEFINE r == [Idle EXCEPT !.stage = "link_find", !.student = s, !.who = a]
  <2>1. r \in Call /\ r.stage = "link_find" /\ r.student = s /\ r.who = a /\ ~r.minted
    BY DEF Idle, Call, Stages
  <2>2. call' = [call EXCEPT ![p] = r] /\ At(p, "idle")  BY <1>8 DEF AssignRead, Start
  <2> HIDE DEF r
  <2> QED  BY <1>2, <1>8, <2>1, <2>2 DEF AssignRead
<1>9. ASSUME NEW a \in Accounts, NEW c \in {"demote", "ban"}, StaffRead(p, a, c)
      PROVE  Ledger'
  <2> DEFINE r == [Idle EXCEPT !.stage = "guard", !.who = a, !.change = c,
                               !.wasOwner = account[a].role = "owner"]
  <2>1. /\ r \in Call /\ r.stage = "guard" /\ r.who = a /\ ~r.minted
        /\ r.wasOwner = (account[a].role = "owner")
    BY DEF Idle, Call, Stages
  <2>2. call' = [call EXCEPT ![p] = r] /\ At(p, "idle")  BY <1>9 DEF StaffRead, Start
  <2>3. ~r.wasOwner => NotOwner(a)  BY <2>1 DEF NotOwner
  <2> HIDE DEF r
  <2> QED  BY <1>2, <1>9, <2>1, <2>2, <2>3 DEF StaffRead
<1>10. CASE Reuse(p)
  <2>1. call[p].stage = "reuse" /\ call[p].who \in Accounts  BY <1>10 DEF Reuse, At, Prepared
  <2>2. CASE Finish(p)  BY <1>1, <1>3, <1>10, <2>1, <2>2 DEF Reuse
  <2>3. CASE Goto(p, "link_find") /\ call[p].student # NoRow
    <3>1. call[p].student \in Students  BY <1>1, <2>3 DEF Call
    <3> QED  BY <1>4, <1>10, <2>1, <2>3, <3>1 DEF Reuse
  <2> QED  BY <1>10, <2>2, <2>3 DEF Reuse, GoLink
<1>11. CASE LinkFind(p)
  <2>1. /\ call[p].stage = "link_find" /\ call[p].who \in Accounts
        /\ call[p].student \in Students
    BY <1>11 DEF LinkFind, At, Prepared, Minting
  <2>2. CASE Finish(p)  BY <1>1, <1>3, <1>11, <2>1, <2>2 DEF LinkFind
  <2>3. CASE Goto(p, "link_insert")  BY <1>4, <1>11, <2>1, <2>3 DEF LinkFind
  <2> QED  BY <1>11, <2>2, <2>3 DEF LinkFind
<1>12. CASE LinkInsert(p)
  <2>1. /\ call[p].stage = "link_insert" /\ call[p].who \in Accounts
        /\ call[p].student \in Students
    BY <1>12 DEF LinkInsert, At, Prepared, Minting
  <2>2. links' \subseteq Students \X Accounts  BY <1>1, <1>12, <2>1 DEF LinkInsert
  <2>3. CASE Finish(p)  BY <1>1, <1>3, <1>12, <2>1, <2>2, <2>3 DEF LinkInsert
  <2>4. CASE <<call[p].student, call[p].who>> \in links /\ call[p].minted /\ Goto(p, "undo")
    <3>1. links' = links  BY <1>12, <2>4 DEF LinkInsert
    <3> QED  BY <1>4, <1>12, <2>1, <2>4, <3>1 DEF LinkInsert
  <2> QED  BY <1>12, <2>3, <2>4 DEF LinkInsert, GiveUp
<1>13. CASE StatementFails(p)
  <2>1. /\ call[p].stage \in {"join", "link_find", "link_insert"} /\ call[p].who \in Accounts
        /\ call[p].stage = "join" => call[p].minted
    BY <1>13 DEF StatementFails, Prepared, Minting
  <2>2. CASE ~call[p].minted /\ Finish(p)  BY <1>1, <1>3, <1>13, <2>1, <2>2 DEF StatementFails
  <2>3. CASE call[p].minted /\ Goto(p, "undo")  BY <1>4, <1>13, <2>1, <2>3 DEF StatementFails
  <2> QED  BY <1>13, <2>2, <2>3 DEF StatementFails, GiveUp
<1>14. CASE Crash(p)
  <2>1. Finish(p) /\ account' = account /\ links' = links /\ died' = TRUE  BY <1>14 DEF Crash
  <2>2. died' /\ died' \in BOOLEAN  BY <2>1
  <2>3. links' \subseteq Students \X Accounts  BY <1>1, <2>1
  <2> QED  BY <1>3, <2>1, <2>2, <2>3
<1> QED  BY <1>5, <1>6, <1>7, <1>8, <1>9, <1>10, <1>11, <1>12, <1>13, <1>14

LEMMA LedgerStep == Ledger /\ [Next]_vars => Ledger'
<1> SUFFICES ASSUME Ledger, [Next]_vars PROVE Ledger'
  OBVIOUS
<1>1. CASE UNCHANGED vars
  BY <1>1 DEF vars, Ledger, TypeOK, Prepared, MintStands, OneHolder, OthersLeft, OwnerRemains,
              NoOrphan, NotOwner, HoldsRows, At, UsableOwners
<1>2. ASSUME NEW p \in Calls, NEW a \in Accounts, Create(p, a) PROVE Ledger'
  BY <1>2, CreateStep
<1>3. ASSUME NEW p \in Calls, Join(p) PROVE Ledger'  BY <1>3, JoinStep
<1>4. ASSUME NEW p \in Calls, Undo(p) PROVE Ledger'  BY <1>4, UndoStep
<1>5. ASSUME NEW p \in Calls, Guard(p) PROVE Ledger'  BY <1>5, GuardStep
<1>6. ASSUME NEW p \in Calls, Change(p) PROVE Ledger'
  BY <1>6, StaffStep DEF Change, At
<1>7. ASSUME NEW p \in Calls, InfoWrite(p) PROVE Ledger'  BY <1>7, InfoWriteStep
<1>8. ASSUME NEW a \in Accounts, Reactivate(a) PROVE Ledger'  BY <1>8, ReactivateStep
<1>9. ASSUME NEW a \in Accounts, NEW s \in Students, Unlink(a, s) PROVE Ledger'
  <2>1. UNCHANGED <<account, call, died>> /\ links' \subseteq links  BY <1>9 DEF Unlink
  <2> QED
    BY <2>1 DEF Ledger, TypeOK, Prepared, MintStands, OneHolder, OthersLeft, OwnerRemains,
                NoOrphan, NotOwner, HoldsRows, At, UsableOwners
<1> QED  BY <1>1, <1>2, <1>3, <1>4, <1>5, <1>6, <1>7, <1>8, <1>9, CallsStep DEF Next

-----------------------------------------------------------------------------
\* What every call holds and has established, whatever the others do.
THEOREM LedgerInvariant == Spec => []Ledger
<1> QED  BY LedgerInit, LedgerStep, PTL DEF Spec

\* The accounts keep their types.
THEOREM TypeCorrect == Spec => []TypeOK
<1>1. Ledger => TypeOK  BY DEF Ledger
<1> QED  BY <1>1, LedgerInvariant, PTL

\* setStaffRoleCore and deactivateStaffCore leave an owner who can sign in.
THEOREM OwnerStays == Spec => []OwnerRemains
<1>1. Ledger => OwnerRemains  BY DEF Ledger
<1> QED  BY <1>1, LedgerInvariant, PTL

\* Unless the process dies, a user without a membership is some call's to finish or to delete.
THEOREM NobodyOrphaned == Spec => []NoOrphan
<1>1. Ledger => NoOrphan  BY DEF Ledger
<1> QED  BY <1>1, LedgerInvariant, PTL

\* deprovisionPortalMember deletes what its own call minted.
THEOREM MinterTearsDown == Spec => OnlyTheMinterTearsDown
<1>1. ASSUME Ledger, [Next]_vars, NEW a \in Accounts, account[a] # NoRow, account'[a] = NoRow
      PROVE  \E p \in Calls : call[p].minted /\ call[p].who = a
  <2> USE <1>1 DEF Ledger
  <2>1. account \in [Accounts -> AccountRow \cup {NoRow}] /\ account' # account  BY DEF TypeOK
  <2>2. ASSUME NEW b \in Accounts, NEW x \in AccountRow, account' = [account EXCEPT ![b] = x]
        PROVE  FALSE
    BY <2>1, <2>2, RowIsSome
  <2>3. ASSUME NEW p \in Calls, account' = Changed(p), call[p].who \in Accounts
        PROVE  FALSE
    <3> PICK x \in AccountRow \cup {NoRow} :
              /\ Changed(p) = [account EXCEPT ![call[p].who] = x]
              /\ x = NoRow <=> account[call[p].who] = NoRow
      BY <2>3, ChangedRow
    <3> QED  BY <2>1, <2>3
  <2>4. ASSUME NEW p \in Calls, Undo(p)
        PROVE  call[p].minted /\ call[p].who = a
    <3>1. call[p].minted  BY <2>4 DEF Undo, At, Prepared
    <3> QED  BY <2>1, <2>4, <3>1 DEF Undo
  <2>5. ASSUME NEW p \in Calls, NEW b \in Accounts, Create(p, b)
        PROVE  FALSE
    <3>1. call[p].email \in Emails  BY <2>5 DEF Create, At, Prepared
    <3>2. [email |-> call[p].email, role |-> "none", banned |-> FALSE] \in AccountRow
      BY <3>1 DEF AccountRow
    <3> QED  BY <2>1, <2>2, <2>5, <3>2 DEF Create
  <2>6. ASSUME NEW p \in Calls, Join(p)
        PROVE  FALSE
    <3> DEFINE x == [account[call[p].who] EXCEPT !.role = call[p].role]
    <3>1. /\ call[p].who \in Accounts /\ account[call[p].who] \in AccountRow
          /\ call[p].role \in {"teacher", "parent"}
      BY <2>1, <2>6 DEF Join, At, Prepared, MintStands, Minting
    <3>2. x \in AccountRow  BY <3>1 DEF AccountRow, Roles
    <3>3. account' = [account EXCEPT ![call[p].who] = x]  BY <2>6 DEF Join
    <3> HIDE DEF x
    <3> QED  BY <2>2, <3>1, <3>2, <3>3
  <2>7. ASSUME NEW p \in Calls, Guard(p) \/ Change(p)
        PROVE  FALSE
    <3>1. call[p].who \in Accounts  BY <2>7 DEF Guard, Change, At, Prepared
    <3> QED  BY <2>1, <2>3, <2>7, <3>1 DEF Guard, Change
  <2>8. ASSUME NEW p \in Calls, InfoWrite(p)
        PROVE  FALSE
    <3> DEFINE x == [account[call[p].who] EXCEPT !.email = call[p].email]
    <3>1. call[p].who \in Accounts /\ call[p].email \in Emails
      BY <2>8 DEF InfoWrite, At, Prepared
    <3>2. account[call[p].who] # NoRow => x \in AccountRow
      <4>1. account[call[p].who] # NoRow => account[call[p].who] \in AccountRow  BY <2>1, <3>1
      <4> QED  BY <3>1, <4>1 DEF AccountRow
    <3>3. account[call[p].who] # NoRow /\ account' = [account EXCEPT ![call[p].who] = x]
      BY <2>1, <2>8 DEF InfoWrite
    <3> HIDE DEF x
    <3> QED  BY <2>2, <3>1, <3>2, <3>3
  <2>9. ASSUME NEW b \in Accounts, Reactivate(b)
        PROVE  FALSE
    <3> DEFINE x == [account[b] EXCEPT !.banned = FALSE]
    <3>1. account[b] \in AccountRow  BY <2>1, <2>9 DEF Reactivate, Member
    <3>2. x \in AccountRow  BY <3>1 DEF AccountRow
    <3>3. account' = [account EXCEPT ![b] = x]  BY <2>9 DEF Reactivate
    <3> HIDE DEF x
    <3> QED  BY <2>2, <3>2, <3>3
  <2>10. PICK p \in Calls : Undo(p)
    BY <2>1, <2>5, <2>6, <2>7, <2>8, <2>9
       DEF Next, vars, Provision, CreateStaff, InfoRead, AssignRead, StaffRead, Reuse, LinkFind,
           LinkInsert, StatementFails, Crash, Unlink
  <2> QED  BY <2>4, <2>10
<1>2. Ledger /\ [Next]_vars =>
        [\A a \in Accounts :
           account[a] # NoRow /\ account'[a] = NoRow =>
               \E p \in Calls : call[p].minted /\ call[p].who = a]_vars
  BY <1>1
<1> QED  BY <1>2, LedgerInvariant, PTL DEF Spec, OnlyTheMinterTearsDown
=============================================================================
