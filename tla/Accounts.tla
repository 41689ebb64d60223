------------------------------ MODULE Accounts ------------------------------
(***************************************************************************)
(* The accounts of one organisation: portal logins are minted (or reused,  *)
(* by e-mail) and linked to students, staff logins are minted, demoted,    *)
(* banned and unbanned.  Minting is several trusted calls without a        *)
(* transaction around them, with a teardown when a later one fails; the    *)
(* last-owner guard counts under a lock on the organisation's rows.        *)
(*                                                                         *)
(* A user row, its membership and its ban are one record here.  Role       *)
(* "teacher" stands for every staff role but the owner's, "parent" for     *)
(* both portal roles.  Nobody is in two organisations.                     *)
(***************************************************************************)
EXTENDS Naturals, FiniteSets

CONSTANTS
    Calls,      \* calls in flight at one time
    Accounts,   \* user ids
    Owners,     \* the owners the seed made
    Emails,     \* login addresses
    Students,   \* students of the organisation
    SeedEmail,  \* SeedEmail[a]: the address of owner a
    Faults,     \* whether a statement may fail
    NoRow       \* no row, or no value

VARIABLES
    account,    \* the user rows with their membership
    links,      \* portal_link: <<student, user id>>; the id is no foreign key
    call,       \* call[p]: where call p stands, with its local variables
    died        \* whether a call or a teardown was cut short

vars == <<account, links, call, died>>

Roles == {"owner", "teacher", "parent"}

AccountRow == [email : Emails, role : Roles \cup {"none"}, banned : BOOLEAN]

Stages == {"idle", "reuse", "create", "join", "link_find", "link_insert", "undo",
           "guard", "change", "info_write"}

Call == [stage   : Stages,
         email   : Emails \cup {NoRow},
         role    : {"teacher", "parent", "none"},    \* the role to give
         student : Students \cup {NoRow},
         who     : Accounts \cup {NoRow},
         minted  : BOOLEAN,                          \* created
         change  : {"demote", "ban", "none"},
         wasOwner : BOOLEAN]                         \* by the role that was read

Idle == [stage |-> "idle", email |-> NoRow, role |-> "none", student |-> NoRow,
         who |-> NoRow, minted |-> FALSE, change |-> "none",
         wasOwner |-> FALSE]

ASSUME AccountAssumption == /\ Owners \subseteq Accounts /\ Owners # {}
                            /\ IsFiniteSet(Accounts)
                            /\ SeedEmail \in [Owners -> Emails]
                            /\ Faults \in BOOLEAN
                            /\ NoRow \notin AccountRow \cup Emails \cup Students \cup Accounts

TypeOK == /\ account \in [Accounts -> AccountRow \cup {NoRow}]
          /\ links \subseteq Students \X Accounts
          /\ call \in [Calls -> Call]
          /\ died \in BOOLEAN

Init == /\ account = [a \in Accounts |->
                        IF a \in Owners
                        THEN [email |-> SeedEmail[a], role |-> "owner", banned |-> FALSE]
                        ELSE NoRow]
        /\ links = {}
        /\ call = [p \in Calls |-> Idle]
        /\ died = FALSE

At(p, stage)   == call[p].stage = stage
Goto(p, stage) == call' = [call EXCEPT ![p].stage = stage]
Start(p, c)    == At(p, "idle") /\ call' = [call EXCEPT ![p] = c]
Finish(p)      == call' = [call EXCEPT ![p] = Idle]

-----------------------------------------------------------------------------
\* Users with address e: at most one, by the unique index on user.email.
Known(e) == {a \in Accounts : account[a] # NoRow /\ account[a].email = e}

Member(a) == account[a] # NoRow /\ account[a].role # "none"

FreshId(a) == /\ account[a] = NoRow
              /\ \A l \in links : l[2] # a
              /\ \A p \in Calls : call[p].who # a

UsableOwners == {a \in Accounts : /\ account[a] # NoRow
                                  /\ account[a].role = "owner"
                                  /\ ~account[a].banned}

\* lockUsableOwnerCount: FOR UPDATE on all members of the organisation and their users.
HoldsRows(p) == At(p, "change")
RowsFree(p)  == \A o \in Calls \ {p} : ~HoldsRows(o)

-----------------------------------------------------------------------------
(* provisionPortalAccountCore, createPortalUserCore (links nobody) and createStaffUserCore *)

Provision(p, e, s) ==
    /\ \/ \E a \in Known(e) : Start(p, [Idle EXCEPT !.stage = "reuse",
                                                    !.student = s, !.who = a])
       \/ /\ Known(e) = {}
          /\ Start(p, [Idle EXCEPT !.stage = "create", !.email = e, !.student = s,
                                   !.role = "parent"])
    /\ UNCHANGED <<account, links, died>>

\* A staff login is never reused.
CreateStaff(p, e) ==
    /\ Known(e) = {}
    /\ Start(p, [Idle EXCEPT !.stage = "create", !.email = e, !.role = "teacher"])
    /\ UNCHANGED <<account, links, died>>

\* The login is a member: link the student, if there is one.
GoLink(p) == IF call[p].student = NoRow THEN Finish(p) ELSE Goto(p, "link_find")

\* Only a portal member of this organisation is reused.
Reuse(p) == /\ At(p, "reuse")
            /\ IF Member(call[p].who) /\ account[call[p].who].role = "parent"
               THEN GoLink(p) ELSE Finish(p)
            /\ UNCHANGED <<account, links, died>>

\* auth.api.createUser; it throws for an address that is taken by now.
Create(p, a) ==
    /\ At(p, "create")
    /\ \/ /\ Known(call[p].email) = {}
          /\ FreshId(a)
          /\ account' = [account EXCEPT ![a] = [email |-> call[p].email, role |-> "none",
                                                banned |-> FALSE]]
          /\ call' = [call EXCEPT ![p].stage = "join", ![p].email = NoRow, ![p].who = a,
                                  ![p].minted = TRUE]
       \/ /\ Known(call[p].email) # {}
          /\ Finish(p)
          /\ UNCHANGED account
    /\ UNCHANGED <<links, died>>

\* auth.api.addMember.
Join(p) == /\ At(p, "join")
           /\ account' = [account EXCEPT ![call[p].who].role = call[p].role]
           /\ GoLink(p)
           /\ UNCHANGED <<links, died>>

LinkFind(p) == /\ At(p, "link_find")
               /\ IF <<call[p].student, call[p].who>> \in links
                  THEN Finish(p) ELSE Goto(p, "link_insert")
               /\ UNCHANGED <<account, links, died>>

\* The catch blocks: what this call minted is torn down.
GiveUp(p) == IF call[p].minted THEN Goto(p, "undo") ELSE Finish(p)

\* uq_portal_link_student_user refuses a second row.
LinkInsert(p) ==
    LET l == <<call[p].student, call[p].who>>
    IN  /\ At(p, "link_insert")
        /\ links' = links \cup {l}
        /\ IF l \in links THEN GiveUp(p) ELSE Finish(p)
        /\ UNCHANGED <<account, died>>

\* Mutant: a reused login is torn down as well.
StatementFailsAndUndoes(p) ==
    /\ Faults
    /\ call[p].stage \in {"join", "link_find", "link_insert"}
    /\ Goto(p, "undo")
    /\ UNCHANGED <<account, links, died>>

StatementFails(p) ==
    /\ Faults
    /\ call[p].stage \in {"join", "link_find", "link_insert"}
    /\ GiveUp(p)
    /\ UNCHANGED <<account, links, died>>

\* Mutant: the teardown removes the membership and the credentials, not the user.
UndoMembership(p) ==
    /\ At(p, "undo")
    /\ RowsFree(p)
    /\ account' = [account EXCEPT ![call[p].who].role = "none"]
    /\ Finish(p)
    /\ UNCHANGED <<links, died>>

\* deprovisionPortalMember: one transaction.
Undo(p) == /\ At(p, "undo")
           /\ RowsFree(p)
           /\ account' = [account EXCEPT ![call[p].who] = NoRow]
           /\ Finish(p)
           /\ UNCHANGED <<links, died>>

\* linkPortalUserCore up to its look at the links.
AssignRead(p, a, s) ==
    /\ Member(a)
    /\ Start(p, [Idle EXCEPT !.stage = "link_find", !.student = s, !.who = a])
    /\ UNCHANGED <<account, links, died>>

Unlink(a, s) == /\ links' = links \ {<<s, a>>}
                /\ UNCHANGED <<account, call, died>>

-----------------------------------------------------------------------------
(* setStaffRoleCore and deactivateStaffCore: the role is read, then a transaction *)

StaffRead(p, a, change) ==
    /\ Member(a)
    /\ Start(p, [Idle EXCEPT !.stage = "guard", !.who = a, !.change = change,
                             !.wasOwner = account[a].role = "owner"])
    /\ UNCHANGED <<account, links, died>>

Changed(p) == LET a == call[p].who
              IN  IF account[a] = NoRow THEN account
                  ELSE IF call[p].change = "demote"
                       THEN [account EXCEPT ![a].role = IF @ = "none" THEN @ ELSE "teacher"]
                       ELSE [account EXCEPT ![a].banned = TRUE]

\* Mutant: the count takes no lock.
GuardUnlocked(p) ==
    /\ At(p, "guard")
    /\ IF call[p].wasOwner /\ Cardinality(UsableOwners) <= 1
       THEN Finish(p) ELSE Goto(p, "change")
    /\ UNCHANGED <<account, links, died>>

\* The last usable owner is counted under the lock; other roles need neither.
Guard(p) ==
    /\ At(p, "guard")
    /\ RowsFree(p)
    /\ \/ /\ ~call[p].wasOwner
          /\ account' = Changed(p)
          /\ Finish(p)
       \/ /\ call[p].wasOwner
          /\ IF Cardinality(UsableOwners) <= 1 THEN Finish(p) ELSE Goto(p, "change")
          /\ UNCHANGED account
    /\ UNCHANGED <<links, died>>

Change(p) == /\ At(p, "change")
             /\ account' = Changed(p)
             /\ Finish(p)
             /\ UNCHANGED <<links, died>>

\* Mutant: the ban columns are cleared to NULL, the flag among them.
ReactivateNull(a) == /\ Member(a)
                     /\ \A p \in Calls : ~HoldsRows(p)
                     /\ account' = [account EXCEPT ![a].banned = NoRow]
                     /\ UNCHANGED <<links, call, died>>

Reactivate(a) == /\ Member(a)
                 /\ \A p \in Calls : ~HoldsRows(p)
                 /\ account' = [account EXCEPT ![a].banned = FALSE]
                 /\ UNCHANGED <<links, call, died>>

\* updateUserInfoCore: the clash is looked for before the update, and the index refuses it after.
InfoRead(p, a, e) ==
    /\ Member(a)
    /\ Known(e) \subseteq {a}
    /\ Start(p, [Idle EXCEPT !.stage = "info_write", !.who = a, !.email = e])
    /\ UNCHANGED <<account, links, died>>

InfoWrite(p) ==
    LET a == call[p].who
    IN  /\ At(p, "info_write")
        /\ RowsFree(p)
        /\ account' = IF account[a] # NoRow /\ Known(call[p].email) \subseteq {a}
                      THEN [account EXCEPT ![a].email = call[p].email]
                      ELSE account
        /\ Finish(p)
        /\ UNCHANGED <<links, died>>

\* The server process dies under call p, or its teardown fails.
Crash(p) == /\ Faults
            /\ ~At(p, "idle")
            /\ Finish(p)
            /\ died' = TRUE
            /\ UNCHANGED <<account, links>>

Next == \/ \E p \in Calls :
              \/ \E e \in Emails : \/ \E s \in Students \cup {NoRow} : Provision(p, e, s)
                                   \/ CreateStaff(p, e)
                                   \/ \E a \in Accounts : InfoRead(p, a, e)
              \/ \E a \in Accounts : \/ Create(p, a)
                                     \/ \E s \in Students : AssignRead(p, a, s)
                                     \/ \E c \in {"demote", "ban"} : StaffRead(p, a, c)
              \/ Reuse(p) \/ Join(p) \/ LinkFind(p) \/ LinkInsert(p)
              \/ StatementFails(p) \/ Undo(p)
              \/ Guard(p) \/ Change(p) \/ InfoWrite(p) \/ Crash(p)
        \/ \E a \in Accounts : Reactivate(a) \/ \E s \in Students : Unlink(a, s)

Spec == Init /\ [][Next]_vars

-----------------------------------------------------------------------------
\* An owner who can sign in remains, whichever owners are demoted and banned side by side
\* (B39 in auth/staff.ts).
OwnerRemains == UsableOwners # {}

\* A user without a membership is one that a call is about to make a member or to tear down:
\* a failure between the statements leaves no login that sees nothing.
NoOrphan ==
    ~died => \A a \in Accounts :
        account[a] # NoRow /\ account[a].role = "none" =>
            \E p \in Calls : /\ call[p].who = a /\ call[p].minted
                             /\ call[p].stage \in {"join", "undo"}

\* A user row is deleted only by the call that minted it: a login that was reused, or that
\* an earlier call handed out, survives every failure (the contract of deprovisionPortalMember).
OnlyTheMinterTearsDown ==
    [][\A a \in Accounts :
          account[a] # NoRow /\ account'[a] = NoRow =>
              \E p \in Calls : call[p].minted /\ call[p].who = a]_vars

\* A student's link leads to a login that exists: provisioning the same address for the same
\* student once more is "a safe no-op" (auth/provision.ts:139).
LinkedLoginExists == \A l \in links : account[l[2]] # NoRow
=============================================================================
