----------------------------- MODULE TenantPurge -----------------------------
(***************************************************************************)
(* The scripts of the operator: the cleanup of orphaned rows and the       *)
(* migration at every start of the container, and the purge of a tenant,   *)
(* which deletes its rows table by table in one transaction while the      *)
(* application goes on writing.  The scripts hold one advisory lock; the   *)
(* application knows nothing of it.                                        *)
(***************************************************************************)
EXTENDS Statements, Integers

CONSTANTS
    Tenants,    \* organization ids
    Tables      \* number of tables; a row of table i refers to one of table i + 1

ASSUME PurgeAssumption == Tables \in Nat \ {0}

VARIABLES
    tenantFk,   \* the constraints of 0016: every tenant_id is an organization, and RESTRICT
    orgs,       \* the organization rows
    tableRows,  \* tableRows[o]: the committed rows with tenant_id = o
    pointing,   \* pointing[o]: session rows with o active: "no", "old", or "late" in a purge
    job,        \* job[p]: what a script is doing; gone: deletions not committed
    stored,     \* history: rows the application stored and has not deleted
    meant       \* history: organizations an operator confirmed, or that were orphaned at first

purgeVars == <<tenantFk, orgs, tableRows, pointing, job, stored, meant>>

\* A row of each table, and one more in the table the others refer to.
TableRow   == (1..Tables) \X {1} \cup {<<Tables, 2>>}
AtTable(s, i) == {r \in s : r[1] = i}
NoJob      == [stage |-> "none", tenant |-> Nothing, dry |-> FALSE, table |-> 1, gone |-> {}]
Doing(p, st) == job[p].stage = st
GoOn(p, j) == job' = [job EXCEPT ![p] = j]
LockFree   == \A p \in Calls : job[p].stage \in {"none", "cleaned"}
Orphans    == {o \in Tenants \ orgs : tableRows[o] # {}}

\* Rows nobody is about to delete; whoever wants the others waits for the purge.
Standing(o) == tableRows[o] \ UNION {job[p].gone : p \in {q \in Calls : job[q].tenant = o}}

InitPurge ==
    /\ tenantFk = FALSE
    /\ orgs \in {Tenants, Tenants \ {CHOOSE o \in Tenants : TRUE}}
    /\ tableRows = [o \in Tenants |-> {<<i, 1>> : i \in 1..Tables}]
    /\ pointing \in [Tenants -> {"no", "old"}]
    /\ \A o \in Tenants \ orgs : pointing[o] = "no"
    /\ job = [p \in Calls |-> NoJob]
    /\ stored = tableRows
    /\ meant = Tenants \ orgs

-----------------------------------------------------------------------------
(* docker/entrypoint.sh: cleanupOrphanTenants, then migrate.  The server   *)
(* is started behind them.                                                 *)

StartCleanup(p) ==
    /\ Doing(p, "none")
    /\ ~tenantFk
    /\ LockFree
    /\ GoOn(p, [NoJob EXCEPT !.stage = "clean"])
    /\ UNCHANGED <<tenantFk, orgs, tableRows, pointing, stored, meant>>

\* One statement of its own for each table, children first.
CleanTable(p) ==
    LET i == job[p].table IN
    /\ Doing(p, "clean")
    /\ tableRows' = [o \in Tenants |-> IF o \in orgs THEN tableRows[o]
                                       ELSE tableRows[o] \ AtTable(tableRows[o], i)]
    /\ GoOn(p, IF i = Tables THEN [NoJob EXCEPT !.stage = "cleaned"]
                             ELSE [job[p] EXCEPT !.table = i + 1])
    /\ UNCHANGED <<tenantFk, orgs, pointing, stored, meant>>

\* The constraints do not take over an orphan: the container would start again and again.
Migrate(p) ==
    /\ Doing(p, "cleaned")
    /\ LockFree
    /\ tenantFk' = (Orphans = {})
    /\ GoOn(p, NoJob)
    /\ UNCHANGED <<orgs, tableRows, pointing, stored, meant>>

-----------------------------------------------------------------------------
(* purgeTenant *)

\* --commit wants the id once more, from --confirm or from the prompt.
AnyConfirmation(commit, o, typed) == commit => typed # Nothing
Confirmation(commit, o, typed) == commit => typed = o

StartPurge(p, o, commit, typed) ==
    /\ Doing(p, "none")
    /\ Confirmation(commit, o, typed)
    /\ LockFree
    /\ meant' = IF commit THEN meant \cup {typed} ELSE meant
    /\ GoOn(p, [NoJob EXCEPT !.stage = "tables", !.tenant = o, !.dry = ~commit])
    /\ UNCHANGED <<tenantFk, orgs, tableRows, pointing, stored>>

\* The rows the statement finds; a row that still refers to one of them fails it.
Refused(p) == LET j == job[p] IN
    AtTable(tableRows[j.tenant], j.table) # {} /\ AtTable(Standing(j.tenant), j.table - 1) # {}

\* A dry run counts, and ends here; the purge of an id that is no organization commits here.
PurgeTable(p) ==
    LET j == job[p]
        k == [j EXCEPT !.gone = IF j.dry THEN {} ELSE @ \cup AtTable(tableRows[j.tenant], j.table)]
    IN
    /\ Doing(p, "tables")
    /\ j.dry \/ ~Refused(p)
    /\ IF j.table < Tables
       THEN GoOn(p, [k EXCEPT !.table = @ + 1]) /\ UNCHANGED tableRows
       ELSE IF j.dry \/ j.tenant \notin orgs
       THEN GoOn(p, NoJob) /\ tableRows' = [tableRows EXCEPT ![j.tenant] = @ \ k.gone]
       ELSE GoOn(p, [k EXCEPT !.stage = "sessions"]) /\ UNCHANGED tableRows
    /\ UNCHANGED <<tenantFk, orgs, pointing, stored, meant>>

ClearSessions(p) ==
    /\ Doing(p, "sessions")
    /\ GoOn(p, [job[p] EXCEPT !.stage = "organization"])
    /\ UNCHANGED <<tenantFk, orgs, tableRows, pointing, stored, meant>>

\* The organization and the commit; a row stored meanwhile refuses it.
DeleteOrganization(p) ==
    LET o == job[p].tenant IN
    /\ Doing(p, "organization")
    /\ Standing(o) = {}
    /\ orgs' = orgs \ {o}
    /\ tableRows' = [tableRows EXCEPT ![o] = {}]
    /\ pointing' = [pointing EXCEPT ![o] = IF @ = "late" THEN @ ELSE "no"]
    /\ GoOn(p, NoJob)
    /\ UNCHANGED <<tenantFk, stored, meant>>

\* A statement is refused, or the process dies: a purge is rolled back, a cleanup stays half done.
BreakJob(p) ==
    /\ ~Doing(p, "none")
    /\ GoOn(p, NoJob)
    /\ UNCHANGED <<tenantFk, orgs, tableRows, pointing, stored, meant>>

-----------------------------------------------------------------------------
(* The application, once the server is up *)

StoreRow(o, r) ==
    /\ tenantFk /\ o \in orgs
    /\ r \notin tableRows[o]
    /\ r[1] < Tables => AtTable(Standing(o), r[1] + 1) # {}
    /\ tableRows' = [tableRows EXCEPT ![o] = @ \cup {r}]
    /\ stored' = [stored EXCEPT ![o] = @ \cup {r}]
    /\ UNCHANGED <<tenantFk, orgs, pointing, job, meant>>

RemoveRow(o, r) ==
    /\ tenantFk
    /\ r \in Standing(o)
    /\ AtTable(tableRows[o], r[1] - 1) = {}
    /\ tableRows' = [tableRows EXCEPT ![o] = @ \ {r}]
    /\ stored' = [stored EXCEPT ![o] = @ \ {r}]
    /\ UNCHANGED <<tenantFk, orgs, pointing, job, meant>>

\* There is no constraint on session.active_organization_id.
ChooseOrganization(o) ==
    /\ tenantFk /\ o \in orgs
    /\ pointing' = [pointing EXCEPT ![o] =
                       IF \E p \in Calls : job[p].tenant = o /\ Doing(p, "organization")
                       THEN "late" ELSE "old"]
    /\ pointing' # pointing
    /\ UNCHANGED <<tenantFk, orgs, tableRows, job, stored, meant>>

NextPurge ==
    \/ \E p \in Calls :
          \/ StartCleanup(p) \/ CleanTable(p) \/ Migrate(p)
          \/ \E o \in Tenants, typed \in Tenants \cup {Nothing}, commit \in BOOLEAN :
                StartPurge(p, o, commit, typed)
          \/ PurgeTable(p) \/ ClearSessions(p) \/ DeleteOrganization(p) \/ BreakJob(p)
    \/ \E o \in Tenants : \/ \E r \in TableRow : StoreRow(o, r) \/ RemoveRow(o, r)
                          \/ ChooseOrganization(o)

SpecPurge == InitPurge /\ [][NextPurge]_purgeVars

-----------------------------------------------------------------------------
TypeOKPurge ==
    /\ orgs \subseteq Tenants /\ tenantFk \in BOOLEAN
    /\ \A o \in Tenants : /\ tableRows[o] \subseteq TableRow
                          /\ pointing[o] \in {"no", "old", "late"}
    /\ \A p \in Calls : /\ job[p].table \in 1..Tables
                        /\ job[p].gone # {} => job[p].gone \subseteq tableRows[job[p].tenant]

\* A tenant is purged whole or not at all: as long as its organization is there, so is every row
\* that was stored for it, whatever the cleanup and the purge of another tenant did or left half
\* done; once it is gone there is no row and no session left of it but one that came in the last
\* statement, and an operator had confirmed its id.  The migration finds no orphan
\* (purge-tenant.ts:102-168, cleanup-orphan-tenants.ts:106-138).
PurgedWholeOrNotAtAll ==
    /\ \A o \in orgs : tableRows[o] = stored[o]
    /\ \A o \in Tenants \ orgs : o \in meant /\ pointing[o] # "old"
    /\ tenantFk \/ (\E p \in Calls : Doing(p, "cleaned")) => Orphans = {}
==============================================================================
