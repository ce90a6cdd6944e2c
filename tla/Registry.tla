------------------------------ MODULE Registry ------------------------------
(* The registry's tenants, their installs and the published agent versions,  *)
(* and the commands that change them: the dos CLI (cli/main.py) and the      *)
(* tenant routes of the API.  Every command is a few calls of                *)
(* app/registry/repository.py; each call is one request to DynamoDB and one  *)
(* step here, so the commands of several operators interleave, and any of    *)
(* them may be cut off between two calls.                                    *)
EXTENDS Naturals, FiniteSets

CONSTANTS
  Tenants, Agents, Versions,
  Operators,    \* terminals and browsers that give commands
  OtherRows,    \* job, result and idempotency rows in the same table
  ScanPage,     \* rows DynamoDB reads for one scan request (1 MB of them)
  FreshReads    \* get_item (no ConsistentRead) returns the latest row

ASSUME RegistryAssumption ==
  /\ IsFiniteSet(Tenants) /\ IsFiniteSet(Agents) /\ IsFiniteSet(Versions)
  /\ OtherRows \in Nat /\ ScanPage \in Nat
  /\ FreshReads \in BOOLEAN

VARIABLES
  known,        \* tenants with a row
  installed,    \* installed[t]: installed_agent_ids of t's row
  older,        \* what a read of t's row may still return
  ever,         \* history: agents an install of t's has ever written
  published,    \* the <<agent, version>> rows
  op,           \* op[o]: where o's command stands, and what it has read
  calm,         \* history: no two commands overlapped, no read was stale
  granted       \* history: what the commands asked t to have, while calm

rows == <<known, installed, older, ever>>
vars == <<rows, published, op, calm, granted>>

Phases == {"idle", "versions", "install", "uninstall",
           "scan", "sweep", "sweepPut"}
Idle == [at |-> "idle", agent |-> {}, tenant |-> {}, seen |-> {},
         on |-> {}, listed |-> {}]
OpStates ==
  [at : Phases, agent : SUBSET Agents, tenant : SUBSET Tenants,
   seen : SUBSET Agents, on : SUBSET Tenants, listed : SUBSET Versions]

TypeOK ==
  /\ known \in SUBSET Tenants
  /\ installed \in [Tenants -> SUBSET Agents]
  /\ older \in [Tenants -> SUBSET Agents]
  /\ ever \in [Tenants -> SUBSET Agents]
  /\ published \in SUBSET (Agents \X Versions)
  /\ op \in [Operators -> OpStates]
  /\ granted \in [Tenants -> SUBSET Agents]
  /\ calm \in BOOLEAN

Init ==
  /\ known = {}
  /\ installed = [t \in Tenants |-> {}]
  /\ older = installed
  /\ ever = installed
  /\ published = {}
  /\ op = [o \in Operators |-> Idle]
  /\ granted = [t \in Tenants |-> {}]
  /\ calm = TRUE

-----------------------------------------------------------------------------
VersionsOf(a) == {v \in Versions : <<a, v>> \in published}

(* One scan request is answered with what the first page holds; nobody asks  *)
(* for the page after it, so with more rows than a page some tenants are     *)
(* missing, and which ones is up to the hash of their keys.                  *)
RowCount == Cardinality(known) + Cardinality(published) + OtherRows
Scans ==
  IF RowCount <= ScanPage
  THEN {known}
  ELSE {page \in SUBSET known : Cardinality(page) <= ScanPage}

MayStart(o) == op[o] = Idle

(* History: a command that overlaps another one, or reads an old row, spoils *)
(* the calm; from then on what was asked is not kept any more.               *)
Nothing == [t \in Tenants |-> {}]
Calmly(o, fresh) ==
  /\ calm' = (calm /\ fresh /\ \A p \in Operators \ {o} : op[p] = Idle)
  /\ granted' = IF calm' THEN granted ELSE Nothing

Grant(t, agents) ==
  /\ granted' = IF calm THEN [granted EXCEPT ![t] = agents] ELSE granted
  /\ UNCHANGED calm

Goes(o, state) == op' = [op EXCEPT ![o] = state]

(* Bound: only the row that was put last may still be read as it was before. *)
PutTenant(t, agents) ==
  /\ known' = known \cup {t}
  /\ installed' = [installed EXCEPT ![t] = agents]
  /\ older' = [installed EXCEPT ![t] = IF FreshReads THEN agents ELSE @]

(* Mutant: the old copy is another tenant's. *)
GetTenant_AnyKey(t) == {installed[t]} \cup {older[u] : u \in Tenants}

GetTenant(t) == {installed[t], older[t]}

-----------------------------------------------------------------------------
(* `dos tenant add`: one put of a row that has no installs.                  *)
TenantAdd(o, t) ==
  /\ MayStart(o)
  /\ Calmly(o, t \notin known)
  /\ PutTenant(t, {})
  /\ UNCHANGED <<ever, published, op>>

(* Mutant: the row's two keys change places. *)
Publish_Swapped(o, a, v) ==
  /\ MayStart(o)
  /\ Calmly(o, TRUE)
  /\ published' = published \cup {<<v, a>>}
  /\ UNCHANGED <<rows, op>>

(* `dos agent publish`, `register-hosted` and `agent test`: one put that     *)
(* writes over a version that is already there.                              *)
Publish(o, a, v) ==
  /\ MayStart(o)
  /\ Calmly(o, TRUE)
  /\ published' = published \cup {<<a, v>>}
  /\ UNCHANGED <<rows, op>>

(* install_agent: read the tenant, ...                                       *)
InstallRead(o, t, a) ==
  /\ MayStart(o)
  /\ t \in known
  /\ \E seen \in GetTenant(t) :
       /\ Calmly(o, seen = installed[t])
       /\ Goes(o, [Idle EXCEPT !.at = "versions", !.agent = {a},
                               !.tenant = {t}, !.seen = seen])
  /\ UNCHANGED <<rows, published>>

(* ... ask for the agent's versions and refuse an unpublished one, ...       *)
InstallCheck(o) ==
  /\ op[o].at = "versions"
  /\ \E a \in op[o].agent, t \in op[o].tenant :
       \/ /\ VersionsOf(a) = {}
          /\ Goes(o, Idle)
       \/ /\ VersionsOf(a) # {}
          /\ a \in op[o].seen
          /\ Goes(o, Idle)
       \/ /\ VersionsOf(a) # {}
          /\ a \notin op[o].seen
          /\ Goes(o, [op[o] EXCEPT !.at = "install"])
  /\ UNCHANGED <<rows, published, calm, granted>>

(* Mutant: a row with the new agent only. *)
InstallPut_Only(o) ==
  /\ op[o].at = "install"
  /\ \E a \in op[o].agent, t \in op[o].tenant :
       /\ PutTenant(t, {a})
       /\ ever' = [ever EXCEPT ![t] = @ \cup {a}]
       /\ Grant(t, granted[t] \cup {a})
  /\ Goes(o, Idle)
  /\ UNCHANGED published

(* ... and put the whole row back with the agent added to what was read.     *)
InstallPut(o) ==
  /\ op[o].at = "install"
  /\ \E a \in op[o].agent, t \in op[o].tenant :
       /\ PutTenant(t, op[o].seen \cup {a})
       /\ ever' = [ever EXCEPT ![t] = @ \cup {a}]
       /\ Grant(t, granted[t] \cup {a})
  /\ Goes(o, Idle)
  /\ UNCHANGED published

(* uninstall_agent: read the tenant; nothing to write when it has not got    *)
(* the agent.                                                                *)
UninstallRead(o, t, a) ==
  /\ MayStart(o)
  /\ t \in known
  /\ \E seen \in GetTenant(t) :
       /\ Calmly(o, seen = installed[t])
       /\ \/ /\ a \in seen
             /\ Goes(o, [Idle EXCEPT !.at = "uninstall", !.agent = {a},
                                     !.tenant = {t}, !.seen = seen])
          \/ /\ a \notin seen
             /\ UNCHANGED op
  /\ UNCHANGED <<rows, published>>

UninstallPut(o) ==
  /\ op[o].at = "uninstall"
  /\ \E t \in op[o].tenant :
       /\ PutTenant(t, op[o].seen \ op[o].agent)
       /\ Grant(t, granted[t] \ op[o].agent)
  /\ Goes(o, Idle)
  /\ UNCHANGED <<ever, published>>

-----------------------------------------------------------------------------
(* `dos agent unregister`: list the versions, ...                            *)
UnregisterList(o, a) ==
  /\ MayStart(o)
  /\ Calmly(o, TRUE)
  /\ VersionsOf(a) # {}
  /\ Goes(o, [Idle EXCEPT !.at = "scan", !.agent = {a},
                          !.listed = VersionsOf(a)])
  /\ UNCHANGED <<rows, published>>

(* ... scan for the tenants that have the agent, ask for a confirmation, ... *)
UnregisterScan(o) ==
  /\ op[o].at = "scan"
  /\ \E page \in Scans :
       /\ Calmly(o, page = known)
       /\ Goes(o, [op[o] EXCEPT
            !.at = "sweep",
            !.on = {t \in page : op[o].agent \subseteq installed[t]}])
  /\ UNCHANGED <<rows, published>>

(* ... uninstall it from each of them (a read and a put again), ...          *)
SweepRead(o) ==
  /\ op[o].at = "sweep"
  /\ \E t \in op[o].on : \E seen \in GetTenant(t) :
       /\ Calmly(o, seen = installed[t])
       /\ Goes(o, [op[o] EXCEPT
            !.at = IF op[o].agent \subseteq seen THEN "sweepPut" ELSE "sweep",
            !.tenant = {t}, !.seen = seen, !.on = @ \ {t}])
  /\ UNCHANGED <<rows, published>>

SweepPut(o) ==
  /\ op[o].at = "sweepPut"
  /\ \E t \in op[o].tenant :
       /\ PutTenant(t, op[o].seen \ op[o].agent)
       /\ Grant(t, granted[t] \ op[o].agent)
  /\ Goes(o, [op[o] EXCEPT !.at = "sweep"])
  /\ UNCHANGED <<ever, published>>

(* Mutant: the versions go before the installs. *)
PurgeVersion_First(o) ==
  /\ op[o].at = "sweep"
  /\ \E v \in op[o].listed :
       /\ published' = published \ (op[o].agent \X {v})
       /\ Goes(o, [op[o] EXCEPT !.listed = @ \ {v}])
  /\ UNCHANGED <<rows, calm, granted>>

(* ... and only then delete the versions it listed, one by one.              *)
PurgeVersion(o) ==
  /\ op[o].at = "sweep"
  /\ op[o].on = {}
  /\ \E v \in op[o].listed :
       /\ published' = published \ (op[o].agent \X {v})
       /\ Goes(o, IF op[o].listed = {v} THEN Idle
                  ELSE [op[o] EXCEPT !.listed = @ \ {v}])
  /\ UNCHANGED <<rows, calm, granted>>

(* A command ends between two calls: an AWS error, ^C, a declined            *)
(* confirmation, the API process stopped.                                    *)
CutOff(o) ==
  /\ op[o] # Idle
  /\ Goes(o, Idle)
  /\ UNCHANGED <<rows, published, calm, granted>>

(* Every replica has the row (external). *)
Settle(t) ==
  /\ older[t] # installed[t]
  /\ older' = [older EXCEPT ![t] = installed[t]]
  /\ UNCHANGED <<known, installed, ever, published, op, calm, granted>>

-----------------------------------------------------------------------------
Next ==
  \/ \E t \in Tenants : Settle(t)
  \/ \E o \in Operators :
       \/ \E t \in Tenants : TenantAdd(o, t)
       \/ \E a \in Agents, v \in Versions : Publish(o, a, v)
       \/ \E t \in Tenants, a \in Agents :
            InstallRead(o, t, a) \/ UninstallRead(o, t, a)
       \/ \E a \in Agents : UnregisterList(o, a)
       \/ InstallCheck(o) \/ InstallPut(o) \/ UninstallPut(o)
       \/ UnregisterScan(o) \/ SweepRead(o) \/ SweepPut(o) \/ PurgeVersion(o)
       \/ CutOff(o)

Spec == Init /\ [][Next]_vars

-----------------------------------------------------------------------------
(* No tenant has an agent installed that has no published version, in no     *)
(* state and so wherever a command is cut off: install_agent refuses an      *)
(* unpublished agent, and `dos agent unregister` takes the installs out      *)
(* before it deletes a version (docs/DECISIONS.md:307 "rather than silently  *)
(* writing a broken reference").  Side condition, because the code has no    *)
(* conditional write: no two commands have overlapped, every read was fresh  *)
(* and every scan fitted a page.                                             *)
NoBrokenInstall ==
  calm => \A t \in Tenants : \A a \in installed[t] : VersionsOf(a) # {}

(* A tenant's row says what the commands asked for: an install that took     *)
(* effect stays until an uninstall or an unregister of that agent, and       *)
(* nothing that was removed comes back (install_agent and uninstall_agent    *)
(* write the whole row from a copy they read earlier).  Same side condition; *)
(* and no `dos tenant add` for a tenant that exists.                         *)
RowsSayWhatWasAsked ==
  calm => \A t \in Tenants : installed[t] = granted[t]

(* Lost updates and stale reads lose an install or bring one back, but they  *)
(* never invent one: a tenant only has agents that an install command once   *)
(* wrote for that very tenant, however the commands overlap.                 *)
OnlyWhatWasInstalled == \A t \in Tenants : installed[t] \subseteq ever[t]

(* What cli/main.py:218 says of `dos tenant add`, "Add or update a tenant in *)
(* the registry": while one operator gives one command at a time, only an    *)
(* uninstall or an unregister takes an agent from a tenant.                  *)
UpdateKeepsInstalls ==
  [][\A o \in Operators, t \in Tenants :
       TenantAdd(o, t) => installed[t] \subseteq installed'[t]]_vars

=============================================================================
