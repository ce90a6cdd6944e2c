--------------------------- MODULE RegistryProofs ---------------------------
(* Theorems about Registry, for every set of tenants, agents, versions and   *)
(* operators, every page size and number of other rows.                      *)
EXTENDS Registry, TLAPS

(* What PutTenant leaves in every row. *)
LEMMA PutEffect ==
  ASSUME TypeOK, NEW t \in Tenants, NEW agents \in SUBSET Agents, PutTenant(t, agents)
  PROVE  /\ known' \in SUBSET Tenants
         /\ installed' \in [Tenants -> SUBSET Agents]
         /\ older' \in [Tenants -> SUBSET Agents]
         /\ \A u \in Tenants :
              /\ installed'[u] = IF u = t THEN agents ELSE installed[u]
              /\ older'[u] \in {installed[u], agents}
              /\ u # t => older'[u] = installed[u]
BY DEF TypeOK, PutTenant

(* The reads of a tenant's row see only what the row is or was. *)
LEMMA ReadEffect ==
  ASSUME TypeOK, NEW t \in Tenants, NEW seen \in GetTenant(t)
  PROVE  seen \in SUBSET Agents /\ (seen = installed[t] \/ seen = older[t])
BY DEF TypeOK, GetTenant

(* Where a command goes, and that the others stay where they are. *)
LEMMA GoesEffect ==
  ASSUME TypeOK, NEW o \in Operators, NEW state \in OpStates, Goes(o, state)
  PROVE  /\ op' \in [Operators -> OpStates]
         /\ op'[o] = state
         /\ \A p \in Operators \ {o} : op'[p] = op[p]
BY DEF TypeOK, Goes

(* The states a command can be left in. *)
LEMMA IdleState == Idle \in OpStates
BY DEF Idle, OpStates, Phases

(* What a command has read or listed is of its kind. *)
LEMMA OpFields ==
  ASSUME TypeOK, NEW o \in Operators
  PROVE  /\ op[o] \in OpStates
         /\ op[o].at \in Phases /\ op[o].agent \in SUBSET Agents
         /\ op[o].tenant \in SUBSET Tenants /\ op[o].seen \in SUBSET Agents
         /\ op[o].on \in SUBSET Tenants /\ op[o].listed \in SUBSET Versions
BY DEF TypeOK, OpStates

(* The two histories keep their kinds whatever is asked and overlapped. *)
LEMMA HistoryTypes ==
  ASSUME TypeOK
  PROVE  /\ \A o \in Operators, fresh \in BOOLEAN :
              Calmly(o, fresh) => /\ calm' \in BOOLEAN
                                  /\ granted' \in [Tenants -> SUBSET Agents]
         /\ \A t \in Tenants, agents \in SUBSET Agents :
              Grant(t, agents) => /\ calm' \in BOOLEAN
                                  /\ granted' \in [Tenants -> SUBSET Agents]
<1>1. ASSUME NEW o \in Operators, NEW fresh \in BOOLEAN, Calmly(o, fresh)
      PROVE  calm' \in BOOLEAN /\ granted' \in [Tenants -> SUBSET Agents]
  <2>1. calm' \in BOOLEAN
    BY <1>1 DEF Calmly
  <2>2. granted' = granted \/ granted' = Nothing
    BY <1>1 DEF Calmly
  <2> QED
    BY <2>1, <2>2 DEF TypeOK, Nothing
<1>2. ASSUME NEW t \in Tenants, NEW agents \in SUBSET Agents, Grant(t, agents)
      PROVE  calm' \in BOOLEAN /\ granted' \in [Tenants -> SUBSET Agents]
  <2>1. calm' \in BOOLEAN
    BY <1>2 DEF Grant, TypeOK
  <2>2. granted' = granted \/ granted' = [granted EXCEPT ![t] = agents]
    BY <1>2 DEF Grant
  <2> QED
    BY <2>1, <2>2 DEF TypeOK
<1> QED
  BY <1>1, <1>2

-----------------------------------------------------------------------------
(* A step of one operator's command. *)
Command(o) ==
  \/ \E t \in Tenants : TenantAdd(o, t)
  \/ \E a \in Agents, v \in Versions : Publish(o, a, v)
  \/ \E t \in Tenants, a \in Agents : InstallRead(o, t, a) \/ UninstallRead(o, t, a)
  \/ \E a \in Agents : UnregisterList(o, a)
  \/ InstallCheck(o) \/ InstallPut(o) \/ UninstallPut(o)
  \/ UnregisterScan(o) \/ SweepRead(o) \/ SweepPut(o) \/ PurgeVersion(o)
  \/ CutOff(o)

(* Every call of a command leaves rows, versions and the command itself      *)
(* well typed.                                                               *)
LEMMA CommandKeepsTypes ==
  ASSUME TypeOK, NEW o \in Operators, Command(o)
  PROVE  TypeOK'
<1> USE DEF rows
<1> DEFINE Rest == /\ calm' \in BOOLEAN /\ granted' \in [Tenants -> SUBSET Agents]
<1>0. ASSUME NEW state \in OpStates, Goes(o, state)
      PROVE  op' \in [Operators -> OpStates]
  BY <1>0, GoesEffect
<1>a. /\ op[o] \in OpStates /\ op[o].agent \in SUBSET Agents
      /\ op[o].tenant \in SUBSET Tenants /\ op[o].seen \in SUBSET Agents
      /\ op[o].on \in SUBSET Tenants /\ op[o].listed \in SUBSET Versions
  BY OpFields
<1>b. UNCHANGED <<calm, granted>> => Rest
  BY DEF TypeOK
<1>c. UNCHANGED rows => /\ known' \in SUBSET Tenants
                        /\ installed' \in [Tenants -> SUBSET Agents]
                        /\ older' \in [Tenants -> SUBSET Agents]
                        /\ ever' \in [Tenants -> SUBSET Agents]
  BY DEF TypeOK
<1>d. /\ UNCHANGED published => published' \in SUBSET (Agents \X Versions)
      /\ UNCHANGED op => op' \in [Operators -> OpStates]
      /\ UNCHANGED ever => ever' \in [Tenants -> SUBSET Agents]
  BY DEF TypeOK
<1>1. ASSUME NEW t \in Tenants, TenantAdd(o, t) PROVE TypeOK'
  <2>1. Rest
    <3>1. (t \notin known) \in BOOLEAN
      OBVIOUS
    <3> QED
      BY <1>1, <3>1, HistoryTypes DEF TenantAdd
  <2>2. PutTenant(t, {}) /\ UNCHANGED <<ever, published, op>>
    BY <1>1 DEF TenantAdd
  <2> QED
    BY <1>d, <2>1, <2>2, PutEffect DEF TypeOK
<1>2. ASSUME NEW a \in Agents, NEW v \in Versions, Publish(o, a, v) PROVE TypeOK'
  <2>1. Rest
    BY <1>2, HistoryTypes DEF Publish
  <2>2. published' \in SUBSET (Agents \X Versions) /\ UNCHANGED <<rows, op>>
    BY <1>2 DEF Publish, TypeOK
  <2> QED
    BY <1>c, <1>d, <2>1, <2>2 DEF TypeOK
<1>3. ASSUME NEW t \in Tenants, NEW a \in Agents,
             InstallRead(o, t, a) \/ UninstallRead(o, t, a)
      PROVE  TypeOK'
  <2>1. PICK seen \in GetTenant(t) :
          /\ Calmly(o, seen = installed[t])
          /\ \/ Goes(o, [Idle EXCEPT !.at = "versions", !.agent = {a},
                                     !.tenant = {t}, !.seen = seen])
             \/ Goes(o, [Idle EXCEPT !.at = "uninstall", !.agent = {a},
                                     !.tenant = {t}, !.seen = seen])
             \/ UNCHANGED op
    BY <1>3 DEF InstallRead, UninstallRead
  <2>2. Rest
    <3>1. (seen = installed[t]) \in BOOLEAN
      OBVIOUS
    <3> QED
      BY <2>1, <3>1, HistoryTypes
  <2>3. seen \in SUBSET Agents
    BY ReadEffect
  <2>4. \A phase \in {"versions", "uninstall"} :
          [Idle EXCEPT !.at = phase, !.agent = {a}, !.tenant = {t}, !.seen = seen] \in OpStates
    BY <2>3 DEF Idle, OpStates, Phases
  <2>5. op' \in [Operators -> OpStates]
    BY <1>0, <1>d, <2>1, <2>4
  <2>6. UNCHANGED <<rows, published>>
    BY <1>3 DEF InstallRead, UninstallRead
  <2> QED
    BY <1>c, <1>d, <2>2, <2>5, <2>6 DEF TypeOK
<1>4. ASSUME NEW a \in Agents, UnregisterList(o, a) PROVE TypeOK'
  <2>1. Rest
    BY <1>4, HistoryTypes DEF UnregisterList
  <2>2. [Idle EXCEPT !.at = "scan", !.agent = {a}, !.listed = VersionsOf(a)] \in OpStates
    BY DEF Idle, OpStates, Phases, VersionsOf
  <2>3. op' \in [Operators -> OpStates] /\ UNCHANGED <<rows, published>>
    BY <1>0, <1>4, <2>2 DEF UnregisterList
  <2> QED
    BY <1>c, <1>d, <2>1, <2>3 DEF TypeOK
<1>5. CASE InstallCheck(o) \/ CutOff(o)
  <2>1. [op[o] EXCEPT !.at = "install"] \in OpStates
    BY <1>a DEF OpStates, Phases
  <2>2. Goes(o, Idle) \/ Goes(o, [op[o] EXCEPT !.at = "install"])
    BY <1>5 DEF InstallCheck, CutOff
  <2>3. op' \in [Operators -> OpStates]
    BY <1>0, <2>1, <2>2, IdleState
  <2>4. UNCHANGED <<rows, published, calm, granted>>
    BY <1>5 DEF InstallCheck, CutOff
  <2> QED
    BY <1>b, <1>c, <1>d, <2>3, <2>4 DEF TypeOK
<1>6. CASE InstallPut(o)
  <2>1. PICK a \in op[o].agent, t \in op[o].tenant :
          /\ PutTenant(t, op[o].seen \cup {a})
          /\ ever' = [ever EXCEPT ![t] = @ \cup {a}]
          /\ Grant(t, granted[t] \cup {a})
    BY <1>6 DEF InstallPut
  <2>2. t \in Tenants /\ a \in Agents /\ op[o].seen \cup {a} \in SUBSET Agents
        /\ granted[t] \cup {a} \in SUBSET Agents
    BY <1>a DEF TypeOK
  <2>3. Rest
    BY <2>1, <2>2, HistoryTypes
  <2>4. ever' \in [Tenants -> SUBSET Agents]
    BY <2>1, <2>2 DEF TypeOK
  <2>5. op' \in [Operators -> OpStates] /\ UNCHANGED published
    BY <1>0, <1>6, IdleState DEF InstallPut
  <2> QED
    BY <1>d, <2>1, <2>2, <2>3, <2>4, <2>5, PutEffect DEF TypeOK
<1>7. CASE UninstallPut(o) \/ SweepPut(o)
  <2>1. PICK t \in op[o].tenant :
          /\ PutTenant(t, op[o].seen \ op[o].agent)
          /\ Grant(t, granted[t] \ op[o].agent)
    BY <1>7 DEF UninstallPut, SweepPut
  <2>2. t \in Tenants /\ op[o].seen \ op[o].agent \in SUBSET Agents
        /\ granted[t] \ op[o].agent \in SUBSET Agents
    BY <1>a DEF TypeOK
  <2>3. Rest
    BY <2>1, <2>2, HistoryTypes
  <2>4. [op[o] EXCEPT !.at = "sweep"] \in OpStates
    BY <1>a DEF OpStates, Phases
  <2>5. op' \in [Operators -> OpStates] /\ UNCHANGED <<published, ever>>
    BY <1>0, <1>7, <2>4, IdleState DEF UninstallPut, SweepPut
  <2> QED
    BY <1>d, <2>1, <2>2, <2>3, <2>5, PutEffect DEF TypeOK
<1>8. CASE UnregisterScan(o)
  <2>1. PICK page \in Scans :
          /\ Calmly(o, page = known)
          /\ Goes(o, [op[o] EXCEPT
               !.at = "sweep", !.on = {t \in page : op[o].agent \subseteq installed[t]}])
    BY <1>8 DEF UnregisterScan
  <2>2. page \in SUBSET Tenants
    BY DEF Scans, TypeOK
  <2>3. Rest
    <3>1. (page = known) \in BOOLEAN
      OBVIOUS
    <3> QED
      BY <2>1, <3>1, HistoryTypes
  <2>4. [op[o] EXCEPT !.at = "sweep",
           !.on = {t \in page : op[o].agent \subseteq installed[t]}] \in OpStates
    BY <1>a, <2>2 DEF OpStates, Phases
  <2>5. op' \in [Operators -> OpStates] /\ UNCHANGED <<rows, published>>
    BY <1>0, <1>8, <2>1, <2>4 DEF UnregisterScan
  <2> QED
    BY <1>c, <1>d, <2>3, <2>5 DEF TypeOK
<1>9. CASE SweepRead(o)
  <2>1. PICK t \in op[o].on : \E seen \in GetTenant(t) :
          /\ Calmly(o, seen = installed[t])
          /\ Goes(o, [op[o] EXCEPT
               !.at = IF op[o].agent \subseteq seen THEN "sweepPut" ELSE "sweep",
               !.tenant = {t}, !.seen = seen, !.on = @ \ {t}])
    BY <1>9 DEF SweepRead
  <2>2. t \in Tenants
    BY <1>a
  <2>3. PICK seen \in GetTenant(t) :
          /\ Calmly(o, seen = installed[t])
          /\ Goes(o, [op[o] EXCEPT
               !.at = IF op[o].agent \subseteq seen THEN "sweepPut" ELSE "sweep",
               !.tenant = {t}, !.seen = seen, !.on = @ \ {t}])
    BY <2>1
  <2>4. t \in Tenants /\ seen \in SUBSET Agents
    BY <2>2, ReadEffect
  <2>5. Rest
    <3>1. (seen = installed[t]) \in BOOLEAN
      OBVIOUS
    <3> QED
      BY <2>3, <3>1, HistoryTypes
  <2>6. [op[o] EXCEPT
           !.at = IF op[o].agent \subseteq seen THEN "sweepPut" ELSE "sweep",
           !.tenant = {t}, !.seen = seen, !.on = @ \ {t}] \in OpStates
    BY <1>a, <2>4 DEF OpStates, Phases
  <2>7. op' \in [Operators -> OpStates] /\ UNCHANGED <<rows, published>>
    BY <1>0, <1>9, <2>3, <2>6 DEF SweepRead
  <2> QED
    BY <1>c, <1>d, <2>5, <2>7 DEF TypeOK
<1>10. CASE PurgeVersion(o)
  <2>1. PICK v \in op[o].listed :
          /\ published' = published \ (op[o].agent \X {v})
          /\ Goes(o, IF op[o].listed = {v} THEN Idle
                     ELSE [op[o] EXCEPT !.listed = @ \ {v}])
    BY <1>10 DEF PurgeVersion
  <2>2. [op[o] EXCEPT !.listed = @ \ {v}] \in OpStates
    BY <1>a DEF OpStates
  <2>3. op' \in [Operators -> OpStates]
    BY <1>0, <2>1, <2>2, IdleState
  <2>4. published' \in SUBSET (Agents \X Versions)
    BY <2>1 DEF TypeOK
  <2>5. UNCHANGED <<rows, calm, granted>>
    BY <1>10 DEF PurgeVersion
  <2> QED
    BY <1>b, <1>c, <2>3, <2>4, <2>5 DEF TypeOK
<1> QED
  BY <1>1, <1>2, <1>3, <1>4, <1>5, <1>6, <1>7, <1>8, <1>9, <1>10 DEF Command

(* TypeOK is inductive. *)
LEMMA NextKeepsTypes == TypeOK /\ [Next]_vars => TypeOK'
<1> SUFFICES ASSUME TypeOK, [Next]_vars PROVE TypeOK'
  OBVIOUS
<1>1. ASSUME NEW t \in Tenants, Settle(t) PROVE TypeOK'
  BY <1>1 DEF Settle, TypeOK
<1>2. ASSUME NEW o \in Operators, Command(o) PROVE TypeOK'
  BY <1>2, CommandKeepsTypes
<1>3. CASE UNCHANGED vars
  BY <1>3 DEF vars, rows, TypeOK
<1> QED
  BY <1>1, <1>2, <1>3 DEF Next, Command

(* Every row and every command is of its kind, in every state (models.py,    *)
(* repository.py).                                                           *)
THEOREM RegistryTypes == Spec => []TypeOK
<1>1. Init => TypeOK
  BY IdleState DEF Init, TypeOK
<1> QED
  BY <1>1, NextKeepsTypes, PTL DEF Spec

-----------------------------------------------------------------------------
(* No install out of nothing.  What a row holds, what a read of it may still *)
(* show and what a command has read of it were all written by installs.      *)
Wrote ==
  /\ \A t \in Tenants : installed[t] \subseteq ever[t] /\ older[t] \subseteq ever[t]
  /\ \A o \in Operators : \A t \in op[o].tenant : op[o].seen \subseteq ever[t]

(* A put of agents that were written for the tenant before. *)
LEMMA PutKeepsWrote ==
  ASSUME TypeOK, Wrote, NEW t \in Tenants, NEW agents \in SUBSET Agents,
         PutTenant(t, agents),
         ever' \in [Tenants -> SUBSET Agents],
         \A u \in Tenants : ever[u] \subseteq ever'[u],
         agents \subseteq ever'[t],
         \A p \in Operators : \/ op'[p].tenant = {}
                              \/ op'[p].tenant = op[p].tenant /\ op'[p].seen = op[p].seen
  PROVE  Wrote'
<1>1. \A u \in Tenants : installed'[u] \subseteq ever'[u] /\ older'[u] \subseteq ever'[u]
  BY PutEffect DEF Wrote
<1>2. \A p \in Operators : \A u \in op'[p].tenant : op'[p].seen \subseteq ever'[u]
  <2> SUFFICES ASSUME NEW p \in Operators, NEW u \in op'[p].tenant
               PROVE  op'[p].seen \subseteq ever'[u]
    OBVIOUS
  <2>1. op'[p].tenant = op[p].tenant /\ op'[p].seen = op[p].seen
    OBVIOUS
  <2>2. u \in Tenants
    BY <2>1, OpFields
  <2> QED
    BY <2>1, <2>2 DEF Wrote
<1> QED
  BY <1>1, <1>2 DEF Wrote

(* A step that writes no row, and after which the operator's command stands  *)
(* on no row, on the one it stood on, or on one it has just read.            *)
LEMMA ReadKeepsWrote ==
  ASSUME TypeOK, Wrote, NEW o \in Operators, UNCHANGED rows,
         NEW state \in OpStates, Goes(o, state),
         \/ state.tenant = {}
         \/ state.tenant = op[o].tenant /\ state.seen = op[o].seen
         \/ \E t \in Tenants : state.tenant = {t} /\ state.seen \in GetTenant(t)
  PROVE  Wrote'
<1>1. op'[o] = state /\ \A p \in Operators \ {o} : op'[p] = op[p]
  BY GoesEffect
<1>2. \A t \in state.tenant : state.seen \subseteq ever[t]
  BY DEF Wrote, GetTenant
<1> QED
  BY <1>1, <1>2 DEF Wrote, rows

(* Only installs write agents that were not there. *)
LEMMA CommandKeepsWrote ==
  ASSUME TypeOK, TypeOK', Wrote, NEW o \in Operators, Command(o)
  PROVE  Wrote'
<1>a. /\ op[o] \in OpStates /\ op[o].agent \in SUBSET Agents
      /\ op[o].tenant \in SUBSET Tenants /\ op[o].seen \in SUBSET Agents
  BY OpFields
<1>b. Idle.tenant = {}
  BY DEF Idle
<1>c. ever' \in [Tenants -> SUBSET Agents]
  BY DEF TypeOK
<1>1. ASSUME NEW t \in Tenants, TenantAdd(o, t) PROVE Wrote'
  BY <1>1, <1>c, PutKeepsWrote DEF TenantAdd, TypeOK
<1>2. ASSUME NEW a \in Agents, NEW v \in Versions, Publish(o, a, v) PROVE Wrote'
  BY <1>2 DEF Publish, Wrote, rows
<1>3. ASSUME NEW t \in Tenants, NEW a \in Agents,
             InstallRead(o, t, a) \/ UninstallRead(o, t, a)
      PROVE  Wrote'
  <2>1. PICK seen \in GetTenant(t) :
             \/ Goes(o, [Idle EXCEPT !.at = "versions", !.agent = {a},
                                     !.tenant = {t}, !.seen = seen])
             \/ Goes(o, [Idle EXCEPT !.at = "uninstall", !.agent = {a},
                                     !.tenant = {t}, !.seen = seen])
             \/ UNCHANGED op
    BY <1>3 DEF InstallRead, UninstallRead
  <2>2. \A phase \in {"versions", "uninstall"} :
          LET state == [Idle EXCEPT !.at = phase, !.agent = {a}, !.tenant = {t}, !.seen = seen]
          IN  state \in OpStates /\ state.tenant = {t} /\ state.seen = seen
    BY ReadEffect DEF Idle, OpStates, Phases
  <2>3. UNCHANGED rows
    BY <1>3 DEF InstallRead, UninstallRead
  <2>4. CASE UNCHANGED op
    BY <2>3, <2>4 DEF Wrote, rows
  <2>5. CASE ~UNCHANGED op
    BY <2>1, <2>2, <2>3, <2>5, ReadKeepsWrote
  <2> QED
    BY <2>4, <2>5
<1>4. ASSUME NEW a \in Agents, UnregisterList(o, a) PROVE Wrote'
  <2> DEFINE state == [Idle EXCEPT !.at = "scan", !.agent = {a}, !.listed = VersionsOf(a)]
  <2>1. state \in OpStates /\ state.tenant = {}
    BY DEF Idle, OpStates, Phases, VersionsOf
  <2>2. Goes(o, state) /\ UNCHANGED rows
    BY <1>4 DEF UnregisterList
  <2> HIDE DEF state
  <2> QED
    BY <2>1, <2>2, ReadKeepsWrote
<1>5. CASE InstallCheck(o) \/ CutOff(o)
  <2> DEFINE state == [op[o] EXCEPT !.at = "install"]
  <2>1. state \in OpStates /\ state.tenant = op[o].tenant /\ state.seen = op[o].seen
    BY <1>a DEF OpStates, Phases
  <2>2. (Goes(o, Idle) \/ Goes(o, state)) /\ UNCHANGED rows
    BY <1>5 DEF InstallCheck, CutOff
  <2> HIDE DEF state
  <2> QED
    BY <1>b, <2>1, <2>2, IdleState, ReadKeepsWrote
<1>6. CASE InstallPut(o)
  <2>1. PICK a \in op[o].agent, t \in op[o].tenant :
          /\ PutTenant(t, op[o].seen \cup {a})
          /\ ever' = [ever EXCEPT ![t] = @ \cup {a}]
    BY <1>6 DEF InstallPut
  <2>2. t \in Tenants /\ a \in Agents /\ op[o].seen \cup {a} \in SUBSET Agents
    BY <1>a
  <2>3. /\ \A u \in Tenants : ever[u] \subseteq ever'[u]
        /\ ever'[t] = ever[t] \cup {a}
    BY <2>1, <2>2 DEF TypeOK
  <2>4. op[o].seen \cup {a} \subseteq ever'[t]
    BY <2>3 DEF Wrote
  <2>5. op'[o] = Idle /\ \A p \in Operators \ {o} : op'[p] = op[p]
    BY <1>6, IdleState, GoesEffect DEF InstallPut
  <2>6. \A p \in Operators : \/ op'[p].tenant = {}
                             \/ op'[p].tenant = op[p].tenant /\ op'[p].seen = op[p].seen
    BY <1>b, <2>5
  <2> QED
    BY <1>c, <2>1, <2>2, <2>3, <2>4, <2>6, PutKeepsWrote
<1>7. CASE UninstallPut(o) \/ SweepPut(o)
  <2>1. PICK t \in op[o].tenant : PutTenant(t, op[o].seen \ op[o].agent)
    BY <1>7 DEF UninstallPut, SweepPut
  <2>2. t \in Tenants /\ op[o].seen \ op[o].agent \in SUBSET Agents
    BY <1>a
  <2>3. op[o].seen \ op[o].agent \subseteq ever[t] /\ UNCHANGED ever
    BY <1>7 DEF Wrote, UninstallPut, SweepPut
  <2> DEFINE state == [op[o] EXCEPT !.at = "sweep"]
  <2>4. state \in OpStates /\ state.tenant = op[o].tenant /\ state.seen = op[o].seen
    BY <1>a DEF OpStates, Phases
  <2>5. Goes(o, Idle) \/ Goes(o, state)
    BY <1>7 DEF UninstallPut, SweepPut
  <2> HIDE DEF state
  <2>6. \A p \in Operators : \/ op'[p].tenant = {}
                             \/ op'[p].tenant = op[p].tenant /\ op'[p].seen = op[p].seen
    BY <1>b, <2>4, <2>5, IdleState, GoesEffect
  <2> QED
    BY <1>c, <2>1, <2>2, <2>3, <2>6, PutKeepsWrote
<1>8. CASE UnregisterScan(o)
  <2>1. PICK page \in Scans :
          Goes(o, [op[o] EXCEPT
               !.at = "sweep", !.on = {t \in page : op[o].agent \subseteq installed[t]}])
    BY <1>8 DEF UnregisterScan
  <2> DEFINE state == [op[o] EXCEPT
               !.at = "sweep", !.on = {t \in page : op[o].agent \subseteq installed[t]}]
  <2>2. page \in SUBSET Tenants
    BY DEF Scans, TypeOK
  <2>3. state \in OpStates /\ state.tenant = op[o].tenant /\ state.seen = op[o].seen
    BY <1>a, <2>2 DEF OpStates, Phases
  <2>4. Goes(o, state) /\ UNCHANGED rows
    BY <1>8, <2>1 DEF UnregisterScan
  <2> HIDE DEF state
  <2> QED
    BY <2>3, <2>4, ReadKeepsWrote
<1>9. CASE SweepRead(o)
  <2>1. PICK t \in op[o].on : \E seen \in GetTenant(t) :
          Goes(o, [op[o] EXCEPT
               !.at = IF op[o].agent \subseteq seen THEN "sweepPut" ELSE "sweep",
               !.tenant = {t}, !.seen = seen, !.on = @ \ {t}])
    BY <1>9 DEF SweepRead
  <2>2. t \in Tenants
    BY OpFields
  <2>3. PICK seen \in GetTenant(t) :
          Goes(o, [op[o] EXCEPT
               !.at = IF op[o].agent \subseteq seen THEN "sweepPut" ELSE "sweep",
               !.tenant = {t}, !.seen = seen, !.on = @ \ {t}])
    BY <2>1
  <2> DEFINE state == [op[o] EXCEPT
               !.at = IF op[o].agent \subseteq seen THEN "sweepPut" ELSE "sweep",
               !.tenant = {t}, !.seen = seen, !.on = @ \ {t}]
  <2>4. state \in OpStates /\ state.tenant = {t} /\ state.seen = seen
    BY <1>a, <2>2, ReadEffect DEF OpStates, Phases
  <2>5. Goes(o, state) /\ UNCHANGED rows
    BY <1>9, <2>3 DEF SweepRead
  <2> HIDE DEF state
  <2> QED
    BY <2>2, <2>4, <2>5, ReadKeepsWrote
<1>10. CASE PurgeVersion(o)
  <2>1. PICK v \in op[o].listed :
          Goes(o, IF op[o].listed = {v} THEN Idle
                     ELSE [op[o] EXCEPT !.listed = @ \ {v}])
    BY <1>10 DEF PurgeVersion
  <2> DEFINE state == [op[o] EXCEPT !.listed = @ \ {v}]
  <2>2. state \in OpStates /\ state.tenant = op[o].tenant /\ state.seen = op[o].seen
    BY <1>a, OpFields DEF OpStates
  <2>3. (Goes(o, Idle) \/ Goes(o, state)) /\ UNCHANGED rows
    BY <1>10, <2>1 DEF PurgeVersion
  <2> HIDE DEF state
  <2> QED
    BY <1>b, <2>2, <2>3, IdleState, ReadKeepsWrote
<1> QED
  BY <1>1, <1>2, <1>3, <1>4, <1>5, <1>6, <1>7, <1>8, <1>9, <1>10 DEF Command

(* However the commands of any number of operators overlap, are cut off or   *)
(* read old rows, a tenant only ever has agents that an install command      *)
(* wrote for it (repository.py:98-118 writes whole rows from earlier reads). *)
THEOREM NoInstallFromNothing == Spec => []OnlyWhatWasInstalled
<1>1. Init => Wrote
  BY DEF Init, Wrote, Idle
<1>2. TypeOK /\ TypeOK' /\ Wrote /\ [Next]_vars => Wrote'
  <2> SUFFICES ASSUME TypeOK, TypeOK', Wrote, [Next]_vars PROVE Wrote'
    OBVIOUS
  <2>1. ASSUME NEW t \in Tenants, Settle(t) PROVE Wrote'
    <3>1. UNCHANGED <<installed, ever, op>>
          /\ \A u \in Tenants : older'[u] \in {older[u], installed[u]}
      BY <2>1 DEF Settle, TypeOK
    <3> QED
      BY <3>1 DEF Wrote
  <2>2. ASSUME NEW o \in Operators, Command(o) PROVE Wrote'
    BY <2>2, CommandKeepsWrote
  <2>3. CASE UNCHANGED vars
    BY <2>3 DEF vars, rows, Wrote
  <2> QED
    BY <2>1, <2>2, <2>3 DEF Next, Command
<1>3. Wrote => OnlyWhatWasInstalled
  BY DEF Wrote, OnlyWhatWasInstalled
<1> QED
  BY <1>1, <1>2, <1>3, RegistryTypes, PTL DEF Spec

-----------------------------------------------------------------------------
(* While commands come one at a time.  Where a command stands says which     *)
(* agent, and which tenant, it is about.                                     *)
OnTenant == {"versions", "install", "uninstall", "sweepPut"}

Shape(o) ==
  \/ op[o] = Idle
  \/ /\ op[o].at # "idle"
     /\ \E a \in Agents : op[o].agent = {a}
     /\ op[o].at \in OnTenant => \E t \in Tenants : op[o].tenant = {t}

(* A command still agrees with the rows: what it read is what is there, the  *)
(* agent to install is published, and every tenant that has the agent to     *)
(* unregister is still to be visited.                                        *)
Tracks(o) ==
  /\ op[o].at \in OnTenant => \A t \in op[o].tenant : op[o].seen = installed[t]
  /\ op[o].at = "install" => \A a \in op[o].agent : VersionsOf(a) # {}
  /\ op[o].at = "sweep" => \A t \in Tenants : op[o].agent \subseteq installed[t] => t \in op[o].on
  /\ op[o].at = "sweepPut" =>
       \A t \in Tenants : op[o].agent \subseteq installed[t] => t \in op[o].on \cup op[o].tenant

InOrder ==
  /\ \A t \in Tenants : installed[t] = granted[t]
  /\ \A t \in Tenants : \A a \in installed[t] : VersionsOf(a) # {}
  /\ \A o, p \in Operators : op[o] # Idle /\ op[p] # Idle => o = p
  /\ \A o \in Operators : Tracks(o)

CalmInv ==
  /\ \A t \in Tenants : installed[t] # {} => t \in known
  /\ \A o \in Operators : Shape(o)
  /\ calm => InOrder

(* A command step is calm only if the other commands rest, and it started so. *)
LEMMA CalmAlone ==
  ASSUME TypeOK, CalmInv, NEW o \in Operators, Command(o), calm'
  PROVE  /\ calm
         /\ \A p \in Operators \ {o} : op[p] = Idle
<1>1. ASSUME NEW fresh, Calmly(o, fresh)
      PROVE  calm /\ \A p \in Operators \ {o} : op[p] = Idle
  BY <1>1 DEF Calmly
<1>2. ASSUME op[o] # Idle, UNCHANGED calm
      PROVE  calm /\ \A p \in Operators \ {o} : op[p] = Idle
  BY <1>2 DEF CalmInv, InOrder
<1>3. ASSUME op[o].at \notin {"idle", "scan"}
      PROVE  op[o] # Idle
  BY <1>3 DEF Idle
<1>4. CASE \/ \E t \in Tenants : TenantAdd(o, t)
           \/ \E a \in Agents, v \in Versions : Publish(o, a, v)
           \/ \E t \in Tenants, a \in Agents : InstallRead(o, t, a) \/ UninstallRead(o, t, a)
           \/ \E a \in Agents : UnregisterList(o, a)
           \/ UnregisterScan(o) \/ SweepRead(o)
  BY <1>1, <1>4 DEF TenantAdd, Publish, InstallRead, UninstallRead, UnregisterList,
                    UnregisterScan, SweepRead
<1>5. CASE InstallCheck(o) \/ InstallPut(o) \/ UninstallPut(o) \/ SweepPut(o)
           \/ PurgeVersion(o) \/ CutOff(o)
  <2>1. UNCHANGED calm
    BY <1>5 DEF InstallCheck, InstallPut, UninstallPut, SweepPut, PurgeVersion, CutOff, Grant
  <2>2. op[o] # Idle
    BY <1>3, <1>5 DEF InstallCheck, InstallPut, UninstallPut, SweepPut, PurgeVersion, CutOff
  <2> QED
    BY <1>2, <2>1, <2>2
<1> QED
  BY <1>4, <1>5 DEF Command

(* An idle command agrees with anything. *)
LEMMA IdleTracks ==
  ASSUME NEW o \in Operators
  PROVE  /\ op[o] = Idle => Tracks(o) /\ Shape(o)
         /\ op'[o] = Idle => Tracks(o)' /\ Shape(o)'
BY DEF Tracks, Shape, Idle, OnTenant

(* What is left to show of a command step: about the rows and about o.       *)
LEMMA CommandStep ==
  ASSUME TypeOK, CalmInv, NEW o \in Operators, Command(o),
         \A t \in Tenants : installed'[t] # {} => t \in known',
         \A p \in Operators \ {o} : op'[p] = op[p],
         Shape(o)',
         calm /\ calm' /\ InOrder =>
           /\ \A t \in Tenants : installed'[t] = granted'[t]
           /\ \A t \in Tenants : \A a \in installed'[t] : VersionsOf(a)' # {}
           /\ Tracks(o)'
  PROVE  CalmInv'
<1>1. \A p \in Operators : Shape(p)'
  BY DEF CalmInv, Shape
<1>2. ASSUME calm' PROVE InOrder'
  <2>1. calm /\ InOrder /\ \A p \in Operators \ {o} : op[p] = Idle
    BY <1>2, CalmAlone DEF CalmInv
  <2>2. \A p \in Operators \ {o} : op'[p] = Idle /\ Tracks(p)'
    BY <2>1, IdleTracks
  <2> QED
    BY <1>2, <2>1, <2>2 DEF InOrder
<1> QED
  BY <1>1, <1>2 DEF CalmInv

(* The two histories, in a step that stays calm. *)
LEMMA CalmGrants ==
  /\ \A o \in Operators : \A fresh : Calmly(o, fresh) /\ calm' => fresh /\ granted' = granted
  /\ \A t \in Tenants : \A agents :
       Grant(t, agents) /\ calm' => granted' = [granted EXCEPT ![t] = agents]
BY DEF Calmly, Grant

(* A put keeps "a tenant with installs has a row". *)
LEMMA PutKeepsKnown ==
  ASSUME TypeOK, CalmInv, NEW t \in Tenants, NEW agents \in SUBSET Agents, PutTenant(t, agents)
  PROVE  \A u \in Tenants : installed'[u] # {} => u \in known'
BY PutEffect DEF CalmInv, PutTenant

(* `dos tenant add` of a new tenant, and publishing, take nothing away.      *)
LEMMA SingleCallsKeepCalm ==
  ASSUME TypeOK, CalmInv, NEW o \in Operators,
         \/ \E t \in Tenants : TenantAdd(o, t)
         \/ \E a \in Agents, v \in Versions : Publish(o, a, v)
  PROVE  CalmInv'
<1>1. ASSUME NEW t \in Tenants, TenantAdd(o, t) PROVE CalmInv'
  <2>1. PutTenant(t, {}) /\ UNCHANGED <<published, op>> /\ op[o] = Idle
    BY <1>1 DEF TenantAdd, MayStart
  <2>2. \A u \in Tenants : installed'[u] = IF u = t THEN {} ELSE installed[u]
    BY <2>1, PutEffect
  <2>3. ASSUME calm', InOrder PROVE \A u \in Tenants : installed'[u] = granted'[u]
    <3>1. t \notin known /\ granted' = granted
      BY <1>1, <2>3, CalmGrants DEF TenantAdd
    <3>2. installed[t] = {}
      BY <3>1 DEF CalmInv
    <3> QED
      BY <2>2, <2>3, <3>1, <3>2 DEF InOrder
  <2>4. InOrder => \A u \in Tenants : \A a \in installed'[u] : VersionsOf(a)' # {}
    BY <2>1, <2>2 DEF InOrder, VersionsOf
  <2>5. \A u \in Tenants : installed'[u] # {} => u \in known'
    BY <2>1, PutKeepsKnown
  <2>6. op'[o] = Idle
    BY <2>1
  <2> QED
    BY <1>1, <2>1, <2>3, <2>4, <2>5, <2>6, IdleTracks, CommandStep DEF Command
<1>2. ASSUME NEW a \in Agents, NEW v \in Versions, Publish(o, a, v) PROVE CalmInv'
  <2>1. /\ UNCHANGED <<known, installed, op>> /\ op[o] = Idle
        /\ published' = published \cup {<<a, v>>}
    BY <1>2 DEF Publish, MayStart, rows
  <2>2. \A b \in Agents : VersionsOf(b) # {} => VersionsOf(b)' # {}
    BY <2>1 DEF VersionsOf
  <2>3. InOrder => \A t \in Tenants : \A b \in installed'[t] : VersionsOf(b)' # {}
    BY <2>1, <2>2 DEF InOrder, TypeOK
  <2>4. calm' => granted' = granted
    BY <1>2, CalmGrants DEF Publish
  <2> QED
    BY <1>2, <2>1, <2>3, <2>4, IdleTracks, CommandStep DEF Command, CalmInv, InOrder
<1> QED
  BY <1>1, <1>2

(* An install checks what it read, and puts back what is there and the agent. *)
LEMMA InstallKeepsCalm ==
  ASSUME TypeOK, CalmInv, NEW o \in Operators,
         \/ \E t \in Tenants, a \in Agents : InstallRead(o, t, a)
         \/ InstallCheck(o) \/ InstallPut(o)
  PROVE  CalmInv'
<1>a. /\ op[o] \in OpStates /\ op[o].agent \in SUBSET Agents
      /\ op[o].tenant \in SUBSET Tenants /\ op[o].seen \in SUBSET Agents
  BY OpFields
<1>b. Shape(o)
  BY DEF CalmInv
<1>1. ASSUME NEW t \in Tenants, NEW a \in Agents, InstallRead(o, t, a) PROVE CalmInv'
  <2>1. PICK seen \in GetTenant(t) :
          /\ Calmly(o, seen = installed[t])
          /\ Goes(o, [Idle EXCEPT !.at = "versions", !.agent = {a},
                                  !.tenant = {t}, !.seen = seen])
    BY <1>1 DEF InstallRead
  <2> DEFINE state == [Idle EXCEPT !.at = "versions", !.agent = {a}, !.tenant = {t}, !.seen = seen]
  <2>2. /\ state \in OpStates /\ state.at = "versions" /\ state.agent = {a}
        /\ state.tenant = {t} /\ state.seen = seen
    BY ReadEffect DEF Idle, OpStates, Phases
  <2>3. op'[o] = state /\ \A p \in Operators \ {o} : op'[p] = op[p]
    BY <2>1, <2>2, GoesEffect
  <2>4. UNCHANGED <<known, installed, published>>
    BY <1>1 DEF InstallRead, rows
  <2> HIDE DEF state
  <2>5. Shape(o)'
    BY <2>2, <2>3 DEF Shape, OnTenant
  <2>6. calm' => granted' = granted /\ Tracks(o)'
    BY <2>1, <2>2, <2>3, <2>4, CalmGrants DEF Tracks, OnTenant
  <2> QED
    BY <1>1, <2>3, <2>4, <2>5, <2>6, CommandStep DEF Command, CalmInv, InOrder, VersionsOf
<1>2. CASE InstallCheck(o)
  <2>1. /\ op[o].at = "versions"
        /\ UNCHANGED <<known, installed, published, calm, granted>>
    BY <1>2 DEF InstallCheck, rows
  <2>2. PICK a \in Agents, t \in Tenants : op[o].agent = {a} /\ op[o].tenant = {t}
    BY <1>b, <2>1 DEF Shape, OnTenant, Idle
  <2>3. CASE Goes(o, Idle)
    <3>1. op'[o] = Idle /\ \A p \in Operators \ {o} : op'[p] = op[p]
      BY <2>3, IdleState, GoesEffect
    <3> QED
      BY <1>2, <2>1, <3>1, IdleTracks, CommandStep DEF Command, CalmInv, InOrder, VersionsOf
  <2>4. CASE VersionsOf(a) # {} /\ Goes(o, [op[o] EXCEPT !.at = "install"])
    <3> DEFINE state == [op[o] EXCEPT !.at = "install"]
    <3>1. /\ state \in OpStates /\ state.at = "install" /\ state.agent = {a}
          /\ state.tenant = {t} /\ state.seen = op[o].seen
      BY <1>a, <2>2 DEF OpStates, Phases
    <3>2. op'[o] = state /\ \A p \in Operators \ {o} : op'[p] = op[p]
      BY <2>4, <3>1, GoesEffect
    <3> HIDE DEF state
    <3>3. Shape(o)'
      BY <3>1, <3>2 DEF Shape, OnTenant
    <3>4. InOrder => op[o].seen = installed[t]
      BY <2>1, <2>2 DEF InOrder, Tracks, OnTenant
    <3>5. InOrder => Tracks(o)'
      BY <2>1, <2>4, <3>1, <3>2, <3>4 DEF Tracks, OnTenant, VersionsOf
    <3> QED
      BY <1>2, <2>1, <3>2, <3>3, <3>5, CommandStep DEF Command, CalmInv, InOrder, VersionsOf
  <2> QED
    BY <1>2, <2>2, <2>3, <2>4 DEF InstallCheck
<1>3. CASE InstallPut(o)
  <2>1. PICK a \in op[o].agent, t \in op[o].tenant :
          /\ PutTenant(t, op[o].seen \cup {a})
          /\ Grant(t, granted[t] \cup {a})
    BY <1>3 DEF InstallPut
  <2>2. t \in Tenants /\ a \in Agents /\ op[o].seen \cup {a} \in SUBSET Agents
    BY <1>a
  <2>3. op[o].at = "install" /\ UNCHANGED published /\ Goes(o, Idle)
    BY <1>3 DEF InstallPut
  <2>4. op'[o] = Idle /\ \A p \in Operators \ {o} : op'[p] = op[p]
    BY <2>3, IdleState, GoesEffect
  <2>5. \A u \in Tenants :
          installed'[u] = IF u = t THEN op[o].seen \cup {a} ELSE installed[u]
    BY <2>1, <2>2, PutEffect
  <2>6. InOrder => op[o].seen = installed[t] /\ VersionsOf(a) # {}
    BY <2>3 DEF InOrder, Tracks, OnTenant
  <2>7. ASSUME calm', InOrder PROVE \A u \in Tenants : installed'[u] = granted'[u]
    <3>1. granted' = [granted EXCEPT ![t] = granted[t] \cup {a}]
      BY <2>1, <2>2, <2>7, CalmGrants
    <3> QED
      BY <2>2, <2>5, <2>6, <2>7, <3>1 DEF InOrder, TypeOK
  <2>8. InOrder => \A u \in Tenants : \A b \in installed'[u] : VersionsOf(b)' # {}
    BY <2>2, <2>3, <2>5, <2>6 DEF InOrder, VersionsOf
  <2>9. \A u \in Tenants : installed'[u] # {} => u \in known'
    BY <2>1, <2>2, PutKeepsKnown
  <2> QED
    BY <1>3, <2>4, <2>7, <2>8, <2>9, IdleTracks, CommandStep DEF Command
<1> QED
  BY <1>1, <1>2, <1>3

(* An uninstall, alone or in the sweep of an unregister, puts back what is   *)
(* there without the agent.                                                  *)
LEMMA UninstallKeepsCalm ==
  ASSUME TypeOK, CalmInv, NEW o \in Operators,
         \/ \E t \in Tenants, a \in Agents : UninstallRead(o, t, a)
         \/ UninstallPut(o) \/ SweepPut(o)
  PROVE  CalmInv'
<1>a. /\ op[o] \in OpStates /\ op[o].agent \in SUBSET Agents
      /\ op[o].tenant \in SUBSET Tenants /\ op[o].seen \in SUBSET Agents
  BY OpFields
<1>b. Shape(o)
  BY DEF CalmInv
<1>1. ASSUME NEW t \in Tenants, NEW a \in Agents, UninstallRead(o, t, a) PROVE CalmInv'
  <2>1. PICK seen \in GetTenant(t) :
          /\ Calmly(o, seen = installed[t])
          /\ \/ Goes(o, [Idle EXCEPT !.at = "uninstall", !.agent = {a},
                                     !.tenant = {t}, !.seen = seen])
             \/ UNCHANGED op
    BY <1>1 DEF UninstallRead
  <2>2. op[o] = Idle /\ UNCHANGED <<known, installed, published>>
    BY <1>1 DEF UninstallRead, MayStart, rows
  <2>3. calm' => seen = installed[t] /\ granted' = granted
    BY <2>1, CalmGrants
  <2>4. CASE UNCHANGED op
    BY <1>1, <2>2, <2>3, <2>4, IdleTracks, CommandStep DEF Command, CalmInv, InOrder, VersionsOf
  <2>5. CASE ~UNCHANGED op
    <3> DEFINE state == [Idle EXCEPT !.at = "uninstall", !.agent = {a}, !.tenant = {t}, !.seen = seen]
    <3>1. /\ state \in OpStates /\ state.at = "uninstall" /\ state.agent = {a}
          /\ state.tenant = {t} /\ state.seen = seen
      BY ReadEffect DEF Idle, OpStates, Phases
    <3>2. op'[o] = state /\ \A p \in Operators \ {o} : op'[p] = op[p]
      BY <2>1, <2>5, <3>1, GoesEffect
    <3> HIDE DEF state
    <3>3. Shape(o)'
      BY <3>1, <3>2 DEF Shape, OnTenant
    <3>4. calm' => Tracks(o)'
      BY <2>2, <2>3, <3>1, <3>2 DEF Tracks, OnTenant
    <3> QED
      BY <1>1, <2>2, <2>3, <3>2, <3>3, <3>4, CommandStep
         DEF Command, CalmInv, InOrder, VersionsOf
  <2> QED
    BY <2>4, <2>5
<1>2. CASE UninstallPut(o) \/ SweepPut(o)
  <2>1. PICK t \in op[o].tenant :
          /\ PutTenant(t, op[o].seen \ op[o].agent)
          /\ Grant(t, granted[t] \ op[o].agent)
    BY <1>2 DEF UninstallPut, SweepPut
  <2>2. t \in Tenants /\ op[o].seen \ op[o].agent \in SUBSET Agents
    BY <1>a
  <2>3. op[o].at \in {"uninstall", "sweepPut"} /\ UNCHANGED published
    BY <1>2 DEF UninstallPut, SweepPut
  <2>4. PICK a \in Agents : op[o].agent = {a} /\ op[o].tenant = {t}
    BY <1>b, <2>3 DEF Shape, OnTenant, Idle
  <2>5. \A u \in Tenants :
          installed'[u] = IF u = t THEN op[o].seen \ {a} ELSE installed[u]
    BY <2>1, <2>2, <2>4, PutEffect
  <2>6. InOrder => op[o].seen = installed[t]
    BY <2>3 DEF InOrder, Tracks, OnTenant
  <2>7. ASSUME calm', InOrder PROVE \A u \in Tenants : installed'[u] = granted'[u]
    <3>1. granted' = [granted EXCEPT ![t] = granted[t] \ {a}]
      BY <2>1, <2>2, <2>4, <2>7, CalmGrants
    <3> QED
      BY <2>2, <2>5, <2>6, <2>7, <3>1 DEF InOrder, TypeOK
  <2>8. InOrder => \A u \in Tenants : \A b \in installed'[u] : VersionsOf(b)' # {}
    BY <2>2, <2>3, <2>5, <2>6 DEF InOrder, VersionsOf
  <2>9. \A u \in Tenants : installed'[u] # {} => u \in known'
    BY <2>1, <2>2, PutKeepsKnown
  <2>10. CASE Goes(o, Idle)
    <3>1. op'[o] = Idle /\ \A p \in Operators \ {o} : op'[p] = op[p]
      BY <2>10, IdleState, GoesEffect
    <3> QED
      BY <1>2, <2>7, <2>8, <2>9, <3>1, IdleTracks, CommandStep DEF Command
  <2>11. CASE op[o].at = "sweepPut" /\ Goes(o, [op[o] EXCEPT !.at = "sweep"])
    <3> DEFINE state == [op[o] EXCEPT !.at = "sweep"]
    <3>1. /\ state \in OpStates /\ state.at = "sweep" /\ state.agent = {a}
          /\ state.on = op[o].on
      BY <1>a, <2>4 DEF OpStates, Phases
    <3>2. op'[o] = state /\ \A p \in Operators \ {o} : op'[p] = op[p]
      BY <2>11, <3>1, GoesEffect
    <3> HIDE DEF state
    <3>3. Shape(o)'
      BY <3>1, <3>2 DEF Shape, OnTenant
    <3>4. InOrder => \A u \in Tenants : {a} \subseteq installed'[u] => u \in op[o].on
      BY <2>4, <2>5, <2>11 DEF InOrder, Tracks
    <3>5. InOrder => Tracks(o)'
      BY <3>1, <3>2, <3>4 DEF Tracks, OnTenant
    <3> QED
      BY <1>2, <2>7, <2>8, <2>9, <3>2, <3>3, <3>5, CommandStep DEF Command
  <2> QED
    BY <1>2, <2>10, <2>11 DEF UninstallPut, SweepPut
<1> QED
  BY <1>1, <1>2

(* An unregister knows of every tenant that has the agent, and deletes the   *)
(* versions when none is left.                                               *)
LEMMA UnregisterKeepsCalm ==
  ASSUME TypeOK, CalmInv, NEW o \in Operators,
         \/ \E a \in Agents : UnregisterList(o, a)
         \/ UnregisterScan(o) \/ SweepRead(o) \/ PurgeVersion(o)
  PROVE  CalmInv'
<1>a. /\ op[o] \in OpStates /\ op[o].agent \in SUBSET Agents
      /\ op[o].tenant \in SUBSET Tenants /\ op[o].seen \in SUBSET Agents
      /\ op[o].on \in SUBSET Tenants /\ op[o].listed \in SUBSET Versions
  BY OpFields
<1>b. Shape(o)
  BY DEF CalmInv
<1>1. ASSUME NEW a \in Agents, UnregisterList(o, a) PROVE CalmInv'
  <2> DEFINE state == [Idle EXCEPT !.at = "scan", !.agent = {a}, !.listed = VersionsOf(a)]
  <2>1. state \in OpStates /\ state.at = "scan" /\ state.agent = {a}
    BY DEF Idle, OpStates, Phases, VersionsOf
  <2>2. Goes(o, state) /\ UNCHANGED <<known, installed, published>>
    BY <1>1 DEF UnregisterList, rows
  <2> HIDE DEF state
  <2>3. op'[o] = state /\ \A p \in Operators \ {o} : op'[p] = op[p]
    BY <2>1, <2>2, GoesEffect
  <2>4. Shape(o)' /\ Tracks(o)'
    BY <2>1, <2>3 DEF Shape, Tracks, OnTenant
  <2>5. calm' => granted' = granted
    BY <1>1, CalmGrants DEF UnregisterList
  <2> QED
    BY <1>1, <2>2, <2>3, <2>4, <2>5, CommandStep DEF Command, CalmInv, InOrder, VersionsOf
<1>2. CASE UnregisterScan(o)
  <2>1. PICK page \in Scans :
          /\ Calmly(o, page = known)
          /\ Goes(o, [op[o] EXCEPT
               !.at = "sweep", !.on = {t \in page : op[o].agent \subseteq installed[t]}])
    BY <1>2 DEF UnregisterScan
  <2>2. page \in SUBSET Tenants
    BY DEF Scans, TypeOK
  <2>3. op[o].at = "scan" /\ UNCHANGED <<known, installed, published>>
    BY <1>2 DEF UnregisterScan, rows
  <2>4. PICK a \in Agents : op[o].agent = {a}
    BY <1>b, <2>3 DEF Shape, Idle
  <2> DEFINE state == [op[o] EXCEPT
               !.at = "sweep", !.on = {t \in page : op[o].agent \subseteq installed[t]}]
  <2>5. /\ state \in OpStates /\ state.at = "sweep" /\ state.agent = {a}
        /\ state.on = {t \in page : a \in installed[t]}
    BY <1>a, <2>2, <2>4 DEF OpStates, Phases
  <2>6. Goes(o, state)
    BY <2>1
  <2> HIDE DEF state
  <2>7. op'[o] = state /\ \A p \in Operators \ {o} : op'[p] = op[p]
    BY <2>5, <2>6, GoesEffect
  <2>8. Shape(o)'
    BY <2>5, <2>7 DEF Shape, OnTenant
  <2>9. calm' => page = known /\ granted' = granted
    BY <2>1, CalmGrants
  <2>10. calm' => \A t \in Tenants : {a} \subseteq installed'[t] => t \in state.on
    BY <2>3, <2>5, <2>9 DEF CalmInv
  <2>11. calm' => Tracks(o)'
    BY <2>5, <2>7, <2>10 DEF Tracks, OnTenant
  <2> QED
    BY <1>2, <2>3, <2>7, <2>8, <2>9, <2>11, CommandStep
       DEF Command, CalmInv, InOrder, VersionsOf
<1>3. CASE SweepRead(o)
  <2>1. PICK t \in op[o].on : \E seen \in GetTenant(t) :
          /\ Calmly(o, seen = installed[t])
          /\ Goes(o, [op[o] EXCEPT
               !.at = IF op[o].agent \subseteq seen THEN "sweepPut" ELSE "sweep",
               !.tenant = {t}, !.seen = seen, !.on = @ \ {t}])
    BY <1>3 DEF SweepRead
  <2>2. t \in Tenants
    BY <1>a
  <2>3. PICK seen \in GetTenant(t) :
          /\ Calmly(o, seen = installed[t])
          /\ Goes(o, [op[o] EXCEPT
               !.at = IF op[o].agent \subseteq seen THEN "sweepPut" ELSE "sweep",
               !.tenant = {t}, !.seen = seen, !.on = @ \ {t}])
    BY <2>1
  <2>4. op[o].at = "sweep" /\ UNCHANGED <<known, installed, published>>
    BY <1>3 DEF SweepRead, rows
  <2>5. PICK a \in Agents : op[o].agent = {a}
    BY <1>b, <2>4 DEF Shape, Idle
  <2> DEFINE state == [op[o] EXCEPT
               !.at = IF op[o].agent \subseteq seen THEN "sweepPut" ELSE "sweep",
               !.tenant = {t}, !.seen = seen, !.on = @ \ {t}]
  <2>6. /\ state \in OpStates /\ state.agent = {a}
        /\ state.at = (IF a \in seen THEN "sweepPut" ELSE "sweep")
        /\ state.tenant = {t} /\ state.seen = seen /\ state.on = op[o].on \ {t}
    BY <1>a, <2>2, <2>5, ReadEffect DEF OpStates, Phases
  <2>7. Goes(o, state)
    BY <2>3
  <2> HIDE DEF state
  <2>8. op'[o] = state /\ \A p \in Operators \ {o} : op'[p] = op[p]
    BY <2>6, <2>7, GoesEffect
  <2>9. Shape(o)'
    BY <2>2, <2>6, <2>8 DEF Shape, OnTenant
  <2>10. calm' => seen = installed[t] /\ granted' = granted
    BY <2>3, CalmGrants
  <2>11. InOrder => \A u \in Tenants : a \in installed[u] => u \in op[o].on
    BY <2>4, <2>5 DEF InOrder, Tracks
  <2>12. calm' /\ InOrder => Tracks(o)'
    <3>1. CASE a \in seen
      BY <2>4, <2>6, <2>8, <2>10, <2>11, <3>1 DEF Tracks, OnTenant
    <3>2. CASE a \notin seen
      BY <2>4, <2>6, <2>8, <2>10, <2>11, <3>2 DEF Tracks, OnTenant
    <3> QED
      BY <3>1, <3>2
  <2> QED
    BY <1>3, <2>4, <2>8, <2>9, <2>10, <2>12, CommandStep
       DEF Command, CalmInv, InOrder, VersionsOf
<1>4. CASE PurgeVersion(o)
  <2>1. PICK v \in op[o].listed :
          /\ published' = published \ (op[o].agent \X {v})
          /\ Goes(o, IF op[o].listed = {v} THEN Idle
                     ELSE [op[o] EXCEPT !.listed = @ \ {v}])
    BY <1>4 DEF PurgeVersion
  <2>2. /\ op[o].at = "sweep" /\ op[o].on = {}
        /\ UNCHANGED <<known, installed, calm, granted>>
    BY <1>4 DEF PurgeVersion, rows
  <2>3. PICK a \in Agents : op[o].agent = {a}
    BY <1>b, <2>2 DEF Shape, Idle
  <2>4. InOrder => \A t \in Tenants : a \notin installed[t]
    BY <2>2, <2>3 DEF InOrder, Tracks
  <2>5. \A b \in Agents : b # a => VersionsOf(b)' = VersionsOf(b)
    BY <2>1, <2>3 DEF VersionsOf
  <2>6. InOrder => \A t \in Tenants : \A b \in installed'[t] : VersionsOf(b)' # {}
    BY <2>2, <2>4, <2>5 DEF InOrder, TypeOK
  <2>7. CASE Goes(o, Idle)
    <3>1. op'[o] = Idle /\ \A p \in Operators \ {o} : op'[p] = op[p]
      BY <2>7, IdleState, GoesEffect
    <3> QED
      BY <1>4, <2>2, <2>6, <3>1, IdleTracks, CommandStep DEF Command, CalmInv, InOrder
  <2>8. CASE Goes(o, [op[o] EXCEPT !.listed = @ \ {v}])
    <3> DEFINE state == [op[o] EXCEPT !.listed = @ \ {v}]
    <3>1. /\ state \in OpStates /\ state.at = "sweep" /\ state.agent = {a}
          /\ state.on = {}
      BY <1>a, <2>2, <2>3 DEF OpStates
    <3>2. op'[o] = state /\ \A p \in Operators \ {o} : op'[p] = op[p]
      BY <2>8, <3>1, GoesEffect
    <3> HIDE DEF state
    <3>3. Shape(o)'
      BY <3>1, <3>2 DEF Shape, OnTenant
    <3>4. InOrder => Tracks(o)'
      BY <2>2, <2>4, <3>1, <3>2 DEF Tracks, OnTenant
    <3> QED
      BY <1>4, <2>2, <2>6, <3>2, <3>3, <3>4, CommandStep DEF Command, CalmInv, InOrder
  <2> QED
    BY <2>1, <2>7, <2>8
<1> QED
  BY <1>1, <1>2, <1>3, <1>4

(* Wherever a command is cut off, the rows it leaves are in order.           *)
LEMMA CutOffKeepsCalm ==
  ASSUME TypeOK, CalmInv, NEW o \in Operators, CutOff(o)
  PROVE  CalmInv'
<1>1. /\ Goes(o, Idle)
      /\ UNCHANGED <<known, installed, published, calm, granted>>
  BY DEF CutOff, rows
<1>2. op'[o] = Idle /\ \A p \in Operators \ {o} : op'[p] = op[p]
  BY <1>1, IdleState, GoesEffect
<1> QED
  BY <1>1, <1>2, IdleTracks, CommandStep DEF Command, CalmInv, InOrder, VersionsOf

(* CalmInv is inductive.                                                     *)
LEMMA NextKeepsCalm == TypeOK /\ CalmInv /\ [Next]_vars => CalmInv'
<1> SUFFICES ASSUME TypeOK, CalmInv, [Next]_vars PROVE CalmInv'
  OBVIOUS
<1>1. ASSUME NEW t \in Tenants, Settle(t) PROVE CalmInv'
  BY <1>1 DEF Settle, CalmInv, InOrder, Shape, Tracks, VersionsOf
<1>2. ASSUME NEW o \in Operators, Command(o) PROVE CalmInv'
  BY <1>2, SingleCallsKeepCalm, InstallKeepsCalm, UninstallKeepsCalm,
     UnregisterKeepsCalm, CutOffKeepsCalm DEF Command
<1>3. CASE UNCHANGED vars
  BY <1>3 DEF vars, rows, CalmInv, InOrder, Shape, Tracks, VersionsOf
<1> QED
  BY <1>1, <1>2, <1>3 DEF Next, Command

(* In the beginning there is nothing. *)
LEMMA InitCalm == Init => CalmInv
<1> SUFFICES ASSUME Init PROVE CalmInv
  OBVIOUS
<1>1. \A o \in Operators : op[o] = Idle
  BY DEF Init
<1>2. \A t \in Tenants : installed[t] = {} /\ granted[t] = {}
  BY DEF Init
<1> QED
  BY <1>1, <1>2, IdleTracks DEF CalmInv, InOrder

(* "Rather than silently writing a broken reference" (docs/DECISIONS.md:307): *)
(* commands given one at a time, with fresh reads and scans that fit a page,  *)
(* leave no tenant with an agent that has no version, and any of them may be  *)
(* cut off between any two of its calls (cli/main.py:185-213,                 *)
(* repository.py:98-118).                                                     *)
THEOREM CommandsLeaveNoBrokenInstall == Spec => []NoBrokenInstall
<1>1. CalmInv => NoBrokenInstall
  BY DEF CalmInv, InOrder, NoBrokenInstall
<1> QED
  BY <1>1, InitCalm, NextKeepsCalm, RegistryTypes, PTL DEF Spec

(* On the same terms a tenant's row is exactly what the commands asked for:   *)
(* nothing is lost or comes back when whole rows are put back from earlier    *)
(* reads (repository.py:98-118).                                              *)
THEOREM RowsFollowTheCommands == Spec => []RowsSayWhatWasAsked
<1>1. CalmInv => RowsSayWhatWasAsked
  BY DEF CalmInv, InOrder, RowsSayWhatWasAsked
<1> QED
  BY <1>1, InitCalm, NextKeepsCalm, RegistryTypes, PTL DEF Spec
=============================================================================
