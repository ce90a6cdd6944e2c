------------------------------ MODULE JobIndex ------------------------------
(* How agent jobs are submitted and counted: start_session and submit_flood  *)
(* write a job row, start the workflow with the tenant's priority, and the   *)
(* fleet view counts rows (from a global secondary index) and workflows.     *)
(* A session is a submission of one job.  One step is one request to         *)
(* DynamoDB or Temporal; the coroutines of a flood take their steps in any   *)
(* order.  Jobs are numbered in the order of created_at.                     *)
EXTENDS Naturals, FiniteSets

CONSTANTS
  Tenants,
  Submissions,   \* calls of start_session and submit_flood
  Count,         \* Count[s]: jobs that s asks for
  OfApi,         \* submissions made in the API, which outlives a failed flood
  MaxJobs,       \* bound on the jobs ever made
  ListLimit,     \* the limit given to list_jobs_for_tenant
  Faults,        \* requests fail, lose their answers, processes die
  IndexLags      \* a secondary index is written some time after the row

ASSUME JobIndexAssumption ==
  /\ IsFiniteSet(Tenants) /\ IsFiniteSet(Submissions)
  /\ Count \in [Submissions -> Nat] /\ OfApi \in SUBSET Submissions
  /\ MaxJobs \in Nat /\ ListLimit \in Nat
  /\ {Faults, IndexLags} \subseteq BOOLEAN

Jobs == 1..MaxJobs
RowStates == {"none", "queued", "running"}
WorkflowStates == {"none", "waiting", "begun", "going", "closed"}
Open == {"waiting", "begun", "going"}

VARIABLES
  made,       \* jobs 1..made have been given an id and a created_at
  tenant,     \* tenant[j]: gsi1_pk of j's row, TenantId of its workflow
  row,        \* row[j]: status of j's row, if it has one
  index,      \* index[j]: what gsi1 holds of that row
  wf,         \* wf[j]: j's workflow execution
  keyed,      \* keyed[j]: j was started with a fairness key
  fairness,   \* FairnessSetting.enabled
  sub         \* sub[s]: where submission s stands

jobVars == <<made, tenant, row, index, wf, keyed>>
vars == <<jobVars, fairness, sub>>

SubStates ==
  [at : {"idle", "submitting", "ok", "failed"},
   tenant : Tenants, keyed : BOOLEAN,
   left : Nat,            \* coroutines that have not written their row
   open : SUBSET Jobs,    \* rows written, workflow not yet started
   mine : SUBSET Jobs,    \* every row written
   before : SUBSET Jobs]  \* what a listing showed when s began

TypeOK ==
  /\ made \in 0..MaxJobs
  /\ tenant \in [Jobs -> Tenants]
  /\ row \in [Jobs -> RowStates]
  /\ index \in [Jobs -> RowStates]
  /\ wf \in [Jobs -> WorkflowStates]
  /\ keyed \in [Jobs -> BOOLEAN]
  /\ fairness \in BOOLEAN
  /\ sub \in [Submissions -> SubStates]
  /\ \A s \in Submissions :
       sub[s].at \in {"submitting", "ok"} =>
         Cardinality(sub[s].mine) + sub[s].left = Count[s]

Init ==
  /\ made = 0
  /\ \E t \in Tenants :
       /\ tenant = [j \in Jobs |-> t]
       /\ sub = [s \in Submissions |->
                  [at |-> "idle", tenant |-> t, keyed |-> FALSE, left |-> 0,
                   open |-> {}, mine |-> {}, before |-> {}]]
  /\ row = [j \in Jobs |-> "none"]
  /\ index = row
  /\ wf = [j \in Jobs |-> "none"]
  /\ keyed = [j \in Jobs |-> FALSE]
  /\ fairness = TRUE

-----------------------------------------------------------------------------
(* Mutant: the index is read upwards, from the oldest row. *)
List_Oldest(t, limit) ==
  LET shown == {j \in Jobs : index[j] # "none" /\ tenant[j] = t}
  IN {j \in shown : Cardinality({i \in shown : i < j}) < limit}

(* list_jobs_for_tenant: the newest `limit` rows of the tenant in gsi1.      *)
List(t, limit) ==
  LET shown == {j \in Jobs : index[j] # "none" /\ tenant[j] = t}
  IN {j \in shown : Cardinality({i \in shown : i > j}) < limit}

(* What the process monitor shows of a tenant.                               *)
TenantQueued(t) == {j \in List(t, ListLimit) : index[j] = "queued"}
TenantRunning(t) == {j \in Jobs : tenant[j] = t /\ wf[j] \in Open}

FitsTheLimit(t) ==
  Cardinality({j \in Jobs : index[j] # "none" /\ tenant[j] = t}) <= ListLimit

(* Mutant: the setting is read again for every job. *)
KeyOf_Now(s) == fairness

(* priority: resolved once, before the first job.                            *)
KeyOf(s) == sub[s].keyed

Moves(s, state) == sub' = [sub EXCEPT ![s] = state]

WriteRow(j, state) ==
  /\ row' = [row EXCEPT ![j] = state]
  /\ index' = IF IndexLags THEN index ELSE [index EXCEPT ![j] = state]

-----------------------------------------------------------------------------
(* Mutant: range(count + 1). *)
Resolve_OneMore(s) ==
  /\ sub[s].at = "idle"
  /\ \E t \in Tenants :
       Moves(s, [sub[s] EXCEPT
         !.at = "submitting", !.tenant = t, !.keyed = fairness,
         !.left = Count[s] + 1, !.before = List(t, ListLimit)])
  /\ UNCHANGED <<jobVars, fairness>>

(* resolve_priority and the agent's versions: both must be there, nothing is *)
(* written before.  `before` is what the verification script listed first.   *)
Resolve(s) ==
  /\ sub[s].at = "idle"
  /\ \E t \in Tenants :
       Moves(s, [sub[s] EXCEPT
         !.at = "submitting", !.tenant = t, !.keyed = fairness,
         !.left = Count[s], !.before = List(t, ListLimit)])
  /\ UNCHANGED <<jobVars, fairness>>

(* Mutant: the row is written as running. *)
PutJob_Running(s) ==
  /\ sub[s].left > 0
  /\ made < MaxJobs
  /\ made' = made + 1
  /\ tenant' = [tenant EXCEPT ![made'] = sub[s].tenant]
  /\ WriteRow(made', "running")
  /\ Moves(s, [sub[s] EXCEPT !.left = @ - 1, !.open = @ \cup {made'},
                             !.mine = @ \cup {made'}])
  /\ UNCHANGED <<wf, keyed, fairness>>

(* submit_one, put_job: the row is queued before the workflow exists.        *)
PutJob(s) ==
  /\ sub[s].left > 0
  /\ made < MaxJobs
  /\ made' = made + 1
  /\ tenant' = [tenant EXCEPT ![made'] = sub[s].tenant]
  /\ WriteRow(made', "queued")
  /\ Moves(s, [sub[s] EXCEPT !.left = @ - 1, !.open = @ \cup {made'},
                             !.mine = @ \cup {made'}])
  /\ UNCHANGED <<wf, keyed, fairness>>

(* submit_one, start_workflow: with the priority and the TenantId attribute. *)
StartWorkflow(s) ==
  /\ \E j \in sub[s].open :
       /\ wf' = [wf EXCEPT ![j] = "waiting"]
       /\ keyed' = [keyed EXCEPT ![j] = KeyOf(s)]
       /\ Moves(s, [sub[s] EXCEPT !.open = @ \ {j}])
  /\ UNCHANGED <<made, tenant, row, index, fairness>>

(* Mutant: gather(..., return_exceptions=True). *)
OneFails_Swallowed(s) ==
  /\ Faults
  /\ sub[s].at \in {"submitting", "failed"}
  /\ \E j \in sub[s].open :
       Moves(s, [sub[s] EXCEPT !.open = @ \ {j}])
  /\ UNCHANGED <<jobVars, fairness>>

(* One coroutine's put or start fails (the put may have been applied: PutJob *)
(* and then this step).  gather raises; the others go on in the API, and are *)
(* cancelled where asyncio.run ends the process (cli demo_flood).            *)
OneFails(s) ==
  /\ Faults
  /\ sub[s].at \in {"submitting", "failed"}
  /\ \/ /\ sub[s].left > 0
        /\ Moves(s, IF s \in OfApi
                    THEN [sub[s] EXCEPT !.at = "failed", !.left = @ - 1]
                    ELSE [sub[s] EXCEPT !.at = "failed", !.left = 0, !.open = {}])
     \/ \E j \in sub[s].open :
          Moves(s, IF s \in OfApi
                   THEN [sub[s] EXCEPT !.at = "failed", !.open = @ \ {j}]
                   ELSE [sub[s] EXCEPT !.at = "failed", !.left = 0, !.open = {}])
  /\ UNCHANGED <<jobVars, fairness>>

(* The submitting process dies.                                              *)
Crash(s) ==
  /\ Faults
  /\ sub[s].at \in {"submitting", "failed"}
  /\ sub[s].left > 0 \/ sub[s].open # {}
  /\ Moves(s, [sub[s] EXCEPT !.at = "failed", !.left = 0, !.open = {}])
  /\ UNCHANGED <<jobVars, fairness>>

(* Every coroutine is done: 200 from the API, "submitted" from the CLI.      *)
Answer(s) ==
  /\ sub[s].at = "submitting"
  /\ sub[s].left = 0 /\ sub[s].open = {}
  /\ Moves(s, [sub[s] EXCEPT !.at = "ok"])
  /\ UNCHANGED <<jobVars, fairness>>

(* `dos demo fairness`, POST /api/demo/fairness.                             *)
ToggleFairness ==
  /\ fairness' = ~fairness
  /\ UNCHANGED <<jobVars, sub>>

-----------------------------------------------------------------------------
(* A worker takes the workflow's first task (external dispatch).             *)
Begin(j) ==
  /\ wf[j] = "waiting"
  /\ wf' = [wf EXCEPT ![j] = "begun"]
  /\ UNCHANGED <<made, tenant, row, index, keyed, fairness, sub>>

(* Mutant: an update without attribute_exists(pk) makes the row.             *)
MarkJobStarted_Upsert(j) ==
  /\ wf[j] = "begun"
  /\ WriteRow(j, "running")
  /\ wf' = [wf EXCEPT ![j] = "going"]
  /\ UNCHANGED <<made, tenant, keyed, fairness, sub>>

(* mark_job_started: a row that is not there is not made; the workflow goes  *)
(* on when the activity has failed for good.                                 *)
MarkJobStarted(j) ==
  /\ wf[j] = "begun"
  /\ \/ /\ row[j] # "none"
        /\ WriteRow(j, "running")
     \/ /\ row[j] = "none" \/ Faults
        /\ UNCHANGED <<row, index>>
  /\ wf' = [wf EXCEPT ![j] = "going"]
  /\ UNCHANGED <<made, tenant, keyed, fairness, sub>>

(* The workflow closes; nothing stamps its row.                              *)
Close(j) ==
  /\ wf[j] = "going"
  /\ wf' = [wf EXCEPT ![j] = "closed"]
  /\ UNCHANGED <<made, tenant, row, index, keyed, fairness, sub>>

(* The index takes the row's state over (external).                          *)
IndexCatchesUp(j) ==
  /\ index[j] # row[j]
  /\ index' = [index EXCEPT ![j] = row[j]]
  /\ UNCHANGED <<made, tenant, row, wf, keyed, fairness, sub>>

-----------------------------------------------------------------------------
Submits(s) ==
  \/ Resolve(s) \/ PutJob(s) \/ StartWorkflow(s) \/ Answer(s)
  \/ OneFails(s) \/ Crash(s)

Works(j) == Begin(j) \/ MarkJobStarted(j) \/ Close(j) \/ IndexCatchesUp(j)

Next ==
  \/ \E s \in Submissions : Submits(s)
  \/ \E j \in Jobs : Works(j)
  \/ ToggleFairness

Spec == Init /\ [][Next]_vars

-----------------------------------------------------------------------------
(* All the jobs of one flood compete under the same fairness key, even when  *)
(* the toggle is flipped while the flood is being submitted: submit_flood    *)
(* resolves the priority once (app/demo.py:51), so a lane is never half in   *)
(* and half out of the round-robin.                                          *)
FloodIsUniform ==
  \A s \in Submissions : \A i, j \in sub[s].mine :
    wf[i] # "none" /\ wf[j] # "none" => keyed[i] = keyed[j]

(* A submission that was answered with success has every workflow it was     *)
(* asked for, whatever failed, was retried or died around it: gather raises  *)
(* when one submit_one does.                                                 *)
AckMeansStarted ==
  \A s \in Submissions :
    sub[s].at = "ok" =>
      Cardinality({j \in sub[s].mine : wf[j] # "none"}) = Count[s]

(* Every workflow that waits for a worker is counted as queued, in any       *)
(* interleaving of submissions, failures and workers: the row is written     *)
(* before the workflow exists (app/sessions.py:43) and leaves queued only    *)
(* when begun.  Side condition: the index holds the row as it is, and the    *)
(* tenant has no more rows than the listing limit.                           *)
WaitingIsCounted ==
  \A j \in Jobs :
    wf[j] = "waiting" /\ index[j] = row[j] /\ FitsTheLimit(tenant[j])
    => j \in TenantQueued(tenant[j])

(* The first listing of s showed every row of the tenant, not made by s,     *)
(* that a listing can show now.                                              *)
Undisturbed(s) ==
  \A j \in 1..made :
    tenant[j] = sub[s].tenant /\ j \notin sub[s].mine \cup sub[s].before
    => Cardinality({i \in sub[s].before : i > j}) >= ListLimit

(* What verify_flood_health counts (scripts/verify_flood_health.py:27): the  *)
(* rows listed now and not before are the flood's own, all of them, also     *)
(* when old rows fill the limit, for a tenant nobody else submits for.  Side *)
(* condition: the index was and is up to date.                               *)
FloodIsListed ==
  \A s \in Submissions :
    /\ sub[s].at = "ok" /\ Count[s] <= ListLimit /\ Undisturbed(s)
    /\ \A j \in Jobs : index[j] # "none" <=> row[j] # "none"
    => List(sub[s].tenant, ListLimit) \ sub[s].before = sub[s].mine

=============================================================================
