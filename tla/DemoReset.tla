----------------------------- MODULE DemoReset ------------------------------
(* `make demo-prepare`: scripts/reset.py --yes brings the demo back to a     *)
(* clean state and scripts/seed_demo.py then runs real sessions.  The module *)
(* composes with JobIndex: jobs that still run while reset works write       *)
(* memory events and payments, and mark rows that reset deletes.  One step   *)
(* is one request, and reset.py may stop after each.                         *)
EXTENDS JobIndex

CONSTANTS
  Page,        \* PAGE of reset.py
  Listings     \* tenants of one run: --tenant, or one page of a table scan

ASSUME DemoResetAssumption ==
  Page \in Nat \ {0} /\ Listings \subseteq SUBSET Tenants

VARIABLES
  results,     \* jobs with a JobResult row: verify.py alone writes them
  memory,      \* jobs whose summary is in AgentCore Memory
  payments,    \* Mockoon's buckets hold a record (they are process-local)
  mockoon,     \* "up", "down" or "broken": a bucket that is not JSON
  armed,       \* KillSwitch.armed
  ramp,        \* a ramp is configured on the worker deployment
  reset,       \* [at, tenants, plan, job, seen]: where reset.py stands
  disturbed,   \* history: reset.py was not alone since it started
  orphans      \* history: results that had no job row when reset.py started

world == <<results, memory, payments, mockoon, armed, ramp>>
demoVars == <<world, reset, disturbed, orphans>>
allVars == <<vars, demoVars>>

Steps == {"plan", "buckets", "rows", "result", "list", "purge", "fairness", "disarm", "ramp",
          "mockoon", "confirm"}
Ends == {"exit0", "exit1", "raised"}

ResetTypeOK ==
  /\ TypeOK
  /\ {results, memory, orphans} \subseteq SUBSET Jobs
  /\ mockoon \in {"up", "down", "broken"}
  /\ {payments, armed, ramp, disturbed} \subseteq BOOLEAN
  /\ reset \in [at : {"idle"} \cup Steps \cup Ends,
                tenants : SUBSET Tenants,
                plan : SUBSET Jobs,      \* rows, then events, still to delete
                job : Jobs \cup {0},     \* its row is gone, its result is next
                seen : BOOLEAN]          \* the buckets could be read

DemoInit ==
  /\ Init
  /\ results = {} /\ orphans = {}
  /\ memory = {} /\ payments = FALSE /\ mockoon = "up"
  /\ armed = FALSE /\ ramp = FALSE /\ disturbed = FALSE
  /\ reset = [at |-> "idle", tenants |-> {}, plan |-> {}, job |-> 0, seen |-> FALSE]

Resetting == reset.at \in Steps

(* A step of somebody else; while reset.py runs it is a disturbance.         *)
Others == disturbed' = Resetting /\ UNCHANGED <<reset, orphans>>

(* Nobody is at work, and the index has caught up.                           *)
Quiet ==
  /\ \A j \in Jobs : wf[j] \notin Open /\ index[j] = row[j]
  /\ \A s \in Submissions : sub[s].left = 0 /\ sub[s].open = {}

(* What a page of each tenant of this run lists: rows, and memory events.    *)
JobIds == UNION {List(t, Page) : t \in reset.tenants}
Remembered == {j \in memory : tenant[j] \in reset.tenants}

-----------------------------------------------------------------------------
(* What goes on around reset.py.                                             *)
Submission(s) == Others /\ Submits(s) /\ UNCHANGED world

(* A job closes: its agent may have paid, and its summary is written unless  *)
(* the best-effort activity fails.                                           *)
JobEnds(j) ==
  /\ Others
  /\ Close(j)
  /\ memory' \in {memory, memory \cup {j}}
  /\ payments' \in {payments, payments \/ mockoon = "up"}
  /\ UNCHANGED <<results, mockoon, armed, ramp>>

JobGoesOn(j) ==
  /\ Others
  /\ Begin(j) \/ MarkJobStarted(j) \/ IndexCatchesUp(j)
  /\ UNCHANGED world

(* scripts/verify.py stops between put_job_result and delete_job_result: the *)
(* result row of its throwaway job is left, with the job's row or without.   *)
VerifyStops ==
  /\ Others
  /\ made < MaxJobs
  /\ made' = made + 1
  /\ \E t \in Tenants : tenant' = [tenant EXCEPT ![made'] = t]
  /\ WriteRow(made', "running") \/ UNCHANGED <<row, index>>
  /\ results' = results \cup {made'}
  /\ UNCHANGED <<wf, keyed, fairness, sub, memory, payments, mockoon, armed, ramp>>

(* `dos demo fairness`, kill-worker and ramp: what a rehearsal leaves.       *)
Rehearse ==
  /\ Others
  /\ \/ ToggleFairness /\ UNCHANGED <<armed, ramp>>
     \/ armed' = TRUE /\ UNCHANGED <<vars, ramp>>
     \/ ramp' = TRUE /\ UNCHANGED <<vars, armed>>
  /\ UNCHANGED <<results, memory, payments, mockoon>>

(* Mockoon cannot be reached, or was restarted: what it held was in its      *)
(* process (external).                                                       *)
MockoonChanges ==
  /\ \/ mockoon = "up" /\ mockoon' = "down" /\ payments' \in {payments, FALSE}
     \/ mockoon = "down" /\ mockoon' = "up" /\ UNCHANGED payments
  /\ UNCHANGED <<vars, results, memory, armed, ramp, reset, disturbed, orphans>>

-----------------------------------------------------------------------------
(* A step of reset.py itself, and one that only reads.                       *)
Goes(at) == reset' = [reset EXCEPT !.at = at]
Exits(at) ==
  reset' = [reset EXCEPT !.at = at, !.plan = {}, !.job = 0, !.seen = FALSE]
Own == Resetting /\ UNCHANGED <<mockoon, disturbed, orphans>>
Reads == Own /\ UNCHANGED <<vars, results, memory, payments, armed, ramp>>

(* reset.py --yes is started, or started again.                              *)
StartReset ==
  /\ ~Resetting
  /\ \E listed \in Listings :
       reset' = [at |-> "plan", tenants |-> listed, plan |-> {}, job |-> 0, seen |-> FALSE]
  /\ disturbed' = ~Quiet
  /\ orphans' = {j \in results : row[j] = "none"}
  /\ UNCHANGED <<vars, world>>

(* _job_ids: pages until nothing on the page is fresh or the page is short.  *)
(* Every page asked for is the first one.                                    *)
Plan ==
  /\ reset.at = "plan"
  /\ LET again == \E t \in reset.tenants :
                    /\ ~(List(t, Page) \subseteq reset.plan)
                    /\ Cardinality(List(t, Page)) >= Page
     IN reset' = [reset EXCEPT !.plan = @ \cup JobIds,
                               !.at = IF again THEN "plan" ELSE "buckets"]
  /\ Reads

(* _mockoon_bucket_size: None for what cannot be reached or parsed.          *)
ReadBuckets ==
  /\ reset.at = "buckets"
  /\ reset' = [reset EXCEPT !.seen = (mockoon = "up"), !.at = "rows"]
  /\ Reads

(* delete_job, for each planned row ...                                      *)
DeleteRow ==
  /\ reset.at = "rows"
  /\ \/ \E j \in reset.plan :
          /\ WriteRow(j, "none")
          /\ reset' = [reset EXCEPT !.job = j, !.at = "result"]
     \/ reset.plan = {} /\ Goes("list") /\ UNCHANGED <<row, index>>
  /\ Own
  /\ UNCHANGED <<made, tenant, wf, keyed, fairness, sub>>
  /\ UNCHANGED <<results, memory, payments, armed, ramp>>

(* Mutant: delete_job alone. *)
DeleteResult_Forgotten ==
  /\ reset.at = "result"
  /\ reset' = [reset EXCEPT !.plan = @ \ {reset.job}, !.job = 0, !.at = "rows"]
  /\ Reads

(* ... and then delete_job_result, before the next row.                      *)
DeleteResult ==
  /\ reset.at = "result"
  /\ results' = results \ {reset.job}
  /\ reset' = [reset EXCEPT !.plan = @ \ {reset.job}, !.job = 0, !.at = "rows"]
  /\ Own
  /\ UNCHANGED <<vars, memory, payments, armed, ramp>>

(* _purge_memory lists the events anew, every page of them, ...              *)
ListMemory ==
  /\ reset.at = "list"
  /\ reset' = [reset EXCEPT !.plan = Remembered, !.at = "purge"]
  /\ Reads

(* ... and deletes them, twelve at a time: in any order.                     *)
DeleteEvent ==
  /\ reset.at = "purge"
  /\ \/ \E j \in reset.plan :
          /\ memory' = memory \ {j}
          /\ reset' = [reset EXCEPT !.plan = @ \ {j}]
     \/ reset.plan = {} /\ Goes("fairness") /\ UNCHANGED memory
  /\ Own
  /\ UNCHANGED <<vars, results, payments, armed, ramp>>

RestoreFairness ==
  /\ reset.at = "fairness"
  /\ fairness' = TRUE
  /\ Goes("disarm")
  /\ Own
  /\ UNCHANGED <<jobVars, sub, results, memory, payments, armed, ramp>>

Disarm ==
  /\ reset.at = "disarm"
  /\ armed' = FALSE
  /\ Goes("ramp")
  /\ Own
  /\ UNCHANGED <<vars, results, memory, payments, ramp>>

ClearRamp ==
  /\ reset.at = "ramp"
  /\ ramp' = FALSE
  /\ Goes("mockoon")
  /\ Own
  /\ UNCHANGED <<vars, results, memory, payments, armed>>

(* Mutant: DELETE instead of PUT [], which leaves the bucket undefined.      *)
ClearMockoon_Delete ==
  /\ reset.at = "mockoon"
  /\ Goes("confirm")
  /\ IF reset.seen /\ mockoon = "up"
     THEN payments' = FALSE /\ mockoon' = "broken"
     ELSE UNCHANGED <<payments, mockoon>>
  /\ UNCHANGED <<vars, results, memory, armed, ramp, disturbed, orphans>>

(* PUT [] to the buckets that could be read before the purge; a failure is   *)
(* a warning.                                                                *)
ClearMockoon ==
  /\ reset.at = "mockoon"
  /\ Goes("confirm")
  /\ payments' = IF reset.seen /\ mockoon = "up" THEN FALSE ELSE payments
  /\ Own
  /\ UNCHANGED <<vars, results, memory, armed, ramp>>

(* Mutant: an unreachable Mockoon has no records. *)
Confirm_Unreachable ==
  /\ reset.at = "confirm"
  /\ Exits(IF JobIds = {} /\ Remembered = {} /\ fairness /\ ~armed
             /\ (mockoon = "up" => ~payments)
           THEN "exit0" ELSE "exit1")
  /\ Reads

(* The recount and the exit code; the ramp is not read back.                 *)
Confirm ==
  /\ reset.at = "confirm"
  /\ Exits(IF JobIds = {} /\ Remembered = {} /\ fairness /\ ~armed
             /\ mockoon = "up" /\ ~payments
          THEN "exit0" ELSE "exit1")
  /\ Reads

(* An AWS or Temporal error on the way: no try around these steps, between   *)
(* the two deletions of a job as anywhere else.                              *)
Raises ==
  /\ reset.at \in Steps \ {"buckets", "mockoon"}
  /\ Exits("raised")
  /\ Reads

ResetStep ==
  \/ Plan \/ ReadBuckets \/ DeleteRow \/ DeleteResult \/ ListMemory \/ DeleteEvent \/ RestoreFairness
  \/ Disarm \/ ClearRamp \/ ClearMockoon \/ Confirm

DemoNext ==
  \/ \E s \in Submissions : Submission(s)
  \/ \E j \in Jobs : JobEnds(j) \/ JobGoesOn(j)
  \/ VerifyStops \/ Rehearse \/ MockoonChanges
  \/ StartReset \/ ResetStep \/ Raises

(* An operator who is told of a failure runs the command again.              *)
RunAgain == StartReset /\ reset.at \in {"exit1", "raised"}

DemoSpec ==
  /\ DemoInit /\ [][DemoNext]_allVars
  /\ WF_allVars(ResetStep) /\ SF_allVars(RunAgain)

-----------------------------------------------------------------------------
(* The tenants of the run have no job row, no result row and no event; the   *)
(* rest is global.                                                           *)
Clean ==
  /\ \A j \in Jobs : tenant[j] \in reset.tenants =>
       row[j] = "none" /\ j \notin memory /\ j \notin results \ orphans
  /\ ~payments /\ fairness /\ ~armed /\ ~ramp

(* Exit code 0 means that all six dimensions are clean, the ramp and the     *)
(* result rows that reset does not read back included, in spite of errors on *)
(* the way, of a Mockoon that goes and comes, and of pages that were not all *)
(* listed (scripts/reset.py:290 "to know the demo is clean").  Rows and      *)
(* events are those of the tenants that this run was given or saw in its one *)
(* page of the table, and result rows those that still had a job row when it *)
(* began: one that an earlier run left between its two deletions is found by *)
(* nothing.  Side condition: no job was running and nobody used the demo     *)
(* while reset worked.                                                       *)
ExitZeroIsClean ==
  [][reset'.at = "exit0" /\ reset.at # "exit0" /\ ~disturbed
     => Clean']_allVars

(* However many pages of rows a rehearsal left, an operator who runs reset   *)
(* until it exits 0 gets there: every run removes a page, and the buckets    *)
(* stay readable (PUT [], not DELETE).  Unless AWS, Mockoon or other users   *)
(* of the demo get in the way again and again.                              *)
ResetGetsThere ==
  \/ []<>(reset.at = "raised") \/ []<>(mockoon = "down") \/ []<>disturbed
  \/ reset.at = "plan" ~> reset.at = "exit0"

(* A row that reset deleted does not come back: a job that was waiting or    *)
(* running at the time marks itself started without making a new row         *)
(* (app/registry/repository.py:206 "must never create a stray partial row"). *)
DeletedStaysDeleted ==
  [][\A j \in 1..made : row[j] = "none" => row'[j] = "none"]_allVars

=============================================================================
