# durable-agent-control-plane in TLA+

A control plane that runs LLM agents as Temporal workflows. Tenants install agent packages
from a DynamoDB registry; a session is one `AgentJobWorkflow`; its model and tool calls are
Temporal activities; payments and dispute filings go through an idempotency record; a reviewer
approves what a package's policy says needs a human; a UI follows the session's event stream;
operators route new sessions to builds, reset the demo and check it before it is shown.

## Inventory

| component | code | state it keeps | operations | correct when | module |
|---|---|---|---|---|---|
| run_once | `app/activities/idempotency.py`, `app/registry/repository.py` | one idempotency record per scheduled call | read, claim (conditional), perform, complete | the effect of a call happens at most once, and a result is never reported for an effect that did not happen | RunOnce |
| payment | `app/activities/payment.py` | none; the provider's payments | GET own confirmation, POST | at most one payment, none after the job was told of a failure | RunOnce |
| dispute | `app/activities/dispute.py` | none; the service's filings | POST | at most one filing | RunOnce |
| kill switch | `idempotency.py` (`maybe_kill`), `app/demo.py` | one row, armed or not | arm, read, disarm and exit | one arming, one exit | RunOnce |
| AgentJobWorkflow | `app/workflows/agent_job.py` | pause, decisions, event stream (durable) | run, submit_approval, pending_approval | gated calls wait for their own approval; the stream tells the truth; auxiliary failures never fail a job; a job ends or waits for a human | AgentJob, PausingJob |
| ApprovalGate, GuardrailGate | `app/workflows/approval.py`, `guardrail.py`, `app/activities/guardrail.py` | none (the agent's interrupt state) | one hook each before a tool call | denied or blocked calls do not run | AgentJob |
| other activities | `app/activities/registry.py`, `memory.py`, `hosted.py` | rows, memory events | resolve, mark started, recall, record, invoke | retryable, best effort where the workflow says so | AgentJob, JobIndex, DemoReset |
| registry | `app/registry/repository.py`, `cli/main.py`, `app/api/routes/tenants.py` | tenants with their installs, package versions | put, install, uninstall, publish, register-hosted, unregister, tenant add | an install names a published agent; no update is lost | Registry |
| job index | `app/sessions.py`, `app/demo.py`, `app/registry/fleet.py`, `priority.py` | one row per job and its index entry, fairness setting | start a session, flood, mark started, list, count | a row is there before its workflow; success means all is started | JobIndex |
| routing | `app/registry/deployment.py`, `app/demo.py`, `scripts/verify_pinning.py` | current and ramping version (Temporal), pins | set current, set ramp, clear, promote | a pinned session keeps its version; a promotion is complete | Routing |
| reset and seed | `scripts/reset.py`, `scripts/seed_demo.py` | none of its own | plan, delete, restore, recount | exit code 0 means clean | DemoReset |
| preflight | `scripts/preflight.py`, `app/config.py` | none | twenty checks side by side | 0 is a go, every check has its row | Preflight |
| session pane | `app/api/routes/events.py`, `jobs.py`, `ui/src/components/SessionTerminal.tsx` | transcript, session state, a stream | subscribe, ask, poll, decide | nothing is missed, a pause can be decided, it stops reconnecting | Clients |
| auto-approval helper | `scripts/_approval.py` | none | wait, query, signal | it comes back when the job does | Clients |
| policy and manifests | `app/registry/models.py`, `manifest.py`, `validate.py` | none | resolve_field, requires_approval, validate | the gate fires exactly when the policy matches | not modelled |

How they interact. A caller writes a job row and starts the workflow. The workflow marks the row
started, loads the package, recalls memory, and runs the agent loop (Strands) whose model turns
and tools are activities on worker processes. Before a tool, two hooks run in the workflow: one
may interrupt the agent, which makes the workflow publish `approval_pending` and wait for a
signal; the other asks an activity for a verdict. A consequential tool is `run_once` around an
HTTP POST. Events are published by the workflow, relayed over SSE and rendered by the session
pane, which also polls and queries the workflow. Operators change the registry and the routing
with commands of two or more requests each, and nothing but DynamoDB and Temporal is shared
between them.

`PROJECT.json` lists what is hard to test, each hazard at its line with the properties that watch it.

## Modules

The specifications, and what extends or implements what:

```
OnceOnly   <-- implemented by --  RunOnce
PausingJob <-- implemented by --  AgentJob
PausingJob <-- extended by ----   Clients      (the job, and who looks at it)
JobIndex   <-- extended by ----   DemoReset    (the jobs, and the script that deletes them)
Registry, Routing, Preflight                   (each on its own state)
```

`MCRunOnce`, `MCRegistry`, `MCJobIndex`, `MCDemoReset` and `MCPreflight` only give TLC symmetry sets and
constants that a `.cfg` cannot write. The theorems about a module `X` are in `XProofs` (`DemoReset`: `ResetProofs`). An operator `X_Something` beside `X` is a plausible bug of `X`; no specification
uses it.

### OnceOnly and RunOnce

`OnceOnly` is what a consequential call promises its workflow: an effect at most once, while the call
is open; one verdict; success only on an effect. An attempt of a call in `RunOnce` has a program counter
over `run_once`:

| label | code | action |
|---|---|---|
| reading | `get_idempotency_record`, replay if completed | `ReadRecord` |
| claiming | `claim_idempotency_key` and the "already in flight" error | `Claim` |
| checking | payment only: GET /payments, look for the confirmation_id | `CheckProvider` |
| posting, awaiting | POST with httpx's timeout, status classes | `SendPost`, `GiveUp`, `Accept`, `Refuse` |
| killCheck, firing | `maybe_kill`: get, put(armed=False), `os._exit` | `ReadSwitch`, `FireSwitch` |
| completing | `complete_idempotency_record` | `Complete` |

`record` is the idempotency record, `effects` what the provider has applied, `status` and `attempt` the
server's view of the call. `StartAttempt`, `Timeout` and `Report` are the Temporal server under
`CONSEQUENTIAL` (30 s, three attempts). `Raise` is an error without effect; errors *with* effect, where
only the answer is lost, are in `Claim`, `FireSwitch`, `Complete` and `Accept`. `Crash` kills a process with
all attempts it hosts. Between the labels in `Synchronous` and the next one there is no `await`, so other
coroutines of the same process cannot run there (`Free`); other processes can.

Four constants are the environment. `ChecksProvider` tells the payment from the dispute. `StaleReads`:
`get_item` is called without `ConsistentRead`. `LatePosts`: a request may be applied after its sender gave
up or died. `Overlap`: start_to_close may expire under a running attempt; httpx's 10 s are per operation
and boto3's retries are its own, so 30 s can pass.

### AgentJob and PausingJob

An action of `AgentJob` is one activation of the workflow, from an activity's answer to the next await:
`MarkJobStarted`, `ResolveAgentPackage`, `RecallMemory`, `InvokeHosted`, `RecordMemory`, `Return` for `run` and
`_run_hosted`, `AwaitApproval` and `Resume` for the two halves of the loop over interrupts, `SubmitApproval`
for the signal. `use[u]` is the life of one tool use in the agent loop: `RunHooks` (ApprovalGate, then
GuardrailGate, which runs even after an interrupt), `ApplyGuardrail` and `GuardrailFails` (its activity),
`RunTool`. A worker crash is no action here: the workflow's state is replayed, and what a crash does to an
activity is `RunOnce`. `events` is the `job_events` topic; the token stream is left out.

`PausingJob` is the same job seen from outside: a log that only grows, the pause a query shows, the answers
that signals bring, a status. It forgets why a job talks or fails.

### Clients

The session pane (`Mount`, `Open`, `Deliver` with its three listeners, `OnError`, the state request in its
stages `asked`, `described`, `answered`, the poll, `Decide`) and `result_with_auto_approval` (wait, query, signal
and its error path), on the job of `PausingJob`. An instance has either a pane or a helper, each with other
reviewers beside it. Every connection replays the stream from its start, as `subscribe` is called without an
offset. Answers of state requests are lost, late and overtake each other. `asOf`, `spoilt` and `elsewhere` are
histories for the properties.

### Registry

One step is one request to DynamoDB. `install_agent` is `InstallRead`, `InstallCheck`, `InstallPut`; uninstall
two steps; `dos agent unregister` lists versions, scans tenants, sweeps them (a read and a put each) and
then deletes versions one by one. `TenantAdd` and `Publish` are one put. `CutOff` ends any command between two
requests. `older[t]` is what a `get_item` may still return, `Scans` the one page that `scan` returns. `calm` and
`granted` are histories: no two commands overlapped and no read was old; what they asked for.

### JobIndex

`Resolve` fixes the priority and versions of a submission once, `PutJob` and `StartWorkflow` are the two requests
of `submit_one`, in any order between its coroutines. `OneFails` is a failed request (also one that was applied),
after which `gather` raises while the other coroutines go on in the API and are cancelled in the CLI. `index` is
gsi1, which follows the row at once or later. `Begin`, `MarkJobStarted` and `Close` are the workflow.
`List`, `TenantQueued` and `TenantRunning` are what `fleet.py` shows.

### DemoReset

`reset.py --yes`, one step a request: `Plan` pages through the index, `ReadBuckets` asks Mockoon, `DeleteRow` and
`DeleteResult` are the two deletions of one job, `ListMemory` and `DeleteEvent` purge the memory, then settings, ramp and
Mockoon, then `Confirm`. Around it are `JobIndex`'s jobs, rehearsals, a Mockoon that goes and comes, and `VerifyStops`:
`scripts/verify.py` is the only code that writes a result row, and may stop before it deletes its own. `Listings` are the
sets of tenants that a run may work on, `--tenant` or whatever one page of the table scan shows; the recount uses the
same ones. `Raises` is an AWS or Temporal error, which nothing catches there, between `DeleteRow` and `DeleteResult` as
anywhere else; `RunAgain` is the operator's answer to it. `orphans` is a history for the property: result rows that had no
job row when the run began.

### Routing

A command of `set_ramp`, `clear_ramp` or a promotion is the fetch of the conflict token (`Ask`) and the write, which the
server refuses when the token is old. A promotion is two such writes, the second with a token fetched anew.
Sessions are pinned by their first task and run only on their build's worker. `scripts/verify_pinning.py` is one
more client with a worker of its own, one step per line that waits, its `finally` included.

### Preflight

The world is a set of troubles, one of `Worlds`. Each of the twenty checks says which of them it fails or warns on; the rows
in `Slow` answer at any time during the gather, the others together at any one moment. `Tick` is time, during the gather and
after an exit 0; the SSO token ends `lifetime` ticks after the start, and from then on every AWS-backed check fails.
`Margin` is `SSO_WARN_THRESHOLD` in the same ticks. A check may crash (`Guarded`). The settings and the Temporal client are loaded before the gather, outside
of any row, as in `main`.

## Runs

| run | instance | question |
|---|---|---|
| payment | 1 call, 2 workers, 3 attempts, 1 arming, stale reads | is the provider charged once, is `OnceOnly` implemented, does every call close? |
| overlap | 1 call, 2 workers, everything allowed, worker symmetry | what is left in the worst environment: no false success, one winner of the claim |
| kill_switch | 2 payments, 1 worker, 2 attempts, 1 arming | one exit per arming; no call takes another's payment; a completion is final |
| approvals | calls gated, guarded, and both, in any turns; native, hosted and unresolvable packages | the approvals and verdicts of a job; `PausingJob` implemented; it ends or waits for a human |
| clients | 2 pauses, 2 state requests, a log of 3 entries, 1 poll | is anything missed, can each pause be decided, do pane and helper stop? |
| registry | 2 tenants, 2 agents, 2 versions, 2 operators, 2 other rows, pages of 6 | dangling, lost and invented installs |
| flood | 2 tenants, a flood of 2 and a session, listing limit 2, faults, lagging index | are jobs counted, uniform, listed, and is success true? |
| reset | 2 tenants, runs with `--tenant acme`, 2 jobs, pages of 1 row | is exit code 0 the truth, does a repeated reset get there, do rows come back? |
| pinning | 3 builds, 2 operators, 1 session beside the script's 2, a ramp that takes it and the first of those | is a pass a proof, is a promotion complete, does the script pass? |
| preflight | every pair of 37 troubles, 2 slow rows, a token of 0, 1, 2 or 9 ticks, a margin of 2, 3 ticks | is a go safe, does a token that passed last, are all rows printed? |
| dispute_twice | 1 call, 1 worker, 2 attempts | finding 1 below |
| tenant_update | 2 tenants, 2 agents, 1 operator, fresh reads | finding 2 below |

### Bounds

Attempts of a call are bounded by the code (3). Two workers are enough for a crash to leave a survivor and for
an old attempt to overlap a new one; calls interact only through the workers and the switch, so two of them are used
where that is the question. `MaxArms`: one arming is one rehearsal. Three tool uses are one of each kind that the
hooks tell apart, in every grouping into turns; two decisions, since the code compares with `"approve"` only.
`Slots` is the number of state requests on their way: the third is only asked when one is back; two can overtake each
other. `MaxLog` is the length of the log up to which the job may talk or pause, so that a pause, its resumption and
the next pause happen. `MaxJobs` and `ListLimit`: two jobs are listed and three exist, so a listing is cut off. In
`Registry` only the row that was put last may be read as it was before, and a page has room for all rows but not for all
possible ones. One `Page` row with two jobs makes reset page; a run of one tenant out of two shows what a tenant that is not listed keeps
(the proofs are for any listings). In `preflight` the token may be out at the start, end while rows are still open, end
after the exit, or outlast all; two troubles
at a time (`MCPreflight`: `Pairs`) are enough for one check to hide another's; the ghost worker is left out (see below).

Runs that set `CHECK_DEADLOCK FALSE` do so because the system stops there: closed calls, closed jobs, an exit.

### Fairness

`RunOnce`: the server dispatches and times out, and an attempt that can run is scheduled, every await in it having a
timeout of its own. `AgentJob`: the workflow's own steps go on (activities answer or run out of attempts; the
registry load, retried without limit, answers in the end). Signals are not fair: a reviewer may never answer, and
`ClosesOrWaits` says so. `Clients`: the job goes on, the browser opens, delivers and notices the end of a response, each
state request is answered or fails, the helper's coroutine is scheduled; nobody has to decide. `Routing`: workers that
are alive take tasks and the script goes on; operators need not. `Preflight`: the event loop runs every row. All these
are weak. The only strong fairness is in `DemoReset`, for an operator who runs reset again after a failure, and
`ResetGetsThere` names what may defeat it. No fairness forces a crash, an error, an arming or an expiry.

## Findings

1. `dispute_twice`: a crash between the filing and its record files again. The dispute activity relies on the record
   alone, which cannot tell a crash before the POST from one after; `dispute.py:71` says "at most once, however many
   retries".
2. `tenant_update`: `dos tenant add` on a tenant that exists empties its installs; `cli/main.py:218` says "Add or update".

### What the side conditions mean

Properties carry side conditions where the code does not keep them otherwise. What lies behind each; the checked
runs state what remains true.

- A payment POST that is applied after its sender gave up is not seen by the next attempt's GET: two payments
  (`payment.py:59`, against `:90`). `AtMostOnce` is for prompt posts.
- Two worker processes may both exit for one arming: reading and disarming are two requests (`idempotency.py:35`,
  against `models.py:175`). `OneExitPerArm` is for one process.
- The guardrail is asked again after an approval, and only the last verdict counts: a call whose blocked verdict was
  published may run (`guardrail.py:49`, against `verify_guardrail.py:13`). `GuardrailDecides` is about the last.
- An install and an unregister that overlap leave an install without a version (`repository.py:103`, against
  `docs/DECISIONS.md:307`); two installs that overlap lose one (`repository.py:107`); an old copy that is put back
  undoes a command (`:80`); a scan sees one page (`:87`), so an unregister misses tenants. Hence `calm`.
- A row whose start failed stays queued for ever (`sessions.py:43`, against `fleet.py:75`), as does one whose
  `mark_job_started` failed (`agent_job.py:107`); the count sees the newest 500 rows (`fleet.py:84`, against `:11`)
  and what the index holds. `WaitingIsCounted` says that no waiting job is missed, not that all counted ones wait.
- reset asks for the first page again where it means the next (`reset.py:63`, against `:59`), so that one run
  removes a page; it deletes the rows of running jobs (`:240`), whose payments and summaries arrive later; an AWS error
  ends it before the settings are restored (`:246`, against `docs/RUNBOOK.md:198`). An error between the two deletions of a
  job (`:240`, `:241`) leaves a result row that no later run lists or counts, as does a verify.py that stops between
  its own two (`verify.py:88`): the next reset exits 0 beside it (against `:5` and `docs/RUNBOOK.md:111`). That is the
  exception `orphans` in `Clean`; without it TLC finds `ExitZeroIsClean` violated, and so it does without the restriction
  to the tenants of the run, which come from one page of a scan (`:198`, `repository.py:87`). Seeding pays after the reset
  (`seed_demo.py:38`, against `docs/RUNBOOK.md:188`).
- verify_pinning prints, but does not fail on, a restore or a cleanup that fails (`verify_pinning.py:150`).
- A worker that died within the last minutes still counts as a poller (`preflight.py:425`), which is the ghost
  worker; settings that do not load raise before any row (`:841`, against `:18`); a routing status that
  cannot be read fails rows that need only the client (`:848`, against `:22`); a blank value in `.env` becomes None and
  not the default (`config.py:28`).
- In the pane an older state answer that arrives last shows a pause that is over, and its button answers that
  one (`SessionTerminal.tsx`); `PauseIsVisible` excludes it with `spoilt`. A reconnection shows entries twice
  (`events.py:74`, against `:4`), which `NothingMissed` allows. The polls after `job_finished` give up after 2.4 s
  (`SessionTerminal.tsx:202`).

## Proofs

TLAPS checks them for every value of the constants that the modules' assumptions allow. Each argument is an
inductive invariant, stronger than what it proves.

`RunOnceProofs`, for any calls, workers, attempts and armings:

- `TypesHold`: `TypeOK` is inductive.
- `SuccessIsNeverFalse`: `NoFalseSuccess`, in every environment. One conjunct more: an attempt that is past
  `perform` has an effect behind it. A stale read shows a completion only if there is one.
- `PaymentAtMostOnce`: for a payment with prompt posts and no overlap. A record cannot give this: after a crash it is
  pending whether or not the POST was applied. The argument (`PromptInv`): only the latest attempt of a running
  call is alive, a post on its way has its sender waiting, and an attempt about to post found no effect and there
  still is none; the last is what makes `Accept` go from 0 to 1. Stale reads, the kill switch and all errors are allowed.
- `PaymentKeepsPromise`: `Spec => OnceOnly!Spec` under the refinement mapping, from the same invariant: `Accept` is
  `Perform`, the step that closes the call is `Succeed` or `Fail`, the rest stutters.
- `CompletionEndsTheCall`: `CompletedIsFinal`, for filings and payments, with fresh reads.
- `RaceHasOneWinner`: `RaceLoserStops`, everywhere. At most one attempt is `Blind`, and none is while there is no record;
  the conditional put is the only step that makes one, and it creates the record.
- `OneArmingOneExit`: `OneExitPerArm` for one process (`OneProcess`): there is no await between the read and the
  exit, so nobody else of that process is between them.
- `EffectsAreClaimedAndBounded`: in every environment, finding 1's included, a call has at most as many effects as
  attempts were dispatched, and none without a record. `PostInv`: an attempt that has posted is past its POST for good,
  whoever posts or is about to has a record behind it, and effects and posts on their way are no more than posts sent.

`AgentJobProofs`, for any tool uses, gates, decisions, verdicts: `JobTypes`, `ApprovalComesFirst`, `NobodyIsAskedTwice`,
`QueryShowsThePause`, `VerdictDecides`, `FinishIsFinal`. One invariant carries all (`IInv`): the order of hooks, call and
result of each use; the pause is what the stream ends in; a use waits only if its pause was told; what was decided was
told. `JobImplementsPausingJob` maps a state to `PausingJob` (notes for all other entries) and each action to one of its
actions or a stutter.

`ClientsProofs`, any pauses, slots and bounds:

- `TranscriptHasNoGap`: `NothingMissed`. What is shown is closed downwards and reaches the entry before the next delivery.
- `ClientsTypes`, and from the same invariant (`ClientsInv`) what safety there is behind the liveness that `clients` checks:
  `ButtonsAnswerRealPauses` (a pause the pane shows was told, and is open or was told to be over), `PaneOutlastsTheJob`
  (the source is closed only at the job's end), `ShownEndIsComplete` (a pane that shows `job_finished` shows everything),
  `HelperRaisesOnlyIfOvertaken` (alone with a job the helper never raises). It says of each answer under way that what it
  carries was so once: a pause that was told stays told, a job that has closed stays closed.
- `ClientsKeepToTheJob`: `Spec => JobSpec`. With `JobImplementsPausingJob` both sides of the interface are proved: the
  job keeps what the clients rely on, and the clients do no more to it than the interface allows.

`RegistryProofs`, any tenants, agents, operators, page size: `RegistryTypes`; `NoInstallFromNothing` (with what commands
have read: a copy only has agents that were once written); `CommandsLeaveNoBrokenInstall` and `RowsFollowTheCommands`
(`CalmInv`: while calm at most one command is under way, its copy is the row, and the phase says which of row, wish
and versions is ahead).

`JobIndexProofs`, any tenants, submissions, limits: `JobIndexTypes`, `FloodKeepsOneKey`, `SuccessStartedAll`,
`WaitingJobsAreCounted`, `FloodListsItsOwn`. The invariant: a submission's rows are its own, newer than what it
listed, under its key, and started unless still to be (`Keeps`, `OwnJobs`); a waiting workflow has a queued row, an
index entry has a row (`RowsFirst`). The listing's limit is an argument about cardinalities: fewer rows are newer
than a row of the flood than the flood has.

`ResetProofs`, any rows, page size and listings of tenants: `ResetTypes`, `ZeroMeansClean`, `DeletedRowsStayAway`. While
nobody disturbs, each result row of a job that had its row is kept together with that row until reset deletes both, or is
the one that reset deletes next: an error in between ends the run without an exit 0. Reset only takes rows away, so that an empty listing of the index means no rows (the newest row of a tenant would be on its
first page), and the ramp stays cleared. `ResetCostsNoWorkflow` and `ResetKeepsOneKey`: of what JobIndexProofs shows of
a submission, the part that speaks of workflows (`StartsInv`) survives a reset that deletes rows and restores the toggle in
the middle of it; the part that counts rows does not, and needs a demo that is left alone.

`RoutingProofs`, any builds, operators, sessions: `RoutingTypes`, `ScriptServesItsSessions`, `PassedMeansPinned`,
`PromotionTakesBoth`. The invariant: what the script has seen of its sessions by the stage it is in, that it has a command
under way only where it waits for one, and that between its two requests a promotion is current unless its token is old.

`PreflightProofs`, any set of worlds, each with any number of troubles at once, any slow rows and any order of answers:
`PreflightTypes`; `GoMeansGo` (`GoIsSafe`), on the hypothesis that no world has the ghost worker, which no row can see;
`NoGoHasAReason` (exit 1 only for a crashed check, a trouble the demo cannot live with, or a token that has run out);
`ExpiryIsForetold` (`ExpiryWasForetold`: for any lifetime and margin, a token that its row passed lasts the whole margin from
the moment the row looked, through the gather and past an exit 0; a role without AWS_PROFILE passes without a look,
`preflight.py:235`, and is excepted). Two lemmas about the checks carry it: the twenty rows watch every trouble that is not tolerable
(`NothingIsOverlooked`), and a row fails on what it watches whatever else is wrong (`WatchedTroubleFails`; some
checks pass over what an unset setting has made `.env` fail on already). The invariant: a
row without a FAIL found nothing wrong among what it watches, a FAIL has a reason, and the row of the credentials says how
much of the token was left when it looked (`looked`).

Assumptions are the `ASSUME`s of the modules and, in `RunOnceProofs` and `GoMeansGo`, what is named above as a hypothesis.

Model-checked only: liveness (`EveryCallCloses`, `ClosesOrWaits`, `AnswerResumes`, `StopsReconnecting`, `PauseIsVisible`,
`HelperComesBack`, `ResetGetsThere`, `PinningPasses`, `EveryRowIsPrinted`), which is out of the prover's reach. Every invariant and
action property of the passing runs is proved.

## Not modelled

- The sandbox activity and the fraud swarm: one external call each, whose session or result nothing here reads
  again. The sandbox's use of `maybe_kill` is `RunOnce`'s.
- Policies and manifests (`models.py`, `manifest.py`, `validate.py`): pure functions of manifests and tool inputs. What they
  decide, whether a call is gated, is an input of `AgentJob`, over all its values.
- The metrics (`metrics.py`, p95): read-only.
- The rest of the API and of the UI: routes and panels that render polled state or call a command modelled above.
- The other verify scripts: they drive the system from outside; what they assert is in the modules of what they verify.
- Prompts, output models, codecs, payload offloading, agent packages, mocks and infrastructure: data and I/O. The hosted
  agent is a separate program.
- Worker concurrency limits, and Temporal's dispatch order within a fairness key: the server's.
