------------------------------ MODULE AgentJob ------------------------------
(***************************************************************************)
(* One AgentJobWorkflow execution (app/workflows/agent_job.py) with its    *)
(* two hooks, ApprovalGate and GuardrailGate, the approval signal and the  *)
(* event stream.  The workflow's state is durable: Temporal replays it     *)
(* after a worker crash, so a crash is invisible here; what a crash does   *)
(* to an activity is RunOnce's subject.  Each action is one activation of  *)
(* the workflow, from an activity's answer to the next await.              *)
(*                                                                         *)
(* The agent loop is external (Strands): a model turn proposes tool uses,  *)
(* each with an id of its own; the hooks of every use run before it; the   *)
(* uses of a turn run concurrently; when a hook interrupted one, the       *)
(* invocation returns after the others have their results, and resuming it *)
(* runs the hooks of the interrupted uses again.                           *)
(***************************************************************************)
EXTENDS Integers, Sequences

CONSTANTS
  Uses,         \* tool uses the model may propose in this job
  Gated,        \* those the package's approval_policy matches
  Guarded,      \* those of a tool in GUARDED_TOOLS
  Decisions,    \* decision texts of a reviewer, "approve" among them
  Verdicts,     \* what apply_guardrail answers: is a Guardrail configured?
  Packages,     \* kinds of package the job's agent may resolve to
  None

(* "hosted": package.tier is HOSTED; "unresolvable": a native package that *)
(* names an unknown tool, MCP server or output model.                      *)
PackageKinds == {"native", "hosted", "unresolvable"}

ASSUME AgentJobAssumption ==
  /\ Gated \subseteq Uses /\ Guarded \subseteq Uses
  /\ "approve" \in Decisions /\ None \notin Decisions \cup Uses
  /\ Verdicts \in {{"passed", "blocked"}, {"unevaluated"}}
  /\ Packages \subseteq PackageKinds

VARIABLES
  phase,      \* where run() is
  package,    \* the resolved package
  row,        \* status in the job index; not every caller puts a row
  use,        \* each tool use, as the agent loop sees it
  response,   \* the answers the agent has been resumed with
  decisions,  \* self._decisions
  pending,    \* self._pending, by interrupt
  events      \* the job_events topic of self.stream

agent == <<use, response>>
vars  == <<phase, package, row, agent, decisions, pending, events>>

Phases == {"starting", "resolving", "recalling", "hosted", "thinking", "acting",
           "waiting", "recording", "lingering", "completed", "failed"}

Closed == {"completed", "failed"}

UseStates == {"unasked", "proposed", "guarding", "interrupted", "running",
              "finished", "refused"}

Event(kind, u, detail) == [kind |-> kind, use |-> u, detail |-> detail]

Publish(kind, u, detail) == events' = Append(events, Event(kind, u, detail))

Init ==
  /\ phase = "starting"
  /\ package = None
  /\ row \in {"absent", "queued"}
  /\ use = [u \in Uses |-> "unasked"]
  /\ response = [u \in Uses |-> None]
  /\ decisions = [u \in Uses |-> None]
  /\ pending = None
  /\ events = <<>>

Enter(here, next) == phase = here /\ phase' = next

-----------------------------------------------------------------------------
(* run(), up to the agent.                                                 *)

(* Mutant: a missing row is an error, and it is retried without limit. *)
MarkJobStarted_NeedsRow ==
  /\ Enter("starting", "resolving")
  /\ row = "queued" /\ row' = "running"
  /\ Publish("job_started", None, None)
  /\ UNCHANGED <<package, agent, decisions, pending>>

(* mark_job_started ends after at most three attempts, with or without its *)
(* conditional update applied; a failure is swallowed.                     *)
MarkJobStarted ==
  /\ Enter("starting", "resolving")
  /\ \/ UNCHANGED row
     \/ row = "queued" /\ row' = "running"
  /\ Publish("job_started", None, None)
  /\ UNCHANGED <<package, agent, decisions, pending>>

(* resolve_agent_package is retried until it answers; an unknown version   *)
(* is AgentPackageNotFound, which is not retried.                          *)
ResolveAgentPackage ==
  /\ \/ Enter("resolving", "recalling") /\ package' \in Packages
     \/ Enter("resolving", "failed") /\ UNCHANGED package
  /\ UNCHANGED <<row, agent, decisions, pending, events>>

(* The notes of earlier jobs, or none: recall failing is swallowed.  Then, *)
(* without an await, the branch on the package's tier.                     *)
RecallMemory ==
  /\ \/ package = "hosted"       /\ Enter("recalling", "hosted")
     \/ package = "native"       /\ Enter("recalling", "thinking")
     \/ package = "unresolvable" /\ Enter("recalling", "failed")
  /\ \E recalled \in {<<>>, <<Event("memory_recall", None, None)>>} :
       events' = events \o recalled
         \o IF package = "hosted" THEN <<Event("tool_call", None, None)>> ELSE <<>>
  /\ UNCHANGED <<package, row, agent, decisions, pending>>

(* The shared tail of both lanes. *)
Finish ==
  /\ phase' = "recording"
  /\ Publish("job_finished", None, None)

(* invoke_hosted_agent: an answer, or two failed attempts.                 *)
InvokeHosted ==
  /\ phase = "hosted"
  /\ \/ Finish
     \/ phase' = "failed" /\ UNCHANGED events
  /\ UNCHANGED <<package, row, agent, decisions, pending>>

-----------------------------------------------------------------------------
(* The agent loop.                                                         *)

(* A model turn: some tool uses, the final answer, or a failed model call. *)
Propose(turn) ==
  /\ Enter("thinking", "acting")
  /\ turn # {}
  /\ \A u \in turn : use[u] = "unasked"
  /\ use' = [u \in Uses |-> IF u \in turn THEN "proposed" ELSE use[u]]
  /\ UNCHANGED <<package, row, response, decisions, pending, events>>

EndTurn ==
  /\ phase = "thinking"
  /\ Finish
  /\ UNCHANGED <<package, row, agent, decisions, pending>>

ModelFails ==
  /\ Enter("thinking", "failed")
  /\ UNCHANGED <<package, row, agent, decisions, pending, events>>

(* ApprovalGate._gate: event.interrupt returns the response of a resumed   *)
(* agent, and interrupts the use when there is none.                       *)
AsksHuman(u) == u \in Gated /\ response[u] = None

(* Mutant: a denial is not told from a missing answer. *)
Denied_Unread(u) == u \in Gated /\ response[u] = None

Denied(u)    == u \in Gated /\ response[u] \notin {None, "approve"}

(* Mutant: verdict.blocked is not acted on. *)
AfterHooks_Unblocked(u, blocked) ==
  IF AsksHuman(u) THEN "interrupted" ELSE IF Denied(u) THEN "refused" ELSE "running"

(* An interrupt takes precedence over cancel_tool.                         *)
AfterHooks(u, blocked) ==
  IF AsksHuman(u) THEN "interrupted"
  ELSE IF Denied(u) \/ blocked THEN "refused" ELSE "running"

(* The hooks of a use: ApprovalGate, then GuardrailGate, which a raised    *)
(* interrupt does not keep from running.                                   *)
RunHooks(u) ==
  /\ phase = "acting"
  /\ use[u] = "proposed"
  /\ use' = [use EXCEPT ![u] = IF u \in Guarded THEN "guarding"
                               ELSE AfterHooks(u, FALSE)]
  /\ UNCHANGED <<phase, package, row, response, decisions, pending, events>>

ApplyGuardrail(u) ==
  /\ phase = "acting"
  /\ use[u] = "guarding"
  /\ \E verdict \in Verdicts :
       /\ use' = [use EXCEPT ![u] = AfterHooks(u, verdict = "blocked")]
       /\ IF verdict = "unevaluated" THEN UNCHANGED events
          ELSE Publish("guardrail", u, verdict)
  /\ UNCHANGED <<phase, package, row, response, decisions, pending>>

(* Two failed attempts of apply_guardrail raise out of the hook: the use   *)
(* does not run, and the agent loop or the whole job fails on it.          *)
GuardrailFails(u) ==
  /\ phase = "acting"
  /\ use[u] = "guarding"
  /\ \/ use' = [use EXCEPT ![u] = "refused"] /\ UNCHANGED phase
     \/ phase' = "failed" /\ UNCHANGED use
  /\ UNCHANGED <<package, row, response, decisions, pending, events>>

(* The tool's activity: a result or an error result for the model, or an   *)
(* error that fails the job.                                               *)
RunTool(u) ==
  /\ phase = "acting"
  /\ use[u] = "running"
  /\ \/ use' = [use EXCEPT ![u] = "finished"] /\ UNCHANGED phase
     \/ phase' = "failed" /\ UNCHANGED use
  /\ UNCHANGED <<package, row, response, decisions, pending, events>>

InvocationEnds ==
  /\ phase = "acting"
  /\ \A u \in Uses : use[u] \notin {"proposed", "guarding", "running"}

Interrupted == {u \in Uses : use[u] = "interrupted"}

NextTurn ==
  /\ InvocationEnds
  /\ Interrupted = {}
  /\ phase' = "thinking"
  /\ UNCHANGED <<package, row, agent, decisions, pending, events>>

(* Mutant: result.interrupts for result.interrupts[0]. *)
AwaitApproval_All(u) ==
  /\ InvocationEnds
  /\ u \in Interrupted
  /\ phase' = "waiting"
  /\ pending' = Interrupted
  /\ Publish("approval_pending", u, None)
  /\ UNCHANGED <<package, row, agent, decisions>>

(* Mutant: `if` instead of `while`: a second pause ends the run. *)
AwaitApproval_If(u) ==
  /\ InvocationEnds
  /\ u \in Interrupted
  /\ IF \A v \in Uses : response[v] = None
     THEN phase' = "waiting" /\ pending' = u /\ Publish("approval_pending", u, None)
     ELSE Finish /\ UNCHANGED pending
  /\ UNCHANGED <<package, row, agent, decisions>>

(* stop_reason "interrupt": one pass of the loop up to wait_condition, on  *)
(* interrupts[0], whichever use that is.                                   *)
AwaitApproval(u) ==
  /\ InvocationEnds
  /\ u \in Interrupted
  /\ phase' = "waiting"
  /\ pending' = u
  /\ Publish("approval_pending", u, None)
  /\ UNCHANGED <<package, row, agent, decisions>>

(* The decision goes to the agent as the response to this interrupt, and   *)
(* the hooks of all interrupted uses run again.                            *)
HandDecision ==
  /\ phase' = "acting"
  /\ response' = [response EXCEPT ![pending] = decisions[pending]]
  /\ use' = [u \in Uses |-> IF u \in Interrupted THEN "proposed" ELSE use[u]]
  /\ Publish("approval_resumed", pending, decisions[pending])
  /\ UNCHANGED <<package, row, decisions>>

(* Mutant: the wait ends on any decision. *)
Resume_AnyDecision ==
  /\ phase = "waiting" /\ \E u \in Uses : decisions[u] # None
  /\ pending' = None
  /\ HandDecision

(* Mutant: self._pending is not cleared. *)
Resume_StaysPending ==
  /\ phase = "waiting" /\ decisions[pending] # None
  /\ UNCHANGED pending
  /\ HandDecision

(* Mutant: the wait ends on approval only. *)
Resume_OnApproval ==
  /\ phase = "waiting" /\ decisions[pending] = "approve"
  /\ pending' = None
  /\ HandDecision

(* wait_condition is met.                                                  *)
Resume ==
  /\ phase = "waiting" /\ decisions[pending] # None
  /\ pending' = None
  /\ HandDecision

-----------------------------------------------------------------------------
(* After the agent.                                                        *)

(* Mutant: a failed memory write is raised. *)
RecordMemory_Raises ==
  /\ Enter("recording", "lingering") \/ Enter("recording", "failed")
  /\ UNCHANGED <<package, row, agent, decisions, pending, events>>

(* record_tenant_memory, written or given up: failure is swallowed.        *)
RecordMemory ==
  /\ Enter("recording", "lingering")
  /\ UNCHANGED <<package, row, agent, decisions, pending, events>>

(* sleep(500ms), so that subscribers can read the stream to its end.       *)
Return ==
  /\ Enter("lingering", "completed")
  /\ UNCHANGED <<package, row, agent, decisions, pending, events>>

-----------------------------------------------------------------------------
(* Interrupts whose id a reviewer can have seen. *)
Shown == {u \in Uses : \E i \in 1 .. Len(events) :
            events[i] = Event("approval_pending", u, None)}

(* The submit_approval signal, at any time before the workflow closes: in  *)
(* answer to the pause, a second time, with another decision, or late.     *)
SubmitApproval(u, d) ==
  /\ phase \notin Closed
  /\ u \in Shown
  /\ decisions' = [decisions EXCEPT ![u] = d]
  /\ UNCHANGED <<phase, package, row, agent, pending, events>>

-----------------------------------------------------------------------------
ToolStep(u) ==
  RunHooks(u) \/ ApplyGuardrail(u) \/ GuardrailFails(u) \/ RunTool(u) \/ AwaitApproval(u)

Step ==
  \/ MarkJobStarted \/ ResolveAgentPackage \/ RecallMemory \/ InvokeHosted
  \/ \E turn \in SUBSET Uses : Propose(turn)
  \/ EndTurn \/ ModelFails \/ NextTurn \/ Resume \/ RecordMemory \/ Return
  \/ \E u \in Uses : ToolStep(u)

Next == Step \/ \E u \in Uses, d \in Decisions : SubmitApproval(u, d)

Spec == Init /\ [][Next]_vars

(* Temporal runs the workflow on: activities answer or run out of attempts *)
(* (the registry, retried without limit, answers in the end).  Nobody has  *)
(* to answer a pause.                                                      *)
FairSpec == Spec /\ WF_vars(Step)

-----------------------------------------------------------------------------
TypeOK ==
  /\ phase \in Phases
  /\ package \in Packages \cup {None}
  /\ row \in {"absent", "queued", "running"}
  /\ use \in [Uses -> UseStates]
  /\ response \in [Uses -> Decisions \cup {None}]
  /\ decisions \in [Uses -> Decisions \cup {None}]
  /\ pending \in Uses \cup {None}
  /\ events \in Seq([kind : {"job_started", "memory_recall", "tool_call", "guardrail",
                             "approval_pending", "approval_resumed", "job_finished"},
                     use : Uses \cup {None},
                     detail : Decisions \cup {"passed", "blocked", None}])

At(kind, u) == {i \in 1 .. Len(events) : events[i].kind = kind /\ events[i].use = u}

Ran(u) == use[u] \in {"running", "finished"}

(* "When a tool call needs a human before it runs" (models.py:77): a gated *)
(* call runs only if the job paused for it and a reviewer's "approve" was  *)
(* the decision it resumed with, whatever was submitted for other calls,   *)
(* before or after (agent_job.py:328-362, approval.py:35-56).              *)
HumanFirst ==
  \A u \in Gated : Ran(u) =>
    \E i \in At("approval_pending", u), j \in At("approval_resumed", u) :
      i < j /\ events[j].detail = "approve"

(* A reviewer is asked once about a call and answered once: a duplicate,   *)
(* late or changed decision never reopens it, and the pause for one call   *)
(* never consumes the decision of another (agent_job.py:80-84, 350-362).   *)
AskedOnce ==
  \A u \in Uses : \A kind \in {"approval_pending", "approval_resumed"} :
    \A i, j \in At(kind, u) : i = j

(* What the session pane can query is exactly the pause the stream ends    *)
(* in: pending_approval is set while the job waits, names an interrupted   *)
(* call, and is cleared before anything else happens (agent_job.py:86-89,  *)
(* 332-355).                                                               *)
PauseIsShown ==
  IF phase = "waiting"
  THEN /\ pending \in Interrupted
       /\ events[Len(events)] = Event("approval_pending", pending, None)
  ELSE pending = None

(* A guarded call runs only if the last verdict published for it passed;   *)
(* no verdict is taken to be a pass unless nothing was evaluated           *)
(* (guardrail.py:45-67).                                                   *)
GuardrailDecides ==
  \A u \in Guarded : Ran(u) =>
    IF At("guardrail", u) = {} THEN "unevaluated" \in Verdicts
    ELSE \E i \in At("guardrail", u) :
           /\ \A j \in At("guardrail", u) : j <= i
           /\ events[i].detail = "passed"

(* job_finished ends the stream, once, and every call the model proposed   *)
(* has its result by then: the loop, "not an `if`", leaves no interrupted  *)
(* call behind (agent_job.py:326-364).                                     *)
FinishedIsFinal ==
  \A i \in At("job_finished", None) :
    /\ i = Len(events)
    /\ \A u \in Uses : use[u] \in {"unasked", "finished", "refused"}

(* What the clients of a job rely on.  A job implements PausingJob: it     *)
(* pauses and resumes in turn, tells everything in that order, takes       *)
(* answers to what it showed, and once it has said that it is finished it  *)
(* completes: the memory write and the final hold never fail it            *)
(* (agent_job.py:168-181 "Never fatal to the job itself").                 *)
Outside == INSTANCE PausingJob WITH
  Pauses  <- Uses,
  log     <- [i \in 1 .. Len(events) |->
                [kind |-> CASE events[i].kind = "approval_pending" -> "pending"
                            [] events[i].kind = "approval_resumed" -> "resumed"
                            [] events[i].kind = "job_finished" -> "finished"
                            [] OTHER -> "note",
                 use |-> IF events[i].kind \in {"approval_pending", "approval_resumed"}
                         THEN events[i].use ELSE None]],
  pause   <- pending,
  answers <- decisions,
  status  <- CASE phase = "completed" -> "COMPLETED" [] phase = "failed" -> "FAILED"
               [] OTHER -> "RUNNING"
ImplementsPausingJob == Outside!JobSpec

(* The job closes, or it waits for a reviewer who has not answered.        *)
ClosesOrWaits ==
  \/ <>(phase \in Closed)
  \/ <>[](phase = "waiting" /\ decisions[pending] = None)

(* Once a reviewer has answered a pause, approving or not, the job goes    *)
(* on (agent_job.py:350-362).                                              *)
AnswerResumes ==
  \A u \in Gated :
    (phase = "waiting" /\ pending = u /\ decisions[u] # None) ~> (pending # u)
=============================================================================
