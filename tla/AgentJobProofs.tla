--------------------------- MODULE AgentJobProofs ---------------------------
(* Theorems about AgentJob: for any tool uses, policies, decision texts and  *)
(* kinds of package, any grouping and order of the calls, and any number and *)
(* order of the reviewers' answers.                                          *)
EXTENDS AgentJob, SequenceTheorems, TLAPS

EventKinds == {"job_started", "memory_recall", "tool_call", "guardrail",
               "approval_pending", "approval_resumed", "job_finished"}
Events == [kind : EventKinds, use : Uses \cup {None},
           detail : Decisions \cup {"passed", "blocked", None}]

-----------------------------------------------------------------------------
(* What a step does to the event stream.                                     *)

(* It only grows.                                                            *)
Grows ==
  /\ Len(events) \in Nat /\ Len(events') \in Nat /\ Len(events) <= Len(events')
  /\ \A i \in 1 .. Len(events) : events'[i] = events[i]

(* publish appends one event to the stream.                                  *)
LEMMA PublishEffect ==
  ASSUME TypeOK, NEW kind, NEW u, NEW d, Publish(kind, u, d)
  PROVE  /\ Grows
         /\ Len(events') = Len(events) + 1
         /\ events'[Len(events) + 1] = Event(kind, u, d)
<1>1. events \in Seq(Events)
  BY DEF TypeOK, Events, EventKinds
<1>2. events' = Append(events, Event(kind, u, d))
  BY DEF Publish
<1>3. events \in Seq(Events \cup {Event(kind, u, d)})
  BY <1>1
<1> QED
  BY <1>2, <1>3, AppendProperties DEF Grows

(* It adds one position to the events of its own kind and call.              *)
LEMMA PublishAt ==
  ASSUME TypeOK, NEW kind, NEW u, NEW d, Publish(kind, u, d), NEW k, NEW v
  PROVE  At(k, v)' = IF k = kind /\ v = u THEN At(k, v) \cup {Len(events) + 1}
                     ELSE At(k, v)
<1>1. Grows /\ Len(events') = Len(events) + 1 /\ events'[Len(events) + 1] = Event(kind, u, d)
  BY PublishEffect
<1>2. 1 .. Len(events') = (1 .. Len(events)) \cup {Len(events) + 1}
  BY <1>1 DEF Grows
<1>3. events'[Len(events) + 1].kind = kind /\ events'[Len(events) + 1].use = u
  BY <1>1 DEF Event
<1>4. \A i \in 1 .. Len(events) : events'[i] = events[i]
  BY <1>1 DEF Grows
<1> QED
  BY <1>2, <1>3, <1>4 DEF At

(* The notes before the agent starts are of no kind that counts below.       *)
LEMMA RecallEffect ==
  ASSUME TypeOK, RecallMemory
  PROVE  /\ Grows /\ events' \in Seq(Events)
         /\ \A k, v : k \notin {"memory_recall", "tool_call"} => At(k, v)' = At(k, v)
<1> DEFINE Note(k) == Event(k, None, None)
<1>1. events \in Seq(Events) /\ Note("memory_recall") \in Events /\ Note("tool_call") \in Events
  BY DEF TypeOK, Events, EventKinds, Event
<1>2. PICK r \in {<<>>, <<Note("memory_recall")>>}, t \in {<<>>, <<Note("tool_call")>>} :
        events' = events \o r \o t
  BY DEF RecallMemory
<1>3. r \in Seq(Events) /\ t \in Seq(Events)
  <2>1. /\ <<>> \in Seq(Events)
        /\ <<Note("memory_recall")>> \in Seq(Events)
        /\ <<Note("tool_call")>> \in Seq(Events)
    BY <1>1
  <2> HIDE DEF Note
  <2> QED
    BY <2>1
<1>4. events' \in Seq(Events) /\ Len(events') = Len(events) + Len(r) + Len(t)
  BY <1>1, <1>2, <1>3
<1>5. \A i \in 1 .. Len(events) : events'[i] = events[i]
  BY <1>1, <1>2, <1>3
<1>6. \A i \in 1 .. Len(events') : i > Len(events) =>
         events'[i].kind \in {"memory_recall", "tool_call"}
  BY <1>1, <1>2, <1>3, <1>4 DEF Event
<1>7. Grows
  BY <1>1, <1>4, <1>5, <1>3 DEF Grows
<1>8. ASSUME NEW k, NEW v, k \notin {"memory_recall", "tool_call"}
      PROVE  At(k, v)' = At(k, v)
  BY <1>6, <1>7, <1>8 DEF At, Grows
<1> QED
  BY <1>4, <1>7, <1>8

-----------------------------------------------------------------------------
(* The inductive invariant.                                                  *)

Settled == {"unasked", "finished", "refused"}
Ending == {"recording", "lingering", "completed"}

(* Where a tool use may stand in each phase; why it is interrupted; and that *)
(* a gated use which ran had its approval as the agent's response.           *)
CallsInOrder ==
  /\ phase \notin {"acting", "waiting", "failed"} => \A u \in Uses : use[u] \in Settled
  /\ phase = "waiting" => \A u \in Uses : use[u] \in Settled \cup {"interrupted"}
  /\ \A u \in Uses : use[u] = "interrupted" => u \in Gated /\ response[u] = None
  /\ \A u \in Gated : Ran(u) => response[u] = "approve"

(* The stream tells of every pause and of the response that ended it.        *)
ToldInOrder(u) ==
  \E i \in At("approval_pending", u), j \in At("approval_resumed", u) :
    i < j /\ events[j].detail = response[u]

PausesAreTold ==
  \A u \in Uses :
    /\ At("approval_pending", u) # {} =>
         response[u] # None \/ (phase = "waiting" /\ pending = u)
    /\ phase = "waiting" /\ pending = u => At("approval_pending", u) # {}
    /\ IF response[u] = None THEN At("approval_resumed", u) = {} ELSE ToldInOrder(u)

(* An unconfigured Guardrail has no verdicts.                                *)
VerdictsAreTold ==
  "unevaluated" \in Verdicts => \A u \in Uses : At("guardrail", u) = {}

(* job_finished is said when the agent is done, and nothing after it.        *)
EndIsTold ==
  /\ \A i \in At("job_finished", None) : phase \in Ending /\ i = Len(events)
  /\ phase \in Ending => At("job_finished", None) # {}
  /\ \A u \in Uses : At("job_finished", u) = {}

IInv ==
  /\ TypeOK
  /\ CallsInOrder /\ PauseIsShown
  /\ PausesAreTold /\ AskedOnce
  /\ VerdictsAreTold /\ GuardrailDecides
  /\ EndIsTold

(* A new job has said nothing and proposed nothing.                          *)
LEMMA InitIInv == Init => IInv
<1> SUFFICES ASSUME Init PROVE IInv
  OBVIOUS
<1>1. events = <<>> /\ \A k, u : At(k, u) = {}
  BY DEF Init, At
<1>2. TypeOK
  BY <1>1, EmptySeq DEF Init, TypeOK, Phases, UseStates
<1>3. phase = "starting" /\ pending = None /\ \A u \in Uses : use[u] = "unasked" /\ response[u] = None
  BY DEF Init
<1>4. CallsInOrder /\ PauseIsShown
  BY <1>3, AgentJobAssumption DEF CallsInOrder, PauseIsShown, Ran, Settled
<1>5. PausesAreTold /\ AskedOnce /\ VerdictsAreTold /\ EndIsTold
  BY <1>1, <1>3 DEF PausesAreTold, AskedOnce, VerdictsAreTold, EndIsTold, Ending
<1>6. GuardrailDecides
  BY <1>3, AgentJobAssumption DEF GuardrailDecides, Ran
<1> QED
  BY <1>2, <1>4, <1>5, <1>6 DEF IInv

(* While the job waits, pending_approval names an interrupted use.           *)
LEMMA WaitsOn ==
  ASSUME IInv, phase = "waiting"
  PROVE  pending \in Uses /\ use[pending] = "interrupted" /\ pending # None
BY AgentJobAssumption DEF IInv, PauseIsShown, Interrupted

(* What the hooks of a use can make of it.                                   *)
LEMMA HooksOutcome ==
  ASSUME NEW u, NEW blocked \in BOOLEAN
  PROVE  /\ AfterHooks(u, blocked) \in {"interrupted", "refused", "running"}
         /\ AfterHooks(u, blocked) = "interrupted" => u \in Gated /\ response[u] = None
         /\ AfterHooks(u, blocked) = "running" =>
              ~blocked /\ (u \in Gated => response[u] = "approve")
BY DEF AfterHooks, AsksHuman, Denied

-----------------------------------------------------------------------------
(* Every step keeps the stream well typed, ...                               *)
LEMMA PublishTypes ==
  ASSUME TypeOK, NEW kind \in EventKinds, NEW u \in Uses \cup {None},
         NEW d \in Decisions \cup {"passed", "blocked", None}, Publish(kind, u, d)
  PROVE  events' \in Seq(Events)
<1>1. events \in Seq(Events) /\ Event(kind, u, d) \in Events
  BY DEF TypeOK, Events, EventKinds, Event
<1> QED
  BY <1>1 DEF Publish

(* The finishing event is an event.                                          *)
LEMMA FinishTypes == ASSUME TypeOK, Finish PROVE events' \in Seq(Events)
BY PublishTypes DEF Finish, EventKinds

(* Every step leaves every variable well typed.                              *)
LEMMA StepTypes == ASSUME IInv, Next PROVE TypeOK'
<1> USE DEF UseStates, Phases
<1>0. TypeOK /\ events \in Seq(Events)
  BY DEF IInv, TypeOK, Events, EventKinds
<1> DEFINE Rest == /\ phase' \in Phases
                   /\ package' \in Packages \cup {None}
                   /\ row' \in {"absent", "queued", "running"}
                   /\ use' \in [Uses -> UseStates]
                   /\ response' \in [Uses -> Decisions \cup {None}]
                   /\ decisions' \in [Uses -> Decisions \cup {None}]
                   /\ pending' \in Uses \cup {None}
<1>t. ASSUME Rest, events' \in Seq(Events) PROVE TypeOK'
  BY <1>t DEF TypeOK, Events, EventKinds
<1>1. CASE MarkJobStarted
  <2>1. events' \in Seq(Events)
    BY <1>0, <1>1, PublishTypes DEF MarkJobStarted, EventKinds
  <2>2. Rest
    BY <1>0, <1>1 DEF MarkJobStarted, Enter, TypeOK, agent
  <2> QED
    BY <2>1, <2>2, <1>t
<1>2. CASE RecallMemory
  <2>1. Rest
    BY <1>0, <1>2 DEF RecallMemory, Enter, TypeOK, agent
  <2> QED
    BY <1>0, <1>2, <2>1, <1>t, RecallEffect
<1>3. CASE InvokeHosted \/ EndTurn
  <2>1. events' \in Seq(Events)
    BY <1>0, <1>3, FinishTypes DEF InvokeHosted, EndTurn
  <2>2. Rest
    BY <1>0, <1>3 DEF InvokeHosted, EndTurn, Finish, TypeOK, agent
  <2> QED
    BY <2>1, <2>2, <1>t
<1>4. CASE ResolveAgentPackage \/ ModelFails \/ NextTurn \/ RecordMemory \/ Return
  <2>1. Rest /\ events' \in Seq(Events)
    BY <1>0, <1>4 DEF ResolveAgentPackage, ModelFails, NextTurn, RecordMemory, Return,
       Enter, TypeOK, agent
  <2> QED
    BY <2>1, <1>t
<1>5. ASSUME NEW turn \in SUBSET Uses, Propose(turn) PROVE TypeOK'
  <2>1. Rest /\ events' \in Seq(Events)
    BY <1>0, <1>5 DEF Propose, Enter, TypeOK
  <2> QED
    BY <2>1, <1>t
<1>6. CASE Resume
  <2>1. pending \in Uses
    BY <1>6, WaitsOn DEF Resume
  <2>2. decisions[pending] \in Decisions
    BY <1>0, <1>6, <2>1 DEF Resume, TypeOK
  <2>3. events' \in Seq(Events)
    BY <1>0, <1>6, <2>1, <2>2, PublishTypes DEF Resume, HandDecision, EventKinds
  <2>4. Rest
    BY <1>0, <1>6, <2>1, <2>2 DEF Resume, HandDecision, TypeOK
  <2> QED
    BY <2>3, <2>4, <1>t
<1>7. ASSUME NEW u \in Uses, RunHooks(u) \/ GuardrailFails(u) \/ RunTool(u) PROVE TypeOK'
  <2>1. AfterHooks(u, FALSE) \in UseStates
    BY HooksOutcome
  <2>2. Rest /\ events' \in Seq(Events)
    BY <1>0, <1>7, <2>1 DEF RunHooks, GuardrailFails, RunTool, TypeOK
  <2> QED
    BY <2>2, <1>t
<1>8. ASSUME NEW u \in Uses, ApplyGuardrail(u) PROVE TypeOK'
  <2>1. PICK verdict \in Verdicts :
          /\ use' = [use EXCEPT ![u] = AfterHooks(u, verdict = "blocked")]
          /\ IF verdict = "unevaluated" THEN UNCHANGED events
             ELSE Publish("guardrail", u, verdict)
    BY <1>8 DEF ApplyGuardrail
  <2>2. AfterHooks(u, verdict = "blocked") \in UseStates
    BY HooksOutcome
  <2>3. events' \in Seq(Events)
    <3>1. CASE verdict = "unevaluated"
      BY <1>0, <2>1, <3>1
    <3>2. CASE verdict # "unevaluated"
      <4>1. verdict \in {"passed", "blocked"}
        BY <3>2, AgentJobAssumption
      <4> QED
        BY <1>0, <2>1, <3>2, <4>1, PublishTypes DEF EventKinds
    <3> QED
      BY <3>1, <3>2
  <2>4. Rest
    BY <1>0, <1>8, <2>1, <2>2 DEF ApplyGuardrail, TypeOK
  <2> QED
    BY <2>3, <2>4, <1>t
<1>9. ASSUME NEW u \in Uses, AwaitApproval(u) PROVE TypeOK'
  <2>1. events' \in Seq(Events)
    BY <1>0, <1>9, PublishTypes DEF AwaitApproval, EventKinds
  <2>2. Rest
    BY <1>0, <1>9 DEF AwaitApproval, TypeOK, agent
  <2> QED
    BY <2>1, <2>2, <1>t
<1>10. ASSUME NEW u \in Uses, NEW d \in Decisions, SubmitApproval(u, d) PROVE TypeOK'
  <2>1. Rest /\ events' \in Seq(Events)
    BY <1>0, <1>10 DEF SubmitApproval, TypeOK, agent
  <2> QED
    BY <2>1, <1>t
<1> QED
  BY <1>1, <1>2, <1>3, <1>4, <1>5, <1>6, <1>7, <1>8, <1>9, <1>10 DEF Next, Step, ToolStep

-----------------------------------------------------------------------------
(* ... the calls in order, ...                                               *)
LEMMA StepCalls == ASSUME IInv, Next PROVE CallsInOrder'
<1>0. TypeOK /\ CallsInOrder
  BY DEF IInv
<1> USE DEF CallsInOrder, Ran, Settled
<1>1. CASE \/ MarkJobStarted \/ ResolveAgentPackage \/ RecallMemory \/ InvokeHosted
           \/ EndTurn \/ ModelFails \/ RecordMemory \/ Return
  BY <1>0, <1>1 DEF MarkJobStarted, ResolveAgentPackage, RecallMemory, InvokeHosted,
     EndTurn, ModelFails, RecordMemory, Return, Finish, Enter, agent, TypeOK
<1>2. ASSUME NEW turn \in SUBSET Uses, Propose(turn) PROVE CallsInOrder'
  BY <1>0, <1>2, AgentJobAssumption DEF Propose, Enter, TypeOK
<1>3. CASE NextTurn
  <2>1. \A u \in Uses : use[u] \in Settled
    BY <1>0, <1>3 DEF NextTurn, InvocationEnds, Interrupted, TypeOK, UseStates
  <2> QED
    BY <1>0, <1>3, <2>1 DEF NextTurn, agent
<1>4. CASE Resume
  <2>1. phase' = "acting" /\ pending \in Uses /\ use[pending] = "interrupted"
    BY <1>4, WaitsOn DEF Resume, HandDecision
  <2>2. \A u \in Uses : use'[u] = IF use[u] = "interrupted" THEN "proposed" ELSE use[u]
    BY <1>4 DEF Resume, HandDecision, Interrupted
  <2>3. \A u \in Uses : u # pending => response'[u] = response[u]
    BY <1>0, <1>4 DEF Resume, HandDecision, TypeOK
  <2> QED
    BY <1>0, <2>1, <2>2, <2>3, AgentJobAssumption
<1>5. ASSUME NEW u \in Uses, NEW after,
             after \in {"interrupted", "refused", "running", "guarding", "finished"},
             after = "interrupted" => u \in Gated /\ response[u] = None,
             after = "running" => (u \in Gated => response[u] = "approve"),
             after = "finished" => use[u] = "running",
             phase = "acting", phase' \in {"acting", "failed"},
             use' = [use EXCEPT ![u] = after], UNCHANGED response
      PROVE  CallsInOrder'
  BY <1>0, <1>5, AgentJobAssumption DEF TypeOK
<1>6. ASSUME NEW u \in Uses, RunHooks(u) PROVE CallsInOrder'
  <2> DEFINE after == IF u \in Guarded THEN "guarding" ELSE AfterHooks(u, FALSE)
  <2>1. after \in {"interrupted", "refused", "running", "guarding"}
    BY HooksOutcome
  <2>2. /\ after = "interrupted" => u \in Gated /\ response[u] = None
        /\ after = "running" => (u \in Gated => response[u] = "approve")
    BY HooksOutcome
  <2>3. phase = "acting" /\ phase' = phase /\ use' = [use EXCEPT ![u] = after] /\ response' = response
    BY <1>6 DEF RunHooks
  <2> HIDE DEF after
  <2> QED
    BY <1>5, <2>1, <2>2, <2>3
<1>7. ASSUME NEW u \in Uses, ApplyGuardrail(u) PROVE CallsInOrder'
  <2>1. PICK verdict \in Verdicts :
          use' = [use EXCEPT ![u] = AfterHooks(u, verdict = "blocked")]
    BY <1>7 DEF ApplyGuardrail
  <2> DEFINE after == AfterHooks(u, verdict = "blocked")
  <2>2. /\ after \in {"interrupted", "refused", "running"}
        /\ after = "interrupted" => u \in Gated /\ response[u] = None
        /\ after = "running" => (u \in Gated => response[u] = "approve")
    BY HooksOutcome
  <2>3. phase = "acting" /\ phase' = phase /\ use' = [use EXCEPT ![u] = after] /\ response' = response
    BY <1>7, <2>1 DEF ApplyGuardrail
  <2> HIDE DEF after
  <2> QED
    BY <1>5, <2>2, <2>3
<1>8. ASSUME NEW u \in Uses, GuardrailFails(u) \/ RunTool(u) PROVE CallsInOrder'
  <2>1. phase = "acting" /\ UNCHANGED response
    BY <1>8 DEF GuardrailFails, RunTool
  <2>2. CASE phase' = "failed" /\ UNCHANGED use
    BY <1>0, <2>1, <2>2
  <2>3. CASE phase' = phase /\ use' = [use EXCEPT ![u] = "refused"]
    BY <1>5, <2>1, <2>3
  <2>4. CASE phase' = phase /\ use' = [use EXCEPT ![u] = "finished"] /\ use[u] = "running"
    BY <1>5, <2>1, <2>4
  <2> QED
    BY <1>8, <2>2, <2>3, <2>4 DEF GuardrailFails, RunTool
<1>9. ASSUME NEW u \in Uses, AwaitApproval(u) PROVE CallsInOrder'
  <2>1. \A v \in Uses : use[v] \in Settled \cup {"interrupted"}
    BY <1>0, <1>9 DEF AwaitApproval, InvocationEnds, TypeOK, UseStates
  <2> QED
    BY <1>0, <1>9, <2>1 DEF AwaitApproval, agent
<1>10. ASSUME NEW u \in Uses, NEW d \in Decisions, SubmitApproval(u, d) PROVE CallsInOrder'
  BY <1>0, <1>10 DEF SubmitApproval, agent
<1> QED
  BY <1>1, <1>2, <1>3, <1>4, <1>6, <1>7, <1>8, <1>9, <1>10 DEF Next, Step, ToolStep

-----------------------------------------------------------------------------
(* ... the pauses told in order, ...                                         *)
PauseKinds == {"approval_pending", "approval_resumed"}

(* A step that publishes nothing leaves every kind of event as it was.       *)
LEMMA NoNews ==
  ASSUME TypeOK, UNCHANGED events
  PROVE  Grows /\ \A k, v : At(k, v)' = At(k, v)
<1>1. events \in Seq(Events)
  BY DEF TypeOK, Events, EventKinds
<1> QED
  BY <1>1 DEF Grows, At

(* An event of one kind leaves the events of the others as they were.        *)
LEMMA OtherNews ==
  ASSUME TypeOK, NEW kind, NEW u, NEW d, Publish(kind, u, d)
  PROVE  Grows /\ \A k, v : k # kind => At(k, v)' = At(k, v)
<1>1. ASSUME NEW k, NEW v, k # kind PROVE At(k, v)' = At(k, v)
  BY <1>1, PublishAt
<1> QED
  BY <1>1, PublishEffect

(* Only the loop in _run_native tells of pauses, and only it waits.          *)
LEMMA OthersKeepPauses ==
  ASSUME IInv, Next, ~Resume, \A u \in Uses : ~AwaitApproval(u)
  PROVE  /\ Grows /\ \A k \in PauseKinds, v \in Uses : At(k, v)' = At(k, v)
         /\ UNCHANGED <<response, pending>>
         /\ phase = "waiting" <=> phase' = "waiting"
<1>0. TypeOK
  BY DEF IInv
<1>1. CASE MarkJobStarted
  BY <1>0, <1>1, OtherNews DEF MarkJobStarted, Enter, agent, PauseKinds
<1>2. CASE RecallMemory
  BY <1>0, <1>2, RecallEffect DEF RecallMemory, Enter, agent, PauseKinds
<1>3. CASE InvokeHosted \/ EndTurn
  <2>1. CASE Finish
    BY <1>0, <1>3, <2>1, OtherNews DEF InvokeHosted, EndTurn, Finish, agent, PauseKinds
  <2>2. CASE UNCHANGED events /\ phase' = "failed"
    BY <1>0, <1>3, <2>2, NoNews DEF InvokeHosted, EndTurn, Finish, agent
  <2> QED
    BY <1>3, <2>1, <2>2 DEF InvokeHosted, EndTurn
<1>4. CASE ResolveAgentPackage \/ ModelFails \/ NextTurn \/ RecordMemory \/ Return
  BY <1>0, <1>4, NoNews DEF ResolveAgentPackage, ModelFails, NextTurn, RecordMemory, Return,
     Enter, InvocationEnds, agent
<1>5. ASSUME NEW turn \in SUBSET Uses, Propose(turn)
      PROVE  /\ Grows /\ \A k, v : At(k, v)' = At(k, v)
             /\ UNCHANGED <<response, pending>>
             /\ phase = "waiting" <=> phase' = "waiting"
  BY <1>0, <1>5, NoNews DEF Propose, Enter
<1>6. ASSUME NEW u \in Uses, RunHooks(u) \/ GuardrailFails(u) \/ RunTool(u)
      PROVE  /\ Grows /\ \A k, v : At(k, v)' = At(k, v)
             /\ UNCHANGED <<response, pending>>
             /\ phase = "waiting" <=> phase' = "waiting"
  BY <1>0, <1>6, NoNews DEF RunHooks, GuardrailFails, RunTool
<1>7. ASSUME NEW u \in Uses, ApplyGuardrail(u)
      PROVE  /\ Grows /\ \A k \in PauseKinds, v \in Uses : At(k, v)' = At(k, v)
             /\ UNCHANGED <<response, pending>>
             /\ phase = "waiting" <=> phase' = "waiting"
  <2>1. PICK verdict : UNCHANGED events \/ Publish("guardrail", u, verdict)
    BY <1>7 DEF ApplyGuardrail
  <2>2. Grows /\ \A k \in PauseKinds, v \in Uses : At(k, v)' = At(k, v)
    BY <1>0, <2>1, NoNews, OtherNews DEF PauseKinds
  <2> QED
    BY <1>7, <2>2 DEF ApplyGuardrail
<1>8. ASSUME NEW u \in Uses, NEW d \in Decisions, SubmitApproval(u, d)
      PROVE  /\ Grows /\ \A k, v : At(k, v)' = At(k, v)
             /\ UNCHANGED <<response, pending>>
             /\ phase = "waiting" <=> phase' = "waiting"
  BY <1>0, <1>8, NoNews DEF SubmitApproval, agent
<1> QED
  BY <1>1, <1>2, <1>3, <1>4, <1>5, <1>6, <1>7, <1>8 DEF Next, Step, ToolStep

(* A use that is paused on has not been asked about before.                  *)
LEMMA AwaitTells ==
  ASSUME IInv, NEW u \in Uses, AwaitApproval(u)
  PROVE  /\ Grows /\ phase' = "waiting" /\ pending' = u /\ UNCHANGED response
         /\ At("approval_pending", u)' = {Len(events) + 1}
         /\ \A v \in Uses : v # u => At("approval_pending", v)' = At("approval_pending", v)
         /\ \A v : At("approval_resumed", v)' = At("approval_resumed", v)
         /\ events'[Len(events')] = Event("approval_pending", u, None)
<1>0. TypeOK /\ Publish("approval_pending", u, None) /\ phase = "acting"
  BY DEF IInv, AwaitApproval, InvocationEnds
<1>1. response[u] = None
  BY DEF AwaitApproval, Interrupted, IInv, CallsInOrder
<1>2. At("approval_pending", u) = {}
  BY <1>0, <1>1 DEF IInv, PausesAreTold
<1>3. Grows /\ events'[Len(events')] = Event("approval_pending", u, None)
  BY <1>0, PublishEffect
<1>4. At("approval_pending", u)' = {Len(events) + 1}
  BY <1>0, <1>2, PublishAt
<1>5. \A v \in Uses : v # u => At("approval_pending", v)' = At("approval_pending", v)
  BY <1>0, PublishAt
<1>6. \A v : At("approval_resumed", v)' = At("approval_resumed", v)
  BY <1>0, OtherNews
<1> QED
  BY <1>3, <1>4, <1>5, <1>6 DEF AwaitApproval, agent

(* A pause ends with the decision that was submitted for its own use.        *)
LEMMA ResumeTells ==
  ASSUME IInv, Resume, NEW u, u = pending
  PROVE  /\ Grows /\ phase' = "acting" /\ pending' = None
         /\ u \in Uses /\ decisions[u] # None
         /\ response' = [response EXCEPT ![u] = decisions[u]]
         /\ At("approval_resumed", u)' = {Len(events) + 1}
         /\ events'[Len(events) + 1].detail = decisions[u]
         /\ \A v \in Uses : v # u => At("approval_resumed", v)' = At("approval_resumed", v)
         /\ \A v : At("approval_pending", v)' = At("approval_pending", v)
         /\ At("approval_pending", u) # {}
<1>0. /\ TypeOK /\ phase = "waiting"
      /\ Publish("approval_resumed", u, decisions[u])
  BY DEF IInv, Resume, HandDecision
<1>1. u \in Uses /\ use[u] = "interrupted"
  BY <1>0, WaitsOn
<1>2. At("approval_resumed", u) = {}
  BY <1>1 DEF IInv, CallsInOrder, PausesAreTold
<1>3. /\ Grows
      /\ events'[Len(events) + 1] = Event("approval_resumed", u, decisions[u])
  BY <1>0, PublishEffect
<1>4. At("approval_resumed", u)' = {Len(events) + 1}
  BY <1>0, <1>2, PublishAt
<1>5. \A v \in Uses : v # u => At("approval_resumed", v)' = At("approval_resumed", v)
  BY <1>0, PublishAt
<1>6. \A v : At("approval_pending", v)' = At("approval_pending", v)
  BY <1>0, OtherNews
<1>7. At("approval_pending", u) # {}
  BY <1>0, <1>1 DEF IInv, PausesAreTold
<1> QED
  BY <1>1, <1>3, <1>4, <1>5, <1>6, <1>7 DEF Resume, HandDecision, Event

(* Each pause is told when it begins and when it ends, once.                 *)
LEMMA StepPauses == ASSUME IInv, Next PROVE PausesAreTold' /\ AskedOnce'
<1>0. /\ TypeOK /\ PausesAreTold /\ AskedOnce
      /\ \A k, v : At(k, v) \subseteq 1 .. Len(events)
  BY DEF IInv, At
(* What was told in order stays so while the stream grows.                   *)
<1>t. ASSUME NEW u \in Uses, ToldInOrder(u), Grows, response'[u] = response[u],
             \A k \in PauseKinds : At(k, u)' = At(k, u)
      PROVE  ToldInOrder(u)'
  <2>1. PICK i \in At("approval_pending", u), j \in At("approval_resumed", u) :
          i < j /\ events[j].detail = response[u]
    BY <1>t DEF ToldInOrder
  <2>2. events'[j] = events[j]
    BY <1>0, <1>t, <2>1 DEF Grows
  <2> QED
    BY <1>t, <2>1, <2>2 DEF ToldInOrder, PauseKinds
<1>1. CASE ~Resume /\ \A u \in Uses : ~AwaitApproval(u)
  <2>1. /\ Grows /\ \A k \in PauseKinds, v \in Uses : At(k, v)' = At(k, v)
        /\ response' = response /\ pending' = pending
        /\ phase = "waiting" <=> phase' = "waiting"
    BY <1>1, OthersKeepPauses
  <2>2. AskedOnce'
    BY <1>0, <2>1 DEF AskedOnce, PauseKinds
  <2>3. PausesAreTold'
    <3> SUFFICES ASSUME NEW u \in Uses
                 PROVE  /\ (At("approval_pending", u) # {} =>
                              response[u] # None \/ (phase = "waiting" /\ pending = u))'
                        /\ (phase = "waiting" /\ pending = u => At("approval_pending", u) # {})'
                        /\ (response[u] = None => At("approval_resumed", u) = {})'
                        /\ (response[u] # None => ToldInOrder(u))'
      BY DEF PausesAreTold
    <3>1. \A k \in PauseKinds : At(k, u)' = At(k, u)
      BY <2>1
    <3>2. response[u] # None => ToldInOrder(u)'
      BY <1>0, <1>t, <2>1, <3>1 DEF PausesAreTold
    <3> QED
      BY <1>0, <2>1, <3>1, <3>2 DEF PausesAreTold, PauseKinds
  <2> QED
    BY <2>2, <2>3
<1>2. ASSUME NEW w \in Uses, AwaitApproval(w) PROVE PausesAreTold' /\ AskedOnce'
  <2>1. /\ Grows /\ phase' = "waiting" /\ pending' = w /\ response' = response
        /\ At("approval_pending", w)' = {Len(events) + 1}
        /\ \A v \in Uses : v # w => At("approval_pending", v)' = At("approval_pending", v)
        /\ \A v : At("approval_resumed", v)' = At("approval_resumed", v)
    BY <1>2, AwaitTells
  <2>2. response[w] = None /\ phase # "waiting"
    BY <1>2 DEF AwaitApproval, InvocationEnds, Interrupted, IInv, CallsInOrder
  <2>3. AskedOnce'
    BY <1>0, <2>1 DEF AskedOnce
  <2>4. PausesAreTold'
    <3> SUFFICES ASSUME NEW u \in Uses
                 PROVE  /\ (At("approval_pending", u) # {} =>
                              response[u] # None \/ (phase = "waiting" /\ pending = u))'
                        /\ (phase = "waiting" /\ pending = u => At("approval_pending", u) # {})'
                        /\ (response[u] = None => At("approval_resumed", u) = {})'
                        /\ (response[u] # None => ToldInOrder(u))'
      BY DEF PausesAreTold
    <3>1. u # w => \A k \in PauseKinds : At(k, u)' = At(k, u)
      BY <2>1 DEF PauseKinds
    <3>2. response[u] # None => ToldInOrder(u)'
      BY <1>0, <1>t, <2>1, <2>2, <3>1 DEF PausesAreTold
    <3> QED
      BY <1>0, <2>1, <2>2, <3>2 DEF PausesAreTold
  <2> QED
    BY <2>3, <2>4
<1>3. ASSUME Resume, NEW w, w = pending PROVE PausesAreTold' /\ AskedOnce'
  <2>1. /\ Grows /\ phase' = "acting" /\ pending' = None
        /\ w \in Uses /\ decisions[w] # None
        /\ response' = [response EXCEPT ![w] = decisions[w]]
        /\ At("approval_resumed", w)' = {Len(events) + 1}
        /\ events'[Len(events) + 1].detail = decisions[w]
        /\ \A v \in Uses : v # w => At("approval_resumed", v)' = At("approval_resumed", v)
        /\ \A v : At("approval_pending", v)' = At("approval_pending", v)
        /\ At("approval_pending", w) # {}
    BY <1>3, ResumeTells
  <2>2. response'[w] = decisions[w] /\ \A v \in Uses : v # w => response'[v] = response[v]
    BY <1>0, <2>1 DEF TypeOK
  <2>3. AskedOnce'
    BY <1>0, <2>1 DEF AskedOnce
  <2>4. ToldInOrder(w)'
    <3>1. PICK i : i \in At("approval_pending", w)'
      BY <2>1
    <3>2. i < Len(events) + 1 /\ Len(events) + 1 \in At("approval_resumed", w)'
      BY <1>0, <2>1, <3>1 DEF Grows
    <3> QED
      BY <2>1, <2>2, <3>1, <3>2 DEF ToldInOrder
  <2>5. PausesAreTold'
    <3> SUFFICES ASSUME NEW u \in Uses
                 PROVE  /\ (At("approval_pending", u) # {} =>
                              response[u] # None \/ (phase = "waiting" /\ pending = u))'
                        /\ (phase = "waiting" /\ pending = u => At("approval_pending", u) # {})'
                        /\ (response[u] = None => At("approval_resumed", u) = {})'
                        /\ (response[u] # None => ToldInOrder(u))'
      BY DEF PausesAreTold
    <3>1. u # w => \A k \in PauseKinds : At(k, u)' = At(k, u)
      BY <2>1 DEF PauseKinds
    <3>2. u # w /\ response[u] # None => ToldInOrder(u)'
      BY <1>0, <1>t, <2>1, <2>2, <3>1 DEF PausesAreTold
    <3>3. u # w /\ At("approval_pending", u) # {} => response[u] # None
      BY <1>0, <1>3 DEF PausesAreTold
    <3> QED
      BY <1>0, <2>1, <2>2, <2>4, <3>1, <3>2, <3>3 DEF PausesAreTold, PauseKinds
  <2> QED
    BY <2>3, <2>5
<1> QED
  BY <1>1, <1>2, <1>3

(* pending_approval follows the pause through every step.                    *)
LEMMA StepPauseShown == ASSUME IInv, Next PROVE PauseIsShown'
<1>1. CASE ~Resume /\ \A u \in Uses : ~AwaitApproval(u)
  <2>1. /\ Grows /\ UNCHANGED pending /\ (phase = "waiting" <=> phase' = "waiting")
    BY <1>1, OthersKeepPauses
  <2>2. CASE phase # "waiting"
    BY <2>1, <2>2 DEF IInv, PauseIsShown
  <2>3. CASE phase = "waiting"
    <3>1. UNCHANGED <<events, use>>
      BY <1>1, <2>3 DEF Next, Step, ToolStep, MarkJobStarted, ResolveAgentPackage, RecallMemory,
         InvokeHosted, Propose, EndTurn, ModelFails, NextTurn, RecordMemory, Return, RunHooks,
         ApplyGuardrail, GuardrailFails, RunTool, SubmitApproval, Enter, InvocationEnds, agent
    <3> QED
      BY <2>1, <2>3, <3>1 DEF IInv, PauseIsShown, Interrupted
  <2> QED
    BY <2>2, <2>3
<1>2. ASSUME NEW u \in Uses, AwaitApproval(u) PROVE PauseIsShown'
  BY <1>2, AwaitTells DEF PauseIsShown, AwaitApproval, Interrupted, agent
<1>3. CASE Resume
  BY <1>3, ResumeTells DEF PauseIsShown
<1> QED
  BY <1>1, <1>2, <1>3

-----------------------------------------------------------------------------
(* ... the verdicts and the end told in order.                               *)

(* What a step that is no verdict and no end tells.                          *)
LEMMA OthersKeepVerdictsAndEnd ==
  ASSUME IInv, Next, \A u \in Uses : ~ApplyGuardrail(u)
  PROVE  /\ Grows /\ \A v \in Uses : At("guardrail", v)' = At("guardrail", v)
         /\ Finish \/ \A v : At("job_finished", v)' = At("job_finished", v)
<1>0. TypeOK
  BY DEF IInv
<1>1. CASE MarkJobStarted
  BY <1>0, <1>1, OtherNews DEF MarkJobStarted
<1>2. CASE RecallMemory
  BY <1>0, <1>2, RecallEffect
<1>3. CASE Finish
  BY <1>0, <1>3, OtherNews DEF Finish
<1>4. CASE UNCHANGED events
  BY <1>0, <1>4, NoNews
<1>5. CASE Resume
  BY <1>0, <1>5, OtherNews DEF Resume, HandDecision
<1>6. ASSUME NEW u \in Uses, AwaitApproval(u)
      PROVE  Grows /\ \A k \in {"guardrail", "job_finished"} : \A v : At(k, v)' = At(k, v)
  BY <1>0, <1>6, OtherNews DEF AwaitApproval
<1>7. CASE InvokeHosted \/ EndTurn
  BY <1>3, <1>4, <1>7 DEF InvokeHosted, EndTurn
<1>8. CASE \/ ResolveAgentPackage \/ ModelFails \/ NextTurn \/ RecordMemory \/ Return
           \/ \E turn \in SUBSET Uses : Propose(turn)
           \/ \E u \in Uses : RunHooks(u) \/ GuardrailFails(u) \/ RunTool(u)
           \/ \E u \in Uses, d \in Decisions : SubmitApproval(u, d)
  BY <1>4, <1>8 DEF ResolveAgentPackage, ModelFails, NextTurn, RecordMemory, Return, Propose,
     RunHooks, GuardrailFails, RunTool, SubmitApproval
<1> QED
  BY <1>1, <1>2, <1>5, <1>6, <1>7, <1>8 DEF Next, Step, ToolStep

(* A guarded use that runs after this step ran before it, unless its verdict *)
(* is given by this very step.                                               *)
LEMMA OnlyVerdictsLetRun ==
  ASSUME IInv, Next, NEW u \in Guarded, Ran(u)', ~ApplyGuardrail(u)
  PROVE  Ran(u)
<1>0. TypeOK /\ u \in Uses
  BY AgentJobAssumption DEF IInv
<1> USE DEF Ran
<1>1. ASSUME NEW v \in Uses, RunHooks(v) PROVE Ran(u)
  BY <1>0, <1>1 DEF RunHooks, TypeOK
<1>2. ASSUME NEW v \in Uses, v # u, ApplyGuardrail(v) PROVE Ran(u)
  BY <1>0, <1>2 DEF ApplyGuardrail, TypeOK
<1>3. ASSUME NEW v \in Uses, GuardrailFails(v) \/ RunTool(v) PROVE Ran(u)
  BY <1>0, <1>3 DEF GuardrailFails, RunTool, TypeOK
<1>4. ASSUME NEW turn \in SUBSET Uses, Propose(turn) PROVE Ran(u)
  BY <1>0, <1>4 DEF Propose
<1>5. CASE Resume
  BY <1>0, <1>5 DEF Resume, HandDecision
<1>6. CASE UNCHANGED use
  BY <1>6
<1>7. CASE \/ MarkJobStarted \/ ResolveAgentPackage \/ RecallMemory \/ InvokeHosted
           \/ EndTurn \/ ModelFails \/ NextTurn \/ RecordMemory \/ Return
           \/ \E v \in Uses : AwaitApproval(v)
           \/ \E v \in Uses, d \in Decisions : SubmitApproval(v, d)
  BY <1>6, <1>7 DEF MarkJobStarted, ResolveAgentPackage, RecallMemory, InvokeHosted, EndTurn,
     ModelFails, NextTurn, RecordMemory, Return, AwaitApproval, SubmitApproval, agent
<1> QED
  BY <1>1, <1>2, <1>3, <1>4, <1>5, <1>7 DEF Next, Step, ToolStep

(* A guarded call passes its gate only after a verdict is told.              *)
LEMMA StepVerdicts == ASSUME IInv, Next PROVE VerdictsAreTold' /\ GuardrailDecides'
<1>0. /\ TypeOK /\ VerdictsAreTold /\ GuardrailDecides /\ Guarded \subseteq Uses
      /\ \A v : At("guardrail", v) \subseteq 1 .. Len(events)
  BY AgentJobAssumption DEF IInv, At
(* A use keeps its verdicts, and had the last of them when it began to run.  *)
<1>t. ASSUME NEW v \in Guarded, Ran(v), Grows, At("guardrail", v)' = At("guardrail", v)
      PROVE  IF At("guardrail", v)' = {} THEN "unevaluated" \in Verdicts
             ELSE \E i \in At("guardrail", v)' :
                    (\A j \in At("guardrail", v)' : j <= i) /\ events'[i].detail = "passed"
  <2>1. CASE At("guardrail", v) = {}
    BY <1>0, <1>t, <2>1 DEF GuardrailDecides
  <2>2. CASE At("guardrail", v) # {}
    <3>1. PICK i \in At("guardrail", v) :
            (\A j \in At("guardrail", v) : j <= i) /\ events[i].detail = "passed"
      BY <1>0, <1>t, <2>2 DEF GuardrailDecides
    <3>2. events'[i] = events[i]
      BY <1>0, <1>t, <3>1 DEF Grows
    <3> QED
      BY <1>t, <2>2, <3>1, <3>2
  <2> QED
    BY <2>1, <2>2
<1>1. CASE \A u \in Uses : ~ApplyGuardrail(u)
  <2>1. Grows /\ \A v \in Uses : At("guardrail", v)' = At("guardrail", v)
    BY <1>1, OthersKeepVerdictsAndEnd
  <2>2. ASSUME NEW v \in Guarded, Ran(v)' PROVE Ran(v)
    BY <1>0, <1>1, <2>2, OnlyVerdictsLetRun
  <2>3. GuardrailDecides'
    BY <1>0, <1>t, <2>1, <2>2 DEF GuardrailDecides
  <2> QED
    BY <1>0, <2>1, <2>3 DEF VerdictsAreTold
<1>2. ASSUME NEW u \in Uses, ApplyGuardrail(u) PROVE VerdictsAreTold' /\ GuardrailDecides'
  <2>1. PICK verdict \in Verdicts :
          /\ use' = [use EXCEPT ![u] = AfterHooks(u, verdict = "blocked")]
          /\ IF verdict = "unevaluated" THEN UNCHANGED events
             ELSE Publish("guardrail", u, verdict)
    BY <1>2 DEF ApplyGuardrail
  <2>2. ASSUME NEW v \in Guarded, v # u
        PROVE  /\ Ran(v)' => Ran(v)
               /\ Grows /\ At("guardrail", v)' = At("guardrail", v)
    <3>1. Ran(v)' => Ran(v)
      BY <1>0, <2>1, <2>2 DEF Ran, TypeOK
    <3>2. CASE UNCHANGED events
      BY <1>0, <3>1, <3>2, NoNews
    <3>3. CASE Publish("guardrail", u, verdict)
      BY <1>0, <2>2, <3>1, <3>3, PublishAt, PublishEffect
    <3> QED
      BY <2>1, <3>2, <3>3
  <2>3. CASE verdict = "unevaluated"
    <3>1. \A v : At("guardrail", v)' = At("guardrail", v)
      BY <1>0, <2>1, <2>3, NoNews
    <3>2. \A v \in Uses : At("guardrail", v)' = {}
      BY <1>0, <2>3, <3>1 DEF VerdictsAreTold
    <3> QED
      BY <1>0, <2>3, <3>2 DEF VerdictsAreTold, GuardrailDecides
  <2>4. CASE verdict # "unevaluated"
    <3>1. "unevaluated" \notin Verdicts /\ verdict \in {"passed", "blocked"}
      BY <2>4, AgentJobAssumption
    <3>2. /\ Publish("guardrail", u, verdict) /\ Grows
          /\ At("guardrail", u)' = At("guardrail", u) \cup {Len(events) + 1}
          /\ events'[Len(events) + 1].detail = verdict
      <4>1. Publish("guardrail", u, verdict)
        BY <2>1, <2>4
      <4>2. At("guardrail", u)' = At("guardrail", u) \cup {Len(events) + 1}
        BY <1>0, <4>1, PublishAt
      <4>3. Grows /\ events'[Len(events) + 1] = Event("guardrail", u, verdict)
        BY <1>0, <4>1, PublishEffect
      <4> QED
        BY <4>1, <4>2, <4>3 DEF Event
    <3>3. Ran(u)' => verdict = "passed"
      <4>1. use'[u] = AfterHooks(u, verdict = "blocked")
        BY <1>0, <2>1 DEF TypeOK
      <4>2. AfterHooks(u, verdict = "blocked") \in {"interrupted", "refused"} \/ verdict # "blocked"
        BY HooksOutcome
      <4> QED
        BY <3>1, <4>1, <4>2 DEF Ran
    <3>4. ASSUME Ran(u)'
          PROVE  \E i \in At("guardrail", u)' :
                   (\A j \in At("guardrail", u)' : j <= i) /\ events'[i].detail = "passed"
      <4>1. \A j \in At("guardrail", u)' : j <= Len(events) + 1
        BY <1>0, <3>2 DEF Grows
      <4> QED
        BY <3>2, <3>3, <3>4, <4>1
    <3>5. GuardrailDecides'
      BY <1>t, <2>2, <3>4 DEF GuardrailDecides
    <3> QED
      BY <3>1, <3>5 DEF VerdictsAreTold
  <2> QED
    BY <2>3, <2>4
<1> QED
  BY <1>1, <1>2

(* job_finished is told on the way to the end, and nothing after it.         *)
LEMMA StepEnd == ASSUME IInv, Next PROVE EndIsTold'
<1>0. TypeOK /\ EndIsTold
  BY DEF IInv
<1>1. CASE Finish
  <2>1. phase \notin Ending
    <3>1. events' # events /\ phase' = "recording"
      BY <1>0, <1>1, PublishEffect DEF Finish, Grows
    <3> QED
      BY <3>1 DEF Next, Step, ToolStep, MarkJobStarted, ResolveAgentPackage,
         RecallMemory, InvokeHosted, Propose, EndTurn, ModelFails, NextTurn, Resume, HandDecision,
         RecordMemory, Return, RunHooks, ApplyGuardrail, GuardrailFails, RunTool, AwaitApproval,
         SubmitApproval, Enter, InvocationEnds, Ending
  <2>2. At("job_finished", None) = {}
    BY <1>0, <2>1 DEF EndIsTold
  <2>3. At("job_finished", None)' = {Len(events')}
    BY <1>0, <1>1, <2>2, PublishAt, PublishEffect DEF Finish
  <2>4. \A u \in Uses : At("job_finished", u)' = At("job_finished", u)
    BY <1>0, <1>1, PublishAt, AgentJobAssumption DEF Finish
  <2> QED
    BY <1>0, <1>1, <2>3, <2>4 DEF EndIsTold, Finish, Ending
<1>2. CASE ~Finish
  <2>1. \A v : At("job_finished", v)' = At("job_finished", v)
    <3>1. ASSUME NEW u \in Uses, ApplyGuardrail(u)
          PROVE  \A v : At("job_finished", v)' = At("job_finished", v)
      <4>1. PICK verdict : UNCHANGED events \/ Publish("guardrail", u, verdict)
        BY <3>1 DEF ApplyGuardrail
      <4> QED
        BY <1>0, <4>1, NoNews, OtherNews
    <3> QED
      BY <1>2, <3>1, OthersKeepVerdictsAndEnd
  <2>2. /\ phase \in Ending => phase' \in Ending /\ UNCHANGED events
        /\ phase' \in Ending => phase \in Ending
    BY <1>2 DEF Next, Step, ToolStep, MarkJobStarted, ResolveAgentPackage,
       RecallMemory, InvokeHosted, Propose, EndTurn, ModelFails, NextTurn, Resume, HandDecision,
       RecordMemory, Return, RunHooks, ApplyGuardrail, GuardrailFails, RunTool, AwaitApproval,
       SubmitApproval, Enter, InvocationEnds, Ending
  <2> QED
    BY <1>0, <2>1, <2>2 DEF EndIsTold
<1> QED
  BY <1>1, <1>2

-----------------------------------------------------------------------------
(* IInv is inductive.                                                        *)
LEMMA StepIInv == ASSUME IInv, [Next]_vars PROVE IInv'
<1>1. CASE Next
  BY <1>1, StepTypes, StepCalls, StepPauses, StepPauseShown, StepVerdicts, StepEnd DEF IInv
<1>2. CASE UNCHANGED vars
  <2>1. /\ UNCHANGED <<phase, package, row, use, response, decisions, pending, events>>
        /\ TypeOK
    BY <1>2 DEF vars, agent, IInv
  <2>2. \A k, v : At(k, v)' = At(k, v)
    BY <2>1, NoNews
  <2>3. TypeOK' /\ CallsInOrder' /\ PauseIsShown'
    BY <2>1 DEF IInv, TypeOK, CallsInOrder, PauseIsShown, Ran, Interrupted
  <2>4. PausesAreTold' /\ AskedOnce'
    BY <2>1, <2>2 DEF IInv, PausesAreTold, AskedOnce, ToldInOrder
  <2>5. VerdictsAreTold' /\ GuardrailDecides' /\ EndIsTold'
    BY <2>1, <2>2 DEF IInv, VerdictsAreTold, GuardrailDecides, EndIsTold, Ran
  <2> QED
    BY <2>3, <2>4, <2>5 DEF IInv
<1> QED
  BY <1>1, <1>2

(* IInv holds in every reachable state.                                      *)
LEMMA InvariantHolds == Spec => []IInv
BY InitIInv, StepIInv, PTL DEF Spec

-----------------------------------------------------------------------------
(* Every reachable state of the workflow is well typed.                      *)
THEOREM JobTypes == Spec => []TypeOK
<1>1. IInv => TypeOK
  BY DEF IInv
<1> QED
  BY InvariantHolds, <1>1, PTL

(* A call that the approval policy matches runs only after the job paused    *)
(* for it and was resumed with a reviewer's "approve", whatever was          *)
(* submitted for other calls, twice or late (ApprovalGate, _run_native).     *)
THEOREM ApprovalComesFirst == Spec => []HumanFirst
<1>1. IInv => HumanFirst
  <2> SUFFICES ASSUME IInv, NEW u \in Gated, Ran(u)
               PROVE  \E i \in At("approval_pending", u), j \in At("approval_resumed", u) :
                        i < j /\ events[j].detail = "approve"
    BY DEF HumanFirst
  <2>1. u \in Uses /\ response[u] = "approve" /\ response[u] # None
    BY AgentJobAssumption DEF IInv, CallsInOrder
  <2> QED
    BY <2>1 DEF IInv, PausesAreTold, ToldInOrder
<1> QED
  BY InvariantHolds, <1>1, PTL

(* A reviewer is asked once about a call and answered once (_run_native's    *)
(* loop, submit_approval).                                                   *)
THEOREM NobodyIsAskedTwice == Spec => []AskedOnce
<1>1. IInv => AskedOnce
  BY DEF IInv
<1> QED
  BY InvariantHolds, <1>1, PTL

(* The pending_approval query returns exactly the pause that the stream ends *)
(* in.                                                                       *)
THEOREM QueryShowsThePause == Spec => []PauseIsShown
<1>1. IInv => PauseIsShown
  BY DEF IInv
<1> QED
  BY InvariantHolds, <1>1, PTL

(* A guarded call runs on its last verdict, which passed, or where no        *)
(* Guardrail is configured (GuardrailGate._gate, apply_guardrail).           *)
THEOREM VerdictDecides == Spec => []GuardrailDecides
<1>1. IInv => GuardrailDecides
  BY DEF IInv
<1> QED
  BY InvariantHolds, <1>1, PTL

(* job_finished is the last entry, told once, when every call has its        *)
(* result.                                                                   *)
THEOREM FinishIsFinal == Spec => []FinishedIsFinal
<1>1. IInv => FinishedIsFinal
  BY DEF IInv, EndIsTold, CallsInOrder, Settled, Ending, FinishedIsFinal
<1> QED
  BY InvariantHolds, <1>1, PTL

-----------------------------------------------------------------------------
(* AgentJob implements PausingJob, the job that its clients rely on: the     *)
(* theorem is at the end of the module.                                      *)

(* The stream as the clients see it.                                         *)
LogKind(kind) ==
  CASE kind = "approval_pending" -> "pending"
    [] kind = "approval_resumed" -> "resumed"
    [] kind = "job_finished" -> "finished"
    [] OTHER -> "note"
LogEntry(e) ==
  [kind |-> LogKind(e.kind),
   use |-> IF e.kind \in {"approval_pending", "approval_resumed"} THEN e.use ELSE None]
Log == [i \in 1 .. Len(events) |-> LogEntry(events[i])]
Status == CASE phase = "completed" -> "COMPLETED" [] phase = "failed" -> "FAILED"
            [] OTHER -> "RUNNING"

(* Publishing an event adds its entry to the log.                            *)
LEMMA PublishLog ==
  ASSUME TypeOK, NEW kind, NEW u, NEW d, Publish(kind, u, d)
  PROVE  Log' = Log \o <<LogEntry(Event(kind, u, d))>>
<1>1. /\ Grows /\ Len(events') = Len(events) + 1
      /\ events'[Len(events) + 1] = Event(kind, u, d)
  BY PublishEffect
<1> DEFINE new == LogEntry(Event(kind, u, d))
           old(i) == LogEntry(events[i])
<1>2. Log' = [i \in 1 .. Len(events) + 1 |-> IF i <= Len(events) THEN old(i) ELSE new]
  BY <1>1 DEF Log, Grows
<1>3. Log = [i \in 1 .. Len(events) |-> old(i)] /\ Len(events) \in Nat
  BY <1>1 DEF Log, Grows
<1> HIDE DEF new, old
<1>4. Log \o <<new>> = [i \in 1 .. Len(events) + 1 |-> IF i <= Len(events) THEN old(i) ELSE new]
  BY <1>3
<1> QED
  BY <1>2, <1>4 DEF new

(* Recalling memories says nothing, or one or two notes.                     *)
LEMMA RecallLog ==
  ASSUME TypeOK, RecallMemory
  PROVE  \/ Log' = Log
         \/ \E n \in 1 .. 2 : /\ package # "hosted" => n = 1
                             /\ Log' = Log \o [i \in 1 .. n |-> Outside!Entry("note", None)]
<1> DEFINE Note(k) == Event(k, None, None)
           note == [kind |-> "note", use |-> None]
<1>1. events \in Seq(Events)
  BY DEF TypeOK, Events, EventKinds
<1>2. PICK r \in {<<>>, <<Note("memory_recall")>>}, t \in {<<>>, <<Note("tool_call")>>} :
        events' = events \o r \o t /\ (package # "hosted" => t = <<>>)
  BY DEF RecallMemory
<1>3. LogEntry(Note("memory_recall")) = note /\ LogEntry(Note("tool_call")) = note
  BY DEF LogEntry, LogKind, Event
<1>4. Outside!Entry("note", None) = note
  BY DEF Outside!Entry
<1> DEFINE n == Len(r) + Len(t)
<1>5. /\ n \in 0 .. 2 /\ (package # "hosted" => n <= 1) /\ Len(events') = Len(events) + n
      /\ \A i \in 1 .. Len(events) : events'[i] = events[i]
      /\ \A i \in 1 .. n : events'[Len(events) + i] \in {Note("memory_recall"), Note("tool_call")}
  <2> HIDE DEF Note
  <2>1. CASE r = <<>> /\ t = <<>>
    BY <1>1, <1>2, <2>1
  <2>2. CASE r = <<>> /\ t = <<Note("tool_call")>>
    BY <1>1, <1>2, <2>2
  <2>3. CASE r = <<Note("memory_recall")>> /\ t = <<>>
    BY <1>1, <1>2, <2>3
  <2>4. CASE r = <<Note("memory_recall")>> /\ t = <<Note("tool_call")>>
    BY <1>1, <1>2, <2>4
  <2> QED
    BY <2>1, <2>2, <2>3, <2>4
<1> HIDE DEF n, Note, note
<1> DEFINE old(i) == LogEntry(events[i])
<1>6. \A i \in 1 .. n : LogEntry(events'[Len(events) + i]) = note
  BY <1>3, <1>5
<1>7. Log' = [i \in 1 .. Len(events) + n |-> IF i <= Len(events) THEN old(i) ELSE note]
  <2>1. \A i \in 1 .. Len(events) + n :
          LogEntry(events'[i]) = IF i <= Len(events) THEN old(i) ELSE note
    <3> SUFFICES ASSUME NEW i \in 1 .. Len(events) + n, ~(i <= Len(events))
                 PROVE  LogEntry(events'[i]) = note
      BY <1>1, <1>5
    <3>1. i - Len(events) \in 1 .. n /\ Len(events) + (i - Len(events)) = i
      BY <1>1, <1>5
    <3> QED
      BY <1>6, <3>1
  <2> QED
    BY <1>5, <2>1 DEF Log
<1>8. Log = [i \in 1 .. Len(events) |-> old(i)] /\ Len(events) \in Nat
  BY <1>1 DEF Log
<1> HIDE DEF old
<1>9. Log \o [i \in 1 .. n |-> note] =
        [i \in 1 .. Len(events) + n |-> IF i <= Len(events) THEN old(i) ELSE note]
  BY <1>5, <1>8
<1>10. CASE n = 0
  BY <1>7, <1>8, <1>10
<1>11. ASSUME n \in 1 .. 2
       PROVE  \E k \in 1 .. 2 : /\ package # "hosted" => k = 1
                                /\ Log' = Log \o [i \in 1 .. k |-> Outside!Entry("note", None)]
  <2>1. Log' = Log \o [i \in 1 .. n |-> Outside!Entry("note", None)]
    BY <1>4, <1>7, <1>9
  <2>2. package # "hosted" => n = 1
    BY <1>5, <1>11
  <2> WITNESS n \in 1 .. 2
  <2> QED
    BY <2>1, <2>2
<1> QED
  BY <1>5, <1>10, <1>11

-----------------------------------------------------------------------------
(* What the operators of PausingJob mean for AgentJob's state.               *)
LEMMA SaysLog ==
  ASSUME NEW entries, Log' = Log \o entries
  PROVE  Outside!Says(entries)
BY DEF Outside!Says, Log, LogEntry, LogKind

(* The log tells of the pauses and of the end that the stream tells of.      *)
LEMMA ToldIs ==
  ASSUME IInv
  PROVE  /\ \A u \in Uses : u \in Outside!Told("pending") <=> At("approval_pending", u) # {}
         /\ Outside!Finished <=> phase \in Ending
<1>1. /\ Len(Log) = Len(events) /\ events \in Seq(Events)
      /\ \A i \in 1 .. Len(events) : Log[i] = LogEntry(events[i]) /\ events[i] \in Events
  <2>1. events \in Seq(Events)
    BY DEF IInv, TypeOK, Events, EventKinds
  <2>2. Len(events) \in Nat /\ \A i \in 1 .. Len(events) : events[i] \in Events
    BY <2>1
  <2> QED
    BY <2>1, <2>2 DEF Log
<1>2. ASSUME NEW kind
      PROVE  Outside!Told(kind) =
               {u \in Uses \cup {None} :
                  \E i \in 1 .. Len(events) : LogEntry(events[i]) = Outside!Entry(kind, u)}
  <2>1. Outside!Told(kind) = {u \in Uses \cup {None} :
                                \E i \in 1 .. Len(Log) : Log[i] = Outside!Entry(kind, u)}
    BY DEF Outside!Told, Log, LogEntry, LogKind
  <2> QED
    BY <1>1, <2>1
<1>3. ASSUME NEW e \in Events, NEW u \in Uses \cup {None}
      PROVE  /\ LogEntry(e) = Outside!Entry("pending", u) <=>
                  e.kind = "approval_pending" /\ e.use = u
             /\ LogEntry(e) = Outside!Entry("finished", u) <=>
                  e.kind = "job_finished" /\ u = None
  BY DEF LogEntry, LogKind, Outside!Entry, Events, EventKinds
<1>4. \A u \in Uses : u \in Outside!Told("pending") <=> At("approval_pending", u) # {}
  BY <1>1, <1>2, <1>3 DEF At
<1>5. Outside!Finished <=> \E i \in 1 .. Len(events) : events[i].kind = "job_finished"
  BY <1>1, <1>2, <1>3 DEF Outside!Finished
<1>6. (\E i \in 1 .. Len(events) : events[i].kind = "job_finished") <=> phase \in Ending
  <2>1. \A i \in 1 .. Len(events) : events[i].use \in Uses \cup {None}
    BY <1>1 DEF Events
  <2> QED
    BY <2>1 DEF IInv, EndIsTold, At
<1> QED
  BY <1>4, <1>5, <1>6

(* Outside the tail and outside a pause, the job is at work.                 *)
LEMMA WorkingIs ==
  ASSUME IInv, phase \notin Ending \cup {"waiting", "failed"}
  PROVE  Outside!Working
<1>1. Status = "RUNNING" /\ pending = None /\ ~Outside!Finished
  BY ToldIs DEF IInv, PauseIsShown, Status, Ending
<1> QED
  BY <1>1 DEF Outside!Working, Status

(* A new job is a new PausingJob.                                            *)
LEMMA InitRefines == Init => Outside!JobInit
<1> SUFFICES ASSUME Init PROVE Outside!JobInit
  OBVIOUS
<1>1. Log = <<>>
  BY DEF Init, Log
<1> QED
  BY <1>1 DEF Init, Outside!JobInit, Log, LogEntry, LogKind

-----------------------------------------------------------------------------
(* Steps that say nothing and change nothing the clients see, and steps that *)
(* fail the job.                                                             *)
LEMMA SilentStep ==
  ASSUME Log' = Log, UNCHANGED <<pending, decisions>>, Status' = Status
  PROVE  UNCHANGED Outside!jobVars
BY DEF Outside!jobVars, Status, Log, LogEntry, LogKind

(* Failing while the agent works, after a last note or without one.          *)
LEMMA FailingStep ==
  ASSUME IInv, phase \notin Ending \cup {"waiting", "failed"}, phase' = "failed",
         UNCHANGED <<pending, decisions>>,
         NEW n \in 0 .. 1, Log' = Log \o [i \in 1 .. n |-> Outside!Entry("note", None)]
  PROVE  Outside!JobNext
<1>1. Outside!Working
  BY WorkingIs
<1>2. Outside!Notes(n)
  BY SaysLog DEF Outside!Notes
<1>3. Outside!Fails(n)
  BY <1>1, <1>2 DEF Outside!Fails
<1> QED
  BY <1>3 DEF Outside!JobNext, Outside!JobStep

(* Failing without a word.                                                   *)
LEMMA FailingSilently ==
  ASSUME IInv, phase \notin Ending \cup {"waiting", "failed"}, phase' = "failed",
         UNCHANGED <<pending, decisions>>, Log' = Log
  PROVE  Outside!JobNext
<1>1. Len(events) \in Nat
  BY DEF IInv, TypeOK
<1>2. Log' = Log \o [i \in 1 .. 0 |-> Outside!Entry("note", None)]
  BY <1>1 DEF Log
<1>3. Outside!Working
  BY WorkingIs
<1>4. Outside!Notes(0)
  BY <1>2, SaysLog DEF Outside!Notes
<1>5. Outside!Fails(0)
  BY <1>3, <1>4 DEF Outside!Fails
<1> QED
  BY <1>5 DEF Outside!JobNext, Outside!JobStep

(* A note in between.                                                        *)
LEMMA NotingStep ==
  ASSUME IInv, phase \notin Ending \cup {"waiting", "failed"},
         NEW n \in 1 .. 2, Log' = Log \o [i \in 1 .. n |-> Outside!Entry("note", None)],
         UNCHANGED <<pending, decisions>>, Status' = Status
  PROVE  Outside!JobNext
<1>1. Outside!Working
  BY WorkingIs
<1>2. Outside!Notes(n)
  BY SaysLog DEF Outside!Notes
<1>3. Outside!Talks(n)
  BY <1>1, <1>2 DEF Outside!Talks, Status
<1> QED
  BY <1>3 DEF Outside!JobNext, Outside!JobStep

(* An event that is no pause and no end is a note.                           *)
LEMMA PublishedNote ==
  ASSUME IInv, phase \notin Ending \cup {"waiting", "failed"},
         NEW kind \in {"job_started", "guardrail"}, NEW u, NEW d, Publish(kind, u, d),
         UNCHANGED <<pending, decisions>>, Status' = Status
  PROVE  Outside!JobNext
<1>1. Log' = Log \o <<LogEntry(Event(kind, u, d))>>
  BY PublishLog DEF IInv
<1>2. LogEntry(Event(kind, u, d)) = Outside!Entry("note", None)
  BY DEF LogEntry, LogKind, Event, Outside!Entry
<1>3. <<Outside!Entry("note", None)>> = [i \in 1 .. 1 |-> Outside!Entry("note", None)]
  OBVIOUS
<1> QED
  BY <1>1, <1>2, <1>3, NotingStep

(* Telling the end is Finishes.                                              *)
LEMMA FinishRefines ==
  ASSUME IInv, phase \in {"hosted", "thinking"}, Finish, UNCHANGED <<pending, decisions>>
  PROVE  Outside!JobNext
<1>1. Outside!Working
  BY WorkingIs DEF Ending
<1>2. Log' = Log \o <<Outside!Entry("finished", None)>>
  <2>1. LogEntry(Event("job_finished", None, None)) = Outside!Entry("finished", None)
    BY DEF LogEntry, LogKind, Event, Outside!Entry
  <2> QED
    BY <2>1, PublishLog DEF IInv, Finish
<1>3. Outside!Finishes
  BY <1>1, <1>2, SaysLog DEF Outside!Finishes, Finish
<1> QED
  BY <1>3 DEF Outside!JobNext, Outside!JobStep

(* Beginning to wait is PausesOn: the call was not told of before.           *)
LEMMA AwaitRefines ==
  ASSUME IInv, NEW u \in Uses, AwaitApproval(u)
  PROVE  Outside!JobNext
<1>1. Outside!Working
  BY WorkingIs DEF AwaitApproval, InvocationEnds, Ending
<1>2. u \notin Outside!Told("pending")
  <2>1. response[u] = None /\ phase = "acting"
    BY DEF AwaitApproval, InvocationEnds, Interrupted, IInv, CallsInOrder
  <2> QED
    BY <2>1, ToldIs DEF IInv, PausesAreTold
<1>3. Log' = Log \o <<Outside!Entry("pending", u)>>
  <2>1. LogEntry(Event("approval_pending", u, None)) = Outside!Entry("pending", u)
    BY DEF LogEntry, LogKind, Event, Outside!Entry
  <2> QED
    BY <2>1, PublishLog DEF IInv, AwaitApproval
<1>4. Outside!PausesOn(u)
  BY <1>1, <1>2, <1>3, SaysLog DEF Outside!PausesOn, AwaitApproval, InvocationEnds
<1> QED
  BY <1>4 DEF Outside!JobNext, Outside!JobStep

(* Taking the answer up is GoesOn.                                           *)
LEMMA ResumeRefines == ASSUME IInv, Resume, NEW u, u = pending PROVE Outside!JobNext
<1>1. /\ phase = "waiting" /\ phase' = "acting" /\ pending' = None /\ UNCHANGED decisions
      /\ decisions[u] # None /\ u # None
  BY WaitsOn DEF Resume, HandDecision
<1>2. Log' = Log \o <<Outside!Entry("resumed", u)>>
  <2>1. LogEntry(Event("approval_resumed", u, decisions[u])) = Outside!Entry("resumed", u)
    BY DEF LogEntry, LogKind, Event, Outside!Entry
  <2>2. Publish("approval_resumed", u, decisions[u])
    BY DEF Resume, HandDecision
  <2> DEFINE d == decisions[u]
  <2>3. ASSUME NEW e, e = d PROVE Log' = Log \o <<LogEntry(Event("approval_resumed", u, e))>>
    BY <2>2, <2>3, PublishLog DEF IInv
  <2> QED
    BY <2>1, <2>3
<1>3. Outside!Says(<<Outside!Entry("resumed", u)>>)
  BY <1>2, SaysLog
<1>4. Status = "RUNNING" /\ Status' = "RUNNING"
  BY <1>1 DEF Status
<1>5. Outside!GoesOn
  BY <1>1, <1>3, <1>4 DEF Outside!GoesOn, Outside!Says, Outside!Entry, Status
<1> QED
  BY <1>5 DEF Outside!JobNext, Outside!JobStep

(* Returning the result is Completes.                                        *)
LEMMA ReturnRefines == ASSUME IInv, Return PROVE Outside!JobNext
<1>1. Outside!Finished
  BY ToldIs DEF Return, Enter, Ending
<1>2. Outside!Completes
  BY <1>1 DEF Outside!Completes, Return, Enter
<1> QED
  BY <1>2 DEF Outside!JobNext, Outside!JobStep

(* A decision is accepted for a pause that was told.                         *)
LEMMA SubmitRefines ==
  ASSUME IInv, NEW u \in Uses, NEW d \in Decisions, SubmitApproval(u, d)
  PROVE  Outside!JobNext
<1>1. u \in Outside!Told("pending")
  <2>1. At("approval_pending", u) # {}
    BY DEF SubmitApproval, Shown, At, Event
  <2> QED
    BY <2>1, ToldIs
<1>2. Outside!Signalled(u, d)
  BY <1>1 DEF Outside!Signalled, SubmitApproval, Closed
<1> QED
  BY <1>2 DEF Outside!JobNext

-----------------------------------------------------------------------------
(* Every step of the job is a step or a stutter of PausingJob.               *)
LEMMA StepRefines == ASSUME IInv, [Next]_vars PROVE [Outside!JobNext]_(Outside!jobVars)
<1> USE DEF Enter, agent
<1>0. UNCHANGED events => Log' = Log
  BY DEF Log
<1>1. CASE MarkJobStarted
  BY <1>1, PublishedNote DEF MarkJobStarted, Ending, Status
<1>2. CASE ResolveAgentPackage
  BY <1>0, <1>2, FailingSilently, SilentStep DEF ResolveAgentPackage, Ending, Status
<1>3. CASE RecallMemory
  <2>1. /\ phase = "recalling" /\ phase' \in {"hosted", "thinking", "failed"}
        /\ UNCHANGED <<pending, decisions>> /\ TypeOK
        /\ phase' = "failed" => package = "unresolvable"
    BY <1>3 DEF RecallMemory, IInv
  <2>2. CASE Log' = Log
    BY <2>1, <2>2, FailingSilently, SilentStep DEF Ending, Status
  <2>3. CASE \E n \in 1 .. 2 : /\ package # "hosted" => n = 1
                               /\ Log' = Log \o [i \in 1 .. n |-> Outside!Entry("note", None)]
    <3>1. PICK n \in 1 .. 2 : /\ package # "hosted" => n = 1
                              /\ Log' = Log \o [i \in 1 .. n |-> Outside!Entry("note", None)]
      BY <2>3
    <3>2. CASE phase' = "failed"
      <4>1. n \in 0 .. 1
        BY <2>1, <3>1, <3>2
      <4> QED
        BY <2>1, <3>1, <3>2, <4>1, FailingStep DEF Ending
    <3>3. CASE phase' # "failed"
      BY <2>1, <3>1, <3>3, NotingStep DEF Ending, Status
    <3> QED
      BY <3>2, <3>3
  <2> QED
    BY <1>3, <2>1, <2>2, <2>3, RecallLog
<1>4. CASE InvokeHosted
  <2>1. CASE Finish
    BY <1>4, <2>1, FinishRefines DEF InvokeHosted
  <2>2. CASE phase' = "failed" /\ UNCHANGED events
    BY <1>0, <1>4, <2>2, FailingSilently DEF InvokeHosted, Ending
  <2> QED
    BY <1>4, <2>1, <2>2 DEF InvokeHosted
<1>5. CASE EndTurn
  BY <1>5, FinishRefines DEF EndTurn
<1>6. CASE ModelFails
  BY <1>0, <1>6, FailingSilently DEF ModelFails, Ending
<1>7. CASE NextTurn \/ RecordMemory \/ \E turn \in SUBSET Uses : Propose(turn)
  BY <1>0, <1>7, SilentStep DEF NextTurn, InvocationEnds, RecordMemory, Propose, Status
<1>8. CASE Resume
  BY <1>8, ResumeRefines
<1>9. CASE Return
  BY <1>9, ReturnRefines
<1>10. ASSUME NEW u \in Uses, RunHooks(u)
       PROVE  [Outside!JobNext]_(Outside!jobVars)
  BY <1>0, <1>10, SilentStep DEF RunHooks, Status
<1>11. ASSUME NEW u \in Uses, GuardrailFails(u) \/ RunTool(u)
       PROVE  [Outside!JobNext]_(Outside!jobVars)
  <2>1. /\ phase = "acting" /\ phase' \in {"acting", "failed"}
        /\ UNCHANGED <<events, pending, decisions>>
    BY <1>11 DEF GuardrailFails, RunTool
  <2> QED
    BY <1>0, <2>1, FailingSilently, SilentStep DEF Ending, Status
<1>12. ASSUME NEW u \in Uses, ApplyGuardrail(u)
       PROVE  [Outside!JobNext]_(Outside!jobVars)
  <2>1. PICK verdict : UNCHANGED events \/ Publish("guardrail", u, verdict)
    BY <1>12 DEF ApplyGuardrail
  <2>2. phase = "acting" /\ UNCHANGED <<phase, pending, decisions>>
    BY <1>12 DEF ApplyGuardrail
  <2>3. CASE UNCHANGED events
    BY <1>0, <2>2, <2>3, SilentStep DEF Status
  <2>4. CASE Publish("guardrail", u, verdict)
    BY <2>2, <2>4, PublishedNote DEF Ending, Status
  <2> QED
    BY <2>1, <2>3, <2>4
<1>13. ASSUME NEW u \in Uses, AwaitApproval(u)
       PROVE  [Outside!JobNext]_(Outside!jobVars)
  BY <1>13, AwaitRefines
<1>14. ASSUME NEW u \in Uses, NEW d \in Decisions, SubmitApproval(u, d)
       PROVE  [Outside!JobNext]_(Outside!jobVars)
  BY <1>14, SubmitRefines
<1>15. CASE UNCHANGED vars
  BY <1>0, <1>15, SilentStep DEF vars, Status
<1> QED
  BY <1>1, <1>2, <1>3, <1>4, <1>5, <1>6, <1>7, <1>8, <1>9, <1>10, <1>11, <1>12, <1>13,
     <1>14, <1>15 DEF Next, Step, ToolStep

(* Whatever the agent, the tools and the reviewers do, a job shows its       *)
(* clients one pause at a time, tells of each once and of its end before it  *)
(* completes, takes answers only to what it showed, and never fails after    *)
(* job_finished or in a pause (agent_job.py:91-194, 328-364).                *)
THEOREM JobImplementsPausingJob == Spec => ImplementsPausingJob
<1>1. Init => Outside!JobInit
  BY InitRefines
<1>2. IInv /\ [Next]_vars => [Outside!JobNext]_(Outside!jobVars)
  BY StepRefines
<1> QED
  BY InvariantHolds, <1>1, <1>2, PTL DEF Spec, ImplementsPausingJob, Outside!JobSpec
=============================================================================
