------------------------------ MODULE Clients -------------------------------
(* The clients of one agent job, outside it: the session pane of the UI      *)
(* (SessionTerminal.tsx over the event route and the state route of the API) *)
(* or the verify scripts' helper result_with_auto_approval, each beside      *)
(* others that answer the same pauses.  The job is PausingJob, which         *)
(* AgentJob implements.  Connections break, requests fail and their answers  *)
(* arrive in any order.                                                      *)
EXTENDS PausingJob, FiniteSets

CONSTANTS
  Slots,     \* bound: state requests of the pane that are on their way
  MaxLog,    \* bound: log entries up to which the job may talk or pause
  Polls      \* times that the pane asks again after job_finished

ASSUME ClientsAssumption ==
  /\ Pauses \subseteq Nat /\ None \notin Pauses /\ "approve" \in Decisions
  /\ IsFiniteSet(Slots) /\ {MaxLog, Polls} \subseteq Nat

VARIABLES
  source,      \* the pane's EventSource
  next,        \* the entry that the present connection delivers next
  seen,        \* entries that the transcript shows
  view,        \* the SessionState the pane has: [status, pause, asOf], asOf
               \* (a history) the number of pauses there were when it was made
  asks,        \* asks[s]: a state request, and what its answer will be
  polls,       \* polls left
  helper,      \* [at, pause]: where the helper stands
  elsewhere,   \* history: another client answered the helper's job
  spoilt       \* history: since the source last opened or failed, a state
               \* request failed or an answer arrived after one that knew of a later pause

pane == <<source, next, seen, view, asks, polls>>
vars == <<jobVars, pane, helper, elsewhere, spoilt>>

Statuses == {"RUNNING", "COMPLETED", "FAILED"}
NoView == [status |-> "null", pause |-> None, asOf |-> 0]
NoAsk == [at |-> "idle", why |-> "show", view |-> NoView]

TypeOK ==
  /\ source \in {"unmounted", "connecting", "open", "closed"}
  /\ next \in Nat \ {0} /\ seen \subseteq Nat
  /\ view \in [status : Statuses \cup {"null"}, pause : Pauses \cup {None},
               asOf : Nat]
  /\ polls \in 0..Polls
  /\ helper \in [at : {"off", "waiting", "got", "returned", "raised"},
                 pause : Pauses \cup {None}]
  /\ {elsewhere, spoilt} \subseteq BOOLEAN

Init ==
  /\ JobInit
  /\ source = "unmounted" /\ next = 1 /\ seen = {} /\ view = NoView
  /\ asks = [s \in Slots |-> NoAsk]
  /\ polls = 0
  /\ helper \in [at : {"off", "waiting"}, pause : {None}]
  /\ elsewhere = FALSE /\ spoilt = FALSE

-----------------------------------------------------------------------------
(* The job goes on by itself, and its pauses come in their order; at the     *)
(* bound it has said what it has to say.                                     *)
Talking == (\E n \in 1..2 : Talks(n)) \/ \E u \in Pauses : PausesOn(u)

JobRuns ==
  /\ JobStep
  /\ (Talking => Len(log') <= MaxLog)
  /\ \A u \in Pauses \ Told("pending") : pause' \in Pauses => pause' <= u
  /\ UNCHANGED <<pane, helper, elsewhere, spoilt>>

(* api.jobState(...) is called.                                              *)
Asks(why) ==
  \E s \in Slots :
    /\ asks[s].at = "idle"
    /\ \A r \in Slots : asks[r].at = "idle" => s <= r
    /\ asks' = [asks EXCEPT ![s] = [NoAsk EXCEPT !.at = "asked", !.why = why]]

(* The pane gets a job: a new EventSource, and one request for its state.    *)
Mount ==
  /\ helper.at = "off" /\ source = "unmounted" /\ source' = "connecting"
  /\ Asks("show")
  /\ UNCHANGED <<jobVars, next, seen, view, polls, helper, elsewhere, spoilt>>

(* Mutant: a new subscription starts at the end of the stream. *)
Open_AtEnd ==
  /\ source = "connecting" /\ status = "RUNNING"
  /\ source' = "open" /\ next' = Len(log) + 1 /\ spoilt' = FALSE
  /\ UNCHANGED <<jobVars, seen, view, asks, polls, helper, elsewhere>>

(* The events route: each connection subscribes from the stream's start.     *)
Open ==
  /\ source = "connecting" /\ status = "RUNNING"
  /\ source' = "open" /\ next' = 1 /\ spoilt' = FALSE
  /\ UNCHANGED <<jobVars, seen, view, asks, polls, helper, elsewhere>>

(* Mutant: the pause is only noted. *)
OnPending_Noted == UNCHANGED <<source, view, asks, polls>>

(* The listeners.  approval_pending asks for the state, ...                  *)
OnPending == Asks("show") /\ UNCHANGED <<source, view, polls>>

(* ... approval_resumed clears the pause, ...                                *)
OnResumed ==
  /\ view' = [view EXCEPT !.pause = None]
  /\ UNCHANGED <<source, asks, polls>>

(* ... and job_finished closes the source and begins to poll.                *)
OnFinished ==
  /\ source' = "closed" /\ polls' = Polls
  /\ UNCHANGED <<view, asks>>

Deliver ==
  /\ source = "open" /\ next <= Len(log)
  /\ next' = next + 1
  /\ seen' = seen \cup {next}
  /\ CASE log[next].kind = "pending"  -> OnPending
       [] log[next].kind = "resumed"  -> OnResumed
       [] log[next].kind = "finished" -> OnFinished
       [] OTHER -> UNCHANGED <<source, view, asks, polls>>
  /\ UNCHANGED <<jobVars, helper, elsewhere, spoilt>>

(* onerror: the state decides whether the source goes on retrying.           *)
OnError ==
  /\ source' = "connecting" /\ spoilt' = FALSE
  /\ Asks("error")
  /\ UNCHANGED <<jobVars, next, seen, view, polls, helper, elsewhere>>

(* A connection breaks or is refused.                                        *)
Breaks == source \in {"connecting", "open"} /\ OnError

(* The stream of a closed workflow is gone: the response ends at once.       *)
HangsUp ==
  /\ status # "RUNNING"
  /\ source = "connecting" \/ (source = "open" /\ next > Len(log))
  /\ OnError

-----------------------------------------------------------------------------
(* get_job_state describes the workflow, ...                                 *)
Snapshot(st, p) ==
  [status |-> st, pause |-> p, asOf |-> Cardinality(Told("pending"))]
Answered(s, v) == asks' = [asks EXCEPT ![s] = [@ EXCEPT !.at = "answered", !.view = v]]

Describe(s) ==
  /\ asks[s].at = "asked"
  /\ IF status = "RUNNING" THEN asks' = [asks EXCEPT ![s].at = "described"]
     ELSE Answered(s, Snapshot(status, None))
  /\ UNCHANGED <<jobVars, source, next, seen, view, polls, helper, elsewhere, spoilt>>

(* A worker answers a query after it has handled the signals before it.      *)
Answerable == pause # None => answers[pause] = None

(* ... and queries a running one; if it has closed in between, the answer    *)
(* still says RUNNING (or the query fails: Lose).                            *)
Query(s) ==
  /\ asks[s].at = "described" /\ Answerable
  /\ Answered(s, Snapshot("RUNNING", pause))
  /\ UNCHANGED <<jobVars, source, next, seen, view, polls, helper, elsewhere, spoilt>>

(* Mutant: onerror does not look at the status. *)
Closing_Never(s) == FALSE

(* onerror's request has told that the job is over.                          *)
Closing(s) == asks[s].why = "error" /\ asks[s].view.status # "RUNNING"

Receive(s) ==
  /\ asks[s].at = "answered"
  /\ asks' = [asks EXCEPT ![s] = NoAsk]
  /\ view' = asks[s].view
  /\ spoilt' = (spoilt \/ asks[s].view.asOf < view.asOf)
  /\ source' = IF Closing(s) THEN "closed" ELSE source
  /\ polls' = IF asks[s].why = "poll" /\ view'.status # "RUNNING" THEN 0 ELSE polls
  /\ UNCHANGED <<jobVars, next, seen, helper, elsewhere>>

(* A request fails: its answer does not arrive, and nothing but the poll     *)
(* loop notices.                                                             *)
Lose(s) ==
  /\ asks[s].at = "answered"
  /\ asks' = [asks EXCEPT ![s] = NoAsk]
  /\ spoilt' = TRUE
  /\ UNCHANGED <<jobVars, source, next, seen, view, polls, helper, elsewhere>>

PollAgain ==
  /\ polls > 0
  /\ \A s \in Slots : ~(asks[s].at # "idle" /\ asks[s].why = "poll")
  /\ Asks("poll")
  /\ polls' = polls - 1
  /\ UNCHANGED <<jobVars, source, next, seen, view, helper, elsewhere, spoilt>>

(* The Approve and Deny buttons, for the pause that is shown.                *)
Click(d) ==
  /\ view.pause # None
  /\ Signalled(view.pause, d)
  /\ UNCHANGED <<pane, helper, elsewhere, spoilt>>

(* Any other client of the approval route (noted where the helper runs).     *)
Elsewhere(d) ==
  /\ pause # None /\ Signalled(pause, d)
  /\ elsewhere' = (helper.at # "off")
  /\ UNCHANGED <<pane, helper, spoilt>>

-----------------------------------------------------------------------------
(* result_with_auto_approval.                                                *)
HelperIs(at, u) ==
  /\ helper' = [at |-> at, pause |-> u]
  /\ UNCHANGED <<pane, elsewhere, spoilt>>

(* Mutant: one query right after start_workflow. *)
HelperPolls_Once ==
  /\ helper.at = "waiting" /\ log = <<>> /\ pause # None
  /\ HelperIs("got", pause) /\ UNCHANGED jobVars

(* A query that finds a pause; one that finds none, or fails because the     *)
(* workflow has just closed, is followed by another.                         *)
HelperPolls ==
  /\ helper.at = "waiting" /\ status = "RUNNING" /\ pause # None /\ Answerable
  /\ HelperIs("got", pause) /\ UNCHANGED jobVars

(* The signal, some time after the query.                                    *)
HelperSignals ==
  /\ helper.at = "got"
  /\ \/ Signalled(helper.pause, "approve") /\ HelperIs("waiting", None)
     \/ status # "RUNNING" /\ HelperIs("raised", None) /\ UNCHANGED jobVars

HelperReturns ==
  /\ helper.at = "waiting" /\ status # "RUNNING"
  /\ HelperIs("returned", None) /\ UNCHANGED jobVars

Helper == HelperPolls \/ HelperSignals \/ HelperReturns

-----------------------------------------------------------------------------
Browser == Open \/ Deliver \/ HangsUp
Answers(s) == Describe(s) \/ Query(s) \/ Receive(s)

Next ==
  \/ JobRuns
  \/ Mount \/ Browser \/ Breaks \/ PollAgain
  \/ \E s \in Slots : Answers(s) \/ Lose(s)
  \/ \E d \in Decisions : Click(d) \/ Elsewhere(d)
  \/ Helper

(* The job closes or waits (AgentJob's ClosesOrWaits); the browser connects, *)
(* delivers and retries; requests are answered; the helper's loop goes on.   *)
Fairness ==
  /\ WF_vars(JobRuns) /\ WF_vars(Helper)
  /\ WF_vars(Browser)
  /\ \A s \in Slots : WF_vars(Answers(s))

Spec == Init /\ [][Next]_vars /\ Fairness

-----------------------------------------------------------------------------
(* However often the connection breaks, the transcript has no gap: all that  *)
(* came before an entry it shows is there too (app/api/routes/events.py:4    *)
(* "instead of just missing events").                                        *)
NothingMissed == \A i \in seen : 1..i \subseteq seen

(* A pane on a job that is over stops reconnecting, whether it saw           *)
(* job_finished, attached too late, or lost the connection in between        *)
(* (SessionTerminal.tsx:108-120), once its state requests no longer fail.    *)
StopsReconnecting ==
  <>[]~spoilt =>
    ((status # "RUNNING" /\ source # "unmounted") ~> source = "closed")

(* A pause that lasts is shown in the pane, with its own buttons, whenever   *)
(* the pane attached and however its connection broke before, and stays      *)
(* there (SessionTerminal.tsx:176-182, 214); unless, on the last connection, *)
(* a state request fails or an older answer overtakes.                       *)
PauseIsVisible ==
  \A u \in Pauses :
    <>[](pause = u /\ source = "open" /\ ~spoilt) => <>[](view.pause = u)

(* The helper comes back from a job with any number of pauses, and raises    *)
(* only where another reviewer answered its pause and the job closed before  *)
(* its own signal (scripts/_approval.py:7-14, the hang it exists to avoid).  *)
HelperComesBack ==
  helper.at = "waiting" ~>
    (helper.at = "returned" \/ (helper.at = "raised" /\ elsewhere))
=============================================================================
