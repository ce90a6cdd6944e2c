------------------------------ MODULE RunOnce ------------------------------
(***************************************************************************)
(* Consequential tool calls (app/activities/idempotency.py, payment.py,    *)
(* dispute.py) as Temporal runs them: a call is scheduled once, and each   *)
(* of up to MaxAttempts attempts runs run_once from the top on some worker *)
(* process.  run_once reads the idempotency record, claims it, performs    *)
(* the POST, consults the kill switch, and records the completion.  Any    *)
(* step may raise, any worker may crash between two steps, and a POST and  *)
(* its answer travel separately.                                           *)
(*                                                                         *)
(* run_once awaits only inside perform.  What it does before and after is  *)
(* synchronous boto3, so it is atomic against the other coroutines of its  *)
(* own process (Free) and not against other processes.                     *)
(***************************************************************************)
EXTENDS Integers, FiniteSets

CONSTANTS
  Calls,            \* scheduled consequential activities, one key() each
  Workers,          \* worker processes
  NoWorker,
  MaxAttempts,      \* RetryPolicy.maximum_attempts of CONSEQUENTIAL
  MaxArms,          \* bound: how often the kill switch is armed
  ChecksProvider,   \* TRUE: issue_payment; FALSE: submit_dispute_response
  StaleReads,       \* get_item without ConsistentRead may return an old value
  LatePosts,        \* a POST may be applied after its sender has gone
  Overlap           \* start_to_close may expire while the attempt still runs

ASSUME RunOnceAssumption ==
  /\ MaxAttempts \in Nat \ {0}
  /\ MaxArms \in Nat
  /\ NoWorker \notin Workers
  /\ {ChecksProvider, StaleReads, LatePosts, Overlap} \subseteq BOOLEAN

VARIABLES
  status,    \* the server's view of each call
  attempt,   \* number of the latest attempt the server has dispatched
  pc,        \* where each attempt is in run_once
  host,      \* the worker process of each attempt
  seen,      \* what each attempt's get_idempotency_record returned
  record,    \* the idempotency record
  sent,      \* attempts that have sent their POST (history)
  inflight,  \* attempts whose POST the provider has not handled yet
  effects,   \* times the provider applied the call's POST
  armed,     \* KillSwitch.armed
  arms,      \* times the switch was armed (history)
  exits      \* worker exits the switch has caused (history)

server   == <<status, attempt>>
provider == <<sent, inflight, effects>>
switch   == <<armed, arms, exits>>
vars     == <<server, pc, host, seen, record, provider, switch>>

Attempts == 1 .. MaxAttempts

Statuses == {"waiting", "running", "succeeded", "failed"}

RecordStates == {"none", "pending", "completed"}

(* run_once, in order.  "gone": reported to the server, or crashed.        *)
Labels == {"idle", "reading", "claiming", "checking", "posting", "awaiting",
           "killCheck", "firing", "completing",
           "returned", "raised", "declined", "gone"}

(* Between these labels and the next there is no await. *)
Synchronous == {"claiming", "firing", "completing"}

(* perform(key) has been entered and the provider's answer is not known.   *)
Performing == {"checking", "posting", "awaiting"}

Free(c, n) ==
  \A d \in Calls, m \in Attempts :
    host[d][m] = host[c][n] /\ pc[d][m] \in Synchronous => <<d, m>> = <<c, n>>

Goto(c, n, label) == pc' = [pc EXCEPT ![c][n] = label]

Init ==
  /\ status   = [c \in Calls |-> "waiting"]
  /\ attempt  = [c \in Calls |-> 0]
  /\ pc       = [c \in Calls |-> [n \in Attempts |-> "idle"]]
  /\ host     = [c \in Calls |-> [n \in Attempts |-> NoWorker]]
  /\ seen     = [c \in Calls |-> [n \in Attempts |-> "none"]]
  /\ record   = [c \in Calls |-> "none"]
  /\ sent     = [c \in Calls |-> {}]
  /\ inflight = [c \in Calls |-> {}]
  /\ effects  = [c \in Calls |-> 0]
  /\ armed    = FALSE
  /\ arms     = 0
  /\ exits    = 0

-----------------------------------------------------------------------------
(* The Temporal server (external): dispatch, timeouts, retries.            *)

StartAttempt(c, w) ==
  LET n == attempt[c] + 1 IN
  /\ status[c] = "waiting"
  /\ status' = [status EXCEPT ![c] = "running"]
  /\ attempt' = [attempt EXCEPT ![c] = n]
  /\ host' = [host EXCEPT ![c][n] = w]
  /\ Goto(c, n, "reading")
  /\ UNCHANGED <<seen, record, provider, switch>>

(* Mutant: one attempt too many. *)
AfterFailure_OneMore(c) == IF attempt[c] <= MaxAttempts THEN "waiting" ELSE "failed"

AfterFailure(c) == IF attempt[c] < MaxAttempts THEN "waiting" ELSE "failed"

Verdict(c, n) ==
  IF pc[c][n] = "returned" THEN "succeeded"
  ELSE IF pc[c][n] = "declined" THEN "failed"
  ELSE AfterFailure(c)

(* Mutant: an activity without a start_to_close_timeout. *)
Timeout_Unset(c) == FALSE

(* The attempt produced no report in time: its worker died, or (Overlap)   *)
(* it is still running and will never be told.                             *)
Timeout(c) ==
  /\ status[c] = "running"
  /\ Overlap \/ pc[c][attempt[c]] = "gone"
  /\ status' = [status EXCEPT ![c] = AfterFailure(c)]
  /\ UNCHANGED <<attempt, pc, host, seen, record, provider, switch>>

(* A finished attempt reports; the server ignores all but the latest.      *)
Report(c, n) ==
  /\ pc[c][n] \in {"returned", "raised", "declined"}
  /\ Free(c, n)
  /\ Goto(c, n, "gone")
  /\ status' =
       IF status[c] # "running" \/ n # attempt[c] THEN status
       ELSE [status EXCEPT ![c] = Verdict(c, n)]
  /\ UNCHANGED <<attempt, host, seen, record, provider, switch>>

-----------------------------------------------------------------------------
(* run_once.                                                               *)

(* What get_item may return: the record only ever advances.                *)
Readable(c) ==
  IF ~StaleReads THEN {record[c]}
  ELSE CASE record[c] = "none"      -> {"none"}
         [] record[c] = "pending"   -> {"none", "pending"}
         [] record[c] = "completed" -> RecordStates

(* Mutant: the recorded result is not replayed. *)
ReadRecord_NoReplay(c, n) ==
  /\ pc[c][n] = "reading"
  /\ Free(c, n)
  /\ \E found \in Readable(c) : seen' = [seen EXCEPT ![c][n] = found]
  /\ Goto(c, n, "claiming")
  /\ UNCHANGED <<server, host, record, provider, switch>>

(* Mutant: any record counts as done, status and result unchecked. *)
ReadRecord_AnyRecord(c, n) ==
  /\ pc[c][n] = "reading"
  /\ Free(c, n)
  /\ \E found \in Readable(c) :
       /\ seen' = [seen EXCEPT ![c][n] = found]
       /\ Goto(c, n, IF found # "none" THEN "returned" ELSE "claiming")
  /\ UNCHANGED <<server, host, record, provider, switch>>

ReadRecord(c, n) ==
  /\ pc[c][n] = "reading"
  /\ Free(c, n)
  /\ \E found \in Readable(c) :
       /\ seen' = [seen EXCEPT ![c][n] = found]
       /\ Goto(c, n, IF found = "completed" THEN "returned" ELSE "claiming")
  /\ UNCHANGED <<server, host, record, provider, switch>>

Perform == IF ChecksProvider THEN "checking" ELSE "posting"

(* Mutant: the answer of claim_idempotency_key is ignored. *)
Claim_Ignored(c, n) ==
  /\ pc[c][n] = "claiming"
  /\ record' = [record EXCEPT ![c] = IF @ = "none" THEN "pending" ELSE @]
  /\ Goto(c, n, Perform)
  /\ UNCHANGED <<server, host, seen, provider, switch>>

(* claim_idempotency_key: a conditional put that fails when a record is    *)
(* there.  Losing it is fatal to the attempt only if it had read nothing.  *)
(* The put may be applied and its answer lost.                             *)
Claim(c, n) ==
  /\ pc[c][n] = "claiming"
  /\ record' = [record EXCEPT ![c] = IF @ = "none" THEN "pending" ELSE @]
  /\ \/ /\ record[c] = "none" \/ seen[c][n] # "none"
        /\ Goto(c, n, Perform)
     \/ /\ record[c] = "none" \/ seen[c][n] = "none"
        /\ Goto(c, n, "raised")
  /\ UNCHANGED <<server, host, seen, provider, switch>>

(* Mutant: no look at the provider before the POST. *)
CheckProvider_Skipped(c, n) ==
  /\ pc[c][n] = "checking"
  /\ Free(c, n)
  /\ Goto(c, n, "posting")
  /\ UNCHANGED <<server, host, seen, record, provider, switch>>

(* Mutant: confirmation_id from the activity_id alone, so that calls of    *)
(* different jobs match (payment.py:40-43).                                *)
CheckProvider_AnyCall(c, n) ==
  /\ pc[c][n] = "checking"
  /\ Free(c, n)
  /\ Goto(c, n, IF \E d \in Calls : effects[d] > 0 THEN "killCheck" ELSE "posting")
  /\ UNCHANGED <<server, host, seen, record, provider, switch>>

(* _call_payment_service looks for its own confirmation_id before it pays. *)
CheckProvider(c, n) ==
  /\ pc[c][n] = "checking"
  /\ Free(c, n)
  /\ Goto(c, n, IF effects[c] > 0 THEN "killCheck" ELSE "posting")
  /\ UNCHANGED <<server, host, seen, record, provider, switch>>

SendPost(c, n) ==
  /\ pc[c][n] = "posting"
  /\ Free(c, n)
  /\ Goto(c, n, "awaiting")
  /\ sent' = [sent EXCEPT ![c] = @ \cup {n}]
  /\ inflight' = [inflight EXCEPT ![c] = @ \cup {n}]
  /\ UNCHANGED <<server, host, seen, record, effects, switch>>

(* httpx gives up on an answer; the request is still on its way.           *)
GiveUp(c, n) ==
  /\ LatePosts
  /\ pc[c][n] = "awaiting"
  /\ Free(c, n)
  /\ Goto(c, n, "raised")
  /\ UNCHANGED <<server, host, seen, record, provider, switch>>

(* The first half of maybe_kill: get_kill_switch.                          *)
ReadSwitch(c, n) ==
  /\ pc[c][n] = "killCheck"
  /\ Free(c, n)
  /\ \E on \in IF StaleReads /\ arms > 0 THEN BOOLEAN ELSE {armed} :
       Goto(c, n, IF on THEN "firing" ELSE "completing")
  /\ UNCHANGED <<server, host, seen, record, provider, switch>>

(* complete_idempotency_record: an unconditional update.  The update may   *)
(* be applied and its answer lost.                                         *)
Complete(c, n) ==
  /\ pc[c][n] = "completing"
  /\ record' = [record EXCEPT ![c] = "completed"]
  /\ \E outcome \in {"returned", "raised"} : Goto(c, n, outcome)
  /\ UNCHANGED <<server, host, seen, provider, switch>>

(* A call to DynamoDB or the provider's GET fails without taking effect.   *)
Raise(c, n) ==
  /\ pc[c][n] \in {"reading", "claiming", "checking", "posting",
                   "killCheck", "firing", "completing"}
  /\ Free(c, n)
  /\ Goto(c, n, "raised")
  /\ UNCHANGED <<server, host, seen, record, provider, switch>>

-----------------------------------------------------------------------------
(* The provider (external) handles a POST.                                 *)

Handle(c, n) ==
  /\ n \in inflight[c]
  /\ inflight' = [inflight EXCEPT ![c] = @ \ {n}]

(* It applies every POST that reaches it: it ignores the Idempotency-Key   *)
(* header.  The sender, if it still waits, gets a 2xx, or a 5xx or no      *)
(* answer at all although the effect was applied.                          *)
Accept(c, n) ==
  /\ Handle(c, n)
  /\ effects' = [effects EXCEPT ![c] = @ + 1]
  /\ \E outcome \in IF pc[c][n] = "awaiting" THEN {"killCheck", "raised"}
                                             ELSE {pc[c][n]} :
       Goto(c, n, outcome)
  /\ UNCHANGED <<server, host, seen, record, sent, switch>>

(* Mutant: the status code of a 5xx answer is not looked at. *)
Refuse_Unchecked(c, n) ==
  /\ Handle(c, n)
  /\ \E outcome \in IF pc[c][n] = "awaiting" THEN {"killCheck", "declined"}
                                             ELSE {pc[c][n]} :
       Goto(c, n, outcome)
  /\ UNCHANGED <<server, host, seen, record, sent, effects, switch>>

(* It answers 5xx or never sees the POST (retryable), or 4xx (declined).   *)
Refuse(c, n) ==
  /\ Handle(c, n)
  /\ \E outcome \in IF pc[c][n] = "awaiting" THEN {"raised", "declined"}
                                             ELSE {pc[c][n]} :
       Goto(c, n, outcome)
  /\ UNCHANGED <<server, host, seen, record, sent, effects, switch>>

-----------------------------------------------------------------------------
(* Worker processes and the kill switch.                                   *)

Live(c, n) == pc[c][n] \notin {"idle", "gone"}

(* Unless posts may be late, a process does not die with one on its way:   *)
(* the provider has handled it, one way or the other, just before.         *)
Exit(w) ==
  /\ \A c \in Calls, n \in Attempts :
       host[c][n] = w /\ n \in inflight[c] => LatePosts \/ ~Live(c, n)
  /\ pc' = [c \in Calls |-> [n \in Attempts |->
              IF host[c][n] = w /\ Live(c, n) THEN "gone" ELSE pc[c][n]]]

Crash(w) ==
  /\ \E c \in Calls, n \in Attempts : host[c][n] = w /\ Live(c, n)
  /\ Exit(w)
  /\ UNCHANGED <<server, host, seen, record, provider, switch>>

(* Mutant: the switch stays armed. *)
FireSwitch_StaysArmed(c, n) ==
  /\ pc[c][n] = "firing"
  /\ Exit(host[c][n])
  /\ exits' = exits + 1
  /\ UNCHANGED <<server, host, seen, record, provider, armed, arms>>

(* The second half of maybe_kill: disarm, then os._exit(1).  The put may   *)
(* be applied and its answer lost.                                         *)
FireSwitch(c, n) ==
  /\ pc[c][n] = "firing"
  /\ armed' = FALSE
  /\ \/ Exit(host[c][n]) /\ exits' = exits + 1
     \/ Goto(c, n, "raised") /\ UNCHANGED exits
  /\ UNCHANGED <<server, host, seen, record, provider, arms>>

ArmKillSwitch ==
  /\ arms < MaxArms
  /\ armed' = TRUE
  /\ arms' = arms + 1
  /\ UNCHANGED <<server, pc, host, seen, record, provider, exits>>

-----------------------------------------------------------------------------
Step(c, n) ==
  \/ ReadRecord(c, n) \/ Claim(c, n) \/ CheckProvider(c, n)
  \/ SendPost(c, n)   \/ GiveUp(c, n)
  \/ Accept(c, n)     \/ Refuse(c, n)
  \/ ReadSwitch(c, n) \/ FireSwitch(c, n) \/ Complete(c, n)
  \/ Raise(c, n)      \/ Report(c, n)

Dispatch(c) == \E w \in Workers : StartAttempt(c, w)

Next ==
  \/ \E c \in Calls : Dispatch(c) \/ Timeout(c)
  \/ \E c \in Calls, n \in Attempts : Step(c, n)
  \/ \E w \in Workers : Crash(w)
  \/ ArmKillSwitch

Spec == Init /\ [][Next]_vars

(* The server dispatches and times out; a running attempt is scheduled by  *)
(* its event loop, and every await in it has a timeout.  Nothing makes a   *)
(* worker crash or anyone arm the switch.                                  *)
Fairness ==
  /\ \A c \in Calls : WF_vars(Dispatch(c)) /\ WF_vars(Timeout(c))
  /\ \A c \in Calls, n \in Attempts : WF_vars(Step(c, n))

FairSpec == Spec /\ Fairness

-----------------------------------------------------------------------------
(* Every variable holds a value of its kind; in particular a call that     *)
(* waits to be dispatched still has an attempt left.                       *)
TypeOK ==
  /\ status \in [Calls -> Statuses]
  /\ attempt \in [Calls -> 0 .. MaxAttempts]
  /\ \A c \in Calls : status[c] = "waiting" => attempt[c] < MaxAttempts
  /\ \A c \in Calls : status[c] = "running" => attempt[c] \in Attempts
  /\ pc \in [Calls -> [Attempts -> Labels]]
  /\ host \in [Calls -> [Attempts -> Workers \cup {NoWorker}]]
  /\ seen \in [Calls -> [Attempts -> RecordStates]]
  /\ record \in [Calls -> RecordStates]
  /\ sent \in [Calls -> SUBSET Attempts]
  /\ inflight \in [Calls -> SUBSET Attempts]
  /\ effects \in [Calls -> Nat]
  /\ armed \in BOOLEAN
  /\ arms \in Nat
  /\ exits \in Nat

(* "Pay an invoice at most once, however many times this activity is       *)
(* retried" (payment.py:90), "File the accept/contest decision at most     *)
(* once, however many retries" (dispute.py:71): over all attempts of a     *)
(* call, crashed ones included, the provider applies at most one POST.     *)
AtMostOnce == \A c \in Calls : effects[c] <= 1

(* run_once never reports, and never records for a later attempt to        *)
(* replay, a result whose effect did not happen: whatever was stale, late, *)
(* duplicated or crashed, a completed record or a succeeded call has an    *)
(* effect behind it (idempotency.py:58-74).                                *)
NoFalseSuccess ==
  \A c \in Calls :
    record[c] = "completed" \/ status[c] = "succeeded" => effects[c] > 0

(* Two attempts that both read no record do not both reach the provider:   *)
(* the conditional put lets one of them through and the other raises       *)
(* "already in flight" (idempotency.py:63-66).                             *)
RaceLoserStops ==
  \A c \in Calls : \A m, n \in sent[c] :
    seen[c][m] = "none" /\ seen[c][n] = "none" => m = n

(* Once the completion is recorded no attempt of the call is in, or can    *)
(* come back to, the side effect: every later attempt replays the record   *)
(* (idempotency.py:58-61).  This is all that guards the dispute filing     *)
(* after a crash, and it needs fresh reads and attempts that do not        *)
(* overlap.                                                                *)
CompletedIsFinal ==
  \A c \in Calls : record[c] = "completed" =>
    /\ inflight[c] = {}
    /\ \A n \in Attempts : pc[c][n] \notin Performing \cup {"claiming"}

(* Arming the switch crashes one worker: the switch "disarms itself the    *)
(* instant it fires, so a restarted worker doesn't kill itself again"      *)
(* (models.py:175-181).                                                    *)
OneExitPerArm == exits <= arms

(* What the workflow may rely on.                                          *)
Promise == INSTANCE OnceOnly WITH
  verdict <- [c \in Calls |-> IF status[c] \in {"waiting", "running"}
                              THEN "open" ELSE status[c]]

(* A call as the workflow sees it: one effect at most, applied while the   *)
(* call is open (no payment lands after the job was told it failed), and   *)
(* success only on an effect.                                              *)
KeepsPromise == Promise!Spec

(* A call never hangs: crashes, timeouts and errors use up attempts, and   *)
(* the workflow gets a verdict.                                            *)
EveryCallCloses ==
  \A c \in Calls : <>(status[c] \in {"succeeded", "failed"})
=============================================================================
