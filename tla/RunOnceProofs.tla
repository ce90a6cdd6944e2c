--------------------------- MODULE RunOnceProofs ---------------------------
(***************************************************************************)
(* Theorems about RunOnce, for every set of calls and workers and every    *)
(* number of attempts.                                                     *)
(***************************************************************************)
EXTENDS RunOnce, FiniteSetTheorems, TLAPS

(* What the provers need of the arithmetic of attempts, and that labels    *)
(* and record states are what they are.                                    *)
LEMMA AttemptsAreNaturals ==
  /\ MaxAttempts \in Nat /\ MaxAttempts > 0
  /\ Attempts \subseteq Nat
  /\ \A k \in 0 .. MaxAttempts : k < MaxAttempts => k + 1 \in Attempts
  /\ \A k \in Attempts : k \in 0 .. MaxAttempts
BY RunOnceAssumption DEF Attempts

(* Goto moves one attempt and no other. *)
LEMMA GotoEffect ==
  ASSUME TypeOK, NEW c \in Calls, NEW n \in Attempts, NEW label, Goto(c, n, label)
  PROVE  \A d \in Calls, m \in Attempts :
           pc'[d][m] = IF d = c /\ m = n THEN label ELSE pc[d][m]
BY DEF TypeOK, Goto

(* What a process that exits leaves behind: its live attempts are gone.    *)
LEMMA ExitEffect ==
  ASSUME TypeOK, NEW w, Exit(w)
  PROVE  /\ pc' \in [Calls -> [Attempts -> Labels]]
         /\ \A c \in Calls, n \in Attempts :
              \/ pc'[c][n] = pc[c][n]
              \/ pc'[c][n] = "gone" /\ pc[c][n] # "idle" /\ host[c][n] = w
<1>1. \A c \in Calls, n \in Attempts : pc[c][n] \in Labels
  BY DEF TypeOK
<1> QED
  BY <1>1 DEF Exit, Live, Labels

(* A step of an attempt keeps every variable in its type.                  *)
LEMMA StepKeepsTypes ==
  ASSUME TypeOK, NEW c \in Calls, NEW n \in Attempts, Step(c, n)
  PROVE  TypeOK'
<1> USE DEF TypeOK, Goto, server, provider, switch, Statuses, Labels, RecordStates
<1>1. CASE ReadRecord(c, n)
  BY <1>1 DEF ReadRecord, Readable
<1>2. CASE Claim(c, n)
  <2>1. PICK label \in Labels : Goto(c, n, label)
    BY <1>2 DEF Claim, Perform
  <2>2. record' \in [Calls -> RecordStates]
    BY <1>2 DEF Claim
  <2> QED
    BY <1>2, <2>1, <2>2 DEF Claim
<1>3. CASE CheckProvider(c, n)
  BY <1>3 DEF CheckProvider
<1>4. CASE SendPost(c, n)
  <2>1. sent' \in [Calls -> SUBSET Attempts] /\ inflight' \in [Calls -> SUBSET Attempts]
    BY <1>4 DEF SendPost
  <2> QED
    BY <1>4, <2>1 DEF SendPost
<1>5. CASE GiveUp(c, n)
  BY <1>5 DEF GiveUp
<1>6. CASE Accept(c, n)
  <2>1. inflight' \in [Calls -> SUBSET Attempts] /\ effects' \in [Calls -> Nat]
    BY <1>6 DEF Accept, Handle
  <2>2. pc' \in [Calls -> [Attempts -> Labels]]
    <3>1. pc[c][n] \in Labels
      OBVIOUS
    <3>2. PICK outcome : outcome \in Labels /\ Goto(c, n, outcome)
      <4>1. CASE pc[c][n] = "awaiting"
        BY <1>6, <4>1 DEF Accept
      <4>2. CASE pc[c][n] # "awaiting"
        BY <1>6, <3>1, <4>2 DEF Accept
      <4> QED
        BY <4>1, <4>2
    <3> QED
      BY <3>2
  <2> QED
    BY <1>6, <2>1, <2>2 DEF Accept
<1>7. CASE Refuse(c, n)
  <2>1. inflight' \in [Calls -> SUBSET Attempts]
    BY <1>7 DEF Refuse, Handle
  <2>2. pc' \in [Calls -> [Attempts -> Labels]]
    <3>1. pc[c][n] \in Labels
      OBVIOUS
    <3>2. PICK outcome : outcome \in Labels /\ Goto(c, n, outcome)
      <4>1. CASE pc[c][n] = "awaiting"
        BY <1>7, <4>1 DEF Refuse
      <4>2. CASE pc[c][n] # "awaiting"
        BY <1>7, <3>1, <4>2 DEF Refuse
      <4> QED
        BY <4>1, <4>2
    <3> QED
      BY <3>2
  <2> QED
    BY <1>7, <2>1, <2>2 DEF Refuse
<1>8. CASE ReadSwitch(c, n)
  <2>1. \/ Goto(c, n, "firing")
        \/ Goto(c, n, "completing")
    BY <1>8 DEF ReadSwitch
  <2> QED
    BY <1>8, <2>1 DEF ReadSwitch
<1>9. CASE FireSwitch(c, n)
  <2>1. pc' \in [Calls -> [Attempts -> Labels]]
    <3>1. CASE Exit(host[c][n])
      BY <3>1, ExitEffect
    <3>2. CASE Goto(c, n, "raised")
      BY <3>2
    <3> QED
      BY <1>9, <3>1, <3>2 DEF FireSwitch
  <2>2. armed' \in BOOLEAN
    <3>1. armed' = FALSE
      BY <1>9 DEF FireSwitch
    <3> QED
      BY <3>1, Zenon
  <2>3. exits' \in Nat
    <3>1. exits' = exits + 1 \/ exits' = exits
      BY <1>9 DEF FireSwitch
    <3> QED
      BY <3>1
  <2>4. UNCHANGED <<status, attempt, host, seen, record, sent, inflight, effects, arms>>
    BY <1>9 DEF FireSwitch
  <2> QED
    BY <2>1, <2>2, <2>3, <2>4
<1>10. CASE Complete(c, n)
  BY <1>10 DEF Complete
<1>11. CASE Raise(c, n)
  BY <1>11 DEF Raise
<1>12. CASE Report(c, n)
  BY <1>12 DEF Report, Verdict, AfterFailure
<1> QED
  BY <1>1, <1>2, <1>3, <1>4, <1>5, <1>6, <1>7, <1>8, <1>9, <1>10, <1>11, <1>12
     DEF Step

(* So does every step of the system: TypeOK is inductive by itself. *)
LEMMA NextKeepsTypes == TypeOK /\ [Next]_vars => TypeOK'
<1> SUFFICES ASSUME TypeOK, [Next]_vars
             PROVE  TypeOK'
  OBVIOUS
<1> USE DEF server, provider, switch
<1>1. ASSUME NEW c \in Calls, NEW w \in Workers, StartAttempt(c, w)
      PROVE  TypeOK'
  BY <1>1, AttemptsAreNaturals DEF TypeOK, StartAttempt, Goto, Statuses, Labels
<1>2. ASSUME NEW c \in Calls, Timeout(c)
      PROVE  TypeOK'
  BY <1>2 DEF TypeOK, Timeout, AfterFailure, Statuses
<1>3. ASSUME NEW c \in Calls, NEW n \in Attempts, Step(c, n)
      PROVE  TypeOK'
  BY <1>3, StepKeepsTypes
<1>4. ASSUME NEW w \in Workers, Crash(w)
      PROVE  TypeOK'
  <2>1. pc' \in [Calls -> [Attempts -> Labels]]
    BY <1>4, ExitEffect DEF Crash
  <2> QED
    BY <1>4, <2>1 DEF TypeOK, Crash
<1>5. CASE ArmKillSwitch
  BY <1>5 DEF TypeOK, ArmKillSwitch
<1>6. CASE UNCHANGED vars
  BY <1>6 DEF TypeOK, vars
<1> QED
  BY <1>1, <1>2, <1>3, <1>4, <1>5, <1>6 DEF Next, Dispatch

(* Before the first dispatch everything is well typed. *)
LEMMA InitTypes == Init => TypeOK
<1> SUFFICES ASSUME Init
             PROVE  TypeOK
  OBVIOUS
<1>1. 0 \in 0 .. MaxAttempts /\ 0 < MaxAttempts
  BY AttemptsAreNaturals
<1>2. /\ status \in [Calls -> Statuses]
      /\ attempt \in [Calls -> 0 .. MaxAttempts]
      /\ \A c \in Calls : status[c] = "waiting" /\ attempt[c] < MaxAttempts
  BY <1>1 DEF Init, Statuses
<1>3. /\ pc \in [Calls -> [Attempts -> Labels]]
      /\ host \in [Calls -> [Attempts -> Workers \cup {NoWorker}]]
      /\ seen \in [Calls -> [Attempts -> RecordStates]]
  BY DEF Init, Labels, RecordStates
<1>4. /\ record \in [Calls -> RecordStates]
      /\ sent \in [Calls -> SUBSET Attempts]
      /\ inflight \in [Calls -> SUBSET Attempts]
      /\ effects \in [Calls -> Nat]
      /\ armed \in BOOLEAN /\ arms \in Nat /\ exits \in Nat
  BY DEF Init, RecordStates
<1> QED
  BY <1>2, <1>3, <1>4 DEF TypeOK

(* Every reachable state is well typed; in particular no call is left      *)
(* waiting with its attempts used up (catalog.py:38-41).                   *)
THEOREM TypesHold == Spec => []TypeOK
BY InitTypes, NextKeepsTypes, PTL DEF Spec

-----------------------------------------------------------------------------
(* No false success.  An attempt that is past perform has an effect behind *)
(* it, its own or, for a payment, the one its GET found.                   *)
PastPerform == {"killCheck", "firing", "completing", "returned"}

SuccessInv ==
  /\ NoFalseSuccess
  /\ \A c \in Calls, n \in Attempts : pc[c][n] \in PastPerform => effects[c] > 0

(* A stale read is a past one: it shows a completion only if there is one. *)
LEMMA ReadableCompleted ==
  ASSUME TypeOK, NEW c \in Calls, "completed" \in Readable(c)
  PROVE  record[c] = "completed"
BY DEF TypeOK, Readable, RecordStates

(* A step of an attempt gets past perform, or records a completion, only *)
(* with an effect behind it. *)
LEMMA StepKeepsSuccess ==
  ASSUME TypeOK, SuccessInv, NEW c \in Calls, NEW n \in Attempts, Step(c, n)
  PROVE  SuccessInv'
<1> USE DEF SuccessInv, NoFalseSuccess, PastPerform, server, provider, switch
<1>0. \A d \in Calls : effects[d] \in Nat
  BY DEF TypeOK
<1>1. CASE ReadRecord(c, n)
  <2>1. PICK found \in Readable(c) :
          Goto(c, n, IF found = "completed" THEN "returned" ELSE "claiming")
    BY <1>1 DEF ReadRecord
  <2>2. found = "completed" => effects[c] > 0
    BY <2>1, ReadableCompleted
  <2> QED
    BY <1>1, <2>1, <2>2, GotoEffect DEF ReadRecord
<1>2. CASE Claim(c, n)
  <2>1. \A d \in Calls : record'[d] = "completed" => record[d] = "completed"
    BY <1>2 DEF Claim, TypeOK
  <2>2. PICK label \in {"checking", "posting", "raised"} : Goto(c, n, label)
    BY <1>2 DEF Claim, Perform
  <2>3. UNCHANGED <<status, effects>>
    BY <1>2 DEF Claim
  <2> QED
    BY <2>1, <2>2, <2>3, GotoEffect
<1>3. CASE CheckProvider(c, n)
  BY <1>3, GotoEffect DEF CheckProvider
<1>4. CASE SendPost(c, n)
  BY <1>4, GotoEffect DEF SendPost
<1>5. CASE GiveUp(c, n)
  BY <1>5, GotoEffect DEF GiveUp
<1>6. CASE Accept(c, n)
  <2>1. effects'[c] > 0 /\ \A d \in Calls : effects'[d] >= effects[d]
    BY <1>0, <1>6 DEF Accept, TypeOK
  <2>2. PICK outcome : Goto(c, n, outcome)
    BY <1>6 DEF Accept
  <2>3. \A d \in Calls, m \in Attempts : d # c => pc'[d][m] = pc[d][m]
    BY <2>2, GotoEffect
  <2>4. UNCHANGED <<status, record>>
    BY <1>6 DEF Accept
  <2>5. \A d \in Calls : effects'[d] \in Nat
    BY <1>0, <1>6 DEF Accept, TypeOK
  <2> QED
    BY <1>0, <2>1, <2>3, <2>4, <2>5
<1>7. CASE Refuse(c, n)
  <2>1. PICK outcome : Goto(c, n, outcome) /\ outcome \in {"raised", "declined", pc[c][n]}
    <3>1. CASE pc[c][n] = "awaiting"
      BY <1>7, <3>1 DEF Refuse
    <3>2. CASE pc[c][n] # "awaiting"
      BY <1>7, <3>2 DEF Refuse
    <3> QED
      BY <3>1, <3>2
  <2> QED
    BY <1>7, <2>1, GotoEffect DEF Refuse
<1>8. CASE ReadSwitch(c, n)
  <2>1. Goto(c, n, "firing") \/ Goto(c, n, "completing")
    BY <1>8 DEF ReadSwitch
  <2> QED
    BY <1>8, <2>1, GotoEffect DEF ReadSwitch
<1>9. CASE FireSwitch(c, n)
  <2>1. UNCHANGED <<status, record, effects>>
    BY <1>9 DEF FireSwitch
  <2>2. CASE Exit(host[c][n])
    BY <2>1, <2>2, ExitEffect
  <2>3. CASE Goto(c, n, "raised")
    BY <2>1, <2>3, GotoEffect
  <2> QED
    BY <1>9, <2>2, <2>3 DEF FireSwitch
<1>10. CASE Complete(c, n)
  <2>1. effects[c] > 0 /\ UNCHANGED <<status, effects>>
    BY <1>10 DEF Complete
  <2>2. \A d \in Calls : record'[d] = "completed" => d = c \/ record[d] = "completed"
    BY <1>10 DEF Complete, TypeOK
  <2>3. \E outcome \in {"returned", "raised"} : Goto(c, n, outcome)
    BY <1>10 DEF Complete
  <2> QED
    BY <2>1, <2>2, <2>3, GotoEffect
<1>11. CASE Raise(c, n)
  BY <1>11, GotoEffect DEF Raise
<1>12. CASE Report(c, n)
  <2>1. \A d \in Calls : status'[d] = "succeeded" =>
          status[d] = "succeeded" \/ (d = c /\ pc[c][n] = "returned")
    BY <1>12 DEF Report, Verdict, AfterFailure, TypeOK
  <2>2. Goto(c, n, "gone") /\ UNCHANGED <<record, effects>>
    BY <1>12 DEF Report
  <2> QED
    BY <2>1, <2>2, GotoEffect
<1> QED
  BY <1>1, <1>2, <1>3, <1>4, <1>5, <1>6, <1>7, <1>8, <1>9, <1>10, <1>11, <1>12
     DEF Step

(* Dispatch, timeouts, crashes and the switch record nothing. *)
LEMMA NextKeepsSuccess == TypeOK /\ SuccessInv /\ [Next]_vars => SuccessInv'
<1> SUFFICES ASSUME TypeOK, SuccessInv, [Next]_vars
             PROVE  SuccessInv'
  OBVIOUS
<1> USE DEF SuccessInv, NoFalseSuccess, PastPerform, server, provider, switch
<1>1. ASSUME NEW c \in Calls, NEW w \in Workers, StartAttempt(c, w)
      PROVE  SuccessInv'
  <2>1. attempt[c] + 1 \in Attempts
    BY <1>1, AttemptsAreNaturals DEF StartAttempt, TypeOK
  <2>2. Goto(c, attempt[c] + 1, "reading") /\ UNCHANGED <<record, effects>>
    BY <1>1 DEF StartAttempt
  <2>3. \A d \in Calls : status'[d] = "succeeded" => status[d] = "succeeded"
    BY <1>1 DEF StartAttempt, TypeOK
  <2> QED
    BY <2>1, <2>2, <2>3, GotoEffect
<1>2. ASSUME NEW c \in Calls, Timeout(c)
      PROVE  SuccessInv'
  BY <1>2 DEF Timeout, AfterFailure, TypeOK
<1>3. ASSUME NEW c \in Calls, NEW n \in Attempts, Step(c, n)
      PROVE  SuccessInv'
  BY <1>3, StepKeepsSuccess
<1>4. ASSUME NEW w \in Workers, Crash(w)
      PROVE  SuccessInv'
  <2>1. Exit(w) /\ UNCHANGED <<status, record, effects>>
    BY <1>4 DEF Crash
  <2> QED
    BY <2>1, ExitEffect
<1>5. CASE ArmKillSwitch
  BY <1>5 DEF ArmKillSwitch
<1>6. CASE UNCHANGED vars
  BY <1>6 DEF vars
<1> QED
  BY <1>1, <1>2, <1>3, <1>4, <1>5, <1>6 DEF Next, Dispatch

(* A completed record and a succeeded call always have an effect behind    *)
(* them: run_once records only what perform returned, and replays only     *)
(* what is recorded (idempotency.py:58-74).  No assumption on crashes,     *)
(* stale reads, late posts or overlapping attempts.                        *)
THEOREM SuccessIsNeverFalse == Spec => []NoFalseSuccess
<1>1. Init => SuccessInv
  BY DEF Init, SuccessInv, NoFalseSuccess, PastPerform
<1>2. SuccessInv => NoFalseSuccess
  BY DEF SuccessInv
<1> QED
  BY <1>1, <1>2, NextKeepsSuccess, TypesHold, PTL DEF Spec

-----------------------------------------------------------------------------
(* At most once, and no way back.  A POST is handled before its sender is  *)
(* gone and attempts of a call do not overlap: then the payment's GET      *)
(* makes up for everything the record cannot tell, and the record, if it   *)
(* is read fresh, ends the call.                                           *)
Prompt == ~LatePosts /\ ~Overlap
PromptPayment == Prompt /\ ChecksProvider
PromptFreshReads == Prompt /\ ~StaleReads

(* Only the latest attempt of a running call is alive. *)
OneAlive ==
  /\ \A c \in Calls, n \in Attempts :
       pc[c][n] \notin {"idle", "gone"} => n = attempt[c] /\ status[c] = "running"
  /\ \A c \in Calls, n \in Attempts : n > attempt[c] => pc[c][n] = "idle"

(* A POST on its way has its sender waiting. *)
SenderWaits ==
  \A c \in Calls : \A n \in inflight[c] : pc[c][n] = "awaiting"

(* An attempt that is about to post, or has posted, found no effect, and   *)
(* there still is none.                                                    *)
NothingYet ==
  \A c \in Calls, n \in Attempts :
    pc[c][n] \in {"posting", "awaiting"} => effects[c] = 0

PromptInv ==
  /\ OneAlive
  /\ SenderWaits
  /\ ChecksProvider => NothingYet /\ AtMostOnce
  /\ ~StaleReads => CompletedIsFinal

(* A process that exits takes no post on its way with it. *)
LEMMA ExitKeepsPrompt ==
  ASSUME Prompt, TypeOK, PromptInv, NEW w, Exit(w),
         UNCHANGED <<status, attempt, record, inflight, effects>>
  PROVE  PromptInv'
<1>1. \A c \in Calls : \A n \in inflight[c] : pc'[c][n] = pc[c][n]
  BY DEF Exit, Live, TypeOK, Prompt, PromptInv, SenderWaits
<1>2. SenderWaits'
  BY <1>1 DEF PromptInv, SenderWaits
<1>3. OneAlive'
  BY ExitEffect DEF PromptInv, OneAlive
<1>4. ChecksProvider => NothingYet' /\ AtMostOnce'
  BY ExitEffect DEF PromptInv, NothingYet, AtMostOnce
<1>5. ~StaleReads => CompletedIsFinal'
  BY ExitEffect DEF PromptInv, CompletedIsFinal, Performing
<1> QED
  BY <1>2, <1>3, <1>4, <1>5 DEF PromptInv

(* A step of the one attempt alive applies no second effect, since it posts *)
(* only after having seen that there is none, and it enters perform only    *)
(* after having seen that nothing is recorded.                              *)
LEMMA StepKeepsPrompt ==
  ASSUME Prompt, TypeOK, PromptInv,
         NEW c \in Calls, NEW n \in Attempts, Step(c, n)
  PROVE  PromptInv'
<1> USE DEF server, provider, switch
<1>0. /\ pc[c][n] \notin {"idle", "gone"}
      /\ n = attempt[c] /\ status[c] = "running"
      /\ \A m \in Attempts : m # n => pc[c][m] \in {"idle", "gone"}
  <2>1. pc[c][n] \notin {"idle", "gone"}
    BY DEF Step, ReadRecord, Claim, CheckProvider, SendPost, GiveUp, Accept, Refuse, Handle,
           ReadSwitch, FireSwitch, Complete, Raise, Report, PromptInv, SenderWaits
  <2> QED
    BY <2>1 DEF PromptInv, OneAlive
<1>1. /\ ChecksProvider => effects[c] \in {0, 1}
      /\ pc[c][n] # "awaiting" => inflight[c] = {}
      /\ inflight[c] \subseteq {n}
      /\ ~StaleReads /\ record[c] = "completed" => pc[c][n] \notin Performing \cup {"claiming"}
  <2>1. effects[c] \in Nat /\ (ChecksProvider => effects[c] <= 1)
    BY DEF PromptInv, AtMostOnce, TypeOK
  <2>2. \A m \in inflight[c] : m \in Attempts /\ pc[c][m] = "awaiting"
    BY DEF PromptInv, SenderWaits, TypeOK
  <2>3. \A m \in inflight[c] : m = n
    BY <1>0, <2>2
  <2>4. ~StaleReads /\ record[c] = "completed" => pc[c][n] \notin Performing \cup {"claiming"}
    BY DEF PromptInv, CompletedIsFinal
  <2> QED
    BY <2>1, <2>2, <2>3, <2>4
<1>2. ASSUME NEW label, Goto(c, n, label), label # "idle",
             UNCHANGED attempt,
             \A d \in Calls : d # c \/ label # "gone" => status'[d] = status[d],
             \A d \in Calls \ {c} : inflight'[d] = inflight[d] /\ effects'[d] = effects[d],
             inflight'[c] = {} \/ (inflight'[c] = {n} /\ label = "awaiting"),
             ChecksProvider => effects'[c] \in {0, 1},
             ChecksProvider /\ label \in {"posting", "awaiting"} => effects'[c] = 0,
             \A d \in Calls \ {c} : record'[d] = record[d],
             ~StaleReads /\ record'[c] = "completed"
               => label \notin Performing \cup {"claiming"}
      PROVE  PromptInv'
  <2>1. \A d \in Calls, m \in Attempts :
          pc'[d][m] = IF d = c /\ m = n THEN label ELSE pc[d][m]
    BY <1>2, GotoEffect
  <2>2. OneAlive'
    BY <1>0, <1>2, <2>1 DEF OneAlive, PromptInv
  <2>3. SenderWaits'
    BY <1>2, <2>1 DEF SenderWaits, PromptInv, TypeOK
  <2>4. ChecksProvider => NothingYet'
    BY <1>0, <1>2, <2>1 DEF NothingYet, PromptInv
  <2>5. ChecksProvider => AtMostOnce'
    BY <1>2 DEF AtMostOnce, PromptInv
  <2>6. ~StaleReads => CompletedIsFinal'
    BY <1>0, <1>2, <2>1 DEF CompletedIsFinal, Performing, PromptInv
  <2> QED
    BY <2>2, <2>3, <2>4, <2>5, <2>6 DEF PromptInv
<1>3. CASE ReadRecord(c, n)
  <2>1. PICK found \in Readable(c) :
          Goto(c, n, IF found = "completed" THEN "returned" ELSE "claiming")
    BY <1>3 DEF ReadRecord
  <2>2. ~StaleReads => found = record[c]
    BY <2>1 DEF Readable
  <2> QED
    BY <1>2, <1>1, <1>3, <2>1, <2>2 DEF ReadRecord, Performing
<1>4. CASE Claim(c, n)
  <2>1. PICK label : Goto(c, n, label)
                     /\ label \in IF ChecksProvider THEN {"checking", "raised"}
                                                    ELSE {"posting", "raised"}
    BY <1>4 DEF Claim, Perform
  <2>2. /\ \A d \in Calls \ {c} : record'[d] = record[d]
        /\ record'[c] = "completed" => record[c] = "completed"
    BY <1>4 DEF Claim, TypeOK
  <2> QED
    BY <1>2, <1>1, <1>4, <2>1, <2>2 DEF Claim
<1>5. CASE CheckProvider(c, n)
  <2>1. CASE Goto(c, n, "killCheck")
    BY <1>2, <1>1, <1>5, <2>1 DEF CheckProvider, Performing
  <2>2. CASE Goto(c, n, "posting") /\ ~(effects[c] > 0)
    BY <1>2, <1>1, <1>5, <2>2 DEF CheckProvider, Performing
  <2> QED
    BY <1>5, <2>1, <2>2 DEF CheckProvider
<1>6. CASE SendPost(c, n)
  <2>1. ChecksProvider => effects[c] = 0
    BY <1>6 DEF SendPost, PromptInv, NothingYet
  <2>2. inflight'[c] = {n}
    BY <1>1, <1>6 DEF SendPost, TypeOK
  <2>3. \A d \in Calls \ {c} : inflight'[d] = inflight[d]
    BY <1>6 DEF SendPost, TypeOK
  <2> QED
    BY <1>1, <1>2, <1>6, <2>1, <2>2, <2>3 DEF SendPost, Performing
<1>7. CASE GiveUp(c, n)
  BY <1>7 DEF GiveUp, Prompt
<1>8. CASE Accept(c, n)
  <2>1. n \in inflight[c] /\ pc[c][n] = "awaiting"
    BY <1>8 DEF Accept, Handle, PromptInv, SenderWaits
  <2>2. PICK label \in {"killCheck", "raised"} : Goto(c, n, label)
    BY <1>8, <2>1 DEF Accept
  <2>3. ChecksProvider => effects[c] = 0
    BY <2>1 DEF PromptInv, NothingYet
  <2>4. /\ ChecksProvider => effects'[c] = 1
        /\ \A d \in Calls \ {c} : effects'[d] = effects[d]
    BY <1>8, <2>3 DEF Accept, TypeOK
  <2>5. inflight'[c] = {} /\ \A d \in Calls \ {c} : inflight'[d] = inflight[d]
    BY <1>1, <1>8 DEF Accept, Handle, TypeOK
  <2> QED
    BY <1>2, <1>8, <2>2, <2>4, <2>5 DEF Accept, Performing
<1>9. CASE Refuse(c, n)
  <2>1. n \in inflight[c] /\ pc[c][n] = "awaiting"
    BY <1>9 DEF Refuse, Handle, PromptInv, SenderWaits
  <2>2. PICK label \in {"raised", "declined"} : Goto(c, n, label)
    BY <1>9, <2>1 DEF Refuse
  <2>3. inflight'[c] = {} /\ \A d \in Calls \ {c} : inflight'[d] = inflight[d]
    BY <1>1, <1>9 DEF Refuse, Handle, TypeOK
  <2> QED
    BY <1>2, <1>1, <1>9, <2>2, <2>3 DEF Refuse, Performing
<1>10. CASE ReadSwitch(c, n)
  <2>1. PICK label \in {"firing", "completing"} : Goto(c, n, label)
    BY <1>10 DEF ReadSwitch
  <2> QED
    BY <1>2, <1>1, <1>10, <2>1 DEF ReadSwitch, Performing
<1>11. CASE FireSwitch(c, n)
  <2>1. CASE Exit(host[c][n])
    BY <1>11, <2>1, ExitKeepsPrompt DEF FireSwitch
  <2>2. CASE Goto(c, n, "raised")
    BY <1>2, <1>1, <1>11, <2>2 DEF FireSwitch, Performing
  <2> QED
    BY <1>11, <2>1, <2>2 DEF FireSwitch
<1>12. CASE Complete(c, n)
  <2>1. PICK label \in {"returned", "raised"} : Goto(c, n, label)
    BY <1>12 DEF Complete
  <2>2. \A d \in Calls \ {c} : record'[d] = record[d]
    BY <1>12 DEF Complete, TypeOK
  <2> QED
    BY <1>2, <1>1, <1>12, <2>1, <2>2 DEF Complete, Performing
<1>13. CASE Raise(c, n)
  BY <1>2, <1>1, <1>13 DEF Raise, Performing
<1>14. CASE Report(c, n)
  <2>1. \A d \in Calls : d # c => status'[d] = status[d]
    BY <1>14 DEF Report, TypeOK
  <2> QED
    BY <1>2, <1>1, <1>14, <2>1 DEF Report, Performing
<1> QED
  BY <1>3, <1>4, <1>5, <1>6, <1>7, <1>8, <1>9, <1>10, <1>11, <1>12, <1>13, <1>14
     DEF Step

(* A new attempt starts only when the last one is gone. *)
LEMMA NextKeepsPrompt ==
  ASSUME Prompt, TypeOK, PromptInv, [Next]_vars
  PROVE  PromptInv'
<1> USE DEF server, provider, switch
<1>1. ASSUME NEW c \in Calls, NEW w \in Workers, StartAttempt(c, w)
      PROVE  PromptInv'
  <2> DEFINE n == attempt[c] + 1
  <2>1. n \in Attempts
    BY <1>1, AttemptsAreNaturals DEF StartAttempt, TypeOK
  <2>2. \A d \in Calls, m \in Attempts :
          pc'[d][m] = IF d = c /\ m = n THEN "reading" ELSE pc[d][m]
    BY <1>1, <2>1, GotoEffect DEF StartAttempt
  <2>3. /\ \A d \in Calls : attempt'[d] = IF d = c THEN n ELSE attempt[d]
        /\ \A d \in Calls : status'[d] = IF d = c THEN "running" ELSE status[d]
        /\ UNCHANGED <<record, inflight, effects>>
    BY <1>1 DEF StartAttempt, TypeOK
  <2>4. pc[c][n] = "idle"
    <3>1. attempt[c] \in Nat /\ n > attempt[c]
      BY AttemptsAreNaturals DEF TypeOK
    <3> QED
      BY <2>1, <3>1 DEF PromptInv, OneAlive
  <2>5. \A m \in Attempts : pc[c][m] \in {"idle", "gone"}
    BY <1>1 DEF StartAttempt, PromptInv, OneAlive
  <2>6. OneAlive'
    <3>1. \A m \in Attempts : m > n => m > attempt[c] /\ m # n
      BY AttemptsAreNaturals DEF TypeOK
    <3> HIDE DEF n
    <3> QED
      BY <2>2, <2>3, <2>5, <3>1 DEF PromptInv, OneAlive
  <2>7. SenderWaits'
    <3>1. \A d \in Calls : \A m \in inflight[d] : m \in Attempts /\ pc[d][m] = "awaiting"
      BY DEF PromptInv, SenderWaits, TypeOK
    <3> HIDE DEF n
    <3>2. \A d \in Calls : \A m \in inflight[d] : pc'[d][m] = "awaiting"
      BY <2>2, <2>4, <3>1
    <3> QED
      BY <2>3, <3>2 DEF SenderWaits
  <2>8. ChecksProvider => NothingYet' /\ AtMostOnce'
    BY <2>2, <2>3 DEF PromptInv, NothingYet, AtMostOnce
  <2>9. ~StaleReads => CompletedIsFinal'
    BY <2>2, <2>3 DEF PromptInv, CompletedIsFinal, Performing
  <2> QED
    BY <2>6, <2>7, <2>8, <2>9 DEF PromptInv
<1>2. ASSUME NEW c \in Calls, Timeout(c)
      PROVE  PromptInv'
  <2>1. \A n \in Attempts : pc[c][n] \in {"idle", "gone"}
    BY <1>2 DEF Timeout, Prompt, PromptInv, OneAlive, TypeOK
  <2>2. UNCHANGED <<attempt, pc, record, inflight, effects>>
        /\ \A d \in Calls : d # c => status'[d] = status[d]
    BY <1>2 DEF Timeout, TypeOK
  <2> QED
    BY <2>1, <2>2 DEF PromptInv, OneAlive, SenderWaits, NothingYet, AtMostOnce, CompletedIsFinal
<1>3. ASSUME NEW c \in Calls, NEW n \in Attempts, Step(c, n)
      PROVE  PromptInv'
  BY <1>3, StepKeepsPrompt
<1>4. ASSUME NEW w \in Workers, Crash(w)
      PROVE  PromptInv'
  BY <1>4, ExitKeepsPrompt DEF Crash
<1>5. CASE ArmKillSwitch
  BY <1>5 DEF ArmKillSwitch, PromptInv, OneAlive, SenderWaits, NothingYet, AtMostOnce, CompletedIsFinal
<1>6. CASE UNCHANGED vars
  BY <1>6 DEF vars, PromptInv, OneAlive, SenderWaits, NothingYet, AtMostOnce, CompletedIsFinal
<1> QED
  BY <1>1, <1>2, <1>3, <1>4, <1>5, <1>6 DEF Next, Dispatch

(* At first no attempt is alive and nothing is applied. *)
LEMMA InitPrompt == Init => PromptInv
<1> SUFFICES ASSUME Init
             PROVE  PromptInv
  OBVIOUS
<1>1. \A c \in Calls : effects[c] = 0 /\ inflight[c] = {}
  BY DEF Init
<1>2. \A c \in Calls, n \in Attempts : pc[c][n] = "idle"
  BY DEF Init
<1>3. \A c \in Calls : record[c] = "none"
  BY DEF Init
<1> QED
  BY <1>1, <1>2, <1>3
     DEF PromptInv, OneAlive, SenderWaits, NothingYet, AtMostOnce, CompletedIsFinal

(* "Pay an invoice at most once, however many times this activity is       *)
(* retried" (payment.py:90), through any crash, kill switch, error, stale  *)
(* read and lost answer.  The two assumptions on time are the ones the     *)
(* code makes without saying so; without either of them a payment can be   *)
(* made twice.                                                             *)
THEOREM PaymentAtMostOnce == PromptPayment => (Spec => []AtMostOnce)
<1> SUFFICES ASSUME PromptPayment
             PROVE  Spec => []AtMostOnce
  OBVIOUS
<1>1. TypeOK /\ PromptInv /\ [Next]_vars => PromptInv'
  BY NextKeepsPrompt DEF PromptPayment
<1>2. PromptInv => AtMostOnce
  BY DEF PromptInv, PromptPayment
<1> QED
  BY <1>1, <1>2, InitPrompt, TypesHold, PTL DEF Spec

(* After the completion is recorded no attempt is in, or gets back into,   *)
(* the side effect, for payments and for dispute filings alike, and        *)
(* through any crash, kill switch, error and lost answer: the replay of    *)
(* the recorded result (idempotency.py:58-61) is enough as long as reads   *)
(* are fresh.                                                              *)
THEOREM CompletionEndsTheCall == PromptFreshReads => (Spec => []CompletedIsFinal)
<1> SUFFICES ASSUME PromptFreshReads
             PROVE  Spec => []CompletedIsFinal
  OBVIOUS
<1>1. TypeOK /\ PromptInv /\ [Next]_vars => PromptInv'
  BY NextKeepsPrompt DEF PromptFreshReads
<1>2. PromptInv => CompletedIsFinal
  BY DEF PromptInv, PromptFreshReads
<1> QED
  BY <1>1, <1>2, InitPrompt, TypesHold, PTL DEF Spec

-----------------------------------------------------------------------------
(* RunOnce implements OnceOnly: every step is a step of the promise, or    *)
(* changes nothing the workflow relies on.                                 *)
Told == [c \in Calls |-> IF status[c] \in {"waiting", "running"} THEN "open" ELSE status[c]]

(* A step that leaves status and effects alone is a stutter of the promise. *)
LEMMA QuietStep ==
  ASSUME UNCHANGED effects,
         \A c \in Calls : status'[c] = status[c] \/
           (status[c] \in {"waiting", "running"} /\ status'[c] \in {"waiting", "running"})
  PROVE  UNCHANGED Promise!vars
<1>1. Told' = Told
  BY DEF Told
<1> QED
  BY <1>1 DEF Promise!vars, Told

(* A verdict with its evidence is a Succeed or a Fail of the promise. *)
LEMMA ClosingStep ==
  ASSUME TypeOK, NEW c \in Calls, NEW v \in {"succeeded", "failed"},
         UNCHANGED effects, status[c] = "running", status' = [status EXCEPT ![c] = v],
         v = "succeeded" => effects[c] = 1
  PROVE  Promise!Next
<1>1. Told[c] = "open" /\ Told' = [Told EXCEPT ![c] = v]
  BY DEF Told, TypeOK
<1>2. CASE v = "succeeded"
  BY <1>1, <1>2 DEF Told, Promise!Next, Promise!Succeed
<1>3. CASE v = "failed"
  BY <1>1, <1>3 DEF Told, Promise!Next, Promise!Fail
<1> QED
  BY <1>2, <1>3

(* Every step of RunOnce is a step or a stutter of OnceOnly. *)
LEMMA StepKeepsPromise ==
  ASSUME PromptPayment, TypeOK, PromptInv, SuccessInv, [Next]_vars
  PROVE  [Promise!Next]_(Promise!vars)
<1> USE DEF server, provider, switch
<1>1. ASSUME NEW c \in Calls, NEW w \in Workers, StartAttempt(c, w)
      PROVE  UNCHANGED Promise!vars
  BY <1>1, QuietStep DEF StartAttempt, TypeOK
<1>2. ASSUME NEW c \in Calls, Timeout(c)
      PROVE  [Promise!Next]_(Promise!vars)
  <2>1. CASE AfterFailure(c) = "waiting"
    BY <1>2, <2>1, QuietStep DEF Timeout, TypeOK
  <2>2. CASE AfterFailure(c) = "failed"
    BY <1>2, <2>2, ClosingStep DEF Timeout
  <2> QED
    BY <2>1, <2>2 DEF AfterFailure
<1>3. ASSUME NEW c \in Calls, NEW n \in Attempts, Accept(c, n)
      PROVE  Promise!Next
  <2>1. pc[c][n] = "awaiting"
    BY <1>3 DEF Accept, Handle, PromptInv, SenderWaits
  <2>2. effects[c] = 0 /\ status[c] = "running"
    BY <2>1 DEF PromptPayment, PromptInv, NothingYet, OneAlive
  <2>3. effects' = [effects EXCEPT ![c] = 1] /\ UNCHANGED status
    BY <1>3, <2>2 DEF Accept
  <2>4. Told[c] = "open" /\ Told' = Told
    BY <2>2, <2>3 DEF Told
  <2> QED
    BY <2>2, <2>3, <2>4 DEF Told, Promise!Next, Promise!Perform
<1>4. ASSUME NEW c \in Calls, NEW n \in Attempts, Report(c, n)
      PROVE  [Promise!Next]_(Promise!vars)
  <2>1. pc[c][n] = "returned" => effects[c] = 1
    <3>1. effects[c] \in Nat /\ effects[c] <= 1
      BY DEF TypeOK, PromptPayment, PromptInv, AtMostOnce
    <3> QED
      BY <3>1 DEF SuccessInv, PastPerform
  <2>2. pc[c][n] \notin {"idle", "gone"} /\ UNCHANGED effects
    BY <1>4 DEF Report
  <2>3. n = attempt[c] /\ status[c] = "running"
    BY <2>2 DEF PromptInv, OneAlive
  <2>4. status' = [status EXCEPT ![c] = Verdict(c, n)]
    BY <1>4, <2>3 DEF Report
  <2>5. \/ Verdict(c, n) = "succeeded" /\ pc[c][n] = "returned"
        \/ Verdict(c, n) = "failed"
        \/ Verdict(c, n) = "waiting"
    BY DEF Verdict, AfterFailure
  <2>6. CASE Verdict(c, n) = "waiting"
    BY <2>2, <2>3, <2>4, <2>6, QuietStep DEF TypeOK
  <2>7. CASE Verdict(c, n) # "waiting"
    BY <2>1, <2>2, <2>3, <2>4, <2>5, <2>7, ClosingStep
  <2> QED
    BY <2>6, <2>7
<1>5. ASSUME NEW c \in Calls, NEW n \in Attempts, Step(c, n), ~Accept(c, n), ~Report(c, n)
      PROVE  UNCHANGED Promise!vars
  <2>1. UNCHANGED <<status, effects>>
    BY <1>5 DEF Step, ReadRecord, Claim, CheckProvider, SendPost, GiveUp, Refuse,
                ReadSwitch, FireSwitch, Complete, Raise
  <2> QED
    BY <2>1, QuietStep
<1>6. ASSUME NEW w \in Workers, Crash(w)
      PROVE  UNCHANGED Promise!vars
  BY <1>6, QuietStep DEF Crash
<1>7. CASE ArmKillSwitch
  BY <1>7, QuietStep DEF ArmKillSwitch
<1>8. CASE UNCHANGED vars
  BY <1>8, QuietStep DEF vars
<1> QED
  BY <1>1, <1>2, <1>3, <1>4, <1>5, <1>6, <1>7, <1>8 DEF Next, Dispatch

(* A workflow may treat issue_payment as the three-action call of          *)
(* OnceOnly: no second effect, no effect after the verdict, no success     *)
(* without the effect (payment.py:88-99 under catalog.py:38-41).           *)
THEOREM PaymentKeepsPromise == PromptPayment => (Spec => KeepsPromise)
<1> SUFFICES ASSUME PromptPayment
             PROVE  Spec => KeepsPromise
  OBVIOUS
<1>1. Init => Promise!Init
  BY DEF Init, Promise!Init
<1>2. TypeOK /\ PromptInv /\ [Next]_vars => PromptInv'
  BY NextKeepsPrompt DEF PromptPayment
<1>3. TypeOK /\ PromptInv /\ SuccessInv /\ [Next]_vars => [Promise!Next]_(Promise!vars)
  BY StepKeepsPromise
<1>4. Init => SuccessInv
  BY DEF Init, SuccessInv, NoFalseSuccess, PastPerform
<1> QED
  BY <1>1, <1>2, <1>3, <1>4, InitPrompt, NextKeepsSuccess, TypesHold, PTL
     DEF Spec, KeepsPromise, Promise!Spec

-----------------------------------------------------------------------------
(* The claim, in every environment.  Attempts that read no record and are  *)
(* past the claim, or were when they posted.                               *)
Blind(c) == {n \in Attempts : /\ seen[c][n] = "none"
                              /\ n \in sent[c] \/ pc[c][n] \in {"checking", "posting"}}

RaceInv ==
  /\ \A c \in Calls, n \in Attempts : n > attempt[c] => pc[c][n] = "idle"
  /\ \A c \in Calls, n \in Attempts :
       pc[c][n] \in {"idle", "reading", "claiming"} => n \notin sent[c]
  /\ \A c \in Calls : \A m, n \in Blind(c) : m = n
  /\ \A c \in Calls : record[c] = "none" => Blind(c) = {}

(* A step that takes an attempt past no claim and removes no record.       *)
LEMMA PlainStep ==
  ASSUME TypeOK, RaceInv, NEW c \in Calls, NEW n \in Attempts, NEW label, Goto(c, n, label),
         UNCHANGED <<attempt, seen, sent>>,
         \A d \in Calls : record'[d] = "none" => record[d] = "none",
         label \in {"checking", "posting"} => pc[c][n] \in {"checking", "posting"},
         label \in {"reading", "claiming"} => pc[c][n] = label,
         label = "idle" <=> pc[c][n] = "idle"
  PROVE  RaceInv'
<1>1. \A d \in Calls, m \in Attempts :
        pc'[d][m] = IF d = c /\ m = n THEN label ELSE pc[d][m]
  BY GotoEffect
<1>2. \A d \in Calls : Blind(d)' \subseteq Blind(d)
  BY <1>1 DEF Blind
<1>3. \A d \in Calls, m \in Attempts : m > attempt'[d] => pc'[d][m] = "idle"
  BY <1>1 DEF RaceInv
<1>4. \A d \in Calls, m \in Attempts :
        pc'[d][m] \in {"idle", "reading", "claiming"} => m \notin sent'[d]
  BY <1>1 DEF RaceInv
<1> QED
  BY <1>2, <1>3, <1>4 DEF RaceInv

(* A process that exits takes no attempt past a claim.                     *)
LEMMA ExitKeepsRace ==
  ASSUME TypeOK, RaceInv, NEW w, Exit(w), UNCHANGED <<attempt, seen, sent, record>>
  PROVE  RaceInv'
<1>1. \A d \in Calls, m \in Attempts :
        pc'[d][m] = pc[d][m] \/ (pc'[d][m] = "gone" /\ pc[d][m] # "idle")
  BY DEF Exit, Live
<1>2. \A d \in Calls : Blind(d)' \subseteq Blind(d)
  BY <1>1 DEF Blind
<1>3. \A d \in Calls, m \in Attempts : m > attempt'[d] => pc'[d][m] = "idle"
  BY <1>1 DEF RaceInv
<1>4. \A d \in Calls, m \in Attempts :
        pc'[d][m] \in {"idle", "reading", "claiming"} => m \notin sent'[d]
  BY <1>1 DEF RaceInv
<1> QED
  BY <1>2, <1>3, <1>4 DEF RaceInv

(* Only Claim takes an attempt past the claim, and a blind one only if it  *)
(* creates the record.                                                     *)
LEMMA StepKeepsRace ==
  ASSUME TypeOK, RaceInv, NEW c \in Calls, NEW n \in Attempts, Step(c, n)
  PROVE  RaceInv'
<1> USE DEF server, provider, switch
<1>1. CASE ReadRecord(c, n)
  <2>1. PICK found \in Readable(c) :
          /\ seen' = [seen EXCEPT ![c][n] = found]
          /\ Goto(c, n, IF found = "completed" THEN "returned" ELSE "claiming")
    BY <1>1 DEF ReadRecord
  <2>2. n \notin sent[c] /\ pc[c][n] = "reading"
    BY <1>1 DEF ReadRecord, RaceInv
  <2>3. UNCHANGED <<attempt, record, sent>>
    BY <1>1 DEF ReadRecord
  <2>4. PICK label \in {"returned", "claiming"} : Goto(c, n, label)
    BY <2>1
  <2>5. \A d \in Calls, m \in Attempts :
          pc'[d][m] = IF d = c /\ m = n THEN label ELSE pc[d][m]
    BY <2>4, GotoEffect
  <2>6. \A d \in Calls, m \in Attempts : d # c \/ m # n => seen'[d][m] = seen[d][m]
    BY <2>1 DEF TypeOK
  <2>7. \A d \in Calls : Blind(d)' \subseteq Blind(d)
    BY <2>2, <2>3, <2>5, <2>6 DEF Blind
  <2>8. \A d \in Calls, m \in Attempts : m > attempt'[d] => pc'[d][m] = "idle"
    BY <2>2, <2>3, <2>5 DEF RaceInv
  <2>9. \A d \in Calls, m \in Attempts :
          pc'[d][m] \in {"idle", "reading", "claiming"} => m \notin sent'[d]
    BY <2>2, <2>3, <2>5 DEF RaceInv
  <2> QED
    BY <2>3, <2>7, <2>8, <2>9 DEF RaceInv
<1>2. CASE Claim(c, n)
  <2>1. pc[c][n] = "claiming" /\ UNCHANGED <<attempt, seen, sent>>
    BY <1>2 DEF Claim
  <2>2. record'[c] # "none" /\ \A d \in Calls : record'[d] = "none" => record[d] = "none"
    BY <1>2 DEF Claim, TypeOK
  <2>3. CASE Goto(c, n, "raised")
    BY <2>1, <2>2, <2>3, PlainStep
  <2>4. CASE /\ record[c] = "none" \/ seen[c][n] # "none"
             /\ Goto(c, n, Perform)
    <3>1. PICK label \in {"checking", "posting"} : Goto(c, n, label)
      BY <2>4 DEF Perform
    <3>2. \A d \in Calls, m \in Attempts :
            pc'[d][m] = IF d = c /\ m = n THEN label ELSE pc[d][m]
      BY <3>1, GotoEffect
    <3>3. \A d \in Calls \ {c} : Blind(d)' = Blind(d)
      BY <2>1, <3>2 DEF Blind
    <3>4. \A m, k \in Blind(c)' : m = k
      <4>1. Blind(c)' \subseteq Blind(c) \cup {n}
        BY <2>1, <3>2 DEF Blind
      <4>2. CASE record[c] = "none"
        BY <4>1, <4>2 DEF RaceInv
      <4>3. CASE seen[c][n] # "none"
        <5>1. n \notin Blind(c)'
          BY <2>1, <4>3 DEF Blind
        <5> QED
          BY <4>1, <5>1 DEF RaceInv
      <4> QED
        BY <2>4, <4>2, <4>3
    <3>5. \A d \in Calls, m \in Attempts : m > attempt'[d] => pc'[d][m] = "idle"
      BY <2>1, <3>2 DEF RaceInv
    <3>6. \A d \in Calls, m \in Attempts :
            pc'[d][m] \in {"idle", "reading", "claiming"} => m \notin sent'[d]
      BY <2>1, <3>2 DEF RaceInv
    <3>7. \A d \in Calls : \A m, k \in Blind(d)' : m = k
      BY <3>3, <3>4 DEF RaceInv
    <3>8. \A d \in Calls : record'[d] = "none" => Blind(d)' = {}
      BY <2>2, <3>3 DEF RaceInv
    <3> QED
      BY <3>5, <3>6, <3>7, <3>8 DEF RaceInv
  <2> QED
    BY <1>2, <2>3, <2>4 DEF Claim
<1>3. CASE CheckProvider(c, n)
  <2>1. PICK label \in {"killCheck", "posting"} : Goto(c, n, label)
    BY <1>3 DEF CheckProvider
  <2> QED
    BY <1>3, <2>1, PlainStep DEF CheckProvider
<1>4. CASE SendPost(c, n)
  <2>1. pc[c][n] = "posting" /\ Goto(c, n, "awaiting") /\ UNCHANGED <<attempt, seen, record>>
    BY <1>4 DEF SendPost
  <2>2. \A d \in Calls : sent'[d] = IF d = c THEN sent[d] \cup {n} ELSE sent[d]
    BY <1>4 DEF SendPost, TypeOK
  <2>3. \A d \in Calls, m \in Attempts :
          pc'[d][m] = IF d = c /\ m = n THEN "awaiting" ELSE pc[d][m]
    BY <2>1, GotoEffect
  <2>4. \A d \in Calls : Blind(d)' \subseteq Blind(d)
    BY <2>1, <2>2, <2>3 DEF Blind
  <2>5. \A d \in Calls, m \in Attempts : m > attempt'[d] => pc'[d][m] = "idle"
    BY <2>1, <2>3 DEF RaceInv
  <2>6. \A d \in Calls, m \in Attempts :
          pc'[d][m] \in {"idle", "reading", "claiming"} => m \notin sent'[d]
    <3> TAKE d \in Calls, m \in Attempts
    <3>1. CASE d = c /\ m = n
      BY <2>3, <3>1
    <3>2. CASE ~(d = c /\ m = n)
      <4>1. pc'[d][m] = pc[d][m]
        BY <2>3, <3>2
      <4>2. m \in sent'[d] => m \in sent[d]
        BY <2>2, <3>2
      <4> QED
        BY <4>1, <4>2 DEF RaceInv
    <3> QED
      BY <3>1, <3>2
  <2> QED
    BY <2>1, <2>4, <2>5, <2>6 DEF RaceInv
<1>5. CASE GiveUp(c, n)
  BY <1>5, PlainStep DEF GiveUp
<1>6. CASE Accept(c, n) \/ Refuse(c, n)
  <2>1. /\ n \in inflight[c]
        /\ UNCHANGED <<attempt, seen, record, sent>>
    BY <1>6 DEF Accept, Refuse, Handle
  <2>2. PICK label : /\ Goto(c, n, label)
                     /\ label \in IF pc[c][n] = "awaiting"
                                  THEN {"killCheck", "raised", "declined"} ELSE {pc[c][n]}
    <3>1. CASE pc[c][n] = "awaiting"
      BY <1>6, <3>1 DEF Accept, Refuse
    <3>2. CASE pc[c][n] # "awaiting"
      BY <1>6, <3>2 DEF Accept, Refuse
    <3> QED
      BY <3>1, <3>2
  <2> QED
    BY <2>1, <2>2, PlainStep
<1>7. CASE ReadSwitch(c, n)
  <2>1. PICK label \in {"firing", "completing"} : Goto(c, n, label)
    BY <1>7 DEF ReadSwitch
  <2> QED
    BY <1>7, <2>1, PlainStep DEF ReadSwitch
<1>8. CASE FireSwitch(c, n)
  <2>1. CASE Exit(host[c][n])
    BY <1>8, <2>1, ExitKeepsRace DEF FireSwitch
  <2>2. CASE Goto(c, n, "raised")
    BY <1>8, <2>2, PlainStep DEF FireSwitch
  <2> QED
    BY <1>8, <2>1, <2>2 DEF FireSwitch
<1>9. CASE Complete(c, n)
  <2>1. PICK label \in {"returned", "raised"} : Goto(c, n, label)
    BY <1>9 DEF Complete
  <2>2. \A d \in Calls : record'[d] = "none" => record[d] = "none"
    BY <1>9 DEF Complete, TypeOK
  <2> QED
    BY <1>9, <2>1, <2>2, PlainStep DEF Complete
<1>10. CASE Raise(c, n)
  BY <1>10, PlainStep DEF Raise
<1>11. CASE Report(c, n)
  BY <1>11, PlainStep DEF Report
<1> QED
  BY <1>1, <1>2, <1>3, <1>4, <1>5, <1>6, <1>7, <1>8, <1>9, <1>10, <1>11 DEF Step

(* A new attempt is idle until it starts, and starts without a post.       *)
LEMMA NextKeepsRace == TypeOK /\ RaceInv /\ [Next]_vars => RaceInv'
<1> SUFFICES ASSUME TypeOK, RaceInv, [Next]_vars PROVE RaceInv'
  OBVIOUS
<1> USE DEF server, provider, switch
<1>1. ASSUME NEW c \in Calls, NEW w \in Workers, StartAttempt(c, w)
      PROVE  RaceInv'
  <2> DEFINE n == attempt[c] + 1
  <2>1. n \in Attempts /\ attempt[c] \in Nat
    BY <1>1, AttemptsAreNaturals DEF StartAttempt, TypeOK
  <2>2. Goto(c, n, "reading") /\ UNCHANGED <<seen, record, sent>>
    BY <1>1 DEF StartAttempt
  <2>3. \A d \in Calls : attempt'[d] = IF d = c THEN n ELSE attempt[d]
    BY <1>1 DEF StartAttempt, TypeOK
  <2>4. pc[c][n] = "idle"
    BY <2>1 DEF RaceInv
  <2> HIDE DEF n
  <2>5. \A d \in Calls, m \in Attempts :
          pc'[d][m] = IF d = c /\ m = n THEN "reading" ELSE pc[d][m]
    BY <2>1, <2>2, GotoEffect
  <2>6. \A d \in Calls : Blind(d)' \subseteq Blind(d)
    BY <2>2, <2>5 DEF Blind
  <2>7. \A d \in Calls, m \in Attempts : m > attempt'[d] => pc'[d][m] = "idle"
    <3>1. \A m \in Attempts : m > n => m > attempt[c]
      BY <2>1, AttemptsAreNaturals DEF n
    <3>2. \A m \in Attempts : m > n => m # n
      BY <2>1, AttemptsAreNaturals
    <3> QED
      BY <2>3, <2>5, <3>1, <3>2 DEF RaceInv
  <2>8. \A d \in Calls, m \in Attempts :
          pc'[d][m] \in {"idle", "reading", "claiming"} => m \notin sent'[d]
    BY <2>2, <2>4, <2>5 DEF RaceInv
  <2> QED
    BY <2>2, <2>6, <2>7, <2>8 DEF RaceInv
<1>2. ASSUME NEW c \in Calls, Timeout(c) PROVE RaceInv'
  BY <1>2 DEF Timeout, RaceInv, Blind
<1>3. ASSUME NEW c \in Calls, NEW n \in Attempts, Step(c, n) PROVE RaceInv'
  BY <1>3, StepKeepsRace
<1>4. ASSUME NEW w \in Workers, Crash(w) PROVE RaceInv'
  BY <1>4, ExitKeepsRace DEF Crash
<1>5. CASE ArmKillSwitch
  BY <1>5 DEF ArmKillSwitch, RaceInv, Blind
<1>6. CASE UNCHANGED vars
  BY <1>6 DEF vars, RaceInv, Blind
<1> QED
  BY <1>1, <1>2, <1>3, <1>4, <1>5, <1>6 DEF Next, Dispatch

(* Whatever overlaps, crashes, is stale or late: of the attempts of a call *)
(* that read no record, one at most reaches the provider, the one whose    *)
(* conditional put created the record (idempotency.py:61-64).              *)
THEOREM RaceHasOneWinner == Spec => []RaceLoserStops
<1>1. Init => RaceInv
  <2> SUFFICES ASSUME Init PROVE RaceInv
    OBVIOUS
  <2>1. \A c \in Calls : Blind(c) = {}
    BY DEF Init, Blind
  <2> QED
    BY <2>1 DEF Init, RaceInv
<1>2. TypeOK /\ RaceInv => RaceLoserStops
  <2> SUFFICES ASSUME TypeOK, RaceInv, NEW c \in Calls, NEW m \in sent[c], NEW n \in sent[c],
                      seen[c][m] = "none", seen[c][n] = "none"
               PROVE  m = n
    BY DEF RaceLoserStops
  <2>1. m \in Blind(c) /\ n \in Blind(c)
    BY DEF Blind, TypeOK
  <2> QED
    BY <2>1 DEF RaceInv
<1> QED
  BY <1>1, <1>2, NextKeepsRace, TypesHold, PTL DEF Spec

-----------------------------------------------------------------------------
(* The kill switch, in one worker process that reads it fresh.  What a     *)
(* process does between two awaits is done by one attempt at a time, so    *)
(* an attempt that is about to exit found a switch that is still armed.    *)
OneProcess == ~StaleReads /\ \A v, w \in Workers : v = w

HasHost ==
  \A c \in Calls, n \in Attempts : pc[c][n] # "idle" => host[c][n] \in Workers

OneTurn ==
  \A c, d \in Calls, n, m \in Attempts :
    pc[c][n] \in Synchronous /\ pc[d][m] \in Synchronous => c = d /\ n = m

FiringIsArmed ==
  \A c \in Calls, n \in Attempts : pc[c][n] = "firing" => armed = TRUE

SwitchInv ==
  /\ HasHost
  /\ OneTurn
  /\ FiringIsArmed
  /\ exits <= arms
  /\ armed = TRUE => exits < arms

(* A step that leaves the switch alone, and starts a synchronous stretch   *)
(* only when the process is in no other.                                   *)
LEMMA SwitchlessStep ==
  ASSUME OneProcess, TypeOK, SwitchInv,
         NEW c \in Calls, NEW n \in Attempts, NEW label, Goto(c, n, label),
         UNCHANGED <<host, armed, arms, exits>>,
         pc[c][n] # "idle",
         label \in Synchronous => Free(c, n),
         label = "firing" => armed = TRUE
  PROVE  SwitchInv'
<1>1. \A d \in Calls, m \in Attempts :
        pc'[d][m] = IF d = c /\ m = n THEN label ELSE pc[d][m]
  BY GotoEffect
<1>2. HasHost'
  BY <1>1 DEF SwitchInv, HasHost
<1>3. label \in Synchronous =>
        \A d \in Calls, m \in Attempts : pc[d][m] \in Synchronous => d = c /\ m = n
  <2> SUFFICES ASSUME label \in Synchronous,
                      NEW d \in Calls, NEW m \in Attempts, pc[d][m] \in Synchronous
               PROVE  d = c /\ m = n
    OBVIOUS
  <2>1. host[d][m] = host[c][n]
    <3>1. pc[d][m] # "idle"
      BY DEF Synchronous
    <3> QED
      BY <3>1 DEF OneProcess, SwitchInv, HasHost
  <2>2. <<d, m>> = <<c, n>>
    BY <2>1 DEF Free
  <2> QED
    BY <2>2
<1>4. OneTurn'
  BY <1>1, <1>3 DEF SwitchInv, OneTurn
<1>5. FiringIsArmed'
  BY <1>1 DEF SwitchInv, FiringIsArmed
<1> QED
  BY <1>2, <1>4, <1>5 DEF SwitchInv

(* Exiting takes attempts away and starts nothing.                         *)
LEMMA ExitKeepsTurns ==
  ASSUME TypeOK, SwitchInv, NEW w, Exit(w), UNCHANGED host
  PROVE  /\ HasHost' /\ OneTurn'
         /\ \A d \in Calls, m \in Attempts : pc'[d][m] = "firing" => pc[d][m] = "firing"
<1>1. \A d \in Calls, m \in Attempts :
        pc'[d][m] = pc[d][m] \/ (pc'[d][m] = "gone" /\ pc[d][m] # "idle")
  BY ExitEffect
<1>2. "gone" \notin Synchronous
  BY DEF Synchronous
<1> QED
  BY <1>1, <1>2 DEF SwitchInv, HasHost, OneTurn

(* Every step of an attempt; only FireSwitch touches the switch, and it    *)
(* was the only attempt about to.                                          *)
LEMMA StepKeepsSwitch ==
  ASSUME OneProcess, TypeOK, SwitchInv, NEW c \in Calls, NEW n \in Attempts, Step(c, n)
  PROVE  SwitchInv'
<1> USE DEF server, provider, switch
<1>1. CASE ReadRecord(c, n)
  <2>1. PICK label \in {"returned", "claiming"} : Goto(c, n, label)
    BY <1>1 DEF ReadRecord
  <2> QED
    BY <1>1, <2>1, SwitchlessStep DEF ReadRecord
<1>2. CASE Claim(c, n)
  <2>1. PICK label \in {"checking", "posting", "raised"} : Goto(c, n, label)
    BY <1>2 DEF Claim, Perform
  <2> QED
    BY <1>2, <2>1, SwitchlessStep DEF Claim, Synchronous
<1>3. CASE CheckProvider(c, n)
  <2>1. PICK label \in {"killCheck", "posting"} : Goto(c, n, label)
    BY <1>3 DEF CheckProvider
  <2> QED
    BY <1>3, <2>1, SwitchlessStep DEF CheckProvider, Synchronous
<1>4. CASE SendPost(c, n)
  BY <1>4, SwitchlessStep DEF SendPost, Synchronous
<1>5. CASE GiveUp(c, n)
  BY <1>5, SwitchlessStep DEF GiveUp, Synchronous
<1>6. CASE Accept(c, n) \/ Refuse(c, n)
  <2>1. CASE pc[c][n] = "awaiting"
    <3>1. PICK label \in {"killCheck", "raised", "declined"} : Goto(c, n, label)
      BY <1>6, <2>1 DEF Accept, Refuse
    <3> QED
      BY <1>6, <2>1, <3>1, SwitchlessStep DEF Accept, Refuse, Synchronous
  <2>2. CASE pc[c][n] # "awaiting"
    <3>1. pc' = pc /\ UNCHANGED <<host, armed, arms, exits>>
      BY <1>6, <2>2 DEF Accept, Refuse, Goto, TypeOK
    <3> QED
      BY <3>1 DEF SwitchInv, HasHost, OneTurn, FiringIsArmed
  <2> QED
    BY <2>1, <2>2
<1>7. CASE ReadSwitch(c, n)
  <2>1. PICK label \in {"firing", "completing"} :
          Goto(c, n, label) /\ (label = "firing" => armed = TRUE)
    BY <1>7 DEF ReadSwitch, OneProcess, TypeOK
  <2> QED
    BY <1>7, <2>1, SwitchlessStep DEF ReadSwitch
<1>8. CASE FireSwitch(c, n)
  <2>1. /\ pc[c][n] = "firing" /\ armed' = FALSE
        /\ UNCHANGED <<host, arms>>
    BY <1>8 DEF FireSwitch
  <2>2. exits \in Nat /\ arms \in Nat /\ exits < arms
    BY <2>1 DEF SwitchInv, FiringIsArmed, TypeOK
  <2>3. \A d \in Calls, m \in Attempts : pc[d][m] = "firing" => d = c /\ m = n
    BY <2>1 DEF SwitchInv, OneTurn, Synchronous
  <2>4. CASE Exit(host[c][n]) /\ exits' = exits + 1
    <3>1. pc'[c][n] = "gone"
      BY <2>1, <2>4 DEF Exit, Live, TypeOK
    <3>2. FiringIsArmed'
      BY <2>1, <2>3, <2>4, <3>1, ExitKeepsTurns DEF FiringIsArmed
    <3>3. HasHost' /\ OneTurn'
      BY <2>1, <2>4, ExitKeepsTurns
    <3>4. exits' <= arms' /\ armed' = FALSE
      BY <2>1, <2>2, <2>4
    <3> QED
      BY <3>2, <3>3, <3>4 DEF SwitchInv
  <2>5. CASE Goto(c, n, "raised") /\ UNCHANGED exits
    <3>1. \A d \in Calls, m \in Attempts :
            pc'[d][m] = IF d = c /\ m = n THEN "raised" ELSE pc[d][m]
      BY <2>5, GotoEffect
    <3>2. HasHost' /\ OneTurn'
      BY <2>1, <3>1 DEF SwitchInv, HasHost, OneTurn, Synchronous
    <3>3. FiringIsArmed'
      BY <2>3, <3>1 DEF FiringIsArmed
    <3> QED
      BY <2>1, <2>2, <2>5, <3>2, <3>3 DEF SwitchInv
  <2> QED
    BY <1>8, <2>4, <2>5 DEF FireSwitch
<1>9. CASE Complete(c, n)
  <2>1. PICK label \in {"returned", "raised"} : Goto(c, n, label)
    BY <1>9 DEF Complete
  <2> QED
    BY <1>9, <2>1, SwitchlessStep DEF Complete, Synchronous
<1>10. CASE Raise(c, n)
  BY <1>10, SwitchlessStep DEF Raise, Synchronous
<1>11. CASE Report(c, n)
  BY <1>11, SwitchlessStep DEF Report, Synchronous
<1> QED
  BY <1>1, <1>2, <1>3, <1>4, <1>5, <1>6, <1>7, <1>8, <1>9, <1>10, <1>11 DEF Step

(* A new attempt has a host and is in no synchronous stretch yet.          *)
LEMMA NextKeepsSwitch ==
  ASSUME OneProcess, TypeOK, SwitchInv, [Next]_vars
  PROVE  SwitchInv'
<1> USE DEF server, provider, switch
<1>1. ASSUME NEW c \in Calls, NEW w \in Workers, StartAttempt(c, w)
      PROVE  SwitchInv'
  <2> DEFINE n == attempt[c] + 1
  <2>1. n \in Attempts
    BY <1>1, AttemptsAreNaturals DEF StartAttempt, TypeOK
  <2>2. /\ Goto(c, n, "reading") /\ UNCHANGED <<armed, arms, exits>>
        /\ host' = [host EXCEPT ![c][n] = w]
    BY <1>1 DEF StartAttempt
  <2> HIDE DEF n
  <2>3. \A d \in Calls, m \in Attempts :
          pc'[d][m] = IF d = c /\ m = n THEN "reading" ELSE pc[d][m]
    BY <2>1, <2>2, GotoEffect
  <2>4. \A d \in Calls, m \in Attempts :
          host'[d][m] = IF d = c /\ m = n THEN w ELSE host[d][m]
    BY <2>1, <2>2 DEF TypeOK
  <2>5. HasHost'
    BY <2>3, <2>4 DEF SwitchInv, HasHost
  <2>6. OneTurn'
    BY <2>3 DEF SwitchInv, OneTurn, Synchronous
  <2>7. FiringIsArmed'
    BY <2>2, <2>3 DEF SwitchInv, FiringIsArmed
  <2> QED
    BY <2>2, <2>5, <2>6, <2>7 DEF SwitchInv
<1>2. ASSUME NEW c \in Calls, Timeout(c) PROVE SwitchInv'
  BY <1>2 DEF Timeout, SwitchInv, HasHost, OneTurn, FiringIsArmed
<1>3. ASSUME NEW c \in Calls, NEW n \in Attempts, Step(c, n) PROVE SwitchInv'
  BY <1>3, StepKeepsSwitch
<1>4. ASSUME NEW w \in Workers, Crash(w) PROVE SwitchInv'
  <2>1. Exit(w) /\ UNCHANGED <<host, armed, arms, exits>>
    BY <1>4 DEF Crash
  <2>2. FiringIsArmed'
    BY <2>1, ExitKeepsTurns DEF SwitchInv, FiringIsArmed
  <2> QED
    BY <2>1, <2>2, ExitKeepsTurns DEF SwitchInv
<1>5. CASE ArmKillSwitch
  <2>1. arms' = arms + 1 /\ armed' = TRUE /\ UNCHANGED <<pc, host, exits>>
    BY <1>5 DEF ArmKillSwitch
  <2>2. exits \in Nat /\ arms \in Nat /\ exits <= arms
    BY DEF SwitchInv, TypeOK
  <2> QED
    BY <2>1, <2>2 DEF SwitchInv, HasHost, OneTurn, FiringIsArmed
<1>6. CASE UNCHANGED vars
  BY <1>6 DEF vars, SwitchInv, HasHost, OneTurn, FiringIsArmed
<1> QED
  BY <1>1, <1>2, <1>3, <1>4, <1>5, <1>6 DEF Next, Dispatch

(* Each arming of the kill switch ends at most one life of the worker:     *)
(* maybe_kill reads and disarms without an await between them              *)
(* (idempotency.py:28-36), so no other attempt of the process sees the     *)
(* switch in the meantime, and a restarted worker finds it off.  With      *)
(* several processes, or stale reads, one arming may stop more of them.    *)
THEOREM OneArmingOneExit == OneProcess => (Spec => []OneExitPerArm)
<1> SUFFICES ASSUME OneProcess
             PROVE  Spec => []OneExitPerArm
  OBVIOUS
<1>1. Init => SwitchInv
  <2> SUFFICES ASSUME Init PROVE SwitchInv
    OBVIOUS
  <2>1. \A c \in Calls, n \in Attempts : pc[c][n] = "idle"
    BY DEF Init
  <2>2. armed = FALSE /\ arms = 0 /\ exits = 0
    BY DEF Init
  <2> QED
    BY <2>1, <2>2 DEF SwitchInv, HasHost, OneTurn, FiringIsArmed, Synchronous
<1>2. TypeOK /\ SwitchInv /\ [Next]_vars => SwitchInv'
  BY NextKeepsSwitch
<1>3. SwitchInv => OneExitPerArm
  BY DEF SwitchInv, OneExitPerArm
<1> QED
  BY <1>1, <1>2, <1>3, TypesHold, PTL DEF Spec

-----------------------------------------------------------------------------
(* How far the damage can go, in every environment.  An attempt posts once,  *)
(* after its call was claimed; the provider applies a post once.             *)
BeforePost == {"idle", "reading", "claiming", "checking", "posting"}

Dispatched ==
  \A c \in Calls : /\ \A n \in Attempts : pc[c][n] # "idle" => n <= attempt[c]
                   /\ sent[c] \subseteq 1 .. attempt[c]
                   /\ inflight[c] \subseteq sent[c]
PostsOnce ==
  \A c \in Calls, n \in Attempts : n \in sent[c] => pc[c][n] \notin BeforePost
ClaimedFirst ==
  \A c \in Calls, n \in Attempts :
    n \in sent[c] \/ pc[c][n] \in Performing => record[c] # "none"
AppliedOnce ==
  \A c \in Calls :
    effects[c] + Cardinality(inflight[c]) <= Cardinality(sent[c])

PostInv == Dispatched /\ PostsOnce /\ ClaimedFirst /\ AppliedOnce

(* Posts are finitely many, so they can be counted.                          *)
LEMMA PostsAreFinite ==
  ASSUME TypeOK, NEW c \in Calls
  PROVE  /\ IsFiniteSet(sent[c]) /\ IsFiniteSet(inflight[c])
         /\ Cardinality(sent[c]) \in Nat /\ Cardinality(inflight[c]) \in Nat
<1>1. IsFiniteSet(Attempts)
  BY FS_Interval, AttemptsAreNaturals DEF Attempts
<1>2. sent[c] \in SUBSET Attempts /\ inflight[c] \in SUBSET Attempts
  BY DEF TypeOK
<1>3. IsFiniteSet(sent[c]) /\ IsFiniteSet(inflight[c])
  BY <1>1, <1>2, FS_Subset
<1> QED
  BY <1>3, FS_CardinalityType

(* A step of an attempt that neither posts nor is about to answer a post.    *)
LEMMA UnpostedStep ==
  ASSUME TypeOK, PostInv, NEW c \in Calls, NEW n \in Attempts, NEW label, Goto(c, n, label),
         UNCHANGED <<attempt, sent, inflight, effects>>,
         \A d \in Calls : record[d] # "none" => record'[d] # "none",
         pc[c][n] # "idle",
         label \in BeforePost => pc[c][n] \in BeforePost,
         label \in Performing => record'[c] # "none"
  PROVE  PostInv'
<1>1. \A d \in Calls, m \in Attempts :
        pc'[d][m] = IF d = c /\ m = n THEN label ELSE pc[d][m]
  BY GotoEffect
<1>2. Dispatched' /\ PostsOnce' /\ ClaimedFirst'
  BY <1>1 DEF PostInv, Dispatched, PostsOnce, ClaimedFirst
<1> QED
  BY <1>2 DEF PostInv, AppliedOnce

(* A process that exits posts nothing.                                       *)
LEMMA ExitKeepsPosts ==
  ASSUME TypeOK, PostInv, NEW w, Exit(w), UNCHANGED <<attempt, sent, inflight, effects, record>>
  PROVE  PostInv'
<1>1. \A d \in Calls, m \in Attempts :
        pc'[d][m] = pc[d][m] \/ (pc'[d][m] = "gone" /\ pc[d][m] # "idle")
  BY DEF Exit, Live
<1>2. Dispatched' /\ PostsOnce' /\ ClaimedFirst'
  BY <1>1 DEF PostInv, Dispatched, PostsOnce, ClaimedFirst, BeforePost, Performing
<1> QED
  BY <1>2 DEF PostInv, AppliedOnce

(* The post itself: the attempt's first, of a call that is claimed.          *)
LEMMA PostingKeepsPosts ==
  ASSUME TypeOK, PostInv, NEW c \in Calls, NEW n \in Attempts, SendPost(c, n)
  PROVE  PostInv'
<1>1. /\ pc[c][n] = "posting" /\ Goto(c, n, "awaiting") /\ UNCHANGED <<attempt, record, effects>>
      /\ sent' = [sent EXCEPT ![c] = @ \cup {n}]
      /\ inflight' = [inflight EXCEPT ![c] = @ \cup {n}]
  BY DEF SendPost, server
<1>2. sent \in [Calls -> SUBSET Attempts] /\ inflight \in [Calls -> SUBSET Attempts]
  BY DEF TypeOK
<1>3. \A d \in Calls, m \in Attempts :
        pc'[d][m] = IF d = c /\ m = n THEN "awaiting" ELSE pc[d][m]
  BY <1>1, GotoEffect
<1>4. n \notin sent[c] /\ n \notin inflight[c] /\ n <= attempt[c] /\ record[c] # "none"
  BY <1>1 DEF PostInv, Dispatched, PostsOnce, ClaimedFirst, BeforePost, Performing
<1>5. /\ sent'[c] = sent[c] \cup {n} /\ inflight'[c] = inflight[c] \cup {n}
      /\ \A d \in Calls \ {c} : sent'[d] = sent[d] /\ inflight'[d] = inflight[d]
  BY <1>1, <1>2
<1>6. n \in 1 .. attempt[c]
  BY <1>4, AttemptsAreNaturals DEF TypeOK, Attempts
<1>7. Dispatched'
  <2>1. \A d \in Calls, m \in Attempts : pc'[d][m] # "idle" => m <= attempt[d]
    BY <1>1, <1>3, <1>4 DEF PostInv, Dispatched
  <2>2. \A d \in Calls : sent'[d] \subseteq 1 .. attempt[d] /\ inflight'[d] \subseteq sent'[d]
    BY <1>5, <1>6 DEF PostInv, Dispatched
  <2> QED
    BY <1>1, <2>1, <2>2 DEF Dispatched
<1>8. PostsOnce' /\ ClaimedFirst'
  BY <1>1, <1>3, <1>4, <1>5 DEF PostInv, PostsOnce, ClaimedFirst, BeforePost
<1>9. AppliedOnce'
  <2>1. /\ Cardinality(sent[c] \cup {n}) = Cardinality(sent[c]) + 1
        /\ Cardinality(inflight[c] \cup {n}) = Cardinality(inflight[c]) + 1
    BY <1>4, PostsAreFinite, FS_AddElement
  <2>2. effects[c] + (Cardinality(inflight[c]) + 1) <= Cardinality(sent[c]) + 1
    BY PostsAreFinite DEF PostInv, AppliedOnce, TypeOK
  <2> QED
    BY <1>1, <1>5, <2>1, <2>2 DEF PostInv, AppliedOnce
<1> QED
  BY <1>7, <1>8, <1>9 DEF PostInv

(* What a post that arrives does: it is on its way no longer, and its sender *)
(* hears of it or not.                                                       *)
LEMMA ArrivalKeepsPosts ==
  ASSUME TypeOK, PostInv, NEW c \in Calls, NEW n \in Attempts, Handle(c, n),
         NEW label, Goto(c, n, label), UNCHANGED <<attempt, record, sent>>,
         label = pc[c][n] \/ label \in {"killCheck", "raised", "declined"},
         \/ UNCHANGED effects
         \/ effects' = [effects EXCEPT ![c] = @ + 1]
  PROVE  PostInv'
<1>1. n \in inflight[c] /\ inflight' = [inflight EXCEPT ![c] = @ \ {n}]
  BY DEF Handle
<1>2. inflight \in [Calls -> SUBSET Attempts] /\ effects \in [Calls -> Nat]
  BY DEF TypeOK
<1>3. \A d \in Calls, m \in Attempts :
        pc'[d][m] = IF d = c /\ m = n THEN label ELSE pc[d][m]
  BY GotoEffect
<1>4. /\ inflight'[c] = inflight[c] \ {n}
      /\ \A d \in Calls \ {c} : inflight'[d] = inflight[d]
  BY <1>1, <1>2
<1>5. n \in sent[c] /\ pc[c][n] \notin BeforePost /\ pc[c][n] # "idle" /\ record[c] # "none"
  BY <1>1 DEF PostInv, Dispatched, PostsOnce, ClaimedFirst, BeforePost
<1>6. Dispatched'
  BY <1>3, <1>4, <1>5 DEF PostInv, Dispatched
<1>7. PostsOnce' /\ ClaimedFirst'
  BY <1>3, <1>5 DEF PostInv, PostsOnce, ClaimedFirst, BeforePost
<1>8. AppliedOnce'
  <2>1. Cardinality(inflight[c] \ {n}) = Cardinality(inflight[c]) - 1
    BY <1>1, PostsAreFinite, FS_RemoveElement
  <2>2. /\ effects'[c] \in {effects[c], effects[c] + 1}
        /\ \A d \in Calls \ {c} : effects'[d] = effects[d]
    BY <1>2
  <2>3. effects'[c] + (Cardinality(inflight[c]) - 1) <= Cardinality(sent[c])
    BY <1>2, <2>2, PostsAreFinite DEF PostInv, AppliedOnce
  <2> QED
    BY <1>4, <2>1, <2>2, <2>3 DEF PostInv, AppliedOnce
<1> QED
  BY <1>6, <1>7, <1>8 DEF PostInv

(* Only SendPost posts, and only Claim lets an attempt get there.            *)
LEMMA StepKeepsPosts ==
  ASSUME TypeOK, PostInv, NEW c \in Calls, NEW n \in Attempts, Step(c, n)
  PROVE  PostInv'
<1> USE DEF server, provider, switch, BeforePost, Performing
<1>0. pc[c][n] \in Performing => record[c] # "none"
  BY DEF PostInv, ClaimedFirst
<1>1. CASE ReadRecord(c, n)
  <2>1. PICK label \in {"returned", "claiming"} : Goto(c, n, label)
    BY <1>1 DEF ReadRecord
  <2> QED
    BY <1>1, <2>1, UnpostedStep DEF ReadRecord
<1>2. CASE Claim(c, n)
  <2>1. record'[c] # "none" /\ \A d \in Calls : record[d] # "none" => record'[d] # "none"
    BY <1>2 DEF Claim, TypeOK
  <2>2. PICK label \in {"checking", "posting", "raised"} : Goto(c, n, label)
    BY <1>2 DEF Claim, Perform
  <2>3. UNCHANGED <<attempt, sent, inflight, effects>> /\ pc[c][n] = "claiming"
    BY <1>2 DEF Claim
  <2> QED
    BY <2>1, <2>2, <2>3, UnpostedStep
<1>3. CASE CheckProvider(c, n)
  <2>1. PICK label \in {"killCheck", "posting"} : Goto(c, n, label)
    BY <1>3 DEF CheckProvider
  <2> QED
    BY <1>0, <1>3, <2>1, UnpostedStep DEF CheckProvider
<1>4. CASE SendPost(c, n)
  BY <1>4, PostingKeepsPosts
<1>5. CASE GiveUp(c, n)
  BY <1>5, UnpostedStep DEF GiveUp
<1>6. CASE Accept(c, n)
  <2>1. PICK outcome : /\ outcome = pc[c][n] \/ outcome \in {"killCheck", "raised"}
                       /\ Goto(c, n, outcome)
    BY <1>6 DEF Accept
  <2>2. /\ Handle(c, n) /\ UNCHANGED <<attempt, record, sent>>
        /\ effects' = [effects EXCEPT ![c] = @ + 1]
    BY <1>6 DEF Accept
  <2> QED
    BY <2>1, <2>2, ArrivalKeepsPosts
<1>7. CASE Refuse(c, n)
  <2>1. PICK outcome : /\ outcome = pc[c][n] \/ outcome \in {"raised", "declined"}
                       /\ Goto(c, n, outcome)
    BY <1>7 DEF Refuse
  <2>2. Handle(c, n) /\ UNCHANGED <<attempt, record, sent, effects>>
    BY <1>7 DEF Refuse
  <2> QED
    BY <2>1, <2>2, ArrivalKeepsPosts
<1>8. CASE ReadSwitch(c, n)
  <2>1. PICK label \in {"firing", "completing"} : Goto(c, n, label)
    BY <1>8 DEF ReadSwitch
  <2> QED
    BY <1>8, <2>1, UnpostedStep DEF ReadSwitch
<1>9. CASE FireSwitch(c, n)
  <2>1. UNCHANGED <<attempt, record, sent, inflight, effects>> /\ pc[c][n] = "firing"
    BY <1>9 DEF FireSwitch
  <2>2. CASE Exit(host[c][n])
    <3>1. PICK w : w = host[c][n]
      OBVIOUS
    <3>2. Exit(w)
      BY <2>2, <3>1 DEF Exit
    <3> QED
      BY <2>1, <3>2, ExitKeepsPosts
  <2>3. CASE Goto(c, n, "raised")
    BY <2>1, <2>3, UnpostedStep
  <2> QED
    BY <1>9, <2>2, <2>3 DEF FireSwitch
<1>10. CASE Complete(c, n)
  <2>1. \A d \in Calls : record[d] # "none" => record'[d] # "none"
    BY <1>10 DEF Complete, TypeOK
  <2>2. PICK label \in {"returned", "raised"} : Goto(c, n, label)
    BY <1>10 DEF Complete
  <2> QED
    BY <1>10, <2>1, <2>2, UnpostedStep DEF Complete
<1>11. CASE Raise(c, n)
  BY <1>11, UnpostedStep DEF Raise
<1>12. CASE Report(c, n)
  BY <1>12, UnpostedStep DEF Report
<1> QED
  BY <1>1, <1>2, <1>3, <1>4, <1>5, <1>6, <1>7, <1>8, <1>9, <1>10, <1>11, <1>12
     DEF Step

(* So does the server, which dispatches each attempt once.                   *)
LEMMA NextKeepsPosts == TypeOK /\ PostInv /\ [Next]_vars => PostInv'
<1> SUFFICES ASSUME TypeOK, PostInv, [Next]_vars
             PROVE  PostInv'
  OBVIOUS
<1> USE DEF server, provider, switch
<1>1. ASSUME NEW c \in Calls, NEW w \in Workers, StartAttempt(c, w)
      PROVE  PostInv'
  <2> DEFINE n == attempt[c] + 1
  <2>1. n \in Attempts /\ attempt \in [Calls -> 0 .. MaxAttempts]
    BY <1>1, AttemptsAreNaturals DEF StartAttempt, TypeOK
  <2>2. /\ Goto(c, n, "reading") /\ UNCHANGED <<record, sent, inflight, effects>>
        /\ attempt' = [attempt EXCEPT ![c] = n]
    BY <1>1 DEF StartAttempt
  <2>3. \A d \in Calls : attempt[d] \in Nat /\ attempt'[d] = IF d = c THEN n ELSE attempt[d]
    BY <2>1, <2>2
  <2>4. n \notin sent[c] /\ \A d \in Calls : 1 .. attempt[d] \subseteq 1 .. attempt'[d]
    BY <2>3 DEF PostInv, Dispatched
  <2>5. PICK k \in Attempts : k = n
    BY <2>1
  <2>6. \A d \in Calls, m \in Attempts :
          pc'[d][m] = IF d = c /\ m = k THEN "reading" ELSE pc[d][m]
    <3>1. Goto(c, k, "reading")
      BY <2>2, <2>5 DEF Goto
    <3> QED
      BY <3>1, GotoEffect
  <2>7. Dispatched'
    <3>1. \A d \in Calls, m \in Attempts : pc'[d][m] # "idle" => m <= attempt'[d]
      BY <2>3, <2>5, <2>6, AttemptsAreNaturals DEF PostInv, Dispatched
    <3> QED
      BY <2>2, <2>4, <3>1 DEF PostInv, Dispatched
  <2>8. PostsOnce' /\ ClaimedFirst' /\ AppliedOnce'
    BY <2>2, <2>4, <2>5, <2>6 DEF PostInv, PostsOnce, ClaimedFirst, AppliedOnce, Performing
  <2> QED
    BY <2>7, <2>8 DEF PostInv
<1>2. ASSUME NEW c \in Calls, Timeout(c)
      PROVE  PostInv'
  BY <1>2 DEF Timeout, PostInv, Dispatched, PostsOnce, ClaimedFirst, AppliedOnce
<1>3. ASSUME NEW c \in Calls, NEW n \in Attempts, Step(c, n)
      PROVE  PostInv'
  BY <1>3, StepKeepsPosts
<1>4. ASSUME NEW w \in Workers, Crash(w)
      PROVE  PostInv'
  BY <1>4, ExitKeepsPosts DEF Crash
<1>5. CASE ArmKillSwitch
  BY <1>5 DEF ArmKillSwitch, PostInv, Dispatched, PostsOnce, ClaimedFirst, AppliedOnce
<1>6. CASE UNCHANGED vars
  BY <1>6 DEF vars, PostInv, Dispatched, PostsOnce, ClaimedFirst, AppliedOnce
<1> QED
  BY <1>1, <1>2, <1>3, <1>4, <1>5, <1>6 DEF Next, Dispatch

(* Nothing has been posted at first.                                         *)
LEMMA InitPosts == Init => PostInv
<1> SUFFICES ASSUME Init PROVE PostInv
  OBVIOUS
<1>1. Cardinality({}) = 0
  BY FS_EmptySet
<1>2. \A c \in Calls : sent[c] = {} /\ inflight[c] = {} /\ effects[c] = 0
  BY DEF Init
<1>3. \A c \in Calls, n \in Attempts : pc[c][n] = "idle"
  BY DEF Init
<1>4. AppliedOnce
  BY <1>1, <1>2 DEF AppliedOnce
<1>5. Dispatched /\ PostsOnce /\ ClaimedFirst
  BY <1>2, <1>3 DEF Dispatched, PostsOnce, ClaimedFirst, Performing
<1> QED
  BY <1>4, <1>5 DEF PostInv

(* However bad the environment, crashes, stale reads, late posts and         *)
(* overlapping attempts together: a call has no more effects than attempts   *)
(* were dispatched (catalog.py: RetryPolicy.maximum_attempts), one each, and *)
(* none that the idempotency record does not know of: the conditional put    *)
(* comes before the POST (idempotency.py:63-67), on every path.              *)
DamageIsBounded ==
  \A c \in Calls : /\ effects[c] <= attempt[c]
                   /\ effects[c] > 0 => record[c] # "none"

THEOREM EffectsAreClaimedAndBounded == Spec => []DamageIsBounded
<1>1. TypeOK /\ PostInv => DamageIsBounded
  <2> SUFFICES ASSUME TypeOK, PostInv, NEW c \in Calls
               PROVE  effects[c] <= attempt[c] /\ (effects[c] > 0 => record[c] # "none")
    BY DEF DamageIsBounded
  <2>1. /\ effects[c] \in Nat /\ attempt[c] \in Nat /\ sent[c] \in SUBSET Attempts
        /\ sent[c] \in SUBSET (1 .. attempt[c])
    BY AttemptsAreNaturals DEF TypeOK, PostInv, Dispatched
  <2>2. Cardinality(sent[c]) \in Nat /\ Cardinality(inflight[c]) \in Nat
    BY PostsAreFinite
  <2>3. effects[c] <= Cardinality(sent[c])
    BY <2>1, <2>2 DEF PostInv, AppliedOnce
  <2>4. IsFiniteSet(1 .. attempt[c]) /\ Cardinality(1 .. attempt[c]) = attempt[c]
    <3> DEFINE k == attempt[c]
    <3>1. k \in Int /\ k >= 0
      BY <2>1
    <3>2. \A b \in Int : /\ IsFiniteSet(1 .. b)
                         /\ Cardinality(1 .. b) = IF 1 > b THEN 0 ELSE b - 1 + 1
      BY FS_Interval
    <3> HIDE DEF k
    <3>3. IsFiniteSet(1 .. k) /\ Cardinality(1 .. k) = k
      BY <3>1, <3>2
    <3> QED
      BY <3>3 DEF k
  <2>5. Cardinality(sent[c]) <= attempt[c]
    BY <2>1, <2>4, FS_Subset
  <2>6. effects[c] > 0 => sent[c] # {}
    BY <2>1, <2>2, <2>3, FS_EmptySet
  <2> QED
    BY <2>1, <2>2, <2>3, <2>5, <2>6 DEF PostInv, ClaimedFirst
<1> QED
  BY <1>1, InitPosts, NextKeepsPosts, TypesHold, PTL DEF Spec
=============================================================================
