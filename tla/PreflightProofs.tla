--------------------------- MODULE PreflightProofs --------------------------
(* Theorems about Preflight: for any combination of troubles, any lifetime   *)
(* of the token and any margin, any of the rows slow, and any order in which *)
(* they answer.                                                              *)
EXTENDS Preflight, TLAPS

(* What keeps the settings from loading, and what the shared client needs.   *)
NoSettings == {"settings invalid", "blank default"}
NoClient == {"temporal down", "routing failing"}

-----------------------------------------------------------------------------
(* Lemmas about the checks.                                                  *)

(* Every check gives a verdict, which is never the missing one.              *)
LEMMA VerdictIsGiven ==
  ASSUME NEW r \in Rows
  PROVE  Verdict(r) \in {"PASS", "WARN", "FAIL"}
  BY DEF Rows, Verdict, CheckEnv, CheckAwsCredentials, CheckDynamoDB,
         CheckTemporalReachable, CheckWorkerVersion, CheckPollerCount,
         CheckMockoon, CheckBedrockModels, CheckBedrockGuardrail,
         CheckAgentcoreMemory, CheckAgentcoreGateway, CheckAgentcoreRuntime,
         CheckS3, CheckApi, CheckUi, CheckDemoFairness, CheckDemoKillSwitch,
         CheckDemoRamp, CheckDemoPaymentCounter, CheckDemoSeededMemory,
         Judge, OnAws, IfSet, OnTemporal

(* A row prints its check's verdict, or the FAIL of a check that raised.     *)
LEMMA GuardedAnswers ==
  ASSUME NEW r \in Rows, NEW v \in Guarded(r)
  PROVE  v \in {Verdict(r), "FAIL"} /\ v \in {"PASS", "WARN", "FAIL"}
  BY VerdictIsGiven DEF Guarded

(* The troubles that a row is there to catch.                                *)
Watched(r) ==
  CASE r = ".env" -> Unset
    [] r = "AWS credentials" -> {}
    [] r = "DynamoDB" -> {"table failing", "table inactive", "no tenants", "no packages"}
    [] r = "Temporal Cloud" -> NoClient \cup {"no TenantId"}
    [] r = "Worker deployment version" -> {"not current"}
    [] r = "Task queue pollers" -> {"no worker"}
    [] r = "Mockoon" -> {"mockoon down", "route failing"}
    [] r = "Bedrock models" -> {"model unknown"}
    [] r = "Bedrock guardrail" -> {"guardrail failing"}
    [] r = "AgentCore Memory" -> {"memory failing"}
    [] r = "AgentCore Gateway" -> {"gateway failing"}
    [] r = "AgentCore Runtime" -> {"runtime failing"}
    [] r = "S3 bucket" -> {"bucket failing"}
    [] r = "API" -> {"api down"}
    [] r = "UI dev server" -> {"ui down"}
    [] r = "Demo state: fairness" -> {"fairness off"}
    [] r = "Demo state: kill switch" -> {"switch armed"}
    [] r = "Demo state: ramp" -> {"ramp active"}
    [] r = "Demo state: payment counter" -> {"payments left"}
    [] r = "Demo state: seeded memory" -> {"no notes"}

(* The twenty rows overlook nothing but the ghost worker: between them they  *)
(* watch all that the demo cannot live with.                                 *)
LEMMA NothingIsOverlooked ==
  ASSUME NEW t \in Troubles \ (Tolerable \cup NoSettings \cup {"ghost worker"})
  PROVE  \E r \in Rows : t \in Watched(r)
<1> DEFINE Watches(r) == r \in Rows /\ t \in Watched(r)
<1>1. SUFFICES \E r : Watches(r)
  OBVIOUS
<1>2. t \in Unset => Watches(".env")
  BY DEF Rows, Watched
<1>4. t \in {"table failing", "table inactive", "no tenants", "no packages"} => Watches("DynamoDB")
  BY DEF Rows, Watched
<1>5. t \in NoClient \cup {"no TenantId"} => Watches("Temporal Cloud")
  BY DEF Rows, Watched
<1>6. t = "not current" => Watches("Worker deployment version")
  BY DEF Rows, Watched
<1>7. t = "no worker" => Watches("Task queue pollers")
  BY DEF Rows, Watched
<1>8. t \in {"mockoon down", "route failing"} => Watches("Mockoon")
  BY DEF Rows, Watched
<1>9. t = "model unknown" => Watches("Bedrock models")
  BY DEF Rows, Watched
<1>10. t = "guardrail failing" => Watches("Bedrock guardrail")
  BY DEF Rows, Watched
<1>11. t = "memory failing" => Watches("AgentCore Memory")
  BY DEF Rows, Watched
<1>12. t = "gateway failing" => Watches("AgentCore Gateway")
  BY DEF Rows, Watched
<1>13. t = "runtime failing" => Watches("AgentCore Runtime")
  BY DEF Rows, Watched
<1>14. t = "bucket failing" => Watches("S3 bucket")
  BY DEF Rows, Watched
<1>15. t = "api down" => Watches("API")
  BY DEF Rows, Watched
<1>16. t = "ui down" => Watches("UI dev server")
  BY DEF Rows, Watched
<1>17. t = "fairness off" => Watches("Demo state: fairness")
  BY DEF Rows, Watched
<1>18. t = "switch armed" => Watches("Demo state: kill switch")
  BY DEF Rows, Watched
<1>19. t = "ramp active" => Watches("Demo state: ramp")
  BY DEF Rows, Watched
<1>20. t = "payments left" => Watches("Demo state: payment counter")
  BY DEF Rows, Watched
<1>21. t = "no notes" => Watches("Demo state: seeded memory")
  BY DEF Rows, Watched
<1> HIDE DEF Watches
<1> QED
  BY <1>2, <1>4, <1>5, <1>6, <1>7, <1>8, <1>9, <1>10, <1>11, <1>12, <1>13,
     <1>14, <1>15, <1>16, <1>17, <1>18, <1>19, <1>20, <1>21
     DEF Troubles, Unset, NoClient, NoSettings, Tolerable

(* Once the settings have loaded, the client is there unless it cannot be.   *)
Tried == client = IF bad \cap NoClient # {} THEN "failed" ELSE "given"

(* A service that .env leaves out is not asked: its row warns, but then .env *)
(* has failed already.                                                       *)
Asked(t) == t \in Unset \/ bad \cap Unset = {}

(* A row fails on each trouble it watches, whatever other troubles there are *)
(* and whether or not the token has run out.                                 *)
LEMMA WatchedTroubleFails ==
  ASSUME Tried, NEW r \in Rows, NEW t \in bad, t \in Watched(r), Asked(t)
  PROVE  Verdict(r) = "FAIL"
<1>1. CASE r = ".env"
  BY <1>1 DEF Verdict, Watched, CheckEnv, Judge
<1>2. CASE r = "AWS credentials"
  BY <1>2 DEF Watched
<1>3. CASE r = "DynamoDB"
  BY <1>3 DEF Verdict, Watched, CheckDynamoDB, OnAws, Judge
<1>4. CASE r = "Temporal Cloud"
  BY <1>4 DEF Verdict, Watched, CheckTemporalReachable, OnTemporal, Judge, Tried, NoClient
<1>5. CASE r = "Worker deployment version"
  BY <1>5 DEF Verdict, Watched, CheckWorkerVersion, OnTemporal, Judge
<1>6. CASE r = "Task queue pollers"
  BY <1>6 DEF Verdict, Watched, CheckPollerCount, OnTemporal, Judge
<1>7. CASE r = "Mockoon"
  BY <1>7 DEF Verdict, Watched, CheckMockoon, Judge
<1>8. CASE r = "Bedrock models"
  BY <1>8 DEF Verdict, Watched, CheckBedrockModels, OnAws, Judge
<1>9. CASE r = "Bedrock guardrail"
  BY <1>9 DEF Verdict, Watched, CheckBedrockGuardrail, IfSet, OnAws, Judge, Has, Unset, Asked
<1>10. CASE r = "AgentCore Memory"
  BY <1>10 DEF Verdict, Watched, CheckAgentcoreMemory, IfSet, OnAws, Judge, Has, Unset, Asked
<1>11. CASE r = "AgentCore Gateway"
  BY <1>11 DEF Verdict, Watched, CheckAgentcoreGateway, IfSet, OnAws, Judge, Has, Unset, Asked
<1>12. CASE r = "AgentCore Runtime"
  BY <1>12 DEF Verdict, Watched, CheckAgentcoreRuntime, IfSet, OnAws, Judge, Has, Unset, Asked
<1>13. CASE r = "S3 bucket"
  BY <1>13 DEF Verdict, Watched, CheckS3, IfSet, OnAws, Judge, Has, Unset, Asked
<1>14. CASE r = "API"
  BY <1>14 DEF Verdict, Watched, CheckApi, OnAws, Judge
<1>15. CASE r = "UI dev server"
  BY <1>15 DEF Verdict, Watched, CheckUi, Judge
<1>16. CASE r = "Demo state: fairness"
  BY <1>16 DEF Verdict, Watched, CheckDemoFairness, OnAws, Judge
<1>17. CASE r = "Demo state: kill switch"
  BY <1>17 DEF Verdict, Watched, CheckDemoKillSwitch, OnAws, Judge
<1>18. CASE r = "Demo state: ramp"
  BY <1>18 DEF Verdict, Watched, CheckDemoRamp, OnTemporal, Judge
<1>19. CASE r = "Demo state: payment counter"
  BY <1>19 DEF Verdict, Watched, CheckDemoPaymentCounter, Judge
<1>20. CASE r = "Demo state: seeded memory"
  BY <1>20 DEF Verdict, Watched, CheckDemoSeededMemory, OnAws, Judge
<1> QED
  BY <1>1, <1>2, <1>3, <1>4, <1>5, <1>6, <1>7, <1>8, <1>9, <1>10, <1>11, <1>12,
     <1>13, <1>14, <1>15, <1>16, <1>17, <1>18, <1>19, <1>20
     DEF Rows

(* And none cries wolf: in a world with no more than warnings no check fails *)
(* before the token runs out.                                                *)
LEMMA NothingIsInvented ==
  ASSUME bad \subseteq Tolerable, client = "given", ~Expired, NEW r \in Rows
  PROVE  Verdict(r) # "FAIL"
  BY DEF Rows, Tolerable, Verdict, CheckEnv, CheckAwsCredentials, CheckDynamoDB,
         CheckTemporalReachable, CheckWorkerVersion, CheckPollerCount,
         CheckMockoon, CheckBedrockModels, CheckBedrockGuardrail,
         CheckAgentcoreMemory, CheckAgentcoreGateway, CheckAgentcoreRuntime,
         CheckS3, CheckApi, CheckUi, CheckDemoFairness, CheckDemoKillSwitch,
         CheckDemoRamp, CheckDemoPaymentCounter, CheckDemoSeededMemory,
         Judge, OnAws, IfSet, OnTemporal, Has, Unset

(* Arithmetic of the margin, for a token that ends at e, at the times now    *)
(* and then.                                                                 *)
LEMMA TimeLeft ==
  /\ \A e, now \in Nat : ~(e <= now) => e > now
  /\ \A e, now, m \in Nat : ~(e < now + m) => e >= now + m
  /\ \A e, now, then, m \in Nat : e >= then + m /\ e <= now => now >= then + m
OBVIOUS

-----------------------------------------------------------------------------
(* The inductive invariant: what a printed row says of the world it was      *)
(* printed in.                                                               *)
NothingYet == client = "none" /\ \A r \in Rows : row[r] = "none"
Underway == bad \cap NoSettings = {} /\ Tried
Stages ==
  /\ at \in {"start", "raised"} => NothingYet
  /\ at \in {"gather", "exit0", "exit1"} => Underway

Reason == Has("check crashes") \/ ~(bad \subseteq Tolerable) \/ Expired

RowsAreAnswers ==
  \A r \in Rows :
    /\ row[r] \in {"PASS", "WARN"} => \A t \in bad \cap Watched(r) : ~Asked(t)
    /\ row[r] = "FAIL" => Reason

(* What the row of the credentials says of the moment it was answered.       *)
Foretold ==
  LET verdict == row["AWS credentials"]
  IN /\ verdict \in {"PASS", "WARN"} => lifetime > looked
     /\ verdict = "PASS" => Has("no profile") \/ lifetime >= looked + Margin

ExitIsSummary ==
  /\ at = "exit0" => \A r \in Rows : row[r] \notin {"none", "FAIL"}
  /\ at = "exit1" => \E r \in Rows : row[r] = "FAIL"

PreflightInv == TypeOK /\ Stages /\ RowsAreAnswers /\ Foretold /\ ExitIsSummary

(* An answer of a row, whenever it comes: without a FAIL nothing that the    *)
(* row watches is wrong, a FAIL has a reason, and the row of the credentials *)
(* says how long the token has to live.                                      *)
LEMMA AnswerFits ==
  ASSUME PreflightInv, at = "gather", NEW r \in Rows, NEW v \in Guarded(r)
  PROVE  /\ v \in {"PASS", "WARN", "FAIL"}
         /\ v # "FAIL" => \A t \in bad \cap Watched(r) : ~Asked(t)
         /\ v = "FAIL" => Reason
         /\ r = "AWS credentials" =>
              /\ v \in {"PASS", "WARN"} => lifetime > age
              /\ v = "PASS" => Has("no profile") \/ lifetime >= age + Margin
<1>1. v \in {"PASS", "WARN", "FAIL"} /\ v \in {Verdict(r), "FAIL"}
  BY GuardedAnswers
<1>2. v = "FAIL" => Reason
  <2>1. v = Verdict(r) \/ Has("check crashes")
    BY DEF Guarded
  <2>2. bad \subseteq Tolerable => client = "given"
    BY DEF PreflightInv, Stages, Underway, Tried, NoClient, Tolerable
  <2> QED
    BY <2>1, <2>2, NothingIsInvented DEF Reason
<1>3. r = "AWS credentials" =>
        /\ v \in {"PASS", "WARN"} => lifetime > age
        /\ v = "PASS" => Has("no profile") \/ lifetime >= age + Margin
  <2> SUFFICES ASSUME r = "AWS credentials", v \in {"PASS", "WARN"}
               PROVE  /\ lifetime > age
                      /\ v = "PASS" => Has("no profile") \/ lifetime >= age + Margin
    OBVIOUS
  <2>1. v = CheckAwsCredentials
    BY <1>1 DEF Verdict
  <2>2. lifetime \in Nat /\ age \in Nat /\ Margin \in Nat
    BY PreflightAssumption DEF PreflightInv, TypeOK
  <2>3. ~Expired
    BY <2>1 DEF CheckAwsCredentials
  <2>4. v = "PASS" => Has("no profile") \/ ~(lifetime < age + Margin)
    BY <2>1, <2>3 DEF CheckAwsCredentials
  <2>5. lifetime > age
    BY <2>2, <2>3, TimeLeft DEF Expired
  <2>6. ~(lifetime < age + Margin) => lifetime >= age + Margin
    BY <2>2, TimeLeft
  <2> QED
    BY <2>4, <2>5, <2>6
<1>4. ASSUME v # "FAIL", NEW t \in bad \cap Watched(r), Asked(t)
      PROVE  FALSE
  <2>1. Tried
    BY DEF PreflightInv, Stages, Underway
  <2> QED
    BY <1>1, <1>4, <2>1, WatchedTroubleFails
<1> QED
  BY <1>1, <1>2, <1>3, <1>4

(* The invariant holds when preflight is started, in any of the worlds.      *)
LEMMA PreflightStarts ==
  ASSUME Init
  PROVE  PreflightInv
<1>1. "AWS credentials" \in Rows
  BY DEF Rows
<1>2. TypeOK
  BY PreflightAssumption DEF Init, TypeOK
<1> QED
  BY <1>1, <1>2
     DEF Init, PreflightInv, Stages, NothingYet, RowsAreAnswers, Foretold, ExitIsSummary

(* A step that prints rows, each with an answer of its own check, keeps the  *)
(* invariant: QuickRows and Answer are such steps.                           *)
LEMMA PrintingKeepsInv ==
  ASSUME PreflightInv, at = "gather", Notes, UNCHANGED <<bad, lifetime, age, client, at>>,
         row' \in [Rows -> {"none", "PASS", "WARN", "FAIL"}],
         \A r \in Rows : row'[r] = row[r] \/ row'[r] \in Guarded(r)
  PROVE  PreflightInv'
<1>0. looked' \in {looked, age}
  BY DEF Notes
<1>1. TypeOK' /\ Stages' /\ ExitIsSummary'
  BY <1>0 DEF PreflightInv, TypeOK, Stages, NothingYet, Underway, Tried, ExitIsSummary
<1>2. RowsAreAnswers'
  <2> SUFFICES ASSUME NEW r \in Rows
               PROVE  /\ row'[r] \in {"PASS", "WARN"} =>
                           \A t \in bad \cap Watched(r) : ~Asked(t)
                      /\ row'[r] = "FAIL" => Reason
    BY DEF RowsAreAnswers, Reason, Expired, Has, Asked, Watched
  <2>1. CASE row'[r] = row[r]
    BY <2>1 DEF PreflightInv, RowsAreAnswers
  <2>2. CASE row'[r] \in Guarded(r)
    BY <2>2, AnswerFits
  <2> QED
    BY <2>1, <2>2
<1>3. Foretold'
  <2> DEFINE a == "AWS credentials"
  <2>1. a \in Rows
    BY DEF Rows
  <2>2. CASE row'[a] = row[a]
    <3>1. looked' = looked
      BY <2>2 DEF Notes
    <3> QED
      BY <2>2, <3>1 DEF PreflightInv, Foretold, Has
  <2>3. CASE row'[a] # row[a]
    <3>1. looked' = age /\ row'[a] \in Guarded(a)
      BY <2>1, <2>3 DEF Notes
    <3> QED
      BY <2>1, <3>1, AnswerFits DEF Foretold, Has
  <2> QED
    BY <2>2, <2>3
<1> QED
  BY <1>1, <1>2, <1>3 DEF PreflightInv

(* Every step keeps the invariant; Tick is the only one under which a        *)
(* printed row may no longer be what its check would say.                    *)
LEMMA PreflightSteps ==
  ASSUME PreflightInv, [Next]_vars
  PROVE  PreflightInv'
<1> USE DEF Stages, NothingYet, Underway, Tried
<1>1. CASE Start
  <2>1. /\ at = "start" /\ UNCHANGED <<bad, lifetime, age, looked, row>> /\ NothingYet
        /\ client' \in {"none", "given", "failed"} /\ at' \in {"gather", "raised"}
    BY <1>1 DEF Start, PreflightInv, TypeOK
  <2>2. Stages'
    <3>1. CASE at' = "raised" /\ client' = client
      BY <2>1, <3>1
    <3>2. CASE /\ bad \cap NoSettings = {} /\ at' = "gather"
               /\ client' = IF bad \cap NoClient # {} THEN "failed" ELSE "given"
      BY <2>1, <3>2
    <3> QED
      BY <1>1, <3>1, <3>2 DEF Start, NoSettings, NoClient
  <2>3. TypeOK' /\ ExitIsSummary'
    BY <2>1 DEF PreflightInv, TypeOK, ExitIsSummary
  <2>4. RowsAreAnswers' /\ Foretold'
    BY <2>1 DEF RowsAreAnswers, Foretold, Rows
  <2> QED
    BY <2>2, <2>3, <2>4 DEF PreflightInv
<1>2. CASE QuickRows
  <2> PICK c \in Rows \ Slow : \E v \in Guarded(c) :
          row' = [r \in Rows |-> IF r \in Slow THEN row[r]
                                 ELSE IF r = c THEN v ELSE Verdict(r)]
    BY <1>2 DEF QuickRows
  <2>1. PICK v \in Guarded(c) :
          row' = [r \in Rows |-> IF r \in Slow THEN row[r]
                                 ELSE IF r = c THEN v ELSE Verdict(r)]
    OBVIOUS
  <2>2. at = "gather" /\ Notes /\ UNCHANGED <<bad, lifetime, age, client, at>>
    BY <1>2 DEF QuickRows
  <2>3. \A r \in Rows : row'[r] = row[r] \/ row'[r] \in Guarded(r)
    BY <2>1 DEF Guarded
  <2>4. \A r \in Rows : row'[r] \in {"none", "PASS", "WARN", "FAIL"}
    BY <2>3, GuardedAnswers DEF PreflightInv, TypeOK
  <2>5. row' \in [Rows -> {"none", "PASS", "WARN", "FAIL"}]
    BY <2>1, <2>4
  <2> QED
    BY <2>2, <2>3, <2>5, PrintingKeepsInv
<1>3. ASSUME NEW q \in Rows, Answer(q)
      PROVE  PreflightInv'
  <2>1. PICK v \in Guarded(q) : row' = [row EXCEPT ![q] = v]
    BY <1>3 DEF Answer
  <2>2. at = "gather" /\ Notes /\ UNCHANGED <<bad, lifetime, age, client, at>>
    BY <1>3 DEF Answer
  <2>3. row \in [Rows -> {"none", "PASS", "WARN", "FAIL"}]
    BY DEF PreflightInv, TypeOK
  <2>4. \A r \in Rows : row'[r] = row[r] \/ row'[r] \in Guarded(r)
    BY <2>1, <2>3
  <2>5. row' \in [Rows -> {"none", "PASS", "WARN", "FAIL"}]
    BY <2>1, <2>3, GuardedAnswers
  <2> QED
    BY <2>2, <2>4, <2>5, PrintingKeepsInv
<1>4. CASE Exit
  <2>1. /\ UNCHANGED <<bad, lifetime, age, looked, client, row>>
        /\ at = "gather" /\ at' \in {"exit0", "exit1"}
    BY <1>4 DEF Exit
  <2>2. ExitIsSummary'
    BY <1>4 DEF Exit, ExitIsSummary
  <2>3. TypeOK' /\ Stages' /\ Foretold'
    BY <2>1 DEF PreflightInv, TypeOK, Foretold, Has
  <2>4. RowsAreAnswers'
    BY <2>1 DEF PreflightInv, RowsAreAnswers, Reason, Expired, Has, Asked
  <2> QED
    BY <2>2, <2>3, <2>4 DEF PreflightInv
<1>5. CASE Tick
  <2>1. age' = age + 1 /\ UNCHANGED <<bad, lifetime, looked, client, row, at>>
    BY <1>5 DEF Tick
  <2>2. lifetime \in Nat /\ age \in Nat
    BY DEF PreflightInv, TypeOK
  <2>3. Reason => Reason'
    <3>1. Expired => Expired'
      BY <2>1, <2>2 DEF Expired
    <3> QED
      BY <2>1, <3>1 DEF Reason, Has
  <2>4. TypeOK' /\ Stages' /\ Foretold' /\ ExitIsSummary'
    <3>1. age' \in Nat
      BY <2>1, <2>2
    <3> QED
      BY <2>1, <3>1 DEF PreflightInv, TypeOK, Foretold, ExitIsSummary, Has
  <2>5. RowsAreAnswers'
    BY <2>1, <2>3 DEF PreflightInv, RowsAreAnswers, Asked
  <2> QED
    BY <2>4, <2>5 DEF PreflightInv
<1>6. CASE UNCHANGED vars
  <2>1. UNCHANGED <<bad, lifetime, age, looked, client, row, at>>
    BY <1>6 DEF vars
  <2>2. TypeOK' /\ Stages' /\ Foretold' /\ ExitIsSummary'
    BY <2>1 DEF PreflightInv, TypeOK, Foretold, ExitIsSummary, Has
  <2>3. RowsAreAnswers'
    BY <2>1 DEF PreflightInv, RowsAreAnswers, Reason, Expired, Has, Asked
  <2> QED
    BY <2>2, <2>3 DEF PreflightInv
<1> QED
  BY <1>1, <1>2, <1>3, <1>4, <1>5, <1>6 DEF Next

(* So it holds in every state that main can be in.                           *)
LEMMA PreflightInvHolds == Spec => []PreflightInv
  BY PreflightStarts, PreflightSteps, PTL DEF Spec

(* Main is at one of its five places, and no row prints anything but a       *)
(* verdict.                                                                  *)
THEOREM PreflightTypes == Spec => []TypeOK
<1>1. PreflightInv => TypeOK
  BY DEF PreflightInv
<1> QED
  BY PreflightInvHolds, <1>1, PTL

(* A go is safe: when main returns 0 the world has no trouble that the demo  *)
(* cannot live with, in whatever combination with others and in whatever     *)
(* order the rows answered, and the token was valid when its row looked      *)
(* (docs/RUNBOOK.md:129).  What no row can see is excluded by name: a worker *)
(* that died within the minutes for which its poller is still listed.        *)
THEOREM GoMeansGo ==
  ASSUME \A w \in Worlds : "ghost worker" \notin w
  PROVE  Spec => []GoIsSafe
<1>0. Spec => [](bad \in Worlds)
  <2>1. Init => bad \in Worlds
    BY DEF Init
  <2>2. bad \in Worlds /\ [Next]_vars => (bad \in Worlds)'
    BY DEF Next, vars, Start, QuickRows, Answer, Exit, Tick
  <2> QED
    BY <2>1, <2>2, PTL DEF Spec
<1>1. PreflightInv /\ bad \in Worlds => GoIsSafe
  <2>1. SUFFICES ASSUME PreflightInv, bad \in Worlds, at = "exit0"
                 PROVE  bad \subseteq Tolerable /\ lifetime > looked
    BY DEF GoIsSafe
  <2>2. \A r \in Rows : row[r] \in {"PASS", "WARN"}
    BY <2>1 DEF PreflightInv, ExitIsSummary, TypeOK
  <2>3. lifetime > looked
    BY <2>1, <2>2 DEF PreflightInv, Foretold, Rows
  <2>4. \A u \in bad : Asked(u) => ~ \E r \in Rows : u \in Watched(r)
    BY <2>1, <2>2 DEF PreflightInv, RowsAreAnswers
  <2>5. ASSUME NEW t \in bad \ Tolerable PROVE FALSE
    <3>1. t \in Troubles /\ bad \cap NoSettings = {} /\ t # "ghost worker"
      BY <2>1 DEF PreflightInv, Stages, Underway, TypeOK
    <3>2. CASE Asked(t)
      BY <2>4, <3>1, <3>2, NothingIsOverlooked
    <3>3. CASE ~Asked(t)
      <4>1. PICK u \in Unset : u \in bad
        BY <3>3 DEF Asked
      <4>2. Asked(u) /\ ".env" \in Rows /\ u \in Watched(".env")
        BY DEF Asked, Rows, Watched
      <4> QED
        BY <2>4, <4>1, <4>2
    <3> QED
      BY <3>2, <3>3
  <2> QED
    BY <2>3, <2>5
<1> QED
  BY PreflightInvHolds, <1>0, <1>1, PTL

(* The other half of the gate: main returns 1 only in a world that has a     *)
(* trouble beyond the tolerable, a check that crashed, or a token that has   *)
(* run out.                                                                  *)
NoFalseAlarm == at = "exit1" => Reason

THEOREM NoGoHasAReason == Spec => []NoFalseAlarm
<1>1. PreflightInv => NoFalseAlarm
  BY DEF PreflightInv, ExitIsSummary, RowsAreAnswers, NoFalseAlarm
<1> QED
  BY PreflightInvHolds, <1>1, PTL

(* An expiry was foretold: a token that the row of the credentials passed    *)
(* lives for the whole margin after that look, through the gather and beyond *)
(* exit 0, whatever the margin, its lifetime and the order of the rows; a    *)
(* role without a profile is the exception the code makes                    *)
(* (scripts/preflight.py:235).                                               *)
THEOREM ExpiryIsForetold == Spec => []ExpiryWasForetold
<1>1. PreflightInv => ExpiryWasForetold
  <2> SUFFICES ASSUME PreflightInv, row["AWS credentials"] = "PASS", ~Has("no profile"), Expired
               PROVE  age >= looked + Margin
    BY DEF ExpiryWasForetold
  <2>1. lifetime \in Nat /\ age \in Nat /\ looked \in Nat /\ Margin \in Nat
    BY PreflightAssumption DEF PreflightInv, TypeOK
  <2>2. lifetime >= looked + Margin /\ lifetime <= age
    BY DEF PreflightInv, Foretold, Expired
  <2> QED
    BY <2>1, <2>2, TimeLeft
<1> QED
  BY PreflightInvHolds, <1>1, PTL
=============================================================================
