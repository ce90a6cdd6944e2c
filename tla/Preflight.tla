----------------------------- MODULE Preflight ------------------------------
(* scripts/preflight.py, the go/no-go gate before a demo: twenty read-only   *)
(* checks that run side by side, each with a verdict of its own, and an exit *)
(* code.  What may be wrong with the world is a set of troubles; a check is  *)
(* the troubles it fails or warns on, read at the moment it answers.  Time   *)
(* goes on meanwhile and after the exit, and the SSO token runs out in it.   *)
EXTENDS Naturals

CONSTANTS
  Worlds,     \* the sets of troubles that preflight may be started in
  Slow,       \* rows that answer some time after the gather has begun
  Lifetimes,  \* how long the token may have to live when preflight starts
  Margin,     \* SSO_WARN_THRESHOLD, in the same ticks
  MaxAge      \* bound on the ticks looked at

Unset == {"guardrail unset", "memory unset", "gateway unset",
          "runtime unset", "bucket unset"}
Troubles == Unset \cup {
  "settings invalid", "blank default",
  "no profile", "no sso session", "no token cache",
  "table failing", "table inactive", "no tenants", "no packages",
  "temporal down", "routing failing", "no TenantId", "not current",
  "no worker", "ghost worker", "extra poller",
  "mockoon down", "route failing", "model unknown", "model inactive",
  "guardrail failing", "memory failing", "gateway failing", "runtime failing",
  "bucket failing", "api down", "ui down",
  "fairness off", "switch armed", "ramp active", "payments left", "no notes",
  "check crashes"}
Rows == {".env", "AWS credentials", "DynamoDB", "Temporal Cloud",
  "Worker deployment version", "Task queue pollers", "Mockoon",
  "Bedrock models", "Bedrock guardrail", "AgentCore Memory",
  "AgentCore Gateway", "AgentCore Runtime", "S3 bucket", "API",
  "UI dev server", "Demo state: fairness", "Demo state: kill switch",
  "Demo state: ramp", "Demo state: payment counter",
  "Demo state: seeded memory"}

ASSUME PreflightAssumption ==
  /\ Worlds \subseteq SUBSET Troubles /\ Slow \subseteq Rows
  /\ Lifetimes \subseteq Nat /\ {Margin, MaxAge} \subseteq Nat

VARIABLES
  bad,       \* the troubles there are
  lifetime,  \* ticks from the start of preflight to the token's expiresAt
  age,       \* ticks since preflight was started
  looked,    \* history: age when the row "AWS credentials" was answered
  client,    \* the Temporal client that the rows share, once tried
  row,       \* row[r]: the verdict printed for r
  at         \* where main() stands

vars == <<bad, lifetime, age, looked, client, row, at>>

TypeOK ==
  /\ bad \in SUBSET Troubles
  /\ {lifetime, age, looked} \subseteq Nat
  /\ client \in {"none", "given", "failed"}
  /\ row \in [Rows -> {"none", "PASS", "WARN", "FAIL"}]
  /\ at \in {"start", "gather", "exit0", "exit1", "raised"}

Init ==
  /\ bad \in Worlds
  /\ lifetime \in Lifetimes
  /\ age = 0 /\ looked = 0
  /\ client = "none"
  /\ row = [r \in Rows |-> "none"]
  /\ at = "start"

-----------------------------------------------------------------------------
Has(t) == t \in bad
Judge(fails, warns) ==
  IF bad \cap fails # {} THEN "FAIL"
  ELSE IF bad \cap warns # {} THEN "WARN" ELSE "PASS"

Expired == lifetime <= age

(* An AWS-backed check: an expired token fails it whatever else it reads.    *)
OnAws(fails, warns) == IF Expired THEN "FAIL" ELSE Judge(fails, warns)

(* A check of a service that .env may leave out: nothing is called then.     *)
IfSet(unset, fails) == IF Has(unset) THEN "WARN" ELSE OnAws(fails, {})

(* A check that needs the client and the routing status fetched before.      *)
OnTemporal(verdict) == IF client = "failed" THEN "FAIL" ELSE verdict

(* Mutant: s3_bucket_name is not among the fields. *)
CheckEnv_FiveFields == Judge(Unset \ {"bucket unset"}, {})

(* check_env: the settings load (main has loaded them before) and            *)
(* DEMO_CRITICAL_OPTIONAL_FIELDS are set.                                    *)
CheckEnv == Judge({"settings invalid", "blank default"} \cup Unset, {})

(* Mutant: no safety margin on the token's lifetime. *)
CheckAwsCredentials_NoMargin ==
  IF Expired THEN "FAIL"
  ELSE IF Has("no profile") THEN "PASS"
  ELSE Judge({}, {"no sso session", "no token cache"})

(* check_aws_credentials: who am I, and for how long.                        *)
CheckAwsCredentials ==
  IF Expired THEN "FAIL"
  ELSE IF Has("no profile") THEN "PASS"
  ELSE IF lifetime < age + Margin THEN "WARN"
  ELSE Judge({}, {"no sso session", "no token cache"})

CheckDynamoDB ==
  OnAws({"table failing", "table inactive", "no tenants", "no packages"}, {})
CheckTemporalReachable == OnTemporal(Judge({"no TenantId"}, {}))
CheckWorkerVersion == OnTemporal(Judge({"not current"}, {}))

(* describe_task_queue counts the pollers it has seen of late.               *)
CheckPollerCount == OnTemporal(Judge({"no worker"}, {"extra poller"}))

CheckMockoon == Judge({"mockoon down", "route failing"}, {})
CheckBedrockModels == OnAws({"model unknown"}, {"model inactive"})
CheckBedrockGuardrail == IfSet("guardrail unset", {"guardrail failing"})
CheckAgentcoreMemory == IfSet("memory unset", {"memory failing"})
CheckAgentcoreGateway == IfSet("gateway unset", {"gateway failing"})
CheckAgentcoreRuntime == IfSet("runtime unset", {"runtime failing"})
CheckS3 == IfSet("bucket unset", {"bucket failing"})

(* check_api: /api/metrics/status asks Temporal, DynamoDB and Mockoon.       *)
CheckApi ==
  OnAws({"api down", "temporal down", "routing failing", "table failing",
         "mockoon down"}, {})
CheckUi == Judge({"ui down"}, {})
CheckDemoFairness == OnAws({"table failing", "fairness off"}, {})
CheckDemoKillSwitch == OnAws({"table failing", "switch armed"}, {})
CheckDemoRamp == OnTemporal(Judge({"ramp active"}, {}))
CheckDemoPaymentCounter == Judge({"mockoon down", "payments left"}, {})
CheckDemoSeededMemory ==
  IF Has("memory unset") THEN "FAIL"
  ELSE OnAws({"memory failing", "no notes"}, {})

Verdict(r) ==
  CASE r = ".env" -> CheckEnv
    [] r = "AWS credentials" -> CheckAwsCredentials
    [] r = "DynamoDB" -> CheckDynamoDB
    [] r = "Temporal Cloud" -> CheckTemporalReachable
    [] r = "Worker deployment version" -> CheckWorkerVersion
    [] r = "Task queue pollers" -> CheckPollerCount
    [] r = "Mockoon" -> CheckMockoon
    [] r = "Bedrock models" -> CheckBedrockModels
    [] r = "Bedrock guardrail" -> CheckBedrockGuardrail
    [] r = "AgentCore Memory" -> CheckAgentcoreMemory
    [] r = "AgentCore Gateway" -> CheckAgentcoreGateway
    [] r = "AgentCore Runtime" -> CheckAgentcoreRuntime
    [] r = "S3 bucket" -> CheckS3
    [] r = "API" -> CheckApi
    [] r = "UI dev server" -> CheckUi
    [] r = "Demo state: fairness" -> CheckDemoFairness
    [] r = "Demo state: kill switch" -> CheckDemoKillSwitch
    [] r = "Demo state: ramp" -> CheckDemoRamp
    [] r = "Demo state: payment counter" -> CheckDemoPaymentCounter
    [] r = "Demo state: seeded memory" -> CheckDemoSeededMemory

(* Mutant: a check that crashes has no row. *)
Guarded_Not(r) == {Verdict(r)} \cup (IF Has("check crashes") THEN {"none"} ELSE {})

(* _guarded: any exception is a FAIL for that check alone.                   *)
Guarded(r) == {Verdict(r)} \cup (IF Has("check crashes") THEN {"FAIL"} ELSE {})

-----------------------------------------------------------------------------
Notes == looked' = IF row'["AWS credentials"] # row["AWS credentials"]
                   THEN age ELSE looked

(* main: the settings, the connection, the routing status, and the gather.   *)
Start ==
  /\ at = "start"
  /\ \/ /\ bad \cap {"settings invalid", "blank default"} # {}
        /\ at' = "raised"
        /\ UNCHANGED <<client, row>>
     \/ /\ bad \cap {"settings invalid", "blank default"} = {}
        /\ at' = "gather"
        /\ client' = IF bad \cap {"temporal down", "routing failing"} # {}
                     THEN "failed" ELSE "given"
        /\ UNCHANGED row
  /\ UNCHANGED <<bad, lifetime, age, looked>>

(* The rows that answer at once, in one step; at most one of them crashes.   *)
QuickRows ==
  /\ at = "gather"
  /\ \A r \in Rows \ Slow : row[r] = "none"
  /\ \E c \in Rows \ Slow : \E v \in Guarded(c) :
       row' = [r \in Rows |-> IF r \in Slow THEN row[r]
                              ELSE IF r = c THEN v ELSE Verdict(r)]
  /\ Notes
  /\ UNCHANGED <<bad, lifetime, age, client, at>>

Answer(r) ==
  /\ at = "gather"
  /\ r \in Slow /\ row[r] = "none"
  /\ \E v \in Guarded(r) : row' = [row EXCEPT ![r] = v]
  /\ Notes
  /\ UNCHANGED <<bad, lifetime, age, client, at>>

(* gather has every result: the summary and the exit code.                   *)
Exit ==
  /\ at = "gather"
  /\ \A r \in Rows : row[r] # "none"
  /\ at' = IF \E r \in Rows : row[r] = "FAIL" THEN "exit1" ELSE "exit0"
  /\ UNCHANGED <<bad, lifetime, age, looked, client, row>>

(* Time passes while the checks run and after a go (external).               *)
Tick ==
  /\ at \in {"gather", "exit0"}
  /\ age < MaxAge
  /\ age' = age + 1
  /\ UNCHANGED <<bad, lifetime, looked, client, row, at>>

Next == Start \/ QuickRows \/ (\E r \in Rows : Answer(r)) \/ Exit \/ Tick

Spec == Init /\ [][Next]_vars /\ WF_vars(Start \/ QuickRows \/ Exit)
             /\ \A r \in Rows : WF_vars(Answer(r))

-----------------------------------------------------------------------------
(* What the demo can live with: what only warns, and a check that may crash. *)
Tolerable == {"no profile", "no sso session", "no token cache",
              "extra poller", "model inactive", "check crashes"}

(* The exit code is the gate of docs/RUNBOOK.md:129: 0 is only given to a    *)
(* world without a trouble that would stop the demo.  Each is caught by some *)
(* row, whatever the others say and whatever else is wrong; the token was    *)
(* still valid when its own row was answered, and may have run out since.    *)
GoIsSafe == at = "exit0" => bad \subseteq Tolerable /\ lifetime > looked

(* A token that the row "AWS credentials" passed does not run out within the *)
(* two hours of SSO_WARN_THRESHOLD after that row looked at it: not while    *)
(* the slower rows still use it (they point back at this row when it does,   *)
(* _credentials_fail), and not in the demo that follows an exit 0.  Side     *)
(* condition: AWS_PROFILE is set; a role without a profile passes without a  *)
(* look at any lifetime (scripts/preflight.py:235).                          *)
ExpiryWasForetold ==
  (row["AWS credentials"] = "PASS" /\ ~Has("no profile") /\ Expired)
  => age >= looked + Margin

(* A check that raises does not take the run down (_guarded): once the       *)
(* checks run, all rows are printed and main returns an exit code.           *)
EveryRowIsPrinted ==
  (at = "gather") ~> (at \in {"exit0", "exit1"} /\ \A r \in Rows : row[r] # "none")

=============================================================================
