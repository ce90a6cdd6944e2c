------------------------------ MODULE Routing -------------------------------
(* Which build new sessions go to: the routing configuration of the worker   *)
(* deployment, the commands that change it (`dos demo ramp`, the ramp routes *)
(* of the API), the sessions it pins and the workers that serve them.        *)
(* scripts/verify_pinning.py takes part as one more operator, with a worker  *)
(* of its own.                                                               *)
EXTENDS Naturals, FiniteSets

CONSTANTS
  Builds,       \* build ids of the deployment's versions
  Home,         \* the build of `make worker`
  Temp,         \* the build of verify_pinning's own worker
  NoBuild,      \* the empty build id: no ramp
  Operators,    \* terminals and browsers
  Verify,       \* verify_pinning, an operator
  Sessions,     \* sessions started by other people
  First, Second, \* verify_pinning's paused session and its new one
  Low           \* sessions that a ramp takes: the percentage of the hash range

ASSUME RoutingAssumption ==
  /\ {Home, Temp} \subseteq Builds /\ Home # Temp /\ NoBuild \notin Builds
  /\ Verify \notin Operators
  /\ First # Second /\ {First, Second} \cap Sessions = {}

All == Sessions \cup {First, Second}
Clients == Operators \cup {Verify}

VARIABLES
  current, ramp,   \* the routing configuration
  known,           \* versions the deployment has
  alive,           \* builds with a worker that polls
  on,              \* on[x]: the build that session x is pinned to
  session,         \* session[x]: where x stands
  cmd,             \* cmd[o]: o's command, and whether its token is old
  script           \* where verify_pinning stands

routing == <<current, ramp, known>>
vars == <<routing, alive, on, session, cmd, script>>

Commands == {"none", "current", "clear", "ramp", "promote", "unramp"}
Idle == [do |-> "none", build |-> NoBuild, stale |-> FALSE]
Stages == {"off", "spawn", "setTemp", "start", "paused", "setHome", "second",
           "resume", "last", "stop", "restore", "delete", "passed", "failed"}

TypeOK ==
  /\ current \in Builds /\ ramp \in Builds \cup {NoBuild}
  /\ known \in SUBSET Builds /\ alive \in SUBSET Builds
  /\ on \in [All -> Builds \cup {NoBuild}]
  /\ session \in [All -> {"none", "new", "going", "paused", "closed"}]
  /\ cmd \in [Clients -> [do : Commands, build : Builds \cup {NoBuild},
                          stale : BOOLEAN]]
  /\ script \in [at : Stages, ok : BOOLEAN]
  /\ current \in known /\ ramp # current
  /\ \A x \in All : session[x] \in {"going", "paused"} => on[x] \in known

Init ==
  /\ current = Home /\ ramp = NoBuild
  /\ known = Builds \ {Temp} /\ alive = Builds \ {Temp}
  /\ on = [x \in All |-> NoBuild]
  /\ session = [x \in All |-> "none"]
  /\ cmd = [o \in Clients |-> Idle]
  /\ script = [at |-> "off", ok |-> TRUE]

-----------------------------------------------------------------------------
(* The server takes a change when the token is of the present configuration  *)
(* and the version exists (external).                                        *)
Accepts(o, b) == b \in known /\ ~cmd[o].stale

(* Everybody else's token is old once a change is made.                      *)
After(o, next) ==
  [p \in Clients |->
    IF p = o THEN next
    ELSE [cmd[p] EXCEPT !.stale = cmd[p].do # "none"]]

(* A command fetches the conflict token: _conflict_token.                    *)
Ask(o, do, b) ==
  /\ cmd[o].do = "none"
  /\ cmd' = [cmd EXCEPT ![o] = [Idle EXCEPT !.do = do, !.build = b]]
  /\ UNCHANGED <<routing, alive, on, session>>

(* set_ramp below 100 percent; the current version cannot be ramped to.      *)
WriteRamp(o) ==
  /\ cmd[o].do = "ramp"
  /\ Accepts(o, cmd[o].build) /\ cmd[o].build # current
  /\ ramp' = cmd[o].build
  /\ cmd' = After(o, Idle)
  /\ UNCHANGED <<current, known, alive, on, session, script>>

(* set_current_version; it ends a ramp to that very version.                 *)
SetCurrent(o, next) ==
  /\ Accepts(o, cmd[o].build)
  /\ current' = cmd[o].build
  /\ ramp' = IF ramp = cmd[o].build THEN NoBuild ELSE ramp
  /\ cmd' = After(o, next)
  /\ UNCHANGED <<known, alive, on, session>>

(* Mutant: set_ramp stops after set_current_version. *)
Promote_Half(o) ==
  /\ cmd[o].do = "promote"
  /\ SetCurrent(o, Idle)
  /\ UNCHANGED script

(* set_ramp at 100 percent: set_current_version and then clear_ramp, which   *)
(* fetches a token of its own, before or after another's change.             *)
Promote(o) ==
  /\ cmd[o].do = "promote"
  /\ SetCurrent(o, [cmd[o] EXCEPT !.do = "unramp"])
  /\ UNCHANGED script

(* clear_ramp.                                                               *)
WriteClear(o) ==
  /\ \/ cmd[o].do = "clear" /\ ~cmd[o].stale
     \/ cmd[o].do = "unramp"
  /\ ramp' = NoBuild
  /\ cmd' = After(o, Idle)
  /\ UNCHANGED <<current, known, alive, on, session, script>>

(* The request is refused (an old token, a version that is not there), or    *)
(* fails: the operator sees an error.                                        *)
Refused(o) ==
  /\ cmd[o].do # "none"
  /\ cmd' = [cmd EXCEPT ![o] = Idle]
  /\ UNCHANGED <<routing, alive, on, session>>

Command(o) ==
  \/ /\ \/ \E b \in Builds \ {Temp} : Ask(o, "ramp", b) \/ Ask(o, "promote", b)
        \/ Ask(o, "clear", NoBuild)
     /\ UNCHANGED script
  \/ WriteRamp(o) \/ Promote(o) \/ WriteClear(o)
  \/ Refused(o) /\ UNCHANGED script

-----------------------------------------------------------------------------
StartSession(x) ==
  /\ session[x] = "none"
  /\ session' = [session EXCEPT ![x] = "new"]
  /\ UNCHANGED <<routing, alive, on, cmd>>

(* Where a session's first task goes (external).                             *)
Target(x) == IF ramp # NoBuild /\ x \in Low THEN ramp ELSE current

(* A worker takes the first task: VersioningBehavior.PINNED.                 *)
FirstTask(x) ==
  /\ session[x] = "new"
  /\ Target(x) \in alive
  /\ on' = [on EXCEPT ![x] = Target(x)]
  /\ session' = [session EXCEPT ![x] = "going"]
  /\ UNCHANGED <<routing, alive, cmd, script>>

(* A pinned session only runs on its build; it may pause for an approval,    *)
(* and First always does (its invoice is over the threshold).                *)
Goes(x) ==
  /\ session[x] = "going" /\ on[x] \in alive
  /\ \/ session' = [session EXCEPT ![x] = "paused"] /\ x # Second
     \/ session' = [session EXCEPT ![x] = "closed"] /\ x # First
  /\ UNCHANGED <<routing, alive, on, cmd, script>>

Approve(x) ==
  /\ session[x] = "paused" /\ on[x] \in alive
  /\ session' = [session EXCEPT ![x] = "closed"]
  /\ UNCHANGED <<routing, alive, on, cmd>>

-----------------------------------------------------------------------------
(* verify_pinning.main, one step for each line that waits.                   *)
At(stage) == script.at = stage
Then(stage) == script' = [script EXCEPT !.at = stage]

Spawn ==
  /\ At("off") /\ Then("spawn")
  /\ alive' = alive \cup {Temp}
  /\ UNCHANGED <<routing, on, session, cmd>>

(* Mutant: nobody waits for the worker to poll. *)
Registered_Unwaited ==
  /\ At("spawn") /\ Then("setTemp")
  /\ cmd' = [cmd EXCEPT ![Verify] = [Idle EXCEPT !.do = "current", !.build = Temp]]
  /\ UNCHANGED <<routing, alive, on, session>>

(* wait_for_poller: the version is there once its worker has polled.         *)
Registered ==
  /\ At("spawn") /\ Then("setTemp")
  /\ known' = known \cup {Temp}
  /\ cmd' = [cmd EXCEPT ![Verify] = [Idle EXCEPT !.do = "current", !.build = Temp]]
  /\ UNCHANGED <<current, ramp, alive, on, session>>

VerifySets ==
  /\ cmd[Verify].do = "current"
  /\ SetCurrent(Verify, Idle)
  /\ Then(CASE At("setTemp") -> "start" [] At("setHome") -> "second"
            [] At("restore") -> "delete")

StartFirst == At("start") /\ StartSession(First) /\ Then("paused")

(* _wait_for_pending, and the build that describe() then shows.              *)
FirstPaused ==
  /\ At("paused") /\ session[First] = "paused" /\ on[First] = Temp
  /\ Ask(Verify, "current", Home) /\ Then("setHome")

StartSecond == At("second") /\ StartSession(Second) /\ Then("resume")

(* Mutant: the build that the second session ran on is not asserted. *)
SecondDone_Unasserted ==
  /\ At("resume") /\ session[Second] = "closed"
  /\ Approve(First) /\ Then("last")

SecondDone ==
  /\ At("resume") /\ session[Second] = "closed" /\ on[Second] = Home
  /\ Approve(First) /\ Then("last")

(* Mutant: the worker is stopped when the second session is done. *)
LastDone_Early ==
  /\ At("resume") \/ At("last")
  /\ session[Second] = "closed" /\ Then("stop")
  /\ UNCHANGED <<routing, alive, on, session, cmd>>

LastDone ==
  /\ At("last") /\ session[First] = "closed" /\ Then("stop")
  /\ UNCHANGED <<routing, alive, on, session, cmd>>

(* To the finally.                                                           *)
Fails ==
  /\ script' = [at |-> "stop", ok |-> FALSE]
  /\ cmd' = [cmd EXCEPT ![Verify] = Idle]
  /\ UNCHANGED <<routing, alive, on, session>>

(* An assertion fails, or a change made with an old token is refused, ...    *)
VerifyFails ==
  /\ \/ At("paused") /\ session[First] = "paused" /\ on[First] # Temp
     \/ At("resume") /\ session[Second] = "closed" /\ on[Second] # Home
     \/ cmd[Verify].stale /\ script.at \in {"setTemp", "setHome"}
  /\ Fails

(* ... or a request fails, or a wait times out, wherever the script stands.  *)
VerifyFault ==
  /\ script.at \in {"spawn", "setTemp", "start", "paused",
                    "setHome", "second", "resume", "last"}
  /\ Fails

(* finally: terminate the worker, ...                                        *)
StopTemp ==
  /\ At("stop") /\ Then("restore")
  /\ alive' = alive \ {Temp}
  /\ cmd' = [cmd EXCEPT ![Verify] = [Idle EXCEPT !.do = "current", !.build = Home]]
  /\ UNCHANGED <<routing, on, session>>

(* ... restore current, or go on when that fails, ...                        *)
NotRestored ==
  /\ At("restore") /\ Refused(Verify) /\ Then("delete")

(* ... and delete the version, which the server refuses while it is routed   *)
(* to or has sessions pinned to it.                                          *)
DeleteTemp ==
  /\ At("delete")
  /\ known' = IF Temp \in {current, ramp}
                 \/ \E x \in All : on[x] = Temp /\ session[x] # "closed"
              THEN known ELSE known \ {Temp}
  /\ Then(IF script.ok THEN "passed" ELSE "failed")
  /\ UNCHANGED <<current, ramp, alive, on, session, cmd>>

VerifyStep ==
  \/ Registered \/ VerifySets \/ StartFirst \/ FirstPaused \/ StartSecond
  \/ SecondDone \/ LastDone \/ StopTemp \/ NotRestored \/ DeleteTemp
  \/ VerifyFails

SessionStep(x) ==
  \/ FirstTask(x) \/ Goes(x)
  \/ x \in Sessions /\ Approve(x) /\ UNCHANGED script

Next ==
  \/ \E o \in Operators : Command(o)
  \/ Spawn \/ VerifyStep \/ VerifyFault
  \/ \E x \in Sessions : StartSession(x) /\ UNCHANGED script
  \/ \E x \in All : SessionStep(x)

Fairness ==
  /\ WF_vars(VerifyStep)
  /\ \A x \in All : WF_vars(SessionStep(x))

Spec == Init /\ [][Next]_vars /\ Fairness

-----------------------------------------------------------------------------
(* A promotion that is answered with success has left its build current and  *)
(* no ramp beside it, which takes two requests (app/demo.py:108), unless     *)
(* somebody else changed the routing in between.                             *)
AckedPromotion ==
  [][\A o \in Operators :
       /\ cmd[o].do \in {"promote", "unramp"} /\ cmd'[o] = Idle
       /\ ~cmd[o].stale /\ UNCHANGED known /\ ~Refused(o)
       => current' = cmd[o].build /\ ramp' = NoBuild]_vars

(* verify_pinning never stops the worker that its own sessions are pinned    *)
(* to while they are open, so what it proves is never proved by a session    *)
(* that hangs (scripts/verify_pinning.py:144); only a failure on the way     *)
(* stops it earlier.                                                         *)
OwnSessionsServed ==
  script.ok =>
    \A x \in {First, Second} :
      session[x] \in {"going", "paused"} => on[x] \in alive

(* When verify_pinning says that all checks passed, one session did end on   *)
(* the temporary build and a later one on the primary build, also when       *)
(* somebody ramps or promotes in the middle of it, or requests fail.         *)
PassIsProof ==
  At("passed") =>
    /\ session[First] = "closed" /\ on[First] = Temp
    /\ session[Second] = "closed" /\ on[Second] = Home

(* Once started, verify_pinning passes, whatever other sessions start        *)
(* meanwhile, unless somebody else changes the routing or a request fails:   *)
(* the paused session ends on its build and the new one on the other         *)
(* (app/registry/deployment.py:61).                                          *)
PinningPasses ==
  [](script.ok /\ \A o \in Operators : cmd[o] = Idle)
  => (At("spawn") ~> At("passed"))

=============================================================================
