---------------------------- MODULE RoutingProofs ---------------------------
(* Theorems about Routing, for any builds, operators and sessions, and any   *)
(* share of the sessions that a ramp takes.                                  *)
EXTENDS Routing, TLAPS

(* The server never routes to, or has pinned, a version it does not know.    *)
KnownOnly ==
  /\ ramp \in known \cup {NoBuild}
  /\ \A x \in All : session[x] \in {"none", "new"} => on[x] = NoBuild

(* verify_pinning has a command under way only where it waits for one.       *)
OneCommand ==
  /\ cmd[Verify].do \in {"none", "current"}
  /\ cmd[Verify].do = "current" => script.at \in {"setTemp", "setHome", "restore"}

(* What the script has seen of its sessions by the stage it is in.           *)
FirstPinned == {"setHome", "second", "resume"}
BothEnded == {"last", "stop", "restore", "delete", "passed"}
Seen ==
  /\ script.at = "passed" => script.ok
  /\ script.ok =>
       /\ script.at \in FirstPinned => session[First] = "paused" /\ on[First] = Temp
       /\ script.at \in BothEnded =>
            /\ session[First] = "closed" /\ on[First] = Temp
            /\ session[Second] = "closed" /\ on[Second] = Home

(* Between its two requests a promotion is current, unless its token is old. *)
Halfway ==
  \A o \in Operators :
    cmd[o].do = "unramp" /\ ~cmd[o].stale => current = cmd[o].build

RoutingInv ==
  TypeOK /\ KnownOnly /\ OneCommand /\ Seen /\ OwnSessionsServed /\ Halfway

-----------------------------------------------------------------------------
(* What a command's record holds. *)
LEMMA CmdFields ==
  ASSUME TypeOK, NEW o \in Clients
  PROVE  /\ cmd[o] \in [do : Commands, build : Builds \cup {NoBuild}, stale : BOOLEAN]
         /\ cmd[o].do \in Commands /\ cmd[o].build \in Builds \cup {NoBuild}
         /\ cmd[o].stale \in BOOLEAN
<1>1. cmd[o] \in [do : Commands, build : Builds \cup {NoBuild}, stale : BOOLEAN]
  BY DEF TypeOK
<1> QED
  BY <1>1

(* A command's record that changes.                                          *)
LEMMA AfterEffect ==
  ASSUME TypeOK, NEW o \in Clients,
         NEW next \in [do : Commands, build : Builds \cup {NoBuild}, stale : BOOLEAN],
         cmd' = After(o, next)
  PROVE  /\ cmd' \in [Clients -> [do : Commands, build : Builds \cup {NoBuild},
                                  stale : BOOLEAN]]
         /\ cmd'[o] = next
         /\ \A p \in Clients \ {o} :
              /\ cmd'[p].do = cmd[p].do /\ cmd'[p].build = cmd[p].build
              /\ cmd'[p].stale = (cmd[p].do # "none")
<1>1. \A p \in Clients \ {o} :
        /\ cmd'[p] = [cmd[p] EXCEPT !.stale = cmd[p].do # "none"]
        /\ cmd'[p] \in [do : Commands, build : Builds \cup {NoBuild}, stale : BOOLEAN]
        /\ cmd'[p].do = cmd[p].do /\ cmd'[p].build = cmd[p].build
        /\ cmd'[p].stale = (cmd[p].do # "none")
  BY CmdFields DEF After
<1>2. cmd'[o] = next
  BY DEF After
<1>3. cmd' = [p \in Clients |-> cmd'[p]]
  BY DEF After
<1> QED
  BY <1>1, <1>2, <1>3

(* The script's record that moves on. *)
LEMMA ThenEffect ==
  ASSUME TypeOK, NEW stage \in Stages, Then(stage)
  PROVE  /\ script' \in [at : Stages, ok : BOOLEAN]
         /\ script'.at = stage /\ script'.ok = script.ok
BY DEF TypeOK, Then

(* No command under way. *)
LEMMA IdleType ==
  /\ Idle \in [do : Commands, build : Builds \cup {NoBuild}, stale : BOOLEAN]
  /\ Idle.do = "none" /\ ~Idle.stale
BY DEF Idle, Commands

(* The script is none of the operators, its sessions none of the others.     *)
LEMMA Apart ==
  /\ Verify \in Clients /\ Operators \subseteq Clients /\ Verify \notin Operators
  /\ First \in All /\ Second \in All /\ First # Second
  /\ First \notin Sessions /\ Second \notin Sessions /\ Sessions \subseteq All
  /\ Home \in Builds /\ Temp \in Builds /\ Home # Temp /\ NoBuild \notin Builds
BY RoutingAssumption DEF Clients, All

-----------------------------------------------------------------------------
(* A change of the current version, by whoever holds a fresh token.          *)
LEMMA SetCurrentKeeps ==
  ASSUME RoutingInv, NEW o \in Clients,
         NEW next \in [do : Commands, build : Builds \cup {NoBuild}, stale : BOOLEAN],
         SetCurrent(o, next), next.do = "unramp" => next.build = cmd[o].build,
         script' \in [at : Stages, ok : BOOLEAN]
  PROVE  TypeOK' /\ KnownOnly' /\ Halfway'
<1> USE DEF RoutingInv, Accepts
<1>1. /\ cmd[o].build \in known /\ current' = cmd[o].build
      /\ ramp' = IF ramp = cmd[o].build THEN NoBuild ELSE ramp
      /\ cmd' = After(o, next) /\ UNCHANGED <<known, alive, on, session>>
  BY DEF SetCurrent
<1>2. /\ cmd' \in [Clients -> [do : Commands, build : Builds \cup {NoBuild},
                               stale : BOOLEAN]]
      /\ cmd'[o] = next
      /\ \A p \in Clients \ {o} : cmd'[p].do # "none" => cmd'[p].stale
  BY <1>1, AfterEffect
<1>3. current' \in Builds /\ current' \in known /\ ramp' # current'
  BY <1>1, Apart DEF TypeOK
<1>4. TypeOK'
  BY <1>1, <1>2, <1>3 DEF TypeOK
<1>5. KnownOnly'
  BY <1>1 DEF KnownOnly
<1>6. Halfway'
  BY <1>1, <1>2, Apart DEF Halfway
<1> QED
  BY <1>4, <1>5, <1>6

(* A change of the ramp. *)
LEMMA SetRampKeeps ==
  ASSUME RoutingInv, NEW o \in Operators, ramp' \in known \cup {NoBuild},
         ramp' # current, cmd' = After(o, Idle),
         UNCHANGED <<current, known, alive, on, session, script>>
  PROVE  TypeOK' /\ KnownOnly' /\ Halfway'
<1> USE DEF RoutingInv
<1>1. /\ cmd' \in [Clients -> [do : Commands, build : Builds \cup {NoBuild},
                               stale : BOOLEAN]]
      /\ cmd'[o] = Idle
      /\ \A p \in Clients \ {o} : cmd'[p].do # "none" => cmd'[p].stale
  BY AfterEffect, IdleType, Apart
<1>2. TypeOK'
  BY <1>1 DEF TypeOK
<1>3. KnownOnly'
  BY DEF KnownOnly
<1>4. Halfway'
  BY <1>1, Apart, IdleType DEF Halfway
<1> QED
  BY <1>2, <1>3, <1>4

(* A command that is given, or refused: only its own record changes.         *)
LEMMA OwnRecordKeeps ==
  ASSUME RoutingInv, NEW o \in Clients,
         NEW next \in [do : Commands, build : Builds \cup {NoBuild}, stale : BOOLEAN],
         cmd' = [cmd EXCEPT ![o] = next], next.do # "unramp",
         UNCHANGED <<routing, alive, on, session>>,
         script' \in [at : Stages, ok : BOOLEAN]
  PROVE  TypeOK' /\ KnownOnly' /\ Halfway'
<1> USE DEF RoutingInv, routing
<1>1. /\ cmd' \in [Clients -> [do : Commands, build : Builds \cup {NoBuild},
                               stale : BOOLEAN]]
      /\ cmd'[o] = next /\ \A p \in Clients \ {o} : cmd'[p] = cmd[p]
  BY DEF TypeOK
<1>2. TypeOK'
  BY <1>1 DEF TypeOK
<1>3. KnownOnly'
  BY DEF KnownOnly
<1>4. Halfway'
  BY <1>1, Apart DEF Halfway
<1> QED
  BY <1>2, <1>3, <1>4

(* What operators do leaves the script, its command and sessions alone.      *)
LEMMA CommandKeeps ==
  ASSUME RoutingInv, NEW o \in Operators, Command(o)
  PROVE  RoutingInv'
<1> USE DEF routing
<1> DEFINE Kept == /\ TypeOK' /\ KnownOnly' /\ Halfway'
                   /\ cmd'[Verify].do = cmd[Verify].do
                   /\ UNCHANGED <<alive, on, session, script>>
<1> SUFFICES Kept
  BY DEF RoutingInv, OneCommand, Seen, OwnSessionsServed
<1>0. /\ o \in Clients /\ o # Verify /\ cmd[o].build \in Builds \cup {NoBuild} /\ TypeOK
      /\ cmd[o] \in [do : Commands, build : Builds \cup {NoBuild}, stale : BOOLEAN]
  BY Apart, CmdFields DEF RoutingInv
<1>1. ASSUME NEW do \in {"ramp", "promote", "clear"}, NEW b \in Builds \cup {NoBuild},
             Ask(o, do, b), UNCHANGED script
      PROVE  Kept
  <2> DEFINE next == [Idle EXCEPT !.do = do, !.build = b]
  <2>1. /\ next \in [do : Commands, build : Builds \cup {NoBuild}, stale : BOOLEAN]
        /\ next.do # "unramp"
    BY DEF Idle, Commands
  <2>2. cmd' = [cmd EXCEPT ![o] = next] /\ UNCHANGED <<routing, alive, on, session>>
    BY <1>1 DEF Ask
  <2> HIDE DEF next
  <2>3. script' \in [at : Stages, ok : BOOLEAN]
    BY <1>0, <1>1 DEF TypeOK
  <2>4. TypeOK' /\ KnownOnly' /\ Halfway'
    BY <1>0, <2>1, <2>2, <2>3, OwnRecordKeeps
  <2>5. cmd'[Verify] = cmd[Verify]
    BY <1>0, <2>2, Apart DEF TypeOK
  <2> QED
    BY <1>1, <2>2, <2>4, <2>5
<1>2. ASSUME NEW next \in [do : Commands, build : Builds \cup {NoBuild}, stale : BOOLEAN],
             cmd' = After(o, next)
      PROVE  cmd'[Verify].do = cmd[Verify].do
  BY <1>0, <1>2, AfterEffect, Apart
<1>3. CASE WriteRamp(o) \/ WriteClear(o)
  <2>1. /\ ramp' \in known \cup {NoBuild} /\ ramp' # current
        /\ cmd' = After(o, Idle)
        /\ UNCHANGED <<current, known, alive, on, session, script>>
    <3>1. NoBuild # current
      BY <1>0, Apart DEF TypeOK
    <3> QED
      BY <1>3, <3>1 DEF WriteRamp, WriteClear, Accepts
  <2> QED
    BY <1>2, <2>1, SetRampKeeps, IdleType
<1>4. CASE Promote(o)
  <2> DEFINE next == [cmd[o] EXCEPT !.do = "unramp"]
  <2>1. /\ next \in [do : Commands, build : Builds \cup {NoBuild}, stale : BOOLEAN]
        /\ next.build = cmd[o].build
    BY <1>0 DEF Commands
  <2>2. SetCurrent(o, next) /\ UNCHANGED script
    BY <1>4 DEF Promote
  <2> HIDE DEF next
  <2>3. cmd' = After(o, next) /\ UNCHANGED <<alive, on, session>>
    BY <2>2 DEF SetCurrent
  <2>4. script' \in [at : Stages, ok : BOOLEAN]
    BY <1>0, <2>2 DEF TypeOK
  <2> QED
    BY <1>0, <1>2, <2>1, <2>2, <2>3, <2>4, SetCurrentKeeps
<1>5. CASE Refused(o) /\ UNCHANGED script
  <2>1. cmd' = [cmd EXCEPT ![o] = Idle] /\ UNCHANGED <<routing, alive, on, session>>
    BY <1>5 DEF Refused
  <2>2. script' \in [at : Stages, ok : BOOLEAN]
    BY <1>0, <1>5 DEF TypeOK
  <2>3. cmd'[Verify] = cmd[Verify]
    BY <1>0, <2>1, Apart DEF TypeOK
  <2> QED
    BY <1>0, <1>5, <2>1, <2>2, <2>3, OwnRecordKeeps, IdleType
<1>6. CASE /\ \/ \E b \in Builds \ {Temp} : Ask(o, "ramp", b) \/ Ask(o, "promote", b)
              \/ Ask(o, "clear", NoBuild)
           /\ UNCHANGED script
  BY <1>1, <1>6
<1> QED
  BY <1>3, <1>4, <1>5, <1>6 DEF Command

-----------------------------------------------------------------------------
(* A step of a session, of the script's or of others'.                       *)
LEMMA SessionKeeps ==
  ASSUME RoutingInv, NEW x \in All, SessionStep(x)
  PROVE  RoutingInv'
<1> USE DEF routing, RoutingInv
<1>1. CASE FirstTask(x)
  <2>1. Target(x) \in alive /\ Target(x) \in known /\ Target(x) \in Builds
    BY <1>1 DEF FirstTask, Target, TypeOK, KnownOnly
  <2>2. /\ session[x] = "new" /\ UNCHANGED <<current, ramp, known, alive, cmd, script>>
        /\ \A y \in All : /\ on'[y] = IF y = x THEN Target(x) ELSE on[y]
                         /\ session'[y] = IF y = x THEN "going" ELSE session[y]
        /\ on' = [on EXCEPT ![x] = Target(x)]
        /\ session' = [session EXCEPT ![x] = "going"]
    BY <1>1 DEF FirstTask, TypeOK
  <2>3. TypeOK'
    BY <2>1, <2>2 DEF TypeOK
  <2>4. KnownOnly' /\ OneCommand' /\ Halfway'
    BY <2>2 DEF KnownOnly, OneCommand, Halfway
  <2>5. Seen'
    <3>1. script.ok => /\ script.at \in FirstPinned \cup BothEnded => x # First
                       /\ script.at \in BothEnded => x # Second
      BY <2>2 DEF Seen, FirstPinned, BothEnded
    <3> QED
      BY <2>2, <3>1, Apart DEF Seen, FirstPinned, BothEnded
  <2>6. OwnSessionsServed'
    BY <2>1, <2>2, Apart DEF OwnSessionsServed
  <2> QED
    BY <2>3, <2>4, <2>5, <2>6
<1>2. CASE Goes(x) \/ (x \in Sessions /\ Approve(x) /\ UNCHANGED script)
  <2>1. PICK state \in {"paused", "closed"} :
          /\ session' = [session EXCEPT ![x] = state]
          /\ UNCHANGED <<current, ramp, known, alive, on, cmd, script>>
          /\ session[x] = "going" \/ (session[x] = "paused" /\ x \in Sessions)
    BY <1>2 DEF Goes, Approve
  <2>2. \A y \in All : session'[y] = IF y = x THEN state ELSE session[y]
    BY <2>1 DEF TypeOK
  <2>3. TypeOK'
    BY <2>1, <2>2 DEF TypeOK
  <2>4. KnownOnly' /\ OneCommand' /\ Halfway'
    BY <2>1, <2>2 DEF KnownOnly, OneCommand, Halfway
  <2>5. Seen'
    BY <2>1, <2>2, Apart DEF Seen, FirstPinned, BothEnded
  <2>6. OwnSessionsServed'
    BY <2>1, <2>2, Apart DEF OwnSessionsServed
  <2> QED
    BY <2>3, <2>4, <2>5, <2>6
<1> QED
  BY <1>1, <1>2 DEF SessionStep

(* Starting a session. *)
LEMMA StartEffect ==
  ASSUME RoutingInv, NEW x \in All, StartSession(x)
  PROVE  /\ session[x] = "none"
         /\ session' \in [All -> {"none", "new", "going", "paused", "closed"}]
         /\ \A y \in All : session'[y] = IF y = x THEN "new" ELSE session[y]
         /\ UNCHANGED <<current, ramp, known, alive, on, cmd>>
BY DEF StartSession, RoutingInv, TypeOK, routing

(* Other people's sessions start.                                            *)
LEMMA StartKeeps ==
  ASSUME RoutingInv, NEW x \in Sessions, StartSession(x), UNCHANGED script
  PROVE  RoutingInv'
<1>1. x \in All /\ x # First /\ x # Second
  BY Apart
<1>2. /\ session' \in [All -> {"none", "new", "going", "paused", "closed"}]
      /\ session[x] = "none"
      /\ \A y \in All : session'[y] = IF y = x THEN "new" ELSE session[y]
      /\ UNCHANGED <<current, ramp, known, alive, on, cmd>>
  BY <1>1, StartEffect
<1> USE DEF RoutingInv
<1>3. TypeOK' /\ KnownOnly' /\ OneCommand' /\ Halfway'
  BY <1>2 DEF TypeOK, KnownOnly, OneCommand, Halfway
<1>4. Seen'
  BY <1>1, <1>2, Apart DEF Seen
<1>5. OwnSessionsServed'
  BY <1>1, <1>2, Apart DEF OwnSessionsServed
<1> QED
  BY <1>3, <1>4, <1>5

-----------------------------------------------------------------------------
(* The script's steps that start no request of its own and no session.       *)
LEMMA ScriptRequests ==
  ASSUME RoutingInv,
         \/ Registered \/ FirstPaused \/ StopTemp \/ NotRestored
         \/ VerifyFails \/ VerifyFault
  PROVE  RoutingInv'
<1> USE DEF routing, RoutingInv
<1>0. /\ Verify \in Clients /\ TypeOK /\ \A o \in Operators : o \in Clients /\ o # Verify
      /\ Temp \in Builds /\ Home \in Builds
  BY Apart
<1>a. ASSUME NEW next \in [do : {"none", "current"}, build : Builds \cup {NoBuild},
                           stale : BOOLEAN],
             NEW at \in Stages, NEW ok \in BOOLEAN,
             cmd' = [cmd EXCEPT ![Verify] = next], script' = [at |-> at, ok |-> ok],
             next.do = "current" => at \in {"setTemp", "setHome", "restore"},
             UNCHANGED <<current, ramp, on, session>>
      PROVE  /\ cmd' \in [Clients -> [do : Commands, build : Builds \cup {NoBuild},
                                      stale : BOOLEAN]]
             /\ script' \in [at : Stages, ok : BOOLEAN]
             /\ script'.at = at /\ script'.ok = ok
             /\ OneCommand' /\ Halfway'
  <2>1. next \in [do : Commands, build : Builds \cup {NoBuild}, stale : BOOLEAN]
        /\ next.do \in {"none", "current"}
    BY DEF Commands
  <2>2. cmd' \in [Clients -> [do : Commands, build : Builds \cup {NoBuild},
                              stale : BOOLEAN]]
        /\ cmd'[Verify] = next /\ \A o \in Operators : cmd'[o] = cmd[o]
    BY <1>0, <1>a, <2>1 DEF TypeOK
  <2>3. script' \in [at : Stages, ok : BOOLEAN] /\ script'.at = at /\ script'.ok = ok
    BY <1>a
  <2>4. OneCommand'
    BY <1>a, <2>1, <2>2, <2>3 DEF OneCommand
  <2>5. Halfway'
    BY <1>a, <2>2 DEF Halfway
  <2> QED
    BY <2>2, <2>3, <2>4, <2>5
<1>b. /\ script \in [at : Stages, ok : BOOLEAN] /\ script.ok \in BOOLEAN
      /\ \A at : [script EXCEPT !.at = at] = [at |-> at, ok |-> script.ok]
  BY <1>0 DEF TypeOK
<1>c. \A b \in Builds :
        /\ [Idle EXCEPT !.do = "current", !.build = b]
             \in [do : {"none", "current"}, build : Builds \cup {NoBuild}, stale : BOOLEAN]
        /\ [Idle EXCEPT !.do = "current", !.build = b].do = "current"
  BY DEF Idle
<1>d. Idle \in [do : {"none", "current"}, build : Builds \cup {NoBuild}, stale : BOOLEAN]
      /\ Idle.do = "none"
  BY DEF Idle
<1>1. CASE Registered
  <2> DEFINE next == [Idle EXCEPT !.do = "current", !.build = Temp]
  <2>1. /\ script.at = "spawn" /\ script' = [at |-> "setTemp", ok |-> script.ok]
        /\ known' = known \cup {Temp} /\ cmd' = [cmd EXCEPT ![Verify] = next]
        /\ UNCHANGED <<current, ramp, alive, on, session>>
    BY <1>1, <1>b DEF Registered, At, Then
  <2>2. next \in [do : {"none", "current"}, build : Builds \cup {NoBuild}, stale : BOOLEAN]
    BY <1>0, <1>c
  <2> HIDE DEF next
  <2>3. /\ cmd' \in [Clients -> [do : Commands, build : Builds \cup {NoBuild},
                                 stale : BOOLEAN]]
        /\ script' \in [at : Stages, ok : BOOLEAN]
        /\ script'.at = "setTemp" /\ script'.ok = script.ok
        /\ OneCommand' /\ Halfway'
    BY <1>a, <1>b, <2>1, <2>2 DEF Stages
  <2>4. TypeOK' /\ KnownOnly'
    BY <1>0, <2>1, <2>3 DEF TypeOK, KnownOnly
  <2>5. Seen' /\ OwnSessionsServed'
    BY <2>1, <2>3 DEF Seen, FirstPinned, BothEnded, OwnSessionsServed
  <2> QED
    BY <2>3, <2>4, <2>5
<1>2. CASE FirstPaused
  <2> DEFINE next == [Idle EXCEPT !.do = "current", !.build = Home]
  <2>1. /\ session[First] = "paused" /\ on[First] = Temp
        /\ script' = [at |-> "setHome", ok |-> script.ok]
        /\ cmd' = [cmd EXCEPT ![Verify] = next]
        /\ UNCHANGED <<current, ramp, known, alive, on, session>>
    BY <1>2, <1>b DEF FirstPaused, At, Then, Ask
  <2>2. next \in [do : {"none", "current"}, build : Builds \cup {NoBuild}, stale : BOOLEAN]
    BY <1>0, <1>c
  <2> HIDE DEF next
  <2>3. /\ cmd' \in [Clients -> [do : Commands, build : Builds \cup {NoBuild},
                                 stale : BOOLEAN]]
        /\ script' \in [at : Stages, ok : BOOLEAN]
        /\ script'.at = "setHome" /\ script'.ok = script.ok
        /\ OneCommand' /\ Halfway'
    BY <1>a, <1>b, <2>1, <2>2 DEF Stages
  <2>4. TypeOK' /\ KnownOnly'
    BY <1>0, <2>1, <2>3 DEF TypeOK, KnownOnly
  <2>5. Seen' /\ OwnSessionsServed'
    BY <2>1, <2>3 DEF Seen, FirstPinned, BothEnded, OwnSessionsServed
  <2> QED
    BY <2>3, <2>4, <2>5
<1>3. CASE StopTemp
  <2> DEFINE next == [Idle EXCEPT !.do = "current", !.build = Home]
  <2>1. /\ script.at = "stop" /\ script' = [at |-> "restore", ok |-> script.ok]
        /\ alive' = alive \ {Temp} /\ cmd' = [cmd EXCEPT ![Verify] = next]
        /\ UNCHANGED <<current, ramp, known, on, session>>
    BY <1>3, <1>b DEF StopTemp, At, Then
  <2>2. next \in [do : {"none", "current"}, build : Builds \cup {NoBuild}, stale : BOOLEAN]
    BY <1>0, <1>c
  <2> HIDE DEF next
  <2>3. /\ cmd' \in [Clients -> [do : Commands, build : Builds \cup {NoBuild},
                                 stale : BOOLEAN]]
        /\ script' \in [at : Stages, ok : BOOLEAN]
        /\ script'.at = "restore" /\ script'.ok = script.ok
        /\ OneCommand' /\ Halfway'
    BY <1>a, <1>b, <2>1, <2>2 DEF Stages
  <2>4. TypeOK' /\ KnownOnly'
    BY <1>0, <2>1, <2>3 DEF TypeOK, KnownOnly
  <2>5. Seen' /\ OwnSessionsServed'
    BY <2>1, <2>3 DEF Seen, FirstPinned, BothEnded, OwnSessionsServed
  <2> QED
    BY <2>3, <2>4, <2>5
<1>4. CASE NotRestored \/ VerifyFails \/ VerifyFault
  <2>1. PICK at \in {"delete", "stop"} :
          /\ at = "delete" => script.at = "restore"
          /\ script' = [at |-> at, ok |-> IF at = "stop" THEN FALSE ELSE script.ok]
          /\ cmd' = [cmd EXCEPT ![Verify] = Idle]
          /\ UNCHANGED <<current, ramp, known, alive, on, session>>
    <3>1. CASE NotRestored
      BY <1>b, <3>1 DEF NotRestored, At, Then, Refused
    <3>2. CASE VerifyFails \/ VerifyFault
      BY <3>2 DEF VerifyFails, VerifyFault, Fails
    <3> QED
      BY <1>4, <3>1, <3>2
  <2> DEFINE ok == IF at = "stop" THEN FALSE ELSE script.ok
  <2>2. ok \in BOOLEAN /\ (ok => script.ok /\ at = "delete" /\ script.at = "restore")
    BY <1>b, <2>1
  <2>3. script' = [at |-> at, ok |-> ok]
    BY <2>1
  <2> HIDE DEF ok
  <2>4. /\ cmd' \in [Clients -> [do : Commands, build : Builds \cup {NoBuild},
                                 stale : BOOLEAN]]
        /\ script' \in [at : Stages, ok : BOOLEAN]
        /\ script'.at = at /\ script'.ok = ok
        /\ OneCommand' /\ Halfway'
    BY <1>a, <1>d, <2>1, <2>2, <2>3 DEF Stages
  <2>5. TypeOK' /\ KnownOnly'
    BY <1>0, <2>1, <2>4 DEF TypeOK, KnownOnly
  <2>6. Seen' /\ OwnSessionsServed'
    BY <2>1, <2>2, <2>4 DEF Seen, FirstPinned, BothEnded, OwnSessionsServed
  <2> QED
    BY <2>4, <2>5, <2>6
<1> QED
  BY <1>1, <1>2, <1>3, <1>4

(* The script's other steps: it spawns, sets a version, starts and approves  *)
(* its sessions, and deletes the version.                                    *)
LEMMA ScriptActs ==
  ASSUME RoutingInv,
         \/ Spawn \/ VerifySets \/ StartFirst \/ StartSecond
         \/ SecondDone \/ LastDone \/ DeleteTemp
  PROVE  RoutingInv'
<1> USE DEF routing, RoutingInv
<1>0. Verify \in Clients /\ TypeOK /\ First \in All /\ Second \in All /\ First # Second
  BY Apart
<1>b. script \in [at : Stages, ok : BOOLEAN]
  BY <1>0 DEF TypeOK
<1>1. CASE Spawn
  <2>1. /\ script' \in [at : Stages, ok : BOOLEAN] /\ script'.at = "spawn"
        /\ script.at = "off" /\ alive' = alive \cup {Temp}
        /\ UNCHANGED <<current, ramp, known, on, session, cmd>>
    BY <1>0, <1>1, ThenEffect DEF Spawn, At, Stages
  <2>2. script'.ok = script.ok
    BY <1>0, <1>1, ThenEffect DEF Spawn, Stages
  <2>3. TypeOK' /\ KnownOnly' /\ OneCommand' /\ Halfway'
    BY <2>1, Apart DEF TypeOK, KnownOnly, OneCommand, Halfway
  <2>4. Seen' /\ OwnSessionsServed'
    BY <2>1, <2>2 DEF Seen, FirstPinned, BothEnded, OwnSessionsServed
  <2> QED
    BY <2>3, <2>4
<1>2. CASE VerifySets
  <2>1. /\ cmd[Verify].do = "current" /\ SetCurrent(Verify, Idle)
        /\ cmd' = After(Verify, Idle) /\ UNCHANGED <<known, alive, on, session>>
    BY <1>2 DEF VerifySets, SetCurrent
  <2>2. script.at \in {"setTemp", "setHome", "restore"}
    BY <2>1 DEF OneCommand
  <2>3. PICK at \in {"start", "second", "delete"} :
          /\ Then(at)
          /\ at = "start" <=> script.at = "setTemp"
          /\ at = "second" <=> script.at = "setHome"
          /\ at = "delete" <=> script.at = "restore"
    BY <1>2, <2>2 DEF VerifySets, At
  <2>4. /\ script' \in [at : Stages, ok : BOOLEAN]
        /\ script'.at = at /\ script'.ok = script.ok
    BY <1>0, <2>3, ThenEffect DEF Stages
  <2>5. TypeOK' /\ KnownOnly' /\ Halfway'
    BY <1>0, <2>1, <2>4, SetCurrentKeeps, IdleType
  <2>6. cmd'[Verify] = Idle
    BY <1>0, <2>1, AfterEffect, IdleType
  <2>7. OneCommand'
    BY <2>6, IdleType DEF OneCommand
  <2>8. Seen' /\ OwnSessionsServed'
    BY <2>1, <2>3, <2>4 DEF Seen, FirstPinned, BothEnded, OwnSessionsServed
  <2> QED
    BY <2>5, <2>7, <2>8
<1>3. ASSUME NEW x \in {First, Second}, StartSession(x), NEW at \in {"paused", "resume"},
             Then(at), script.at = "start" \/ (script.at = "second" /\ x = Second /\ at = "resume"),
             at = "paused" <=> script.at = "start"
      PROVE  RoutingInv'
  <2>1. /\ script' \in [at : Stages, ok : BOOLEAN]
        /\ script'.at = at /\ script'.ok = script.ok
    BY <1>0, <1>3, ThenEffect DEF Stages
  <2>2. /\ x \in All /\ session[x] = "none"
        /\ session' \in [All -> {"none", "new", "going", "paused", "closed"}]
        /\ \A y \in All : session'[y] = IF y = x THEN "new" ELSE session[y]
        /\ UNCHANGED <<current, ramp, known, alive, on, cmd>>
    BY <1>0, <1>3, StartEffect
  <2>3. TypeOK' /\ KnownOnly' /\ Halfway'
    BY <2>1, <2>2 DEF TypeOK, KnownOnly, Halfway
  <2>4. OneCommand'
    BY <1>3, <2>1, <2>2 DEF OneCommand
  <2>5. Seen' /\ OwnSessionsServed'
    BY <1>0, <1>3, <2>1, <2>2 DEF Seen, FirstPinned, BothEnded, OwnSessionsServed
  <2> QED
    BY <2>3, <2>4, <2>5
<1>4. CASE StartFirst \/ StartSecond
  BY <1>3, <1>4 DEF StartFirst, StartSecond, At
<1>5. CASE SecondDone
  <2>1. /\ script' \in [at : Stages, ok : BOOLEAN]
        /\ script'.at = "last" /\ script'.ok = script.ok
    BY <1>0, <1>5, ThenEffect DEF SecondDone, Stages
  <2>2. /\ script.at = "resume" /\ session[Second] = "closed" /\ on[Second] = Home
        /\ session[First] = "paused" /\ session' = [session EXCEPT ![First] = "closed"]
        /\ UNCHANGED <<current, ramp, known, alive, on, cmd>>
    BY <1>5 DEF SecondDone, At, Approve
  <2>3. /\ session' \in [All -> {"none", "new", "going", "paused", "closed"}]
        /\ \A y \in All : session'[y] = IF y = First THEN "closed" ELSE session[y]
    BY <1>0, <2>2 DEF TypeOK
  <2>4. TypeOK' /\ KnownOnly' /\ Halfway'
    BY <2>1, <2>2, <2>3 DEF TypeOK, KnownOnly, Halfway
  <2>5. OneCommand'
    BY <2>1, <2>2 DEF OneCommand
  <2>6. Seen' /\ OwnSessionsServed'
    BY <1>0, <2>1, <2>2, <2>3 DEF Seen, FirstPinned, BothEnded, OwnSessionsServed
  <2> QED
    BY <2>4, <2>5, <2>6
<1>6. CASE LastDone
  <2>1. /\ script' \in [at : Stages, ok : BOOLEAN] /\ script.at = "last"
        /\ script'.at = "stop" /\ script'.ok = script.ok
        /\ UNCHANGED <<current, ramp, known, alive, on, session, cmd>>
    BY <1>0, <1>6, ThenEffect DEF LastDone, At, Stages
  <2>2. TypeOK' /\ KnownOnly' /\ Halfway' /\ OneCommand'
    BY <2>1 DEF TypeOK, KnownOnly, Halfway, OneCommand
  <2>3. Seen' /\ OwnSessionsServed'
    BY <2>1 DEF Seen, FirstPinned, BothEnded, OwnSessionsServed
  <2> QED
    BY <2>2, <2>3
<1>7. CASE DeleteTemp
  <2>1. PICK at \in {"passed", "failed"} : Then(at) /\ (at = "passed" => script.ok)
    BY <1>7 DEF DeleteTemp
  <2>2. /\ script' \in [at : Stages, ok : BOOLEAN] /\ script.at = "delete"
        /\ script'.at = at /\ script'.ok = script.ok
        /\ UNCHANGED <<current, ramp, alive, on, session, cmd>>
    BY <1>0, <1>7, <2>1, ThenEffect DEF DeleteTemp, At, Stages
  <2>3. \/ known' = known
        \/ /\ known' = known \ {Temp} /\ Temp # current /\ Temp # ramp
           /\ \A x \in All : on[x] = Temp => session[x] = "closed"
    BY <1>7 DEF DeleteTemp
  <2>4. TypeOK' /\ KnownOnly'
    BY <1>0, <2>2, <2>3 DEF TypeOK, KnownOnly
  <2>5. Halfway' /\ OneCommand'
    BY <2>2 DEF Halfway, OneCommand
  <2>6. Seen' /\ OwnSessionsServed'
    BY <2>1, <2>2 DEF Seen, FirstPinned, BothEnded, OwnSessionsServed
  <2> QED
    BY <2>4, <2>5, <2>6
<1> QED
  BY <1>1, <1>2, <1>4, <1>5, <1>6, <1>7

-----------------------------------------------------------------------------
(* The first state. *)
LEMMA InitInv == Init => RoutingInv
<1> SUFFICES ASSUME Init PROVE RoutingInv
  OBVIOUS
<1>1. \A o \in Clients : cmd[o] = Idle
  BY DEF Init
<1>2. TypeOK
  BY <1>1, Apart, IdleType DEF Init, TypeOK, Stages
<1>3. KnownOnly /\ OneCommand /\ Halfway
  BY <1>1, Apart, IdleType DEF Init, KnownOnly, OneCommand, Halfway
<1>4. Seen /\ OwnSessionsServed
  BY Apart DEF Init, Seen, FirstPinned, BothEnded, OwnSessionsServed
<1> QED
  BY <1>2, <1>3, <1>4 DEF RoutingInv

(* Every step. *)
LEMMA NextKeepsInv == RoutingInv /\ [Next]_vars => RoutingInv'
<1> SUFFICES ASSUME RoutingInv, [Next]_vars PROVE RoutingInv'
  OBVIOUS
<1>1. CASE \E o \in Operators : Command(o)
  BY <1>1, CommandKeeps
<1>2. CASE Spawn \/ VerifyStep \/ VerifyFault
  BY <1>2, ScriptRequests, ScriptActs DEF VerifyStep
<1>3. CASE \E x \in Sessions : StartSession(x) /\ UNCHANGED script
  BY <1>3, StartKeeps
<1>4. CASE \E x \in All : SessionStep(x)
  BY <1>4, SessionKeeps
<1>5. CASE UNCHANGED vars
  BY <1>5 DEF vars, routing, RoutingInv, TypeOK, KnownOnly, OneCommand, Seen,
              OwnSessionsServed, Halfway
<1> QED
  BY <1>1, <1>2, <1>3, <1>4, <1>5 DEF Next

(* Every reachable state is in order. *)
LEMMA InvHolds == Spec => []RoutingInv
BY InitInv, NextKeepsInv, PTL DEF Spec

-----------------------------------------------------------------------------
(* Routing, sessions, commands and the script are well typed; the current    *)
(* version, the ramp and the version of every open session are known to the  *)
(* deployment.                                                               *)
THEOREM RoutingTypes == Spec => []TypeOK
<1>1. RoutingInv => TypeOK
  BY DEF RoutingInv
<1> QED
  BY <1>1, InvHolds, PTL

(* The worker that verify_pinning's own sessions are pinned to is alive      *)
(* while they are open (scripts/verify_pinning.py:144), whoever changes the  *)
(* routing meanwhile.                                                        *)
THEOREM ScriptServesItsSessions == Spec => []OwnSessionsServed
<1>1. RoutingInv => OwnSessionsServed
  BY DEF RoutingInv
<1> QED
  BY <1>1, InvHolds, PTL

(* verify_pinning's "all checks passed" is true of its two sessions          *)
(* (scripts/verify_pinning.py:141).                                          *)
THEOREM PassedMeansPinned == Spec => []PassIsProof
<1>1. RoutingInv => PassIsProof
  BY DEF RoutingInv, Seen, BothEnded, PassIsProof, At
<1> QED
  BY <1>1, InvHolds, PTL

(* A promotion that succeeds leaves its build current and no ramp            *)
(* (app/demo.py:108), unless somebody else changed the routing in between.   *)
THEOREM PromotionTakesBoth == Spec => AckedPromotion
<1>1. ASSUME RoutingInv, [Next]_vars, NEW o \in Operators,
             cmd[o].do \in {"promote", "unramp"}, cmd'[o] = Idle, ~cmd[o].stale,
             ~Refused(o)
      PROVE  current' = cmd[o].build /\ ramp' = NoBuild
  <2>0. TypeOK /\ o \in Clients /\ o # Verify /\ Verify \in Clients
    BY <1>1, Apart DEF RoutingInv
  <2>1. cmd'[o].do = "none" /\ cmd[o].do # "none"
    BY <1>1, IdleType
  <2>2. ASSUME NEW p \in Clients \ {o},
               NEW next \in [do : Commands, build : Builds \cup {NoBuild}, stale : BOOLEAN],
               cmd' = After(p, next) \/ cmd' = [cmd EXCEPT ![p] = next]
        PROVE  FALSE
    <3>1. CASE cmd' = After(p, next)
      BY <2>0, <2>1, <2>2, <3>1, AfterEffect
    <3>2. CASE cmd' = [cmd EXCEPT ![p] = next]
      BY <2>0, <2>1, <2>2, <3>2 DEF TypeOK
    <3> QED
      BY <2>2, <3>1, <3>2
  <2>3. CASE UNCHANGED cmd
    BY <2>1, <2>3
  <2>4. CASE \E p \in Operators : Command(p)
    <3>1. PICK p \in Operators : Command(p)
      BY <2>4
    <3>2. p \in Clients /\ cmd[p].build \in Builds \cup {NoBuild}
          /\ cmd[p] \in [do : Commands, build : Builds \cup {NoBuild}, stale : BOOLEAN]
      BY <2>0, Apart, CmdFields
    <3>3. [cmd[p] EXCEPT !.do = "unramp"]
            \in [do : Commands, build : Builds \cup {NoBuild}, stale : BOOLEAN]
          /\ [cmd[p] EXCEPT !.do = "unramp"].do = "unramp"
      BY <3>2 DEF Commands
    <3>4. \A do \in Commands, b \in Builds \cup {NoBuild} :
            [Idle EXCEPT !.do = do, !.build = b]
              \in [do : Commands, build : Builds \cup {NoBuild}, stale : BOOLEAN]
      BY DEF Idle
    <3>5. CASE p # o
      <4>1. \E next \in [do : Commands, build : Builds \cup {NoBuild}, stale : BOOLEAN] :
              cmd' = After(p, next) \/ cmd' = [cmd EXCEPT ![p] = next]
        <5>1. CASE WriteRamp(p) \/ Promote(p) \/ WriteClear(p) \/ Refused(p)
          BY <3>3, <5>1, IdleType
             DEF WriteRamp, Promote, SetCurrent, WriteClear, Refused
        <5>2. ASSUME NEW do \in Commands, NEW b \in Builds \cup {NoBuild}, Ask(p, do, b)
              PROVE  \E next \in [do : Commands, build : Builds \cup {NoBuild},
                                 stale : BOOLEAN] : cmd' = [cmd EXCEPT ![p] = next]
          <6> DEFINE next == [Idle EXCEPT !.do = do, !.build = b]
          <6>1. /\ cmd' = [cmd EXCEPT ![p] = next]
                /\ next \in [do : Commands, build : Builds \cup {NoBuild}, stale : BOOLEAN]
            BY <3>4, <5>2 DEF Ask
          <6> HIDE DEF next
          <6> QED
            BY <6>1
        <5>3. CASE \/ \E b \in Builds \ {Temp} : Ask(p, "ramp", b) \/ Ask(p, "promote", b)
                   \/ Ask(p, "clear", NoBuild)
          BY <5>2, <5>3 DEF Commands
        <5> QED
          BY <3>1, <5>1, <5>3 DEF Command
      <4> QED
        BY <2>2, <3>2, <3>5, <4>1
    <3>6. CASE p = o
      <4>1. CASE Promote(p)
        <5>1. cmd'[p] = [cmd[p] EXCEPT !.do = "unramp"]
          BY <2>0, <3>2, <3>3, <4>1, AfterEffect DEF Promote, SetCurrent
        <5> QED
          BY <2>1, <3>3, <3>6, <5>1, IdleType, <1>1
      <4>2. CASE WriteClear(p)
        BY <1>1, <3>6, <4>2 DEF WriteClear, RoutingInv, Halfway
      <4> QED
        BY <1>1, <2>1, <3>1, <3>6, <4>1, <4>2 DEF Command, Ask, WriteRamp
    <3> QED
      BY <3>5, <3>6
  <2>5. CASE VerifyStep \/ VerifyFault
    <3>1. \/ UNCHANGED cmd \/ cmd' = After(Verify, Idle)
          \/ \E b \in Builds \cup {NoBuild}, do \in Commands :
               cmd' = [cmd EXCEPT ![Verify] = [Idle EXCEPT !.do = do, !.build = b]]
          \/ cmd' = [cmd EXCEPT ![Verify] = Idle]
      BY <2>5, Apart
         DEF VerifyStep, VerifyFault, Registered, VerifySets, SetCurrent, StartFirst,
             StartSession, FirstPaused, Ask, StartSecond, SecondDone, Approve, LastDone,
             StopTemp, NotRestored, Refused, DeleteTemp, VerifyFails, Fails, Commands
    <3>2. \A do \in Commands, b \in Builds \cup {NoBuild} :
            [Idle EXCEPT !.do = do, !.build = b]
              \in [do : Commands, build : Builds \cup {NoBuild}, stale : BOOLEAN]
      BY DEF Idle
    <3>3. ASSUME NEW b \in Builds \cup {NoBuild}, NEW do \in Commands,
                 cmd' = [cmd EXCEPT ![Verify] = [Idle EXCEPT !.do = do, !.build = b]]
          PROVE  FALSE
      <4> DEFINE next == [Idle EXCEPT !.do = do, !.build = b]
      <4>1. /\ cmd' = [cmd EXCEPT ![Verify] = next]
            /\ next \in [do : Commands, build : Builds \cup {NoBuild}, stale : BOOLEAN]
        BY <3>2, <3>3
      <4> HIDE DEF next
      <4> QED
        BY <2>0, <2>2, <4>1
    <3>4. CASE cmd' = After(Verify, Idle) \/ cmd' = [cmd EXCEPT ![Verify] = Idle]
      BY <2>0, <2>2, <3>4, IdleType
    <3> QED
      BY <2>3, <3>1, <3>3, <3>4
  <2>6. CASE Spawn \/ (\E x \in Sessions : StartSession(x) /\ UNCHANGED script)
             \/ (\E x \in All : SessionStep(x)) \/ UNCHANGED vars
    BY <2>3, <2>6 DEF Spawn, StartSession, SessionStep, FirstTask, Goes, Approve, vars
  <2> QED
    BY <1>1, <2>4, <2>5, <2>6 DEF Next
<1>2. RoutingInv /\ [Next]_vars =>
        [\A o \in Operators :
           /\ cmd[o].do \in {"promote", "unramp"} /\ cmd'[o] = Idle
           /\ ~cmd[o].stale /\ UNCHANGED known /\ ~Refused(o)
           => current' = cmd[o].build /\ ramp' = NoBuild]_vars
  BY <1>1
<1> QED
  BY <1>2, InvHolds, PTL DEF Spec, AckedPromotion
=============================================================================
