------------------------------ MODULE OnceOnly ------------------------------
(***************************************************************************)
(* What a consequential tool call promises its workflow.  A call is        *)
(* scheduled once; its side effect is applied at most once while the call  *)
(* is open; it is closed with one verdict, and a success is never reported *)
(* for an effect that did not happen.  A failure promises nothing: the     *)
(* effect of a failed call may or may not have been applied.               *)
(***************************************************************************)
EXTENDS Naturals

CONSTANT Calls

VARIABLES
  effects,   \* how many times the call's side effect was applied
  verdict    \* what the workflow has been told

vars == <<effects, verdict>>

Init ==
  /\ effects = [c \in Calls |-> 0]
  /\ verdict = [c \in Calls |-> "open"]

Perform(c) ==
  /\ verdict[c] = "open"
  /\ effects[c] = 0
  /\ effects' = [effects EXCEPT ![c] = 1]
  /\ UNCHANGED verdict

Succeed(c) ==
  /\ verdict[c] = "open"
  /\ effects[c] = 1
  /\ verdict' = [verdict EXCEPT ![c] = "succeeded"]
  /\ UNCHANGED effects

Fail(c) ==
  /\ verdict[c] = "open"
  /\ verdict' = [verdict EXCEPT ![c] = "failed"]
  /\ UNCHANGED effects

Next == \E c \in Calls : Perform(c) \/ Succeed(c) \/ Fail(c)

Spec == Init /\ [][Next]_vars
=============================================================================
