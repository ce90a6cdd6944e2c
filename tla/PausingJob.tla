----------------------------- MODULE PausingJob -----------------------------
(* One agent job as its clients see it: an event log that only grows, the    *)
(* pause that a query shows, the answers that signals bring, and a status.   *)
(* It promises less than AgentJob does, which implements it, and what        *)
(* Clients relies on.                                                        *)
EXTENDS Naturals, Sequences

CONSTANTS
  Pauses,      \* interrupt ids
  Decisions,   \* decision texts of a reviewer
  None

VARIABLES
  log,         \* the job_events topic of the workflow's stream
  pause,       \* what the pending_approval query returns
  answers,     \* answers[u]: the last decision signalled for u
  status       \* status of the workflow execution

jobVars == <<log, pause, answers, status>>

Entry(kind, u) == [kind |-> kind, use |-> u]
Says(entries) == log' = log \o entries

Told(kind) == {u \in Pauses \cup {None} :
                 \E i \in 1..Len(log) : log[i] = Entry(kind, u)}
Finished == Told("finished") # {}

JobInit ==
  /\ log = <<>>
  /\ pause = None
  /\ answers = [u \in Pauses |-> None]
  /\ status = "RUNNING"

(* Between pauses the job may tell what it is doing.                         *)
Working == status = "RUNNING" /\ pause = None /\ ~Finished
Notes(n) == Says([i \in 1..n |-> Entry("note", None)])

Talks(n) ==
  /\ Working
  /\ Notes(n)
  /\ UNCHANGED <<pause, answers, status>>

PausesOn(u) ==
  /\ Working
  /\ u \notin Told("pending")
  /\ pause' = u
  /\ Says(<<Entry("pending", u)>>)
  /\ UNCHANGED <<answers, status>>

GoesOn ==
  /\ status = "RUNNING" /\ pause # None /\ answers[pause] # None
  /\ pause' = None
  /\ Says(<<Entry("resumed", pause)>>)
  /\ UNCHANGED <<answers, status>>

Finishes ==
  /\ Working
  /\ Says(<<Entry("finished", None)>>)
  /\ UNCHANGED <<pause, answers, status>>

(* It completes after it has said so, and fails before, maybe with a last    *)
(* note; never in a pause.                                                   *)
Completes ==
  /\ status = "RUNNING" /\ Finished
  /\ status' = "COMPLETED"
  /\ UNCHANGED <<log, pause, answers>>

Fails(n) ==
  /\ Working
  /\ Notes(n)
  /\ status' = "FAILED"
  /\ UNCHANGED <<pause, answers>>

(* The submit_approval signal, for a pause that was shown.                   *)
Signalled(u, d) ==
  /\ status = "RUNNING"
  /\ u \in Told("pending")
  /\ answers' = [answers EXCEPT ![u] = d]
  /\ UNCHANGED <<log, pause, status>>

JobStep ==
  \/ \E n \in 1..2 : Talks(n)
  \/ \E u \in Pauses : PausesOn(u)
  \/ GoesOn \/ Finishes \/ Completes
  \/ \E n \in 0..1 : Fails(n)

JobNext == JobStep \/ \E u \in Pauses, d \in Decisions : Signalled(u, d)

JobSpec == JobInit /\ [][JobNext]_jobVars
=============================================================================
