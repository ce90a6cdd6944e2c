--------------------------- MODULE ClientsProofs ---------------------------
(* Theorems about Clients, for every job, every number of requests on their  *)
(* way, and any number of broken connections.                                *)
EXTENDS Clients, SequenceTheorems, FiniteSetTheorems, TLAPS

(* What NothingMissed rests on: an open connection has delivered everything  *)
(* before the entry it stands at, because it began at the stream's start.    *)
NoGap ==
  /\ next \in Nat \ {0}
  /\ seen \subseteq Nat \ {0}
  /\ source = "open" => 1 .. (next - 1) \subseteq seen
  /\ NothingMissed

(* A pane that has just attached shows nothing.                              *)
LEMMA InitNoGap == Init => NoGap
BY DEF Init, NoGap, NothingMissed

(* The entry delivered next is the one after those delivered before.         *)
LEMMA DeliverNoGap == ASSUME NoGap, Deliver PROVE NoGap'
<1>1. /\ source = "open" /\ next' = next + 1 /\ seen' = seen \cup {next}
      /\ next \in Nat \ {0} /\ seen \subseteq Nat \ {0}
      /\ 1 .. (next - 1) \subseteq seen
  BY DEF NoGap, Deliver
<1>2. 1 .. next \subseteq seen'
  BY <1>1
<1>3. NothingMissed'
  <2> SUFFICES ASSUME NEW i \in seen' PROVE 1 .. i \subseteq seen'
    BY DEF NothingMissed
  <2>1. CASE i = next
    BY <1>2, <2>1
  <2>2. CASE i \in seen
    BY <1>1, <2>2 DEF NoGap, NothingMissed
  <2> QED
    BY <1>1, <2>1, <2>2
<1>4. next' \in Nat \ {0} /\ seen' \subseteq Nat \ {0} /\ next' - 1 = next
  BY <1>1
<1> QED
  BY <1>2, <1>3, <1>4 DEF NoGap

(* Opening starts from the first entry again; nothing else adds to the pane. *)
LEMMA StepNoGap == ASSUME NoGap, [Next]_vars PROVE NoGap'
<1> USE DEF NoGap, NothingMissed
<1>1. CASE Deliver
  BY <1>1, DeliverNoGap
<1>2. CASE Open
  BY <1>2 DEF Open
<1>3. CASE Mount
  BY <1>3 DEF Mount
<1>4. CASE Breaks \/ HangsUp
  BY <1>4 DEF Breaks, HangsUp, OnError
<1>5. ASSUME NEW s \in Slots, Answers(s) \/ Lose(s) PROVE NoGap'
  BY <1>5 DEF Answers, Describe, Query, Receive, Lose
<1>6. CASE \/ JobRuns \/ PollAgain \/ Helper \/ UNCHANGED vars
           \/ \E d \in Decisions : Click(d) \/ Elsewhere(d)
  BY <1>6 DEF JobRuns, PollAgain, Helper, HelperPolls, HelperSignals, HelperReturns,
     HelperIs, Click, Elsewhere, pane, vars
<1> QED
  BY <1>1, <1>2, <1>3, <1>4, <1>5, <1>6 DEF Next, Browser

(* The transcript of the pane has no gap, however often the connection       *)
(* breaks, whatever the job says and in whatever order state answers arrive  *)
(* (app/api/routes/events.py, SessionTerminal.tsx).                          *)
THEOREM TranscriptHasNoGap == Spec => []NothingMissed
<1>1. NoGap => NothingMissed
  BY DEF NoGap
<1> QED
  BY InitNoGap, StepNoGap, <1>1, PTL DEF Spec

-----------------------------------------------------------------------------
(* The job that the clients look at.                                         *)
Entries == [kind : {"note", "pending", "resumed", "finished"}, use : Pauses \cup {None}]

JobTypes ==
  /\ log \in Seq(Entries)
  /\ pause \in Pauses \cup {None}
  /\ answers \in [Pauses -> Decisions \cup {None}]
  /\ status \in Statuses

(* Nothing follows the entry that ends the stream, and while a pause is on,  *)
(* it was told and the job has neither ended nor said that it will.          *)
EndIsLast == \A i \in 1..Len(log) : log[i].kind = "finished" => i = Len(log)
InPause == pause # None => status = "RUNNING" /\ ~Finished /\ pause \in Told("pending")
JobInv == JobTypes /\ EndIsLast /\ InPause

(* What was told stays told.                                                 *)
Grown == \A i \in 1..Len(log) : i \in 1..Len(log') /\ log'[i] = log[i]
LEMMA ToldStays ==
  ASSUME Grown, NEW k
  PROVE  Told(k) \subseteq Told(k)'
  BY DEF Grown, Told

(* What the log is after the job has spoken.                                 *)
LEMMA SaysEffect ==
  ASSUME log \in Seq(Entries), NEW said \in Seq(Entries), Says(said)
  PROVE  /\ log' \in Seq(Entries) /\ Grown
         /\ Len(log') = Len(log) + Len(said)
         /\ \A i \in 1..Len(said) : log'[Len(log) + i] = said[i]
         /\ \A i \in 1..Len(log') : i \in 1..Len(log) \/ i - Len(log) \in 1..Len(said)
<1>1. log' = log \o said /\ Len(log) \in Nat /\ Len(said) \in Nat
  BY DEF Says
<1> QED
  BY <1>1 DEF Grown

(* An end was told if and only if an entry is the end.                       *)
LEMMA FinishedEntry ==
  ASSUME log \in Seq(Entries)
  PROVE  Finished <=> \E i \in 1..Len(log) : log[i].kind = "finished"
<1>1. ASSUME NEW i \in 1..Len(log), log[i].kind = "finished"
      PROVE  log[i].use \in Told("finished")
  <2>1. log[i] \in Entries
    OBVIOUS
  <2> QED
    BY <1>1, <2>1 DEF Told, Entry, Entries
<1>2. ASSUME NEW u \in Told("finished")
      PROVE  \E i \in 1..Len(log) : log[i].kind = "finished"
  BY DEF Told, Entry
<1> QED
  BY <1>1, <1>2 DEF Finished

(* Saying something other than the end, before the end, keeps the end last.  *)
LEMMA SayingKeepsEnd ==
  ASSUME log \in Seq(Entries), ~Finished, NEW said \in Seq(Entries), Says(said),
         \A i \in 1..Len(said) : said[i].kind = "finished" => i = Len(said)
  PROVE  EndIsLast'
<1>1. \A i \in 1..Len(log) : log[i].kind # "finished"
  BY FinishedEntry
<1>2. Len(log) \in Nat /\ Len(said) \in Nat
  OBVIOUS
<1> SUFFICES ASSUME NEW i \in 1..Len(log'), log'[i].kind = "finished"
             PROVE  i = Len(log')
  BY DEF EndIsLast
<1>3. CASE i \in 1..Len(log)
  BY <1>1, <1>3, SaysEffect DEF Grown
<1>4. CASE i - Len(log) \in 1..Len(said)
  <2>1. log'[Len(log) + (i - Len(log))] = said[i - Len(log)]
    BY <1>4, SaysEffect
  <2>2. log'[i] = said[i - Len(log)]
    BY <1>2, <1>4, <2>1
  <2> QED
    BY <1>2, <1>4, <2>2, SaysEffect
<1> QED
  BY <1>3, <1>4, SaysEffect

(* What a step of the job may do to what its clients have seen of it.        *)
Moves ==
  /\ Grown
  /\ status # "RUNNING" => status' # "RUNNING"
  /\ pause # None => pause' = pause \/ pause \in Told("resumed")'

(* Before it has said anything.                                              *)
LEMMA JobStarts == ASSUME Init PROVE JobInv
  BY DEF Init, JobInit, JobInv, JobTypes, EndIsLast, InPause, Statuses, Finished, Told

(* Notes name no pause and end nothing.                                      *)
LEMMA NotesAreEntries ==
  ASSUME NEW n \in Nat
  PROVE  /\ [i \in 1..n |-> Entry("note", None)] \in Seq(Entries)
         /\ Len([i \in 1..n |-> Entry("note", None)]) = n
  BY DEF Entry, Entries

(* What the job does by itself.                                              *)
LEMMA JobStepMoves ==
  ASSUME JobInv, JobStep
  PROVE  JobInv' /\ Moves
<1> USE DEF JobInv, JobTypes
<1>1. ASSUME NEW n \in 0..2, Working, Notes(n), UNCHANGED <<pause, answers>>,
             status' \in {status, "FAILED"}
      PROVE  JobInv' /\ Moves
  <2> DEFINE said == [i \in 1..n |-> Entry("note", None)]
  <2>1. said \in Seq(Entries) /\ Len(said) = n /\ Says(said)
    BY <1>1, NotesAreEntries DEF Notes
  <2>2. \A i \in 1..Len(said) : said[i].kind # "finished"
    BY <2>1 DEF Entry
  <2>3. log' \in Seq(Entries) /\ Grown
    <3> HIDE DEF said
    <3> QED
      BY <2>1, SaysEffect
  <2>4. EndIsLast'
    <3>1. ~Finished
      BY <1>1 DEF Working
    <3> HIDE DEF said
    <3> QED
      BY <2>1, <2>2, <3>1, SayingKeepsEnd
  <2> QED
    BY <1>1, <2>3, <2>4 DEF Working, InPause, Moves, Statuses
<1>2. ASSUME NEW e \in Entries, Says(<<e>>), ~Finished
      PROVE  /\ log' \in Seq(Entries) /\ Grown /\ EndIsLast' /\ e.use \in Told(e.kind)'
             /\ e.kind # "finished" => ~Finished'
  <2> DEFINE said == <<e>>
  <2>1. said \in Seq(Entries) /\ Len(said) = 1 /\ said[1] = e /\ Says(said)
    BY <1>2
  <2> HIDE DEF said
  <2>2. EndIsLast'
    <3>1. \A i \in 1..Len(said) : i = Len(said)
      BY <2>1
    <3> QED
      BY <1>2, <2>1, <3>1, SayingKeepsEnd
  <2>3. log' \in Seq(Entries) /\ Grown /\ Len(log') = Len(log) + 1 /\ log'[Len(log) + 1] = e
    <3>1. /\ log' \in Seq(Entries) /\ Grown /\ Len(log') = Len(log) + Len(said)
          /\ \A i \in 1..Len(said) : log'[Len(log) + i] = said[i]
      BY <2>1, SaysEffect
    <3> QED
      BY <2>1, <3>1
  <2>4. Len(log) \in Nat /\ Len(log) + 1 \in 1..Len(log')
    BY <2>3
  <2>5. e.use \in Told(e.kind)'
    BY <2>3, <2>4 DEF Told, Entry, Entries
  <2>6. ASSUME e.kind # "finished"
        PROVE  ~Finished'
    <3>1. \A i \in 1..Len(log) : log[i].kind # "finished"
      BY <1>2, FinishedEntry
    <3>2. ASSUME NEW i \in 1..Len(log')
          PROVE  log'[i].kind # "finished"
      <4>1. CASE i \in 1..Len(log)
        BY <2>3, <3>1, <4>1 DEF Grown
      <4>2. CASE i = Len(log) + 1
        BY <2>3, <2>6, <4>2
      <4> QED
        BY <2>3, <2>4, <4>1, <4>2
    <3>3. ASSUME NEW u \in Told("finished")'
          PROVE  FALSE
      <4>1. PICK i \in 1..Len(log') : log'[i] = Entry("finished", u)
        BY DEF Told
      <4> QED
        BY <3>2, <4>1 DEF Entry
    <3> QED
      BY <3>3 DEF Finished
  <2> QED
    BY <2>2, <2>3, <2>5, <2>6
<1>3. CASE \E n \in 1..2 : Talks(n)
  BY <1>1, <1>3 DEF Talks
<1>4. CASE \E n \in 0..1 : Fails(n)
  BY <1>1, <1>4 DEF Fails
<1>5. ASSUME NEW u \in Pauses, PausesOn(u)
      PROVE  JobInv' /\ Moves
  <2> DEFINE e == Entry("pending", u)
  <2>1. e \in Entries /\ e.use = u /\ e.kind = "pending"
    BY DEF Entry, Entries
  <2>2. Working /\ Says(<<e>>) /\ pause' = u /\ UNCHANGED <<answers, status>>
    BY <1>5 DEF PausesOn
  <2>3. /\ log' \in Seq(Entries) /\ Grown /\ EndIsLast' /\ u \in Told("pending")'
        /\ ~Finished'
    <3> HIDE DEF e
    <3> QED
      BY <1>2, <2>1, <2>2 DEF Working
  <2> QED
    BY <2>2, <2>3 DEF Working, InPause, Moves
<1>6. CASE GoesOn
  <2> DEFINE e == Entry("resumed", pause)
  <2>1. e \in Entries /\ e.use = pause /\ e.kind = "resumed"
    BY DEF Entry, Entries
  <2>2. /\ status = "RUNNING" /\ pause # None /\ Says(<<e>>) /\ pause' = None
        /\ UNCHANGED <<answers, status>>
    BY <1>6 DEF GoesOn
  <2>3. log' \in Seq(Entries) /\ Grown /\ EndIsLast' /\ pause \in Told("resumed")'
    <3> HIDE DEF e
    <3> QED
      BY <1>2, <2>1, <2>2 DEF InPause
  <2> QED
    BY <2>2, <2>3 DEF InPause, Moves
<1>7. CASE Finishes
  <2> DEFINE e == Entry("finished", None)
  <2>1. e \in Entries
    BY DEF Entry, Entries
  <2>2. Working /\ Says(<<e>>) /\ UNCHANGED <<pause, answers, status>>
    BY <1>7 DEF Finishes
  <2>3. log' \in Seq(Entries) /\ Grown /\ EndIsLast'
    <3> HIDE DEF e
    <3> QED
      BY <1>2, <2>1, <2>2 DEF Working
  <2> QED
    BY <2>2, <2>3 DEF Working, InPause, Moves
<1>8. CASE Completes
  BY <1>8 DEF Completes, EndIsLast, InPause, Moves, Grown, Statuses
<1> QED
  BY <1>3, <1>4, <1>5, <1>6, <1>7, <1>8 DEF JobStep

(* A signal changes nothing but the answers, and only of a running job.      *)
LEMMA SignalMoves ==
  ASSUME JobInv, NEW u, NEW d \in Decisions, Signalled(u, d)
  PROVE  JobInv' /\ Moves
<1>1. UNCHANGED <<log, pause, status>> /\ answers' = [answers EXCEPT ![u] = d]
  BY DEF Signalled
<1>2. answers' \in [Pauses -> Decisions \cup {None}]
  BY <1>1 DEF JobInv, JobTypes
<1> QED
  BY <1>1, <1>2 DEF JobInv, JobTypes, EndIsLast, InPause, Moves, Grown, Finished, Told

(* Every step of the system is one of the job's as far as the job goes.      *)
LEMMA NextMoves ==
  ASSUME JobInv, [Next]_vars
  PROVE  JobInv' /\ Moves
<1>1. CASE JobStep
  BY <1>1, JobStepMoves
<1>2. ASSUME NEW u, NEW d \in Decisions, Signalled(u, d)
      PROVE  JobInv' /\ Moves
  BY <1>2, SignalMoves
<1>3. CASE UNCHANGED jobVars
  BY <1>3 DEF jobVars, JobInv, JobTypes, EndIsLast, InPause, Moves, Grown, Finished, Told
<1>4. \/ JobStep \/ UNCHANGED jobVars
      \/ \E d \in Decisions : Signalled(view.pause, d) \/ Signalled(pause, d)
      \/ Signalled(helper.pause, "approve")
  <2>1. CASE JobRuns
    BY <2>1 DEF JobRuns
  <2>2. CASE Mount \/ Browser \/ Breaks \/ PollAgain
    BY <2>2 DEF Mount, Browser, Open, Deliver, HangsUp, Breaks, OnError, PollAgain
  <2>3. CASE \E s \in Slots : Answers(s) \/ Lose(s)
    BY <2>3 DEF Answers, Describe, Query, Receive, Lose
  <2>4. CASE \E d \in Decisions : Click(d) \/ Elsewhere(d)
    BY <2>4 DEF Click, Elsewhere
  <2>5. CASE Helper
    BY <2>5 DEF Helper, HelperPolls, HelperSignals, HelperReturns
  <2>6. CASE UNCHANGED vars
    BY <2>6 DEF vars
  <2> QED
    BY <2>1, <2>2, <2>3, <2>4, <2>5, <2>6 DEF Next
<1> QED
  BY <1>1, <1>2, <1>3, <1>4, ClientsAssumption

-----------------------------------------------------------------------------
(* What the clients hold: views and requests of the pane, the helper's pause.*)
Views == [status : Statuses \cup {"null"}, pause : Pauses \cup {None}, asOf : Nat]
Requests == [at : {"idle", "asked", "described", "answered"},
             why : {"show", "error", "poll"}, view : Views]
AsksOK == asks \in [Slots -> Requests]

(* A pause that a client may hold is one that the job is in, or was in and   *)
(* has said so.                                                              *)
Real(u) == u # None => u \in Told("pending") /\ (u = pause \/ u \in Told("resumed"))
ViewsAreReal == Real(view.pause) /\ \A s \in Slots : Real(asks[s].view.pause)

(* An answer that the job is over is true, and so is a closed source.        *)
EndsAreReal ==
  /\ \A s \in Slots :
       asks[s].at = "answered" /\ asks[s].view.status # "RUNNING" => status # "RUNNING"
  /\ source = "closed" => Finished \/ status # "RUNNING"

(* The helper has the job to itself but for reviewers elsewhere: until one   *)
(* answers, the pause it has found is still on and unanswered.               *)
HelperAlone == helper.at # "off" =>
  /\ source = "unmounted" /\ view = NoView /\ polls = 0
  /\ \A s \in Slots : asks[s] = NoAsk
HelperInTime ==
  /\ helper.at = "got" =>
       elsewhere \/ (helper.pause = pause /\ pause # None /\ answers[pause] = None)
  /\ helper.at = "got" => helper.pause \in Pauses
  /\ helper.at = "raised" => elsewhere
  /\ elsewhere => helper.at # "off"

(* The transcript shows entries that there are.                              *)
SeenIsSaid == seen \subseteq 1..Len(log)

ClientsInv ==
  /\ TypeOK /\ JobInv /\ AsksOK /\ ViewsAreReal /\ EndsAreReal
  /\ HelperAlone /\ HelperInTime /\ SeenIsSaid

(* Few pauses have been told of at any time, however many there may be.      *)
LEMMA ToldIsFinite ==
  ASSUME log \in Seq(Entries), NEW k
  PROVE  Cardinality(Told(k)) \in Nat
<1> DEFINE uses == {log[i].use : i \in 1..Len(log)}
<1>1. IsFiniteSet(1..Len(log))
  BY FS_Interval
<1>2. IsFiniteSet(uses)
  <2> DEFINE useOf == [i \in 1..Len(log) |-> log[i].use]
  <2>1. useOf \in Surjection(1..Len(log), uses)
    BY DEF Surjection
  <2> QED
    BY <1>1, <2>1, FS_Surjection
<1>3. Told(k) \subseteq uses
  BY DEF Told, Entry
<1> QED
  BY <1>2, <1>3, FS_Subset, FS_CardinalityType

(* A pause that is real stays so: it is on, or it has been resumed.          *)
LEMMA RealStays ==
  ASSUME JobInv, Moves
  PROVE  \A u : Real(u) => Real(u)'
<1>1. Told("pending") \subseteq Told("pending")' /\ Told("resumed") \subseteq Told("resumed")'
  BY ToldStays DEF Moves
<1> QED
  BY <1>1 DEF Real, Moves

(* So does an end.                                                           *)
LEMMA EndStays ==
  ASSUME Moves
  PROVE  /\ Finished => Finished'
         /\ status # "RUNNING" => status' # "RUNNING"
  BY ToldStays DEF Moves, Finished

(* A request that is made says nothing yet.                                  *)
LEMMA AskingKeeps ==
  ASSUME AsksOK, NEW why \in {"show", "error", "poll"}, Asks(why)
  PROVE  /\ AsksOK'
         /\ \A s \in Slots : \/ asks'[s] = asks[s]
                             \/ asks'[s].at = "asked" /\ asks'[s].view = NoView
<1>1. PICK s \in Slots : asks' = [asks EXCEPT ![s] = [NoAsk EXCEPT !.at = "asked", !.why = why]]
  BY DEF Asks
<1> DEFINE new == [NoAsk EXCEPT !.at = "asked", !.why = why]
<1>2. new.at = "asked" /\ new.view = NoView /\ new \in Requests
  BY DEF NoAsk, NoView, Requests, Views
<1>3. asks' = [asks EXCEPT ![s] = new]
  BY <1>1
<1> HIDE DEF new
<1> QED
  BY <1>2, <1>3 DEF AsksOK

(* Nobody has asked or been told anything at first.                          *)
LEMMA ClientsStart == ASSUME Init PROVE ClientsInv
<1>1. NoAsk \in Requests /\ NoView \in Views /\ NoView.pause = None /\ NoAsk.view = NoView /\ NoAsk.at = "idle"
  BY DEF NoAsk, NoView, Requests, Views
<1>2. TypeOK
  <2>1. view \in Views /\ next \in Nat \ {0} /\ seen \subseteq Nat /\ source = "unmounted"
    BY <1>1 DEF Init
  <2>2. polls \in 0..Polls
    BY ClientsAssumption DEF Init
  <2>3. helper \in [at : {"off", "waiting", "got", "returned", "raised"}, pause : Pauses \cup {None}]
    BY DEF Init
  <2>4. {elsewhere, spoilt} \subseteq BOOLEAN
    BY DEF Init
  <2> QED
    BY <2>1, <2>2, <2>3, <2>4 DEF TypeOK, Views
<1>3. JobInv
  BY JobStarts
<1>4. AsksOK /\ ViewsAreReal
  BY <1>1 DEF Init, AsksOK, ViewsAreReal, Real
<1>5. EndsAreReal
  BY <1>1 DEF Init, EndsAreReal
<1>6. HelperAlone /\ HelperInTime /\ SeenIsSaid
  BY DEF Init, HelperAlone, HelperInTime, SeenIsSaid
<1> QED
  BY <1>2, <1>3, <1>4, <1>5, <1>6 DEF ClientsInv

(* Types: each action, with the requests it touches.                         *)
LEMMA HistoriesStep ==
  ASSUME {elsewhere, spoilt} \subseteq BOOLEAN, [Next]_vars
  PROVE  {elsewhere, spoilt}' \subseteq BOOLEAN
<1>1. elsewhere' \in BOOLEAN
  <2>1. \/ elsewhere' = elsewhere \/ elsewhere' = (helper.at # "off")
    BY DEF Next, vars, pane, JobRuns, Mount, Browser, Open, Deliver, HangsUp, Breaks,
           OnError, PollAgain, Answers, Describe, Query, Receive, Lose, Click,
           Elsewhere, Helper, HelperPolls, HelperSignals, HelperReturns, HelperIs
  <2> QED
    BY <2>1
<1>2. spoilt' \in BOOLEAN
  <2>1. CASE \E s \in Slots : Receive(s)
    BY <2>1 DEF Receive
  <2>2. CASE ~ \E s \in Slots : Receive(s)
    BY <2>2 DEF Next, vars, pane, JobRuns, Mount, Browser, Open, Deliver, HangsUp, Breaks,
           OnError, PollAgain, Answers, Describe, Query, Lose, Click,
           Elsewhere, Helper, HelperPolls, HelperSignals, HelperReturns, HelperIs
  <2> QED
    BY <2>1, <2>2
<1> QED
  BY <1>1, <1>2

(* What may become of a request in a step: only an answer brings a view, of  *)
(* the pause that is on, and says that the job is over only if it is.        *)
AskMoves(r) ==
  \/ asks'[r] = asks[r]
  \/ asks'[r].at # "answered" /\ asks'[r].view \in {asks[r].view, NoView}
  \/ /\ asks'[r].at = "answered"
     /\ asks'[r].view.pause \in {pause, None}
     /\ asks'[r].view.status # "RUNNING" => status # "RUNNING"

(* The answer to a request: a view that is real, and an end that is one.     *)
LEMMA AnswerIsReal ==
  ASSUME ClientsInv, NEW s \in Slots, Answers(s)
  PROVE  AsksOK' /\ \A r \in Slots : AskMoves(r)
<1> USE DEF AskMoves
<1>1. asks \in [Slots -> Requests]
  BY DEF ClientsInv, AsksOK
<1>2. \A st \in Statuses, p \in Pauses \cup {None} :
        Snapshot(st, p) \in Views /\ Snapshot(st, p).status = st /\ Snapshot(st, p).pause = p
  BY ToldIsFinite DEF Snapshot, Views, ClientsInv, JobInv, JobTypes
<1>3. ASSUME NEW v \in Views, Answered(s, v)
      PROVE  /\ AsksOK' /\ asks'[s].at = "answered" /\ asks'[s].view = v
             /\ \A r \in Slots \ {s} : asks'[r] = asks[r]
  BY <1>1, <1>3 DEF Answered, AsksOK, Requests
<1>4. CASE Describe(s) /\ status = "RUNNING"
  <2>1. asks' = [asks EXCEPT ![s].at = "described"]
    BY <1>4 DEF Describe
  <2> QED
    BY <1>1, <2>1 DEF AsksOK, Requests
<1>5. CASE Describe(s) /\ status # "RUNNING"
  <2>1. Answered(s, Snapshot(status, None)) /\ status \in Statuses
    BY <1>5 DEF Describe, ClientsInv, JobInv, JobTypes
  <2> QED
    BY <1>2, <1>3, <1>5, <2>1
<1>6. CASE Query(s)
  <2>1. Answered(s, Snapshot("RUNNING", pause)) /\ pause \in Pauses \cup {None}
    BY <1>6 DEF Query, ClientsInv, JobInv, JobTypes
  <2>2. "RUNNING" \in Statuses
    BY DEF Statuses
  <2> QED
    BY <1>2, <1>3, <2>1, <2>2
<1>7. CASE Receive(s)
  <2>1. NoAsk \in Requests
    BY DEF NoAsk, NoView, Requests, Views
  <2> QED
    BY <1>1, <1>7, <2>1 DEF Receive, AsksOK, NoAsk
<1> QED
  BY <1>4, <1>5, <1>6, <1>7 DEF Answers

(* Every variable stays in its type.                                         *)
LEMMA TypesStep ==
  ASSUME ClientsInv, [Next]_vars
  PROVE  TypeOK' /\ AsksOK'
<1> DEFINE PaneTypes ==
             /\ source \in {"unmounted", "connecting", "open", "closed"}
             /\ next \in Nat \ {0} /\ seen \subseteq Nat /\ view \in Views /\ polls \in 0..Polls
             /\ AsksOK
           HelperTypes == helper \in [at : {"off", "waiting", "got", "returned", "raised"},
                                      pause : Pauses \cup {None}]
<1>1. PaneTypes /\ HelperTypes /\ JobTypes
  BY DEF ClientsInv, TypeOK, Views, JobInv
<1>2. PaneTypes'
  <2>1. CASE Mount
    BY <1>1, <2>1, AskingKeeps DEF Mount
  <2>2. CASE Open
    BY <1>1, <2>2 DEF Open, AsksOK
  <2>3. CASE Deliver
    <3>1. /\ next' = next + 1 /\ seen' = seen \cup {next}
          /\ source' \in {source, "closed"}
      BY <2>3 DEF Deliver, OnPending, OnResumed, OnFinished
    <3>2. /\ view' \in {view, [view EXCEPT !.pause = None]} /\ polls' \in {polls, Polls}
      BY <2>3 DEF Deliver, OnPending, OnResumed, OnFinished
    <3>3. asks' = asks \/ Asks("show")
      BY <2>3 DEF Deliver, OnPending, OnResumed, OnFinished
    <3>4. view' \in Views
      BY <1>1, <3>2 DEF Views
    <3>5. polls' \in 0..Polls
      BY <1>1, <3>2, ClientsAssumption
    <3>6. AsksOK'
      BY <1>1, <3>3, AskingKeeps DEF AsksOK
    <3>7. next' \in Nat \ {0} /\ seen' \subseteq Nat
      BY <1>1, <3>1
    <3>8. source' \in {"unmounted", "connecting", "open", "closed"}
      BY <1>1, <3>1
    <3> QED
      BY <3>4, <3>5, <3>6, <3>7, <3>8
  <2>4. CASE Breaks \/ HangsUp
    BY <1>1, <2>4, AskingKeeps DEF Breaks, HangsUp, OnError
  <2>5. CASE PollAgain
    <3>1. polls > 0 /\ polls' = polls - 1 /\ UNCHANGED <<source, next, seen, view>>
      BY <2>5 DEF PollAgain
    <3>2. AsksOK'
      BY <1>1, <2>5, AskingKeeps DEF PollAgain
    <3> QED
      BY <1>1, <3>1, <3>2, ClientsAssumption
  <2>6. ASSUME NEW s \in Slots, Answers(s)
        PROVE  PaneTypes'
    <3>1. AsksOK'
      BY <2>6, AnswerIsReal
    <3>2. UNCHANGED <<next, seen>> /\ source' \in {source, "closed"}
      BY <2>6 DEF Answers, Describe, Query, Receive
    <3>3. view' \in {view, asks[s].view} /\ polls' \in {polls, 0}
      BY <2>6 DEF Answers, Describe, Query, Receive
    <3>4. asks[s].view \in Views
      BY <1>1 DEF AsksOK, Requests
    <3> QED
      BY <1>1, <3>1, <3>2, <3>3, <3>4, ClientsAssumption
  <2>7. ASSUME NEW s \in Slots, Lose(s)
        PROVE  PaneTypes'
    <3>1. NoAsk \in Requests
      BY DEF NoAsk, NoView, Requests, Views
    <3> QED
      BY <1>1, <2>7, <3>1 DEF Lose, AsksOK
  <2>8. CASE UNCHANGED pane
    BY <1>1, <2>8 DEF pane, AsksOK
  <2>9. CASE \/ JobRuns \/ Helper \/ UNCHANGED vars
             \/ \E d \in Decisions : Click(d) \/ Elsewhere(d)
    BY <2>8, <2>9 DEF JobRuns, Helper, HelperPolls, HelperSignals, HelperReturns, HelperIs,
                      Click, Elsewhere, vars
  <2> HIDE DEF PaneTypes
  <2> QED
    BY <2>1, <2>2, <2>3, <2>4, <2>5, <2>6, <2>7, <2>9 DEF Next, Browser
<1>3. HelperTypes'
  <2>1. CASE Helper
    BY <1>1, <2>1 DEF Helper, HelperPolls, HelperSignals, HelperReturns, HelperIs, JobTypes
  <2>2. CASE helper' = helper
    BY <1>1, <2>2
  <2> QED
    BY <2>1, <2>2 DEF Next, vars, JobRuns, Mount, Browser, Open, Deliver, HangsUp, Breaks,
          OnError, PollAgain, Answers, Describe, Query, Receive, Lose, Click, Elsewhere
<1>4. {elsewhere, spoilt}' \subseteq BOOLEAN
  BY HistoriesStep DEF ClientsInv, TypeOK
<1> QED
  BY <1>2, <1>3, <1>4 DEF TypeOK, Views

(* How requests, the view and the source move in any step.                   *)
LEMMA AsksStep ==
  ASSUME ClientsInv, [Next]_vars
  PROVE  \A r \in Slots : AskMoves(r)
<1>1. AsksOK
  BY DEF ClientsInv
<1>2. ASSUME NEW why \in {"show", "error", "poll"}, Asks(why)
      PROVE  \A r \in Slots : AskMoves(r)
  BY <1>1, <1>2, AskingKeeps DEF AskMoves
<1>3. CASE asks' = asks
  BY <1>3 DEF AskMoves
<1>4. CASE Mount \/ Browser \/ Breaks \/ PollAgain
  BY <1>2, <1>3, <1>4 DEF Mount, Browser, Open, Deliver, OnPending, OnResumed, OnFinished,
                          HangsUp, Breaks, OnError, PollAgain
<1>5. CASE \E s \in Slots : Answers(s)
  BY <1>5, AnswerIsReal
<1>6. CASE \E s \in Slots : Lose(s)
  BY <1>1, <1>6 DEF Lose, AskMoves, AsksOK, NoAsk
<1>7. CASE \/ JobRuns \/ Helper \/ UNCHANGED vars
           \/ \E d \in Decisions : Click(d) \/ Elsewhere(d)
  BY <1>3, <1>7 DEF JobRuns, Helper, HelperPolls, HelperSignals, HelperReturns, HelperIs,
                    Click, Elsewhere, pane, vars
<1> QED
  BY <1>4, <1>5, <1>6, <1>7 DEF Next

(* The pane shows an answer or forgets a pause; its source is closed by the  *)
(* entry that ends the stream or by an answer that the job is over.          *)
LEMMA ViewStep ==
  ASSUME ClientsInv, [Next]_vars
  PROVE  /\ \/ view' = view \/ view' = [view EXCEPT !.pause = None]
            \/ \E s \in Slots : asks[s].at = "answered" /\ view' = asks[s].view
         /\ source' = "closed" =>
              \/ source = "closed"
              \/ next \in 1..Len(log) /\ log[next].kind = "finished"
              \/ \E s \in Slots : asks[s].at = "answered" /\ asks[s].view.status # "RUNNING"
<1>1. CASE Deliver
  <2>1. next \in Nat \ {0} /\ next <= Len(log) /\ Len(log) \in Nat
    BY <1>1 DEF Deliver, ClientsInv, TypeOK, JobInv, JobTypes
  <2>2. next \in 1..Len(log)
    BY <2>1
  <2> QED
    BY <1>1, <2>2 DEF Deliver, OnPending, OnResumed, OnFinished
<1>2. CASE \E s \in Slots : Receive(s)
  BY <1>2 DEF Receive, Closing
<1>3. CASE ~Deliver /\ ~ \E s \in Slots : Receive(s)
  BY <1>3 DEF Next, vars, pane, JobRuns, Mount, Browser, Open, HangsUp, Breaks,
          OnError, PollAgain, Answers, Describe, Query, Lose, Click, Elsewhere,
          Helper, HelperPolls, HelperSignals, HelperReturns, HelperIs
<1> QED
  BY <1>1, <1>2, <1>3

(* A pause that a client holds was told, and was resumed if it is not on.    *)
LEMMA ViewsStep ==
  ASSUME ClientsInv, [Next]_vars
  PROVE  ViewsAreReal'
<1>1. JobInv' /\ Moves
  BY NextMoves DEF ClientsInv
<1>2. \A u : Real(u) => Real(u)'
  BY <1>1, RealStays DEF ClientsInv
<1>3. Real(None)' /\ Real(pause) /\ NoView.pause = None
  BY DEF Real, NoView, ClientsInv, JobInv, InPause
<1>4. \A u \in {pause, None} : Real(u)'
  BY <1>2, <1>3
<1>5. view \in Views /\ asks \in [Slots -> Requests]
  BY DEF ClientsInv, TypeOK, Views, AsksOK
<1>6. Real(view.pause)'
  <2>1. CASE view' = view
    BY <1>2, <2>1 DEF ClientsInv, ViewsAreReal, Real
  <2>2. CASE view' = [view EXCEPT !.pause = None]
    BY <1>5, <2>2 DEF Views, Real
  <2>3. CASE \E s \in Slots : view' = asks[s].view
    <3>1. PICK s \in Slots : view' = asks[s].view
      BY <2>3
    <3>2. Real(asks[s].view.pause)
      BY DEF ClientsInv, ViewsAreReal
    <3> QED
      BY <1>2, <3>1, <3>2 DEF Real
  <2> QED
    BY <2>1, <2>2, <2>3, ViewStep
<1>7. ASSUME NEW s \in Slots
      PROVE  Real(asks[s].view.pause)'
  <2>1. Real(asks[s].view.pause)
    BY DEF ClientsInv, ViewsAreReal
  <2>2. AskMoves(s)
    BY AsksStep
  <2>3. CASE asks'[s].view.pause = asks[s].view.pause
    BY <1>2, <2>1, <2>3 DEF Real
  <2>4. CASE asks'[s].view.pause \in {pause, None}
    BY <1>4, <2>4 DEF Real
  <2> QED
    BY <1>3, <2>2, <2>3, <2>4 DEF AskMoves
<1> QED
  BY <1>6, <1>7 DEF ViewsAreReal

(* What says that the job is over is right.                                  *)
LEMMA EndsStep ==
  ASSUME ClientsInv, [Next]_vars
  PROVE  EndsAreReal'
<1>1. Moves
  BY NextMoves DEF ClientsInv
<1>2. (Finished => Finished') /\ (status # "RUNNING" => status' # "RUNNING")
  BY <1>1, EndStays
<1>3. ASSUME NEW s \in Slots, asks'[s].at = "answered", asks'[s].view.status # "RUNNING"
      PROVE  status' # "RUNNING"
  <2>1. AskMoves(s)
    BY AsksStep
  <2> QED
    BY <1>2, <1>3, <2>1 DEF AskMoves, ClientsInv, EndsAreReal
<1>4. ASSUME source' = "closed"
      PROVE  Finished' \/ status' # "RUNNING"
  <2>1. CASE source = "closed" \/ \E s \in Slots : asks[s].at = "answered" /\ asks[s].view.status # "RUNNING"
    BY <1>2, <2>1 DEF ClientsInv, EndsAreReal
  <2>2. CASE next \in 1..Len(log) /\ log[next].kind = "finished"
    BY <1>2, <2>2, FinishedEntry DEF ClientsInv, JobInv, JobTypes
  <2> QED
    BY <1>4, <2>1, <2>2, ViewStep
<1> QED
  BY <1>3, <1>4 DEF EndsAreReal

(* What the transcript shows has been said.                                  *)
LEMMA SeenStep ==
  ASSUME ClientsInv, [Next]_vars
  PROVE  SeenIsSaid'
<1>1. \A i \in 1..Len(log) : i \in 1..Len(log')
  BY NextMoves DEF ClientsInv, Moves, Grown
<1>2. CASE Deliver
  <2>1. next \in Nat \ {0} /\ next <= Len(log) /\ Len(log) \in Nat /\ seen' = seen \cup {next}
    BY <1>2 DEF Deliver, ClientsInv, TypeOK, JobInv, JobTypes
  <2>2. next \in 1..Len(log)
    BY <2>1
  <2> QED
    BY <1>1, <2>1, <2>2 DEF ClientsInv, SeenIsSaid
<1>3. CASE ~Deliver
  <2>1. seen' = seen
    BY <1>3 DEF Next, vars, pane, JobRuns, Mount, Browser, Open, HangsUp, Breaks,
          OnError, PollAgain, Answers, Describe, Query, Receive, Lose, Click, Elsewhere,
          Helper, HelperPolls, HelperSignals, HelperReturns, HelperIs
  <2> QED
    BY <1>1, <2>1 DEF ClientsInv, SeenIsSaid
<1> QED
  BY <1>2, <1>3

(* A helper's job has no pane, so that only the job, the helper and clients  *)
(* elsewhere can move.                                                       *)
LEMMA HelperHasItself ==
  ASSUME ClientsInv, [Next]_vars, helper.at # "off"
  PROVE  /\ UNCHANGED pane
         /\ \/ JobStep /\ UNCHANGED <<helper, elsewhere>>
            \/ pause # None /\ elsewhere' = TRUE /\ UNCHANGED <<helper, pause>>
            \/ Helper
            \/ UNCHANGED <<jobVars, helper, elsewhere>>
<1>1. /\ source = "unmounted" /\ view = NoView /\ polls = 0 /\ view.pause = None
      /\ \A s \in Slots : asks[s].at = "idle"
  BY DEF ClientsInv, HelperAlone, NoView, NoAsk
<1>2. ~(Mount \/ Browser \/ Breaks \/ PollAgain)
  BY <1>1 DEF Mount, Browser, Open, Deliver, HangsUp, Breaks, PollAgain
<1>3. ~ \E s \in Slots : Answers(s) \/ Lose(s)
  BY <1>1 DEF Answers, Describe, Query, Receive, Lose
<1>4. ~ \E d \in Decisions : Click(d)
  BY <1>1 DEF Click
<1>5. CASE JobRuns
  BY <1>5 DEF JobRuns
<1>6. CASE \E d \in Decisions : Elsewhere(d)
  <2>1. (helper.at # "off") = TRUE
    OBVIOUS
  <2> QED
    BY <1>6, <2>1 DEF Elsewhere, Signalled
<1>7. CASE Helper
  BY <1>7 DEF Helper, HelperPolls, HelperSignals, HelperReturns, HelperIs
<1>8. CASE UNCHANGED vars
  BY <1>8 DEF vars
<1> QED
  BY <1>2, <1>3, <1>4, <1>5, <1>6, <1>7, <1>8 DEF Next

(* A pause that nobody has answered holds the job.                           *)
LEMMA UnansweredHolds ==
  ASSUME JobInv, JobStep, pause # None
  PROVE  answers[pause] # None
  BY DEF JobInv, InPause, JobStep, Talks, PausesOn, GoesOn, Finishes, Completes, Fails, Working

(* Until another client answers, the helper's pause is on and unanswered.    *)
LEMMA HelperStep ==
  ASSUME ClientsInv, [Next]_vars
  PROVE  HelperAlone' /\ HelperInTime'
<1>1. CASE helper.at = "off"
  <2>1. ~Helper
    BY <1>1 DEF Helper, HelperPolls, HelperSignals, HelperReturns
  <2>2. helper' = helper
    BY <2>1 DEF Next, vars, pane, JobRuns, Mount, Browser, Open, Deliver, HangsUp, Breaks,
          OnError, PollAgain, Answers, Describe, Query, Receive, Lose, Click, Elsewhere
  <2>3. elsewhere' => elsewhere
    BY <1>1, <2>1 DEF Next, vars, pane, JobRuns, Mount, Browser, Open, Deliver, HangsUp, Breaks,
          OnError, PollAgain, Answers, Describe, Query, Receive, Lose, Click, Elsewhere
  <2> QED
    BY <1>1, <2>2, <2>3 DEF HelperAlone, HelperInTime, ClientsInv
<1>2. CASE helper.at # "off"
  <2>1. HelperAlone'
    BY <1>2, HelperHasItself DEF HelperAlone, ClientsInv, pane
  <2>2. HelperInTime /\ JobInv
    BY DEF ClientsInv
  <2>3. CASE JobStep /\ UNCHANGED <<helper, elsewhere>>
    BY <2>1, <2>2, <2>3, UnansweredHolds DEF HelperInTime
  <2>4. CASE elsewhere' = TRUE /\ UNCHANGED helper
    BY <1>2, <2>1, <2>2, <2>4 DEF HelperInTime
  <2>5. CASE HelperPolls
    <3>1. helper'.at = "got" /\ helper'.pause = pause /\ UNCHANGED <<jobVars, elsewhere>>
      BY <2>5 DEF HelperPolls, HelperIs
    <3> QED
      BY <2>1, <2>2, <2>5, <3>1 DEF HelperPolls, HelperInTime, Answerable, jobVars, JobInv, JobTypes
  <2>6. CASE HelperSignals
    <3>1. helper.at = "got" /\ elsewhere' = elsewhere /\ helper'.at \in {"waiting", "raised"}
      BY <2>6 DEF HelperSignals, HelperIs
    <3>2. helper'.at = "raised" => status # "RUNNING"
      BY <2>6 DEF HelperSignals, HelperIs
    <3> QED
      BY <2>1, <2>2, <3>1, <3>2 DEF HelperInTime, JobInv, InPause
  <2>7. CASE HelperReturns
    <3>1. helper'.at = "returned" /\ elsewhere' = elsewhere
      BY <2>7 DEF HelperReturns, HelperIs
    <3> QED
      BY <2>1, <3>1 DEF HelperInTime
  <2>8. CASE UNCHANGED <<jobVars, helper, elsewhere>>
    BY <2>1, <2>2, <2>8 DEF HelperInTime, jobVars
  <2> QED
    BY <1>2, <2>1, <2>3, <2>4, <2>5, <2>6, <2>7, <2>8, HelperHasItself DEF Helper
<1> QED
  BY <1>1, <1>2

(* All of it holds on every job, for a pane as for a helper.                 *)
LEMMA ClientsInvHolds == Spec => []ClientsInv
<1>1. ASSUME ClientsInv, [Next]_vars
      PROVE  ClientsInv'
  <2>1. TypeOK' /\ AsksOK'
    BY <1>1, TypesStep
  <2>2. JobInv'
    BY <1>1, NextMoves DEF ClientsInv
  <2>3. ViewsAreReal' /\ EndsAreReal'
    BY <1>1, ViewsStep, EndsStep
  <2>4. HelperAlone' /\ HelperInTime' /\ SeenIsSaid'
    BY <1>1, HelperStep, SeenStep
  <2> QED
    BY <2>1, <2>2, <2>3, <2>4 DEF ClientsInv
<1> QED
  BY ClientsStart, <1>1, PTL DEF Spec

(* The pane and the helper hold what the code lets them hold: the type       *)
(* invariant of Clients, with any number of pauses.                          *)
THEOREM ClientsTypes == Spec => []TypeOK
<1>1. ClientsInv => TypeOK
  BY DEF ClientsInv
<1> QED
  BY ClientsInvHolds, <1>1, PTL

(* The buttons never answer what was not asked: the pause that the pane      *)
(* shows (SessionTerminal.tsx:214) was told on the stream, and if it is no   *)
(* longer the one that the workflow is in, its resumption was told as well.  *)
(* So an answer that overtakes another may show an old pause, but never one  *)
(* that is still to come or of which the stream would not tell the end.      *)
ShownPauseIsReal ==
  view.pause # None =>
    /\ view.pause \in Told("pending")
    /\ view.pause = pause \/ view.pause \in Told("resumed")

THEOREM ButtonsAnswerRealPauses == Spec => []ShownPauseIsReal
<1>1. ClientsInv => ShownPauseIsReal
  BY DEF ClientsInv, ViewsAreReal, Real, ShownPauseIsReal
<1> QED
  BY ClientsInvHolds, <1>1, PTL

(* The pane gives up its stream (source.close) only when the job is at its   *)
(* end: never because of a broken connection, a lost or a late answer.       *)
ClosedPaneIsRight == source = "closed" => Finished \/ status # "RUNNING"

THEOREM PaneOutlastsTheJob == Spec => []ClosedPaneIsRight
<1>1. ClientsInv => ClosedPaneIsRight
  BY DEF ClientsInv, EndsAreReal, ClosedPaneIsRight
<1> QED
  BY ClientsInvHolds, <1>1, PTL

(* The part of HelperComesBack that is no liveness: result_with_auto_approval*)
(* raises only if another reviewer has answered its job.  Alone with a job   *)
(* it never signals one that has closed, whatever time its query, its signal *)
(* and the job's own steps take (scripts/_approval.py).                      *)
RaisesOnlyIfOvertaken == helper.at = "raised" => elsewhere

THEOREM HelperRaisesOnlyIfOvertaken == Spec => []RaisesOnlyIfOvertaken
<1>1. ClientsInv => RaisesOnlyIfOvertaken
  BY DEF ClientsInv, HelperInTime, RaisesOnlyIfOvertaken
<1> QED
  BY ClientsInvHolds, <1>1, PTL

(* A pane that shows the end of the stream shows all of it: job_finished is  *)
(* the last entry, and no reconnection has left out one before it.           *)
EndIsShownWithAll ==
  (\E i \in seen : log[i].kind = "finished") => seen = 1..Len(log)

THEOREM ShownEndIsComplete == Spec => []EndIsShownWithAll
<1>1. ClientsInv /\ NoGap => EndIsShownWithAll
  <2> SUFFICES ASSUME ClientsInv, NoGap, NEW i \in seen, log[i].kind = "finished"
               PROVE  seen = 1..Len(log)
    BY DEF EndIsShownWithAll
  <2>1. i \in 1..Len(log) /\ seen \subseteq 1..Len(log)
    BY DEF ClientsInv, SeenIsSaid
  <2>2. i = Len(log)
    BY <2>1 DEF ClientsInv, JobInv, EndIsLast
  <2> QED
    BY <2>1, <2>2 DEF NoGap, NothingMissed
<1>2. Spec => []NoGap
  BY InitNoGap, StepNoGap, PTL DEF Spec
<1> QED
  BY ClientsInvHolds, <1>1, <1>2, PTL

(* What the clients do to a job is no more than PausingJob allows: each      *)
(* signal that a button, another reviewer or the helper sends is one for a   *)
(* pause the job has told, so that what AgentJob implements is all that they *)
(* rely on.                                                                  *)
THEOREM ClientsKeepToTheJob == Spec => JobSpec
<1>1. ASSUME ClientsInv, [Next]_vars
      PROVE  [JobNext]_jobVars
  <2>1. CASE JobRuns
    BY <2>1 DEF JobRuns, JobNext
  <2>2. CASE Mount \/ Browser \/ Breaks \/ PollAgain
    BY <2>2 DEF Mount, Browser, Open, Deliver, HangsUp, Breaks, OnError, PollAgain
  <2>3. CASE \E s \in Slots : Answers(s) \/ Lose(s)
    BY <2>3 DEF Answers, Describe, Query, Receive, Lose
  <2>4. ASSUME NEW d \in Decisions, Click(d) \/ Elsewhere(d)
        PROVE  [JobNext]_jobVars
    <3>1. view.pause \in Pauses \cup {None} /\ pause \in Pauses \cup {None}
      BY <1>1 DEF ClientsInv, TypeOK, JobInv, JobTypes
    <3>2. \E u \in Pauses : Signalled(u, d)
      BY <2>4, <3>1 DEF Click, Elsewhere, Signalled
    <3> QED
      BY <3>2 DEF JobNext
  <2>5. CASE Helper
    BY <1>1, <2>5, ClientsAssumption DEF ClientsInv, HelperInTime, Helper, HelperPolls,
       HelperSignals, HelperReturns, JobNext
  <2>6. CASE UNCHANGED vars
    BY <2>6 DEF vars
  <2> QED
    BY <1>1, <2>1, <2>2, <2>3, <2>4, <2>5, <2>6 DEF Next
<1>2. Init => JobInit
  BY DEF Init
<1> QED
  BY ClientsInvHolds, <1>1, <1>2, PTL DEF Spec, JobSpec
=============================================================================
