----------------------------- MODULE ResetProofs ----------------------------
(* Theorems about DemoReset, for any tenants and listings of them, any       *)
(* submissions, rows and pages, with or without faults and a lagging index.  *)
EXTENDS DemoReset, JobIndexProofs

(* A result row without a job row is one that this run found so, or the one  *)
(* that it is about to delete.                                               *)
ResultsHaveRows ==
  \A j \in results :
    row[j] = "none" => j \in orphans \/ (reset.at = "result" /\ reset.job = j)

(* While nobody else works, reset only takes rows away, a job's row before   *)
(* its result, and the ramp stays cleared once it is.                        *)
Alone ==
  Resetting /\ ~disturbed =>
    /\ \A j \in Jobs : row[j] \in {"none", index[j]}
    /\ ResultsHaveRows
    /\ reset.at \in {"mockoon", "confirm"} => ~ramp

(* What of IndexInv does not speak of rows: reset.py deletes them under jobs *)
(* that still run.                                                           *)
Starts(s) ==
  /\ sub[s].open \subseteq sub[s].mine /\ sub[s].mine \subseteq 1 .. made
  /\ sub[s].at = "idle" => sub[s].left = 0 /\ sub[s].mine = {}
  /\ sub[s].at = "ok" => sub[s].left = 0 /\ sub[s].open = {}
  /\ \A j \in sub[s].open : wf[j] = "none"
  /\ \A j \in sub[s].mine : wf[j] # "none" => keyed[j] = sub[s].keyed
  /\ sub[s].at \in {"submitting", "ok"} =>
       \A j \in sub[s].mine : j \in sub[s].open \/ wf[j] # "none"

NoneYet == \A j \in Jobs : j > made => wf[j] = "none"

StartsInv == OwnJobs /\ NoneYet /\ \A s \in Submissions : Starts(s)

ResetInv == ResetTypeOK /\ Alone /\ StartsInv

-----------------------------------------------------------------------------
(* A tenant whose listing is empty has no rows in the index: the newest of   *)
(* them has none before it on the first page.                                *)
LEMMA EmptyListing ==
  ASSUME NEW t, List(t, Page) = {}
  PROVE  \A j \in Jobs : tenant[j] = t => index[j] = "none"
<1> DEFINE shown == {j \in Jobs : index[j] # "none" /\ tenant[j] = t}
           newer(j) == {i \in shown : i > j}
           Newer == {newer(j) : j \in shown}
<1> SUFFICES ASSUME shown # {} PROVE FALSE
  OBVIOUS
<1>1. shown \subseteq Jobs /\ \A j \in shown : newer(j) \subseteq shown
  OBVIOUS
<1>2. Newer \subseteq FiniteSubsetsOf(shown) /\ Newer # {}
  BY <1>1, JobsAreFinite DEF FiniteSubsetsOf
<1>3. PICK least \in Newer : \A S \in Newer : <<S, least>> \notin StrictSubsetOrdering(shown)
  BY <1>2, FS_StrictSubsetOrderingWellFounded, WFMin
<1>4. PICK j \in shown : least = newer(j)
  OBVIOUS
<1>5. newer(j) = {}
  <2> SUFFICES ASSUME NEW k \in newer(j) PROVE FALSE
    OBVIOUS
  <2>1. k \in shown /\ k \in Nat /\ j \in Nat /\ k > j /\ \A i \in shown : i \in Nat
    BY <1>1, JobsAreFinite
  <2>2. newer(k) \subseteq newer(j) /\ newer(k) # newer(j)
    <3>1. \A i \in shown : i > k => i > j
      BY <2>1
    <3>2. k \notin newer(k)
      BY <2>1
    <3> QED
      BY <3>1, <3>2
  <2>3. newer(k) \in Newer /\ newer(k) \in SUBSET shown /\ newer(j) \in SUBSET shown
    BY <1>1, <2>1
  <2> HIDE DEF newer
  <2>4. <<newer(k), newer(j)>> \in StrictSubsetOrdering(shown)
    BY <2>2, <2>3 DEF StrictSubsetOrdering
  <2> QED
    BY <1>3, <1>4, <2>3, <2>4
<1>6. Cardinality(newer(j)) < Page
  <2>1. Cardinality(newer(j)) = 0
    BY <1>5, FS_EmptySet
  <2>2. Page \in Nat \ {0}
    BY DemoResetAssumption
  <2> QED
    BY <2>1, <2>2
<1> QED
  BY <1>1, <1>4, <1>6 DEF List

(* When no page of a tenant of this run has anything, the index has no row   *)
(* of theirs.                                                                *)
LEMMA NothingListed ==
  ASSUME JobIds = {}
  PROVE  \A j \in Jobs : tenant[j] \in reset.tenants => index[j] = "none"
<1>1. \A t \in reset.tenants : List(t, Page) = {}
  BY DEF JobIds
<1> QED
  BY <1>1, EmptyListing

-----------------------------------------------------------------------------
(* Through a submission that makes no job and starts none.                   *)
LEMMA QuietStarts ==
  ASSUME TypeOK, StartsInv, NEW s \in Submissions, NEW state, Moves(s, state),
         UNCHANGED <<made, wf, keyed>>,
         state.mine = sub[s].mine, state.open \subseteq sub[s].open,
         state.at # "idle",
         state.at = "ok" => state.left = 0 /\ state.open = {},
         \A j \in state.mine : wf[j] # "none" => keyed[j] = state.keyed,
         state.at \in {"submitting", "ok"} =>
           \A j \in state.mine : j \in state.open \/ wf[j] # "none"
  PROVE  StartsInv'
<1>1. sub'[s] = state /\ \A p \in Submissions \ {s} : sub'[p] = sub[p]
  BY MovesEffect
<1>2. OwnJobs' /\ NoneYet'
  BY <1>1 DEF StartsInv, OwnJobs, NoneYet
<1>3. Starts(s)'
  BY <1>1 DEF StartsInv, Starts
<1>4. \A p \in Submissions \ {s} : Starts(p)'
  BY <1>1 DEF StartsInv, Starts
<1> QED
  BY <1>2, <1>3, <1>4 DEF StartsInv

(* A new job is nobody's yet and has no workflow.                            *)
LEMMA PutKeepsStarts ==
  ASSUME TypeOK, StartsInv, NEW s \in Submissions, PutJob(s)
  PROVE  StartsInv'
<1> DEFINE n == made + 1
           state == [sub[s] EXCEPT !.left = @ - 1, !.open = @ \cup {n}, !.mine = @ \cup {n}]
<1>1. /\ sub[s] \in SubStates /\ sub[s].left \in Nat /\ Starts(s)
      /\ sub[s].left > 0 /\ made < MaxJobs /\ made' = n
      /\ Moves(s, state) /\ UNCHANGED <<wf, keyed>>
  BY SubFields DEF PutJob, StartsInv
<1>2. /\ n \in Jobs /\ n \notin 1 .. made /\ n \in 1 .. n
      /\ 1 .. made \subseteq 1 .. n /\ n > made
      /\ \A i \in Jobs : i > n => i > made
  BY <1>1, NextJob, JobsAreFinite
<1> HIDE DEF n
<1>3. /\ state.at = sub[s].at /\ state.keyed = sub[s].keyed
      /\ state.open = sub[s].open \cup {n} /\ state.mine = sub[s].mine \cup {n}
  BY <1>1 DEF SubStates
<1> HIDE DEF state
<1>4. sub'[s] = state /\ \A p \in Submissions \ {s} : sub'[p] = sub[p]
  BY <1>1, MovesEffect
<1>5. wf[n] = "none" /\ \A p \in Submissions : n \notin sub[p].mine
  BY <1>2 DEF StartsInv, NoneYet, Starts
<1>6. OwnJobs'
  BY <1>3, <1>4, <1>5 DEF StartsInv, OwnJobs
<1>7. NoneYet'
  BY <1>1, <1>2 DEF StartsInv, NoneYet
<1>8. Starts(s)'
  <2>1. sub[s].at \notin {"idle", "ok"}
    BY <1>1 DEF Starts
  <2>2. sub'[s].open \subseteq sub'[s].mine /\ sub'[s].mine \subseteq 1 .. made'
    BY <1>1, <1>2, <1>3, <1>4 DEF Starts
  <2>3. \A j \in sub'[s].open : wf'[j] = "none"
    BY <1>1, <1>3, <1>4, <1>5 DEF Starts
  <2>4. \A j \in sub'[s].mine :
          /\ wf'[j] # "none" => keyed'[j] = sub'[s].keyed
          /\ sub'[s].at \in {"submitting", "ok"} => j \in sub'[s].open \/ wf'[j] # "none"
    BY <1>1, <1>3, <1>4, <1>5 DEF Starts
  <2> QED
    BY <1>3, <1>4, <2>1, <2>2, <2>3, <2>4 DEF Starts
<1>9. \A p \in Submissions \ {s} : Starts(p)'
  BY <1>1, <1>2, <1>4 DEF StartsInv, Starts
<1> QED
  BY <1>6, <1>7, <1>8, <1>9 DEF StartsInv

(* A workflow starts under the key of the one submission it belongs to.      *)
LEMMA StartKeepsStarts ==
  ASSUME TypeOK, StartsInv, NEW s \in Submissions, StartWorkflow(s)
  PROVE  StartsInv'
<1>1. PICK n \in sub[s].open :
        /\ wf' = [wf EXCEPT ![n] = "waiting"]
        /\ keyed' = [keyed EXCEPT ![n] = KeyOf(s)]
        /\ Moves(s, [sub[s] EXCEPT !.open = @ \ {n}])
  BY DEF StartWorkflow
<1> DEFINE state == [sub[s] EXCEPT !.open = @ \ {n}]
<1>2. /\ sub[s] \in SubStates /\ Starts(s) /\ UNCHANGED made
      /\ sub[s].open \subseteq Jobs /\ sub[s].mine \subseteq Jobs
  BY SubFields DEF StartWorkflow, StartsInv
<1>3. /\ state.at = sub[s].at /\ state.keyed = sub[s].keyed /\ state.left = sub[s].left
      /\ state.mine = sub[s].mine /\ state.open = sub[s].open \ {n}
  BY <1>2 DEF SubStates
<1>4. Moves(s, state)
  BY <1>1
<1> HIDE DEF state
<1>5. sub'[s] = state /\ \A p \in Submissions \ {s} : sub'[p] = sub[p]
  BY <1>4, MovesEffect
<1>6. \A i \in Jobs : /\ wf'[i] = IF i = n THEN "waiting" ELSE wf[i]
                      /\ keyed'[i] = IF i = n THEN sub[s].keyed ELSE keyed[i]
  BY <1>1, <1>2 DEF TypeOK, KeyOf
<1>7. n \in sub[s].mine /\ n \in Jobs /\ n \in 1 .. made
  BY <1>2 DEF Starts
<1>8. OwnJobs'
  BY <1>3, <1>5 DEF StartsInv, OwnJobs
<1>9. NoneYet'
  <2>1. ~(n > made)
    BY <1>7, NextJob, JobsAreFinite DEF TypeOK
  <2> QED
    BY <1>2, <1>6, <2>1 DEF StartsInv, NoneYet
<1>10. Starts(s)'
  BY <1>2, <1>3, <1>5, <1>6 DEF Starts
<1>11. ASSUME NEW p \in Submissions \ {s} PROVE Starts(p)'
  <2>1. /\ sub'[p] = sub[p] /\ Starts(p) /\ n \notin sub[p].mine /\ sub[p].mine \subseteq Jobs
    BY <1>5, <1>7, <1>11, SubFields DEF StartsInv, OwnJobs
  <2>2. \A j \in sub[p].mine : wf'[j] = wf[j] /\ keyed'[j] = keyed[j]
    BY <1>6, <2>1
  <2> QED
    BY <1>2, <2>1, <2>2 DEF Starts
<1> QED
  BY <1>8, <1>9, <1>10, <1>11 DEF StartsInv

(* The steps of a submission.                                                *)
LEMMA SubmissionKeepsStarts ==
  ASSUME TypeOK, StartsInv, NEW s \in Submissions, Submits(s)
  PROVE  StartsInv'
<1> USE DEF jobVars
<1>a. sub[s] \in SubStates /\ sub[s].left \in Nat /\ Starts(s)
  BY SubFields DEF StartsInv
<1>1. CASE Resolve(s)
  <2>1. PICK t \in Tenants :
          Moves(s, [sub[s] EXCEPT
            !.at = "submitting", !.tenant = t, !.keyed = fairness,
            !.left = Count[s], !.before = List(t, ListLimit)])
    BY <1>1 DEF Resolve
  <2> DEFINE state == [sub[s] EXCEPT
            !.at = "submitting", !.tenant = t, !.keyed = fairness,
            !.left = Count[s], !.before = List(t, ListLimit)]
  <2>2. state.mine = {} /\ state.open = {} /\ state.at = "submitting"
        /\ sub[s].mine = {} /\ sub[s].open = {}
    BY <1>1, <1>a DEF Resolve, Starts, SubStates
  <2>3. Moves(s, state) /\ UNCHANGED <<made, wf, keyed>>
    BY <1>1, <2>1 DEF Resolve
  <2> HIDE DEF state
  <2> QED
    BY <2>2, <2>3, QuietStarts
<1>2. CASE PutJob(s)
  BY <1>2, PutKeepsStarts
<1>3. CASE StartWorkflow(s)
  BY <1>3, StartKeepsStarts
<1>4. CASE Answer(s)
  <2> DEFINE state == [sub[s] EXCEPT !.at = "ok"]
  <2>1. /\ state.mine = sub[s].mine /\ state.open = sub[s].open /\ state.at = "ok"
        /\ state.keyed = sub[s].keyed /\ state.left = sub[s].left
    BY <1>a DEF SubStates
  <2>2. /\ Moves(s, state) /\ UNCHANGED <<made, wf, keyed>>
        /\ sub[s].at = "submitting" /\ sub[s].left = 0 /\ sub[s].open = {}
    BY <1>4 DEF Answer
  <2> HIDE DEF state
  <2> QED
    BY <1>a, <2>1, <2>2, QuietStarts DEF Starts
<1>5. CASE OneFails(s) \/ Crash(s)
  <2>0. UNCHANGED <<made, wf, keyed>>
    BY <1>5 DEF OneFails, Crash
  <2>1. ASSUME NEW state, Moves(s, state), state.at = "failed",
               state.mine = sub[s].mine, state.open \subseteq sub[s].open,
               state.keyed = sub[s].keyed
        PROVE  StartsInv'
    BY <1>a, <2>0, <2>1, QuietStarts DEF Starts
  <2>2. CASE Moves(s, [sub[s] EXCEPT !.at = "failed", !.left = 0, !.open = {}])
    <3> DEFINE all == [sub[s] EXCEPT !.at = "failed", !.left = 0, !.open = {}]
    <3>1. /\ all.at = "failed" /\ all.mine = sub[s].mine /\ all.open = {}
          /\ all.keyed = sub[s].keyed /\ Moves(s, all)
      BY <1>a, <2>2 DEF SubStates
    <3> HIDE DEF all
    <3> QED
      BY <2>1, <3>1
  <2>3. CASE Moves(s, [sub[s] EXCEPT !.at = "failed", !.left = @ - 1])
    <3> DEFINE unmade == [sub[s] EXCEPT !.at = "failed", !.left = @ - 1]
    <3>1. /\ unmade.at = "failed" /\ unmade.mine = sub[s].mine /\ unmade.open = sub[s].open
          /\ unmade.keyed = sub[s].keyed /\ Moves(s, unmade)
      BY <1>a, <2>3 DEF SubStates
    <3> HIDE DEF unmade
    <3> QED
      BY <2>1, <3>1
  <2>4. ASSUME NEW j \in sub[s].open,
               Moves(s, [sub[s] EXCEPT !.at = "failed", !.open = @ \ {j}])
        PROVE  StartsInv'
    <3> DEFINE unstarted == [sub[s] EXCEPT !.at = "failed", !.open = @ \ {j}]
    <3>1. /\ unstarted.at = "failed" /\ unstarted.mine = sub[s].mine
          /\ unstarted.open = sub[s].open \ {j}
          /\ unstarted.keyed = sub[s].keyed /\ Moves(s, unstarted)
      BY <1>a, <2>4 DEF SubStates
    <3> HIDE DEF unstarted
    <3> QED
      BY <2>1, <3>1
  <2> QED
    BY <1>5, <2>2, <2>3, <2>4 DEF OneFails, Crash
<1> QED
  BY <1>1, <1>2, <1>3, <1>4, <1>5 DEF Submits

(* Workers start no workflow anew.                                           *)
LEMMA WorkKeepsStarts ==
  ASSUME TypeOK, StartsInv, NEW n \in Jobs, Works(n)
  PROVE  StartsInv'
<1>1. UNCHANGED <<made, keyed, sub>>
  BY DEF Works, Begin, MarkJobStarted, Close, IndexCatchesUp
<1>2. \A j \in Jobs : wf[j] = "none" <=> wf'[j] = "none"
  BY DEF Works, Begin, MarkJobStarted, Close, IndexCatchesUp, TypeOK
<1>3. OwnJobs' /\ NoneYet'
  BY <1>1, <1>2 DEF StartsInv, OwnJobs, NoneYet
<1>4. ASSUME NEW p \in Submissions PROVE Starts(p)'
  <2>1. /\ Starts(p) /\ sub'[p] = sub[p]
        /\ sub[p].mine \subseteq Jobs /\ sub[p].open \subseteq Jobs
    BY <1>1, SubFields DEF StartsInv
  <2> QED
    BY <1>1, <1>2, <2>1 DEF Starts
<1> QED
  BY <1>3, <1>4 DEF StartsInv

(* What reset.py may hold, field by field. *)
Records == [at : {"idle"} \cup Steps \cup Ends, tenants : SUBSET Tenants,
            plan : SUBSET Jobs, job : Jobs \cup {0}, seen : BOOLEAN]

(* A result row that verify.py leaves has a number of its own.               *)
LEMMA VerifyKeepsTypes ==
  ASSUME TypeOK, StartsInv, VerifyStops
  PROVE  TypeOK' /\ StartsInv' /\ made' \in Jobs
<1> DEFINE n == made + 1
<1>1. /\ made < MaxJobs /\ made' = n /\ UNCHANGED <<wf, keyed, fairness, sub>>
      /\ \E t \in Tenants : tenant' = [tenant EXCEPT ![n] = t]
      /\ WriteRow(n, "running") \/ UNCHANGED <<row, index>>
  BY DEF VerifyStops
<1>2. /\ n \in Jobs /\ n \in 0 .. MaxJobs /\ 1 .. made \subseteq 1 .. n
      /\ \A i \in Jobs : i > n => i > made
  BY <1>1, NextJob, JobsAreFinite, JobIndexAssumption DEF TypeOK
<1> HIDE DEF n
<1>3. tenant' \in [Jobs -> Tenants]
  BY <1>1, <1>2 DEF TypeOK
<1>4. row' \in [Jobs -> RowStates] /\ index' \in [Jobs -> RowStates]
  <2>1. CASE UNCHANGED <<row, index>>
    BY <2>1 DEF TypeOK
  <2>2. CASE WriteRow(n, "running")
    BY <1>2, <2>2, RowEffect DEF RowStates
  <2> QED
    BY <1>1, <2>1, <2>2
<1>5. TypeOK'
  BY <1>1, <1>2, <1>3, <1>4 DEF TypeOK
<1>6. StartsInv'
  BY <1>1, <1>2 DEF StartsInv, OwnJobs, NoneYet, Starts
<1> QED
  BY <1>1, <1>2, <1>5, <1>6

(* A step of somebody else disturbs, and may do what JobIndex lets it.       *)
LEMMA OthersKeep ==
  ASSUME ResetInv,
         \/ \E s \in Submissions : Submission(s)
         \/ \E j \in Jobs : JobEnds(j) \/ JobGoesOn(j)
         \/ VerifyStops \/ Rehearse
  PROVE  ResetInv'
<1> USE DEF ResetInv, ResetTypeOK, Records
<1>0. /\ results \subseteq Jobs /\ memory \subseteq Jobs /\ orphans \subseteq Jobs
      /\ payments \in BOOLEAN /\ armed \in BOOLEAN /\ ramp \in BOOLEAN
      /\ TypeOK /\ StartsInv
  OBVIOUS
<1>1. Others /\ UNCHANGED mockoon
  BY DEF Submission, JobEnds, JobGoesOn, VerifyStops, Rehearse, world
<1>2. /\ Alone' /\ reset' \in Records /\ orphans' \subseteq Jobs
      /\ disturbed' \in BOOLEAN /\ mockoon' \in {"up", "down", "broken"}
  <2>1. /\ Resetting' = Resetting /\ Resetting \in BOOLEAN
        /\ disturbed' = Resetting /\ UNCHANGED <<reset, orphans>>
    BY <1>1 DEF Resetting, Others
  <2>2. Alone'
    BY <2>1 DEF Alone
  <2> QED
    BY <1>1, <2>1, <2>2
<1>3. ASSUME TypeOK', StartsInv', results' \subseteq Jobs, memory' \subseteq Jobs,
             payments' \in BOOLEAN, armed' \in BOOLEAN, ramp' \in BOOLEAN
      PROVE  ResetInv'
  BY <1>2, <1>3
<1>4. ASSUME NEW s \in Submissions, Submission(s) PROVE ResetInv'
  <2>1. Submits(s) /\ UNCHANGED <<results, memory, payments, armed, ramp>>
    BY <1>4 DEF Submission, world
  <2>2. TypeOK' /\ StartsInv'
    <3>1. Numbered(s)
      BY DEF StartsInv, Starts, Numbered
    <3> QED
      BY <2>1, <3>1, SubmissionKeepsTypes, SubmissionKeepsStarts
  <2> QED
    BY <1>0, <1>3, <2>1, <2>2
<1>5. ASSUME NEW j \in Jobs, JobEnds(j) \/ JobGoesOn(j) PROVE ResetInv'
  <2>1. Works(j) /\ UNCHANGED <<results, armed, ramp>>
    BY <1>5 DEF JobEnds, JobGoesOn, Works, world
  <2>2. TypeOK' /\ StartsInv'
    BY <2>1, WorkKeepsTypes, WorkKeepsStarts
  <2>3. memory' \subseteq Jobs
    BY <1>0, <1>5 DEF JobEnds, JobGoesOn, world
  <2>4. payments' \in BOOLEAN
    BY <1>0, <1>5 DEF JobEnds, JobGoesOn, world
  <2> QED
    BY <1>0, <1>3, <2>1, <2>2, <2>3, <2>4
<1>6. CASE VerifyStops
  <2>1. TypeOK' /\ StartsInv' /\ made' \in Jobs
    BY <1>0, <1>6, VerifyKeepsTypes
  <2>2. /\ results' = results \cup {made'}
        /\ UNCHANGED <<memory, payments, armed, ramp>>
    BY <1>6 DEF VerifyStops
  <2> QED
    BY <1>0, <1>3, <2>1, <2>2
<1>7. CASE Rehearse
  <2>1. UNCHANGED <<made, tenant, row, index, wf, keyed, sub, results, memory, payments>>
    BY <1>7 DEF Rehearse, ToggleFairness, vars, jobVars
  <2>2. fairness' \in BOOLEAN
    BY <1>7 DEF Rehearse, ToggleFairness, vars, TypeOK
  <2>3. TypeOK' /\ StartsInv'
    BY <2>1, <2>2 DEF TypeOK, StartsInv, OwnJobs, NoneYet, Starts
  <2>4. armed' \in BOOLEAN /\ ramp' \in BOOLEAN
    BY <1>7 DEF Rehearse
  <2> QED
    BY <1>0, <1>3, <2>1, <2>3, <2>4
<1> QED
  BY <1>4, <1>5, <1>6, <1>7

(* What reset.py does. *)
LEMMA ResetKeeps ==
  ASSUME ResetInv, StartReset \/ ResetStep \/ Raises \/ MockoonChanges
  PROVE  ResetInv'
<1> USE DEF ResetInv, ResetTypeOK, Records
<1>0. /\ reset \in Records /\ reset.plan \subseteq Jobs /\ TypeOK /\ StartsInv /\ Alone
      /\ payments \in BOOLEAN /\ armed \in BOOLEAN /\ ramp \in BOOLEAN
      /\ disturbed \in BOOLEAN /\ memory \subseteq Jobs /\ results \subseteq Jobs
      /\ orphans \subseteq Jobs
  OBVIOUS
<1>1. ASSUME UNCHANGED <<made, tenant, row, index, wf, keyed, sub>>, fairness' \in BOOLEAN
      PROVE  TypeOK' /\ StartsInv'
  BY <1>1 DEF TypeOK, StartsInv, OwnJobs, NoneYet, Starts
<1>2. \A t \in Tenants : List(t, Page) \subseteq Jobs
  BY ListEffect
<1>3. CASE StartReset
  <2>1. PICK listed \in Listings :
          /\ reset' = [at |-> "plan", tenants |-> listed, plan |-> {}, job |-> 0, seen |-> FALSE]
          /\ disturbed' = ~Quiet
          /\ orphans' = {j \in results : row[j] = "none"}
          /\ UNCHANGED <<vars, world>>
    BY <1>3 DEF StartReset
  <2>2. reset' \in Records /\ reset'.at = "plan"
    BY <2>1, DemoResetAssumption DEF Steps
  <2>3. disturbed' \in BOOLEAN
    BY <2>1 DEF Quiet
  <2>4. Alone'
    <3>1. ResultsHaveRows' /\ (~disturbed' => \A j \in Jobs : index[j] = row[j])
      BY <2>1 DEF ResultsHaveRows, Quiet, vars, jobVars, world
    <3> QED
      BY <2>1, <2>2, <3>1 DEF Alone, vars, jobVars
  <2>5. TypeOK' /\ StartsInv'
    BY <1>0, <1>1, <2>1 DEF vars, jobVars, TypeOK
  <2>6. orphans' \subseteq Jobs
    BY <1>0, <2>1
  <2> QED
    BY <2>1, <2>2, <2>3, <2>4, <2>5, <2>6 DEF world
<1>4. CASE MockoonChanges
  <2>1. /\ payments' \in {payments, FALSE} /\ mockoon' \in {"up", "down"}
        /\ UNCHANGED <<vars, results, memory, armed, ramp, reset, disturbed, orphans>>
    BY <1>4 DEF MockoonChanges
  <2>2. payments' \in BOOLEAN
    BY <1>0, <2>1
  <2>3. TypeOK' /\ StartsInv'
    BY <1>0, <1>1, <2>1 DEF vars, jobVars, TypeOK
  <2>4. Alone'
    BY <2>1 DEF Alone, ResultsHaveRows, Resetting, vars, jobVars
  <2> QED
    BY <2>1, <2>2, <2>3, <2>4
<1>5. ASSUME Own, reset' \in Records, TypeOK', StartsInv',
             results' \subseteq Jobs, memory' \subseteq Jobs, payments' \in BOOLEAN,
             armed' \in BOOLEAN, ramp' \in BOOLEAN,
             \A j \in Jobs : (row'[j] = row[j] /\ index'[j] = index[j]) \/ row'[j] = "none",
             reset'.at \in Steps /\ ResultsHaveRows => ResultsHaveRows',
             reset'.at \in {"mockoon", "confirm"} =>
               ~ramp' \/ (reset.at \in {"mockoon", "confirm"} /\ ramp' = ramp)
      PROVE  ResetInv'
  <2>1. Resetting /\ UNCHANGED <<mockoon, disturbed, orphans>>
    BY <1>5 DEF Own
  <2>2. Alone'
    BY <1>0, <1>5, <2>1 DEF Alone, Resetting
  <2> QED
    BY <1>0, <1>5, <2>1, <2>2
<1>6. ASSUME UNCHANGED <<row, results>>, Own, reset.at # "result"
      PROVE  ResultsHaveRows => ResultsHaveRows'
  BY <1>6 DEF ResultsHaveRows, Own
<1>7. ASSUME Reads, reset' \in Records, reset.at # "result" \/ reset'.at \in Ends,
             reset'.at = "confirm" => reset.at = "mockoon", reset'.at # "mockoon"
      PROVE  ResetInv'
  <2>1. Own /\ UNCHANGED <<vars, results, memory, payments, armed, ramp>>
    BY <1>7 DEF Reads
  <2>2. TypeOK' /\ StartsInv'
    BY <1>0, <1>1, <2>1 DEF vars, jobVars, TypeOK
  <2>3. reset'.at \in Steps /\ ResultsHaveRows => ResultsHaveRows'
    <3>1. reset'.at \in Steps => reset.at # "result"
      BY <1>7 DEF Steps, Ends
    <3> QED
      BY <1>6, <2>1, <3>1 DEF vars, jobVars
  <2> QED
    BY <1>0, <1>5, <1>7, <2>1, <2>2, <2>3 DEF vars, jobVars
<1>8. CASE Plan
  <2>1. PICK at \in {"plan", "buckets"} :
          reset' = [reset EXCEPT !.plan = reset.plan \cup JobIds, !.at = at]
    BY <1>8 DEF Plan
  <2>2. JobIds \subseteq Jobs
    BY <1>0, <1>2 DEF JobIds
  <2>3. Reads /\ reset.at = "plan"
    BY <1>8 DEF Plan
  <2>4. reset' \in Records /\ reset'.at = at
    BY <1>0, <2>1, <2>2 DEF Steps
  <2> QED
    BY <1>7, <2>3, <2>4
<1>9. CASE ReadBuckets
  <2>1. /\ Reads /\ reset.at = "buckets"
        /\ reset' = [reset EXCEPT !.seen = (mockoon = "up"), !.at = "rows"]
    BY <1>9 DEF ReadBuckets
  <2>2. reset' \in Records /\ reset'.at = "rows"
    BY <1>0, <2>1 DEF Steps
  <2> QED
    BY <1>7, <2>1, <2>2
<1>10. CASE ListMemory
  <2>1. /\ Reads /\ reset.at = "list"
        /\ reset' = [reset EXCEPT !.plan = Remembered, !.at = "purge"]
    BY <1>10 DEF ListMemory
  <2>2. Remembered \subseteq Jobs
    BY <1>0 DEF Remembered
  <2>3. reset' \in Records /\ reset'.at = "purge"
    BY <1>0, <2>1, <2>2 DEF Steps
  <2> QED
    BY <1>7, <2>1, <2>3
<1>11. CASE Confirm \/ Raises
  <2>1. Reads /\ \E at \in Ends : Exits(at)
    BY <1>11 DEF Confirm, Raises, Ends
  <2>2. PICK at \in Ends : reset' = [reset EXCEPT !.at = at, !.plan = {}, !.job = 0, !.seen = FALSE]
    BY <2>1 DEF Exits
  <2>3. reset' \in Records /\ reset'.at = at
    BY <1>0, <2>2
  <2> QED
    BY <1>7, <2>1, <2>3 DEF Ends
<1>12. CASE DeleteRow
  <2>1. /\ Own /\ reset.at = "rows"
        /\ UNCHANGED <<made, tenant, wf, keyed, fairness, sub>>
        /\ UNCHANGED <<results, memory, payments, armed, ramp>>
    BY <1>12 DEF DeleteRow
  <2>2. ASSUME row' \in [Jobs -> RowStates], index' \in [Jobs -> RowStates]
        PROVE  TypeOK' /\ StartsInv'
    BY <1>0, <2>1, <2>2 DEF TypeOK, StartsInv, OwnJobs, NoneYet, Starts
  <2>3. CASE reset.plan = {} /\ Goes("list") /\ UNCHANGED <<row, index>>
    <3>1. reset' \in Records /\ reset'.at = "list"
      BY <1>0, <2>3 DEF Goes, Steps
    <3>2. TypeOK' /\ StartsInv'
      BY <1>0, <1>1, <2>1, <2>3 DEF TypeOK
    <3> QED
      BY <1>0, <1>5, <1>6, <2>1, <2>3, <3>1, <3>2
  <2>4. ASSUME NEW j \in reset.plan, WriteRow(j, "none"),
               reset' = [reset EXCEPT !.job = j, !.at = "result"]
        PROVE  ResetInv'
    <3>1. j \in Jobs
      BY <1>0
    <3>2. reset' \in Records /\ reset'.at = "result" /\ reset'.job = j
      BY <1>0, <2>4, <3>1 DEF Steps
    <3>3. /\ row' \in [Jobs -> RowStates] /\ index' \in [Jobs -> RowStates]
          /\ \A i \in Jobs : row'[i] = IF i = j THEN "none" ELSE row[i]
      BY <1>0, <2>4, <3>1, RowEffect DEF RowStates
    <3>4. \A i \in Jobs \ {j} : index'[i] = index[i]
      BY <1>0, <2>4, <3>1 DEF WriteRow, TypeOK
    <3>5. \A i \in Jobs : (row'[i] = row[i] /\ index'[i] = index[i]) \/ row'[i] = "none"
      BY <3>3, <3>4
    <3>6. ResultsHaveRows => ResultsHaveRows'
      BY <1>0, <2>1, <3>2, <3>3 DEF ResultsHaveRows, Own
    <3>7. TypeOK' /\ StartsInv'
      BY <2>2, <3>3
    <3> QED
      BY <1>0, <1>5, <2>1, <3>2, <3>5, <3>6, <3>7
  <2> QED
    BY <1>12, <2>3, <2>4 DEF DeleteRow
<1>13. CASE DeleteResult
  <2>1. /\ Own /\ reset.at = "result" /\ results' = results \ {reset.job}
        /\ reset' = [reset EXCEPT !.plan = @ \ {reset.job}, !.job = 0, !.at = "rows"]
        /\ UNCHANGED <<vars, memory, payments, armed, ramp>>
    BY <1>13 DEF DeleteResult
  <2>2. reset' \in Records /\ reset'.at = "rows"
    BY <1>0, <2>1 DEF Steps
  <2>3. ResultsHaveRows => ResultsHaveRows'
    BY <2>1 DEF ResultsHaveRows, Own, vars, jobVars
  <2>4. TypeOK' /\ StartsInv'
    BY <1>0, <1>1, <2>1 DEF vars, jobVars, TypeOK
  <2> QED
    BY <1>0, <1>5, <2>1, <2>2, <2>3, <2>4 DEF vars, jobVars
<1>14. CASE DeleteEvent
  <2>1. Own /\ reset.at = "purge" /\ UNCHANGED <<vars, results, payments, armed, ramp>>
    BY <1>14 DEF DeleteEvent
  <2>2. reset' \in Records /\ reset'.at \in {"purge", "fairness"} /\ memory' \subseteq Jobs
    <3>1. CASE reset.plan = {} /\ Goes("fairness") /\ UNCHANGED memory
      BY <1>0, <3>1 DEF Goes, Steps
    <3>2. ASSUME NEW j \in reset.plan, memory' = memory \ {j},
                 reset' = [reset EXCEPT !.plan = @ \ {j}]
          PROVE  reset' \in Records /\ reset'.at = "purge" /\ memory' \subseteq Jobs
      BY <1>0, <2>1, <3>2
    <3> QED
      BY <1>14, <3>1, <3>2 DEF DeleteEvent
  <2>3. TypeOK' /\ StartsInv'
    BY <1>0, <1>1, <2>1 DEF vars, jobVars, TypeOK
  <2>4. ResultsHaveRows => ResultsHaveRows'
    BY <1>6, <2>1 DEF vars, jobVars
  <2> QED
    BY <1>0, <1>5, <2>1, <2>2, <2>3, <2>4 DEF vars, jobVars
<1>15. CASE RestoreFairness \/ Disarm \/ ClearRamp \/ ClearMockoon
  <2>1. PICK at \in {"disarm", "ramp", "mockoon", "confirm"} :
          /\ Goes(at)
          /\ at = "mockoon" => ~ramp'
          /\ at = "confirm" => reset.at = "mockoon" /\ ramp' = ramp
    BY <1>15 DEF RestoreFairness, Disarm, ClearRamp, ClearMockoon
  <2>2. /\ Own /\ reset.at # "result"
        /\ UNCHANGED <<jobVars, sub, results, memory>>
        /\ fairness' \in BOOLEAN /\ armed' \in BOOLEAN
    BY <1>0, <1>15
       DEF RestoreFairness, Disarm, ClearRamp, ClearMockoon, vars, TypeOK
  <2>3. payments' \in BOOLEAN /\ ramp' \in BOOLEAN
    BY <1>0, <1>15 DEF RestoreFairness, Disarm, ClearRamp, ClearMockoon
  <2>4. reset' \in Records /\ reset'.at = at
    BY <1>0, <2>1 DEF Goes, Steps
  <2>5. TypeOK' /\ StartsInv'
    BY <1>1, <2>2 DEF jobVars
  <2>6. ResultsHaveRows => ResultsHaveRows'
    BY <1>6, <2>2 DEF jobVars
  <2> QED
    BY <1>0, <1>5, <2>1, <2>2, <2>3, <2>4, <2>5, <2>6 DEF jobVars
<1> QED
  BY <1>3, <1>4, <1>8, <1>9, <1>10, <1>11, <1>12, <1>13, <1>14, <1>15 DEF ResetStep

-----------------------------------------------------------------------------
(* The first state. *)
LEMMA DemoInitInv == DemoInit => ResetInv
<1> SUFFICES ASSUME DemoInit PROVE ResetInv
  OBVIOUS
<1>1. TypeOK /\ IndexInv
  BY InitInv DEF DemoInit
<1>2. StartsInv
  BY <1>1 DEF IndexInv, Keeps, RowsFirst, StartsInv, NoneYet, Starts
<1>3. Alone
  BY DEF DemoInit, Alone, Resetting, Steps
<1>4. ResetTypeOK
  BY <1>1 DEF DemoInit, ResetTypeOK
<1> QED
  BY <1>2, <1>3, <1>4 DEF ResetInv

(* Every step. *)
LEMMA DemoNextKeepsInv == ResetInv /\ [DemoNext]_allVars => ResetInv'
<1> SUFFICES ASSUME ResetInv, [DemoNext]_allVars PROVE ResetInv'
  OBVIOUS
<1>1. CASE UNCHANGED allVars
  BY <1>1 DEF allVars, vars, jobVars, demoVars, ResetInv, ResetTypeOK, TypeOK,
              world, ResultsHaveRows, Alone, Resetting, StartsInv, OwnJobs, NoneYet, Starts
<1>2. CASE DemoNext
  BY <1>2, OthersKeep, ResetKeeps DEF DemoNext
<1> QED
  BY <1>1, <1>2

(* Every reachable state is in order. *)
LEMMA ResetInvHolds == DemoSpec => []ResetInv
BY DemoInitInv, DemoNextKeepsInv, PTL DEF DemoSpec

-----------------------------------------------------------------------------
(* Rows, memory, settings and reset.py's own lists are well typed. *)
THEOREM ResetTypes == DemoSpec => []ResetTypeOK
<1>1. ResetInv => ResetTypeOK
  BY DEF ResetInv
<1> QED
  BY <1>1, ResetInvHolds, PTL

(* Exit code 0 means clean (scripts/reset.py:290), however many rows, pages  *)
(* and errors there were, if nobody else was at work: for the tenants of the *)
(* run the job rows, the events, and every result row that still had a job   *)
(* row when the run began; and the four global settings.                     *)
THEOREM ZeroMeansClean == DemoSpec => ExitZeroIsClean
<1>1. ASSUME ResetInv, [DemoNext]_allVars, reset'.at = "exit0", reset.at # "exit0", ~disturbed
      PROVE  Clean'
  <2>0. TypeOK /\ Alone /\ reset \in Records
    BY <1>1 DEF ResetInv, ResetTypeOK, Records
  <2>1. Confirm
    <3>1. /\ \A at : Goes(at) => reset'.at = at
          /\ \A at : Exits(at) => reset'.at = at
      BY <2>0 DEF Goes, Exits, Records
    <3>2. ~UNCHANGED reset
      BY <1>1
    <3>3. DemoNext
      BY <1>1, <3>2 DEF allVars, demoVars
    <3>4. ~(StartReset \/ Raises \/ RestoreFairness \/ Disarm \/ ClearRamp \/ ClearMockoon)
      <4>1. ~StartReset
        BY <1>1 DEF StartReset
      <4>2. ~(Exits("raised") \/ Goes("disarm") \/ Goes("ramp") \/ Goes("mockoon")
              \/ Goes("confirm"))
        BY <1>1, <3>1
      <4> QED
        BY <4>1, <4>2 DEF Raises, RestoreFairness, Disarm, ClearRamp, ClearMockoon
    <3>5. ~(Plan \/ ReadBuckets \/ ListMemory \/ DeleteResult)
      BY <1>1, <2>0 DEF Plan, ReadBuckets, ListMemory, DeleteResult, Records
    <3>6. ~(DeleteRow \/ DeleteEvent)
      BY <1>1, <2>0, <3>1 DEF DeleteRow, DeleteEvent, Records
    <3>7. /\ ~(\E s \in Submissions : Submission(s)) /\ ~VerifyStops /\ ~Rehearse
          /\ ~MockoonChanges /\ ~(\E j \in Jobs : JobEnds(j) \/ JobGoesOn(j))
      BY <3>2 DEF Submission, VerifyStops, Rehearse, MockoonChanges, JobEnds, JobGoesOn, Others
    <3> QED
      BY <3>3, <3>4, <3>5, <3>6, <3>7 DEF DemoNext, ResetStep
  <2>2. /\ JobIds = {} /\ Remembered = {} /\ fairness /\ ~armed /\ ~payments
        /\ reset.at = "confirm" /\ reset'.tenants = reset.tenants /\ UNCHANGED orphans
        /\ UNCHANGED <<vars, results, memory, payments, armed, ramp>>
    <3>1. Exits("exit1") => reset'.at = "exit1"
      BY <2>0 DEF Exits, Records
    <3>2. Exits("exit0") => reset'.tenants = reset.tenants
      BY <2>0 DEF Exits, Records
    <3> QED
      BY <1>1, <2>1, <3>1, <3>2 DEF Confirm, Reads, Own
  <2>3. /\ \A j \in Jobs : row[j] \in {"none", index[j]}
        /\ ResultsHaveRows /\ ~ramp
    BY <1>1, <2>0, <2>2 DEF Alone, Resetting, Steps
  <2>4. ASSUME NEW j \in Jobs, tenant[j] \in reset.tenants
        PROVE  row[j] = "none" /\ j \notin memory /\ j \notin results \ orphans
    <3>1. row[j] = "none"
      BY <2>2, <2>3, <2>4, NothingListed
    <3>2. j \notin memory
      BY <2>2, <2>4 DEF Remembered
    <3> QED
      BY <2>2, <2>3, <3>1, <3>2 DEF ResultsHaveRows
  <2> QED
    BY <2>2, <2>3, <2>4 DEF Clean, vars, jobVars
<1>2. ResetInv /\ [DemoNext]_allVars =>
        [reset'.at = "exit0" /\ reset.at # "exit0" /\ ~disturbed => Clean']_allVars
  BY <1>1
<1> QED
  BY <1>2, ResetInvHolds, PTL DEF DemoSpec, ExitZeroIsClean

(* A deleted row is never made again, by a job that runs on either           *)
(* (app/registry/repository.py:206).                                         *)
THEOREM DeletedRowsStayAway == DemoSpec => DeletedStaysDeleted
<1>1. ASSUME ResetInv, [DemoNext]_allVars, NEW j \in 1 .. made, row[j] = "none"
      PROVE  row'[j] = "none"
  <2>0. TypeOK /\ j \in Jobs /\ j # made + 1
    <3>1. TypeOK
      BY <1>1 DEF ResetInv, ResetTypeOK
    <3>2. made \in Nat /\ made <= MaxJobs
      BY <3>1, JobIndexAssumption DEF TypeOK
    <3> QED
      BY <1>1, <3>1, <3>2, JobIndexAssumption DEF Jobs
  <2>1. CASE UNCHANGED row
    BY <1>1, <2>1
  <2>2. CASE \E s \in Submissions : PutJob(s)
    BY <1>1, <2>0, <2>2 DEF PutJob, WriteRow, TypeOK
  <2>3. CASE \E i \in Jobs : MarkJobStarted(i)
    BY <1>1, <2>0, <2>3 DEF MarkJobStarted, WriteRow, TypeOK
  <2>4. CASE DeleteRow
    BY <1>1, <2>0, <2>4 DEF DeleteRow, WriteRow, TypeOK
  <2>5. CASE VerifyStops
    BY <1>1, <2>0, <2>5 DEF VerifyStops, WriteRow, TypeOK
  <2> QED
    BY <1>1, <2>1, <2>2, <2>3, <2>4, <2>5
       DEF DemoNext, allVars, vars, jobVars, Submission, Submits, Resolve, StartWorkflow,
           Answer, OneFails, Crash, JobEnds, Close, JobGoesOn, Begin, IndexCatchesUp,
           Rehearse, ToggleFairness, MockoonChanges, StartReset, ResetStep, Plan,
           Reads, ReadBuckets, DeleteResult, ListMemory, DeleteEvent, RestoreFairness, Disarm, ClearRamp, ClearMockoon,
           Confirm, Raises
<1>2. ResetInv /\ [DemoNext]_allVars =>
        [\A j \in 1 .. made : row[j] = "none" => row'[j] = "none"]_allVars
  BY <1>1
<1> QED
  BY <1>2, ResetInvHolds, PTL DEF DemoSpec, DeletedStaysDeleted

(* Reset deletes rows under submissions that are still being made, and turns *)
(* the fairness toggle back on: a submission answered with success has all   *)
(* its workflows nevertheless (app/demo.py:92, app/sessions.py:43) ...       *)
THEOREM ResetCostsNoWorkflow == DemoSpec => []AckMeansStarted
<1>1. ASSUME TypeOK, StartsInv, NEW s \in Submissions, sub[s].at = "ok"
      PROVE  Cardinality({j \in sub[s].mine : wf[j] # "none"}) = Count[s]
  BY <1>1, NothingLeftToStart DEF StartsInv, Starts
<1>2. ResetInv => AckMeansStarted
  BY <1>1 DEF ResetInv, ResetTypeOK, AckMeansStarted
<1> QED
  BY <1>2, ResetInvHolds, PTL

(* ... and a flood's jobs still compete under one fairness key               *)
(* (app/demo.py:51).                                                         *)
THEOREM ResetKeepsOneKey == DemoSpec => []FloodIsUniform
<1>1. ResetInv => FloodIsUniform
  BY DEF ResetInv, StartsInv, Starts, FloodIsUniform
<1> QED
  BY <1>1, ResetInvHolds, PTL
=============================================================================
