--------------------------- MODULE JobIndexProofs ---------------------------
(* Theorems about JobIndex, for every number of tenants, submissions, jobs   *)
(* and rows in a listing, with or without faults and a lagging index.        *)
EXTENDS JobIndex, FiniteSetTheorems, TLAPS

(* The invariant.  What a submission has made is its own, in its tenant,     *)
(* under the key it resolved, newer than what it listed at first, and        *)
(* started unless it is still to be.                                         *)
Keeps(s) ==
  /\ sub[s].open \subseteq sub[s].mine
  /\ sub[s].mine \cup sub[s].before \subseteq 1 .. made
  /\ sub[s].at = "idle" => sub[s].left = 0 /\ sub[s].mine = {}
  /\ sub[s].at = "ok" => sub[s].left = 0 /\ sub[s].open = {}
  /\ \A j \in sub[s].open : wf[j] = "none" /\ row[j] = "queued"
  /\ \A j \in sub[s].mine : wf[j] # "none" => keyed[j] = sub[s].keyed
  /\ \A j \in sub[s].mine \cup sub[s].before :
       tenant[j] = sub[s].tenant /\ row[j] # "none"
  /\ \A i \in sub[s].before, j \in sub[s].mine : i < j
  /\ sub[s].at \in {"submitting", "ok"} =>
       \A j \in sub[s].mine : j \in sub[s].open \/ wf[j] # "none"

(* The part of it that the counting in TypeOK needs. *)
Numbered(s) ==
  /\ sub[s].mine \subseteq 1 .. made
  /\ sub[s].at = "idle" => sub[s].left = 0 /\ sub[s].mine = {}

OwnJobs ==
  \A s, p \in Submissions : s # p => sub[s].mine \cap sub[p].mine = {}

RowsFirst ==
  \A j \in Jobs :
    /\ index[j] # "none" => row[j] # "none"
    /\ wf[j] = "waiting" => row[j] = "queued"
    /\ j > made => row[j] = "none" /\ wf[j] = "none"

IndexInv == OwnJobs /\ RowsFirst /\ \A s \in Submissions : Keeps(s)

-----------------------------------------------------------------------------
(* There are finitely many jobs, and they are numbers. *)
LEMMA JobsAreFinite ==
  /\ IsFiniteSet(Jobs) /\ Jobs \subseteq Nat
  /\ \A S \in SUBSET Jobs : IsFiniteSet(S) /\ Cardinality(S) \in Nat
<1>1. IsFiniteSet(Jobs) /\ Jobs \subseteq Nat
  BY FS_Interval, JobIndexAssumption DEF Jobs
<1> QED
  BY <1>1, FS_Subset, FS_CardinalityType

(* A submission's record and its fields. *)
LEMMA SubFields ==
  ASSUME TypeOK, NEW s \in Submissions
  PROVE  /\ sub[s] \in SubStates
         /\ sub[s].at \in {"idle", "submitting", "ok", "failed"}
         /\ sub[s].tenant \in Tenants /\ sub[s].keyed \in BOOLEAN
         /\ sub[s].left \in Nat
         /\ sub[s].open \subseteq Jobs /\ sub[s].mine \subseteq Jobs
         /\ sub[s].before \subseteq Jobs
<1>1. sub[s] \in SubStates
  BY DEF TypeOK
<1> QED
  BY <1>1 DEF SubStates

(* A step of one submission leaves the others where they are. *)
LEMMA MovesEffect ==
  ASSUME TypeOK, NEW s \in Submissions, NEW state, Moves(s, state)
  PROVE  sub'[s] = state /\ \A p \in Submissions \ {s} : sub'[p] = sub[p]
BY DEF TypeOK, Moves

(* A listing shows rows of the tenant that the index has. *)
LEMMA ListEffect ==
  ASSUME NEW t, NEW limit
  PROVE  \A j \in List(t, limit) : j \in Jobs /\ index[j] # "none" /\ tenant[j] = t
BY DEF List

(* The next number is the number of no job yet. *)
LEMMA NextJob ==
  ASSUME TypeOK, made < MaxJobs
  PROVE  /\ made + 1 \in Jobs /\ made \in Nat
         /\ made + 1 \notin 1 .. made /\ 1 .. made \subseteq 1 .. (made + 1)
         /\ 1 .. made \subseteq Jobs
BY JobIndexAssumption DEF TypeOK, Jobs

(* Writing a row, with an index that follows at once or later. *)
LEMMA RowEffect ==
  ASSUME TypeOK, NEW j \in Jobs, NEW state \in RowStates, WriteRow(j, state)
  PROVE  /\ row' \in [Jobs -> RowStates] /\ index' \in [Jobs -> RowStates]
         /\ \A i \in Jobs : row'[i] = IF i = j THEN state ELSE row[i]
         /\ \A i \in Jobs : index'[i] = index[i] \/ (i = j /\ index'[i] = state)
BY DEF TypeOK, WriteRow

-----------------------------------------------------------------------------
(* TypeOK counts: every job asked for is made or still to be made.           *)
LEMMA SubmissionKeepsTypes ==
  ASSUME TypeOK, NEW s \in Submissions, Numbered(s), Submits(s)
  PROVE  TypeOK'
<1> USE DEF jobVars
<1>a. /\ sub[s] \in SubStates
      /\ sub[s].at \in {"idle", "submitting", "ok", "failed"}
      /\ sub[s].tenant \in Tenants /\ sub[s].keyed \in BOOLEAN
      /\ sub[s].left \in Nat
      /\ sub[s].open \subseteq Jobs /\ sub[s].mine \subseteq Jobs
      /\ sub[s].before \subseteq Jobs
  BY SubFields
<1>b. Count[s] \in Nat
  BY JobIndexAssumption
<1>c. sub[s].at \in {"submitting", "ok"} =>
        Cardinality(sub[s].mine) + sub[s].left = Count[s]
  BY DEF TypeOK
<1>1. ASSUME NEW state \in SubStates, Moves(s, state),
             state.at \in {"submitting", "ok"} =>
               Cardinality(state.mine) + state.left = Count[s]
      PROVE  /\ sub' \in [Submissions -> SubStates]
             /\ \A p \in Submissions :
                  sub'[p].at \in {"submitting", "ok"} =>
                    Cardinality(sub'[p].mine) + sub'[p].left = Count[p]
  <2>1. sub' \in [Submissions -> SubStates]
    BY <1>1 DEF Moves, TypeOK
  <2>2. sub'[s] = state /\ \A p \in Submissions \ {s} : sub'[p] = sub[p]
    BY <1>1, MovesEffect
  <2>3. \A p \in Submissions : sub[p].at \in {"submitting", "ok"} =>
          Cardinality(sub[p].mine) + sub[p].left = Count[p]
    BY DEF TypeOK
  <2> QED
    BY <1>1, <2>1, <2>2, <2>3
<1>2. CASE Resolve(s)
  <2>1. PICK t \in Tenants :
          Moves(s, [sub[s] EXCEPT
            !.at = "submitting", !.tenant = t, !.keyed = fairness,
            !.left = Count[s], !.before = List(t, ListLimit)])
    BY <1>2 DEF Resolve
  <2> DEFINE state == [sub[s] EXCEPT
            !.at = "submitting", !.tenant = t, !.keyed = fairness,
            !.left = Count[s], !.before = List(t, ListLimit)]
  <2>2. fairness \in BOOLEAN /\ List(t, ListLimit) \subseteq Jobs
    BY ListEffect DEF TypeOK
  <2>3. state \in SubStates /\ state.mine = sub[s].mine /\ state.left = Count[s]
    BY <1>a, <1>b, <2>2 DEF SubStates
  <2>4. Cardinality(state.mine) + state.left = Count[s]
    <3>1. sub[s].mine = {}
      BY <1>2 DEF Resolve, Numbered
    <3> QED
      BY <1>b, <2>3, <3>1, FS_EmptySet
  <2>5. Moves(s, state)
    BY <2>1
  <2> HIDE DEF state
  <2> QED
    BY <1>1, <1>2, <2>3, <2>4, <2>5 DEF Resolve, TypeOK
<1>3. CASE PutJob(s)
  <2> DEFINE j == made + 1
             state == [sub[s] EXCEPT !.left = @ - 1, !.open = @ \cup {j}, !.mine = @ \cup {j}]
  <2>1. /\ sub[s].left > 0 /\ made < MaxJobs /\ made' = j
        /\ tenant' = [tenant EXCEPT ![j] = sub[s].tenant]
        /\ WriteRow(j, "queued") /\ Moves(s, state)
        /\ UNCHANGED <<wf, keyed, fairness>>
    BY <1>3 DEF PutJob
  <2>2. j \in Jobs /\ j \notin sub[s].mine /\ made' \in 0 .. MaxJobs
    <3>1. sub[s].mine \subseteq 1 .. made
      BY DEF Numbered
    <3> QED
      BY <2>1, <3>1, NextJob, JobIndexAssumption DEF TypeOK
  <2>8. sub[s].left - 1 \in Nat
    BY <1>a, <2>1
  <2> HIDE DEF j
  <2>3. /\ state \in SubStates /\ state.mine = sub[s].mine \cup {j}
        /\ state.left = sub[s].left - 1 /\ state.at = sub[s].at
    BY <1>a, <2>2, <2>8 DEF SubStates
  <2>4. Cardinality(state.mine) = Cardinality(sub[s].mine) + 1
    BY <1>a, <2>2, <2>3, JobsAreFinite, FS_AddElement
  <2>5. state.at \in {"submitting", "ok"} =>
          Cardinality(state.mine) + state.left = Count[s]
    BY <1>a, <1>c, <2>3, <2>4, JobsAreFinite
  <2> HIDE DEF state
  <2>6. row' \in [Jobs -> RowStates] /\ index' \in [Jobs -> RowStates]
    BY <2>1, <2>2, RowEffect DEF RowStates
  <2>7. tenant' \in [Jobs -> Tenants]
    BY <1>a, <2>1, <2>2 DEF TypeOK
  <2> QED
    BY <1>1, <2>1, <2>2, <2>3, <2>5, <2>6, <2>7 DEF TypeOK
<1>4. CASE StartWorkflow(s)
  <2>1. PICK j \in sub[s].open :
          /\ wf' = [wf EXCEPT ![j] = "waiting"]
          /\ keyed' = [keyed EXCEPT ![j] = KeyOf(s)]
          /\ Moves(s, [sub[s] EXCEPT !.open = @ \ {j}])
    BY <1>4 DEF StartWorkflow
  <2> DEFINE state == [sub[s] EXCEPT !.open = @ \ {j}]
  <2>2. /\ state \in SubStates /\ state.mine = sub[s].mine
        /\ state.left = sub[s].left /\ state.at = sub[s].at
    BY <1>a DEF SubStates
  <2>3. Moves(s, state)
    BY <2>1
  <2> HIDE DEF state
  <2>4. wf' \in [Jobs -> WorkflowStates]
    BY <1>a, <2>1 DEF TypeOK, WorkflowStates
  <2>5. keyed' \in [Jobs -> BOOLEAN]
    BY <1>a, <2>1 DEF TypeOK, KeyOf
  <2>6. UNCHANGED <<made, tenant, row, index, fairness>>
    BY <1>4 DEF StartWorkflow
  <2> QED
    BY <1>1, <1>c, <2>2, <2>3, <2>4, <2>5, <2>6 DEF TypeOK
<1>5. CASE Answer(s)
  <2> DEFINE state == [sub[s] EXCEPT !.at = "ok"]
  <2>1. /\ state \in SubStates /\ state.mine = sub[s].mine /\ state.left = sub[s].left
    BY <1>a DEF SubStates
  <2>2. Moves(s, state) /\ sub[s].at = "submitting" /\ UNCHANGED <<jobVars, fairness>>
    BY <1>5 DEF Answer
  <2> HIDE DEF state
  <2> QED
    BY <1>1, <1>c, <2>1, <2>2 DEF TypeOK
<1>6. CASE OneFails(s) \/ Crash(s)
  <2>1. PICK left \in Nat, open \in SUBSET Jobs :
          Moves(s, [sub[s] EXCEPT !.at = "failed", !.left = left, !.open = open])
    <3>1. ASSUME NEW left \in Nat, NEW open \in SUBSET Jobs
          PROVE  /\ [sub[s] EXCEPT !.at = "failed", !.left = left]
                    = [sub[s] EXCEPT !.at = "failed", !.left = left, !.open = sub[s].open]
                 /\ [sub[s] EXCEPT !.at = "failed", !.open = open]
                    = [sub[s] EXCEPT !.at = "failed", !.left = sub[s].left, !.open = open]
      BY <1>a DEF SubStates
    <3>2. CASE Crash(s)
      BY <3>2 DEF Crash
    <3>3. CASE sub[s].left > 0 /\ Moves(s, [sub[s] EXCEPT !.at = "failed", !.left = @ - 1])
      <4>1. sub[s].left - 1 \in Nat
        BY <1>a, <3>3
      <4>2. [sub[s] EXCEPT !.at = "failed", !.left = @ - 1]
            = [sub[s] EXCEPT !.at = "failed", !.left = sub[s].left - 1, !.open = sub[s].open]
        BY <3>1, <4>1
      <4> QED
        BY <1>a, <3>3, <4>1, <4>2
    <3>4. CASE Moves(s, [sub[s] EXCEPT !.at = "failed", !.left = 0, !.open = {}])
      BY <3>4
    <3>5. CASE \E j \in sub[s].open :
                 Moves(s, [sub[s] EXCEPT !.at = "failed", !.open = @ \ {j}])
      BY <1>a, <3>1, <3>5
    <3> QED
      BY <1>6, <3>2, <3>3, <3>4, <3>5 DEF OneFails
  <2> DEFINE state == [sub[s] EXCEPT !.at = "failed", !.left = left, !.open = open]
  <2>2. state \in SubStates /\ state.at = "failed"
    BY <1>a DEF SubStates
  <2>3. Moves(s, state) /\ UNCHANGED <<jobVars, fairness>>
    BY <1>6, <2>1 DEF OneFails, Crash
  <2> HIDE DEF state
  <2> QED
    BY <1>1, <2>2, <2>3 DEF TypeOK
<1> QED
  BY <1>2, <1>3, <1>4, <1>5, <1>6 DEF Submits

(* What the workers and the index do is typed, too. *)
LEMMA WorkKeepsTypes ==
  ASSUME TypeOK, NEW j \in Jobs, Works(j)
  PROVE  TypeOK'
<1>1. CASE Begin(j)
  BY <1>1 DEF Begin, TypeOK, WorkflowStates
<1>2. CASE MarkJobStarted(j)
  <2>1. row' \in [Jobs -> RowStates] /\ index' \in [Jobs -> RowStates]
    <3>1. CASE WriteRow(j, "running")
      BY <3>1, RowEffect DEF RowStates
    <3>2. CASE UNCHANGED <<row, index>>
      BY <3>2 DEF TypeOK
    <3> QED
      BY <1>2, <3>1, <3>2 DEF MarkJobStarted
  <2> QED
    BY <1>2, <2>1 DEF MarkJobStarted, TypeOK, WorkflowStates
<1>3. CASE Close(j)
  BY <1>3 DEF Close, TypeOK, WorkflowStates
<1>4. CASE IndexCatchesUp(j)
  BY <1>4 DEF IndexCatchesUp, TypeOK
<1> QED
  BY <1>1, <1>2, <1>3, <1>4 DEF Works

-----------------------------------------------------------------------------
(* The invariant, through a submission that makes no job and starts none.    *)
LEMMA QuietMove ==
  ASSUME TypeOK, IndexInv, NEW s \in Submissions, NEW state, Moves(s, state),
         UNCHANGED jobVars,
         state.mine = sub[s].mine, state.open \subseteq sub[s].open,
         state.at = "idle" => state.left = 0 /\ state.mine = {},
         state.at = "ok" => state.left = 0 /\ state.open = {},
         \A j \in state.mine : wf[j] # "none" => keyed[j] = state.keyed,
         \A j \in state.mine \cup state.before :
           tenant[j] = state.tenant /\ row[j] # "none" /\ j \in 1 .. made,
         \A i \in state.before, j \in state.mine : i < j,
         state.at \in {"submitting", "ok"} =>
           \A j \in state.mine : j \in state.open \/ wf[j] # "none"
  PROVE  IndexInv'
<1> USE DEF jobVars
<1>1. sub'[s] = state /\ \A p \in Submissions \ {s} : sub'[p] = sub[p]
  BY MovesEffect
<1>2. \A p \in Submissions : sub'[p].mine = sub[p].mine
  BY <1>1
<1>3. OwnJobs'
  BY <1>2 DEF IndexInv, OwnJobs
<1>4. RowsFirst'
  BY DEF IndexInv, RowsFirst
<1>5. Keeps(s)'
  BY <1>1 DEF IndexInv, Keeps
<1>6. \A p \in Submissions \ {s} : Keeps(p)'
  BY <1>1 DEF IndexInv, Keeps
<1> QED
  BY <1>3, <1>4, <1>5, <1>6 DEF IndexInv

(* A new job is nobody's yet, and newer than all.                            *)
LEMMA PutKeepsInv ==
  ASSUME TypeOK, IndexInv, NEW s \in Submissions, PutJob(s)
  PROVE  IndexInv'
<1> DEFINE n == made + 1
           state == [sub[s] EXCEPT !.left = @ - 1, !.open = @ \cup {n}, !.mine = @ \cup {n}]
<1>a. /\ sub[s] \in SubStates /\ sub[s].left \in Nat
      /\ sub[s].open \subseteq Jobs /\ sub[s].mine \subseteq Jobs
      /\ sub[s].before \subseteq Jobs
  BY SubFields
<1>1. /\ sub[s].left > 0 /\ made < MaxJobs /\ made' = n
      /\ tenant' = [tenant EXCEPT ![n] = sub[s].tenant]
      /\ WriteRow(n, "queued") /\ Moves(s, state)
      /\ UNCHANGED <<wf, keyed>>
  BY DEF PutJob
<1>2. /\ n \in Jobs /\ made \in Nat /\ n \notin 1 .. made
      /\ 1 .. made \subseteq 1 .. n /\ n \in 1 .. n /\ 1 .. made \subseteq Jobs
      /\ \A i \in 1 .. made : i < n
      /\ \A i \in Jobs : i > n => i > made /\ i # n
      /\ n > made
  BY <1>1, NextJob, JobsAreFinite
<1> HIDE DEF n
<1>3. /\ state.at = sub[s].at /\ state.tenant = sub[s].tenant
      /\ state.keyed = sub[s].keyed /\ state.before = sub[s].before
      /\ state.open = sub[s].open \cup {n} /\ state.mine = sub[s].mine \cup {n}
  BY <1>a DEF SubStates
<1> HIDE DEF state
<1>4. sub'[s] = state /\ \A p \in Submissions \ {s} : sub'[p] = sub[p]
  BY <1>1, MovesEffect
<1>5. /\ \A i \in Jobs : row'[i] = IF i = n THEN "queued" ELSE row[i]
      /\ \A i \in Jobs : index'[i] = index[i] \/ (i = n /\ index'[i] = "queued")
  BY <1>1, <1>2, RowEffect DEF RowStates
<1>6. \A i \in Jobs : tenant'[i] = IF i = n THEN sub[s].tenant ELSE tenant[i]
  BY <1>1, <1>2 DEF TypeOK
<1>7. row[n] = "none" /\ wf[n] = "none"
  BY <1>2 DEF IndexInv, RowsFirst
<1>8. \A p \in Submissions : Keeps(p)
  BY DEF IndexInv
<1>9. \A p \in Submissions : n \notin sub[p].mine \cup sub[p].before
  BY <1>2, <1>8 DEF Keeps
<1>10. OwnJobs'
  BY <1>3, <1>4, <1>9 DEF IndexInv, OwnJobs
<1>11. RowsFirst'
  <2> SUFFICES ASSUME NEW j \in Jobs
               PROVE  /\ index'[j] # "none" => row'[j] # "none"
                      /\ wf'[j] = "waiting" => row'[j] = "queued"
                      /\ j > made' => row'[j] = "none" /\ wf'[j] = "none"
    BY DEF RowsFirst
  <2>1. /\ index[j] # "none" => row[j] # "none"
        /\ wf[j] = "waiting" => row[j] = "queued"
        /\ j > made => row[j] = "none" /\ wf[j] = "none"
    BY DEF IndexInv, RowsFirst
  <2> QED
    BY <1>1, <1>2, <1>5, <1>7, <2>1
<1>12. Keeps(s)'
  <2>1. Keeps(s)
    BY <1>8
  <2>2. sub'[s].open \subseteq sub'[s].mine
        /\ sub'[s].mine \cup sub'[s].before \subseteq 1 .. made'
    BY <1>1, <1>2, <1>3, <1>4, <2>1 DEF Keeps
  <2>3. sub[s].at \notin {"idle", "ok"}
    BY <1>1, <2>1 DEF Keeps
  <2>4. \A j \in sub'[s].open : wf'[j] = "none" /\ row'[j] = "queued"
    BY <1>a, <1>1, <1>2, <1>3, <1>4, <1>5, <1>7, <2>1 DEF Keeps
  <2>5. \A j \in sub'[s].mine : wf'[j] # "none" => keyed'[j] = sub'[s].keyed
    BY <1>1, <1>3, <1>4, <1>7, <2>1 DEF Keeps
  <2>6. \A j \in sub'[s].mine \cup sub'[s].before :
          tenant'[j] = sub'[s].tenant /\ row'[j] # "none"
    BY <1>a, <1>2, <1>3, <1>4, <1>5, <1>6, <2>1 DEF Keeps
  <2>7. \A i \in sub'[s].before, j \in sub'[s].mine : i < j
    BY <1>2, <1>3, <1>4, <2>1 DEF Keeps
  <2>8. \A j \in sub'[s].mine : sub'[s].at \in {"submitting", "ok"} =>
          j \in sub'[s].open \/ wf'[j] # "none"
    BY <1>1, <1>3, <1>4, <2>1 DEF Keeps
  <2> QED
    BY <1>3, <1>4, <2>2, <2>3, <2>4, <2>5, <2>6, <2>7, <2>8 DEF Keeps
<1>13. ASSUME NEW p \in Submissions \ {s} PROVE Keeps(p)'
  <2>1. /\ sub'[p] = sub[p] /\ Keeps(p)
        /\ sub[p].mine \subseteq Jobs /\ sub[p].before \subseteq Jobs /\ sub[p].open \subseteq Jobs
    BY <1>4, <1>8, <1>13, SubFields
  <2>2. \A j \in sub[p].mine \cup sub[p].before : tenant'[j] = tenant[j] /\ row'[j] = row[j]
    BY <1>5, <1>6, <1>9, <2>1
  <2>3. \A j \in sub[p].open : row'[j] = row[j]
    BY <2>1, <2>2 DEF Keeps
  <2> QED
    BY <1>1, <1>2, <2>1, <2>2, <2>3 DEF Keeps
<1> QED
  BY <1>10, <1>11, <1>12, <1>13 DEF IndexInv

(* A workflow starts under the key of the one submission it belongs to.      *)
LEMMA StartKeepsInv ==
  ASSUME TypeOK, IndexInv, NEW s \in Submissions, StartWorkflow(s)
  PROVE  IndexInv'
<1>a. /\ sub[s] \in SubStates
      /\ sub[s].open \subseteq Jobs /\ sub[s].mine \subseteq Jobs
  BY SubFields
<1>1. PICK n \in sub[s].open :
        /\ wf' = [wf EXCEPT ![n] = "waiting"]
        /\ keyed' = [keyed EXCEPT ![n] = KeyOf(s)]
        /\ Moves(s, [sub[s] EXCEPT !.open = @ \ {n}])
  BY DEF StartWorkflow
<1> DEFINE state == [sub[s] EXCEPT !.open = @ \ {n}]
<1>2. /\ state.at = sub[s].at /\ state.tenant = sub[s].tenant
      /\ state.keyed = sub[s].keyed /\ state.before = sub[s].before
      /\ state.left = sub[s].left /\ state.mine = sub[s].mine
      /\ state.open = sub[s].open \ {n}
  BY <1>a DEF SubStates
<1>3. Moves(s, state)
  BY <1>1
<1> HIDE DEF state
<1>4. sub'[s] = state /\ \A p \in Submissions \ {s} : sub'[p] = sub[p]
  BY <1>3, MovesEffect
<1>5. UNCHANGED <<made, tenant, row, index>>
  BY DEF StartWorkflow
<1>6. \A i \in Jobs : /\ wf'[i] = IF i = n THEN "waiting" ELSE wf[i]
                      /\ keyed'[i] = IF i = n THEN sub[s].keyed ELSE keyed[i]
  BY <1>a, <1>1 DEF TypeOK, KeyOf
<1>7. \A p \in Submissions : Keeps(p)
  BY DEF IndexInv
<1>8. n \in sub[s].mine /\ row[n] = "queued" /\ n \in Jobs /\ n \in 1 .. made
  BY <1>a, <1>7 DEF Keeps
<1>9. OwnJobs'
  BY <1>2, <1>4 DEF IndexInv, OwnJobs
<1>10. RowsFirst'
  <2>1. ~(n > made)
    BY <1>8, NextJob, JobsAreFinite DEF TypeOK
  <2> QED
    BY <1>5, <1>6, <1>8, <2>1 DEF IndexInv, RowsFirst
<1>11. Keeps(s)'
  BY <1>a, <1>2, <1>4, <1>5, <1>6, <1>7 DEF Keeps
<1>12. ASSUME NEW p \in Submissions \ {s} PROVE Keeps(p)'
  <2>1. /\ sub'[p] = sub[p] /\ Keeps(p) /\ n \notin sub[p].mine
        /\ sub[p].mine \subseteq Jobs /\ sub[p].open \subseteq Jobs
    BY <1>4, <1>7, <1>8, <1>12, SubFields DEF IndexInv, OwnJobs
  <2>2. \A j \in sub[p].mine : wf'[j] = wf[j] /\ keyed'[j] = keyed[j]
    BY <1>6, <2>1
  <2>3. \A j \in sub[p].open : wf'[j] = wf[j]
    BY <2>1, <2>2 DEF Keeps
  <2> QED
    BY <1>5, <2>1, <2>2, <2>3 DEF Keeps
<1> QED
  BY <1>9, <1>10, <1>11, <1>12 DEF IndexInv

(* The other steps of a submission.                                          *)
LEMMA SubmissionKeepsInv ==
  ASSUME TypeOK, IndexInv, NEW s \in Submissions, Submits(s)
  PROVE  IndexInv'
<1> USE DEF jobVars
<1>a. /\ sub[s] \in SubStates /\ sub[s].left \in Nat
      /\ sub[s].open \subseteq Jobs /\ sub[s].mine \subseteq Jobs
  BY SubFields
<1>b. Keeps(s)
  BY DEF IndexInv
<1>1. CASE Resolve(s)
  <2>1. PICK t \in Tenants :
          Moves(s, [sub[s] EXCEPT
            !.at = "submitting", !.tenant = t, !.keyed = fairness,
            !.left = Count[s], !.before = List(t, ListLimit)])
    BY <1>1 DEF Resolve
  <2> DEFINE state == [sub[s] EXCEPT
            !.at = "submitting", !.tenant = t, !.keyed = fairness,
            !.left = Count[s], !.before = List(t, ListLimit)]
  <2>2. sub[s].mine = {} /\ sub[s].open = {}
    BY <1>1, <1>b DEF Resolve, Keeps
  <2>3. /\ state.mine = {} /\ state.open = {} /\ state.at = "submitting"
        /\ state.tenant = t /\ state.before = List(t, ListLimit)
    BY <1>a, <2>2 DEF SubStates
  <2>4. Moves(s, state) /\ UNCHANGED jobVars
    BY <1>1, <2>1 DEF Resolve
  <2> HIDE DEF state
  <2>5. \A j \in state.before : tenant[j] = t /\ row[j] # "none" /\ j \in 1 .. made
    <3> SUFFICES ASSUME NEW j \in state.before
                 PROVE  tenant[j] = t /\ row[j] # "none" /\ j \in 1 .. made
      OBVIOUS
    <3>1. j \in Jobs /\ index[j] # "none" /\ tenant[j] = t
      BY <2>3, ListEffect
    <3>2. row[j] # "none" /\ ~(j > made)
      BY <3>1 DEF IndexInv, RowsFirst
    <3> QED
      BY <3>1, <3>2, JobsAreFinite DEF Jobs, TypeOK
  <2> QED
    BY <2>2, <2>3, <2>4, <2>5, QuietMove
<1>2. CASE PutJob(s)
  BY <1>2, PutKeepsInv
<1>3. CASE StartWorkflow(s)
  BY <1>3, StartKeepsInv
<1>4. CASE Answer(s)
  <2> DEFINE state == [sub[s] EXCEPT !.at = "ok"]
  <2>1. /\ state.mine = sub[s].mine /\ state.open = sub[s].open /\ state.at = "ok"
        /\ state.tenant = sub[s].tenant /\ state.before = sub[s].before
        /\ state.keyed = sub[s].keyed /\ state.left = sub[s].left
    BY <1>a DEF SubStates
  <2>2. /\ Moves(s, state) /\ UNCHANGED jobVars
        /\ sub[s].at = "submitting" /\ sub[s].left = 0 /\ sub[s].open = {}
    BY <1>4 DEF Answer
  <2> HIDE DEF state
  <2> QED
    BY <1>b, <2>1, <2>2, QuietMove DEF Keeps
<1>5. CASE OneFails(s) \/ Crash(s)
  <2> DEFINE Shrinks(state) ==
        /\ state.at = "failed" /\ state.open \subseteq sub[s].open
        /\ state.mine = sub[s].mine /\ state.tenant = sub[s].tenant
        /\ state.before = sub[s].before /\ state.keyed = sub[s].keyed
  <2>1. PICK state : Moves(s, state) /\ Shrinks(state)
    <3>2. CASE Moves(s, [sub[s] EXCEPT !.at = "failed", !.left = 0, !.open = {}])
      <4> DEFINE all == [sub[s] EXCEPT !.at = "failed", !.left = 0, !.open = {}]
      <4>1. Shrinks(all)
        BY <1>a DEF SubStates
      <4>2. Moves(s, all)
        BY <3>2
      <4> HIDE DEF all, Shrinks
      <4> QED
        BY <4>1, <4>2
    <3>3. CASE Moves(s, [sub[s] EXCEPT !.at = "failed", !.left = @ - 1])
      <4> DEFINE unmade == [sub[s] EXCEPT !.at = "failed", !.left = @ - 1]
      <4>1. Shrinks(unmade)
        BY <1>a DEF SubStates
      <4>2. Moves(s, unmade)
        BY <3>3
      <4> HIDE DEF unmade, Shrinks
      <4> QED
        BY <4>1, <4>2
    <3>4. ASSUME NEW j \in sub[s].open,
                 Moves(s, [sub[s] EXCEPT !.at = "failed", !.open = @ \ {j}])
          PROVE  \E state : Moves(s, state) /\ Shrinks(state)
      <4> DEFINE unstarted == [sub[s] EXCEPT !.at = "failed", !.open = @ \ {j}]
      <4>1. Shrinks(unstarted)
        BY <1>a DEF SubStates
      <4>2. Moves(s, unstarted)
        BY <3>4
      <4> HIDE DEF unstarted, Shrinks
      <4> QED
        BY <4>1, <4>2
    <3> HIDE DEF Shrinks
    <3> QED
      BY <1>5, <3>2, <3>3, <3>4 DEF OneFails, Crash
  <2>2. UNCHANGED jobVars
    BY <1>5 DEF OneFails, Crash
  <2> QED
    BY <1>b, <2>1, <2>2, QuietMove DEF Keeps
<1> QED
  BY <1>1, <1>2, <1>3, <1>4, <1>5 DEF Submits

(* Workers start nothing anew and queue nothing again; the index follows.    *)
LEMMA WorkKeepsInv ==
  ASSUME TypeOK, IndexInv, NEW n \in Jobs, Works(n)
  PROVE  IndexInv'
<1>1. UNCHANGED <<made, tenant, keyed, sub>>
  BY DEF Works, Begin, MarkJobStarted, Close, IndexCatchesUp
<1>2. /\ \A j \in Jobs : wf[j] = "none" <=> wf'[j] = "none"
      /\ \A j \in Jobs : wf'[j] = "waiting" => wf[j] = "waiting" /\ row'[j] = row[j]
      /\ \A j \in Jobs : row'[j] = row[j] \/ (wf[j] = "begun" /\ row[j] # "none" /\ row'[j] = "running")
      /\ \A j \in Jobs : index'[j] # "none" => index[j] # "none" \/ row[j] # "none"
  <2>1. CASE Begin(n)
    BY <2>1 DEF Begin, TypeOK
  <2>2. CASE MarkJobStarted(n)
    <3>1. /\ wf[n] = "begun"
          /\ \A j \in Jobs : wf'[j] = IF j = n THEN "going" ELSE wf[j]
      BY <2>2 DEF MarkJobStarted, TypeOK
    <3>2. CASE row[n] # "none" /\ WriteRow(n, "running")
      <4>1. /\ \A i \in Jobs : row'[i] = IF i = n THEN "running" ELSE row[i]
            /\ \A i \in Jobs : index'[i] = index[i] \/ (i = n /\ index'[i] = "running")
        BY <3>2, RowEffect DEF RowStates
      <4> QED
        BY <3>1, <3>2, <4>1
    <3>3. CASE UNCHANGED <<row, index>>
      BY <3>1, <3>3
    <3> QED
      BY <2>2, <3>2, <3>3 DEF MarkJobStarted
  <2>3. CASE Close(n)
    BY <2>3 DEF Close, TypeOK
  <2>4. CASE IndexCatchesUp(n)
    BY <2>4 DEF IndexCatchesUp, TypeOK
  <2> QED
    BY <2>1, <2>2, <2>3, <2>4 DEF Works
<1>3. OwnJobs'
  BY <1>1 DEF IndexInv, OwnJobs
<1>4. RowsFirst'
  <2> SUFFICES ASSUME NEW j \in Jobs
               PROVE  /\ index'[j] # "none" => row'[j] # "none"
                      /\ wf'[j] = "waiting" => row'[j] = "queued"
                      /\ j > made' => row'[j] = "none" /\ wf'[j] = "none"
    BY DEF RowsFirst
  <2>1. /\ index[j] # "none" => row[j] # "none"
        /\ wf[j] = "waiting" => row[j] = "queued"
        /\ j > made => row[j] = "none" /\ wf[j] = "none"
    BY DEF IndexInv, RowsFirst
  <2> QED
    BY <1>1, <1>2, <2>1
<1>5. ASSUME NEW p \in Submissions PROVE Keeps(p)'
  <2>1. /\ Keeps(p) /\ sub'[p] = sub[p] /\ sub[p].open \subseteq Jobs
        /\ sub[p].mine \subseteq Jobs /\ sub[p].before \subseteq Jobs
    BY <1>1, SubFields DEF IndexInv
  <2>2. \A j \in sub[p].open : wf'[j] = "none" /\ row'[j] = "queued"
    BY <1>2, <2>1 DEF Keeps
  <2>3. \A j \in sub[p].mine \cup sub[p].before : row'[j] # "none"
    BY <1>2, <2>1 DEF Keeps
  <2> QED
    BY <1>1, <1>2, <2>1, <2>2, <2>3 DEF Keeps
<1> QED
  BY <1>3, <1>4, <1>5 DEF IndexInv

(* Nothing is submitted at first.                                            *)
LEMMA InitInv == Init => TypeOK /\ IndexInv
<1> SUFFICES ASSUME Init PROVE TypeOK /\ IndexInv
  OBVIOUS
<1>1. PICK t \in Tenants :
        /\ tenant = [j \in Jobs |-> t]
        /\ sub = [s \in Submissions |->
                   [at |-> "idle", tenant |-> t, keyed |-> FALSE, left |-> 0,
                    open |-> {}, mine |-> {}, before |-> {}]]
  BY DEF Init
<1>2. sub \in [Submissions -> SubStates]
  BY <1>1 DEF SubStates
<1>3. \A s \in Submissions : /\ sub[s].at = "idle" /\ sub[s].left = 0 /\ sub[s].open = {}
                             /\ sub[s].mine = {} /\ sub[s].before = {}
  BY <1>1
<1>4. TypeOK
  <2>1. /\ row \in [Jobs -> RowStates] /\ index \in [Jobs -> RowStates]
        /\ wf \in [Jobs -> WorkflowStates] /\ keyed \in [Jobs -> BOOLEAN]
        /\ tenant \in [Jobs -> Tenants] /\ fairness \in BOOLEAN
    BY <1>1 DEF Init, RowStates, WorkflowStates
  <2>2. made \in 0 .. MaxJobs
    BY JobIndexAssumption DEF Init
  <2> QED
    BY <1>2, <1>3, <2>1, <2>2 DEF TypeOK
<1>5. \A s \in Submissions : Keeps(s)
  BY <1>3 DEF Keeps
<1>6. OwnJobs /\ RowsFirst
  BY <1>3 DEF Init, OwnJobs, RowsFirst
<1> QED
  BY <1>4, <1>5, <1>6 DEF IndexInv

(* The two invariants carry each other.                                      *)
LEMMA NextKeepsInv == TypeOK /\ IndexInv /\ [Next]_vars => TypeOK' /\ IndexInv'
<1> SUFFICES ASSUME TypeOK, IndexInv, [Next]_vars PROVE TypeOK' /\ IndexInv'
  OBVIOUS
<1>1. ASSUME NEW s \in Submissions, Submits(s) PROVE TypeOK' /\ IndexInv'
  <2>1. Numbered(s)
    BY <1>1 DEF IndexInv, Keeps, Numbered
  <2> QED
    BY <1>1, <2>1, SubmissionKeepsTypes, SubmissionKeepsInv
<1>2. ASSUME NEW j \in Jobs, Works(j) PROVE TypeOK' /\ IndexInv'
  BY <1>2, WorkKeepsTypes, WorkKeepsInv
<1>3. CASE ToggleFairness \/ UNCHANGED vars
  <2>1. UNCHANGED <<made, tenant, row, index, wf, keyed, sub>>
    BY <1>3 DEF ToggleFairness, vars, jobVars
  <2>2. fairness' \in BOOLEAN
    BY <1>3 DEF ToggleFairness, vars, TypeOK
  <2>3. TypeOK'
    BY <2>1, <2>2 DEF TypeOK
  <2>4. IndexInv'
    BY <2>1 DEF IndexInv, OwnJobs, RowsFirst, Keeps
  <2> QED
    BY <2>3, <2>4
<1> QED
  BY <1>1, <1>2, <1>3 DEF Next

(* Every reachable state is typed and in order. *)
LEMMA InvHolds == Spec => [](TypeOK /\ IndexInv)
BY InitInv, NextKeepsInv, PTL DEF Spec

-----------------------------------------------------------------------------
(* The type invariant; its last conjunct counts the coroutines of a          *)
(* submission: those with a row and those without are as many as were asked  *)
(* for (app/demo.py:92).                                                     *)
THEOREM JobIndexTypes == Spec => []TypeOK
BY InvHolds, PTL

(* A flood's jobs all compete under one fairness key, however the toggle is  *)
(* flipped meanwhile: the priority is resolved once (app/demo.py:51).        *)
THEOREM FloodKeepsOneKey == Spec => []FloodIsUniform
<1>1. IndexInv => FloodIsUniform
  BY DEF IndexInv, Keeps, FloodIsUniform
<1> QED
  BY <1>1, InvHolds, PTL

(* Nothing left to write or start: the workflows are as many as asked for.   *)
LEMMA NothingLeftToStart ==
  ASSUME TypeOK, NEW s \in Submissions, sub[s].at = "ok", sub[s].left = 0,
         \A j \in sub[s].mine : wf[j] # "none"
  PROVE  Cardinality({j \in sub[s].mine : wf[j] # "none"}) = Count[s]
<1>1. {j \in sub[s].mine : wf[j] # "none"} = sub[s].mine
  OBVIOUS
<1>2. Cardinality(sub[s].mine) \in Nat
  BY SubFields, JobsAreFinite
<1>3. Cardinality(sub[s].mine) + sub[s].left = Count[s]
  BY DEF TypeOK
<1>4. Cardinality(sub[s].mine) = Count[s]
  BY <1>2, <1>3
<1> QED
  BY <1>1, <1>4

(* Success is answered only when every job asked for has its workflow:       *)
(* gather raises when one submit_one does (app/demo.py:92).                  *)
THEOREM SuccessStartedAll == Spec => []AckMeansStarted
<1>1. ASSUME TypeOK, IndexInv, NEW s \in Submissions, sub[s].at = "ok"
      PROVE  Cardinality({j \in sub[s].mine : wf[j] # "none"}) = Count[s]
  BY <1>1, NothingLeftToStart DEF IndexInv, Keeps
<1>2. TypeOK /\ IndexInv => AckMeansStarted
  BY <1>1 DEF AckMeansStarted
<1> QED
  BY <1>2, InvHolds, PTL

(* A workflow that waits for a worker is counted as queued: its row was      *)
(* written first (app/sessions.py:43) and is still queued.                   *)
THEOREM WaitingJobsAreCounted == Spec => []WaitingIsCounted
<1>1. TypeOK /\ IndexInv => WaitingIsCounted
  <2> SUFFICES ASSUME TypeOK, IndexInv, NEW j \in Jobs,
                      wf[j] = "waiting", index[j] = row[j], FitsTheLimit(tenant[j])
               PROVE  j \in TenantQueued(tenant[j])
    BY DEF WaitingIsCounted
  <2> DEFINE shown == {i \in Jobs : index[i] # "none" /\ tenant[i] = tenant[j]}
             newer == {i \in shown : i > j}
  <2>1. index[j] = "queued" /\ j \in shown
    BY DEF IndexInv, RowsFirst
  <2>2. IsFiniteSet(shown) /\ Cardinality(shown) \in Nat /\ Cardinality(shown) <= ListLimit
    BY JobsAreFinite DEF FitsTheLimit
  <2>3. newer \subseteq shown /\ newer # shown
    BY <2>1, JobsAreFinite
  <2>4. Cardinality(newer) < Cardinality(shown) /\ Cardinality(newer) \in Nat
    BY <2>2, <2>3, FS_Subset, FS_CardinalityType
  <2>5. Cardinality(newer) < ListLimit
    BY <2>2, <2>4, JobIndexAssumption
  <2> QED
    BY <2>1, <2>5 DEF TenantQueued, List
<1> QED
  BY <1>1, InvHolds, PTL

(* What verify_flood_health counts as new (scripts/verify_flood_health.py:27)*)
(* is what the flood made: its rows are newer than all that was listed       *)
(* before, so none of them is cut off by the limit.                          *)
THEOREM FloodListsItsOwn == Spec => []FloodIsListed
<1>1. TypeOK /\ IndexInv => FloodIsListed
  <2> SUFFICES ASSUME TypeOK, IndexInv, NEW s \in Submissions,
                      sub[s].at = "ok", Count[s] <= ListLimit, Undisturbed(s),
                      \A j \in Jobs : index[j] # "none" <=> row[j] # "none"
               PROVE  List(sub[s].tenant, ListLimit) \ sub[s].before = sub[s].mine
    BY DEF FloodIsListed
  <2> DEFINE mine == sub[s].mine
             before == sub[s].before
             shown == {j \in Jobs : index[j] # "none" /\ tenant[j] = sub[s].tenant}
             newer(j) == {i \in shown : i > j}
  <2>1. /\ mine \cup before \subseteq 1 .. made
        /\ \A i \in before, j \in mine : i < j
        /\ \A j \in mine \cup before : tenant[j] = sub[s].tenant /\ row[j] # "none"
        /\ sub[s].left = 0
    BY DEF IndexInv, Keeps
  <2>2. mine \subseteq Jobs /\ before \subseteq Jobs
    BY SubFields
  <2>3. mine \cup before \subseteq shown /\ shown \subseteq Jobs
    BY <2>1, <2>2
  <2>4. Cardinality(mine) = Count[s] /\ Count[s] \in Nat
    <3>1. Cardinality(mine) + sub[s].left = Count[s]
      BY DEF TypeOK
    <3> QED
      BY <3>1, <2>1, <2>2, JobsAreFinite
  <2>5. List(sub[s].tenant, ListLimit) = {j \in shown : Cardinality(newer(j)) < ListLimit}
    BY DEF List
  <2>6. \A j \in Jobs : j \notin mine \cup before /\ j \in shown =>
          Cardinality({i \in before : i > j}) >= ListLimit
    <3> SUFFICES ASSUME NEW j \in Jobs, j \notin mine \cup before, j \in shown
                 PROVE  Cardinality({i \in before : i > j}) >= ListLimit
      OBVIOUS
    <3>1. row[j] # "none" /\ ~(j > made)
      BY DEF IndexInv, RowsFirst
    <3>2. j \in 1 .. made
      BY <3>1 DEF Jobs, TypeOK
    <3> QED
      BY <3>2 DEF Undisturbed
  <2>7. \A j \in shown : IsFiniteSet(newer(j)) /\ Cardinality(newer(j)) \in Nat
    BY <2>3, JobsAreFinite
  <2> HIDE DEF mine, before, shown
  <2>8. ASSUME NEW j \in shown, Cardinality(newer(j)) < ListLimit, j \notin before
        PROVE  j \in mine
    <3> SUFFICES ASSUME j \notin mine PROVE FALSE
      OBVIOUS
    <3>1. {i \in before : i > j} \subseteq newer(j)
      BY <2>3
    <3>2. Cardinality({i \in before : i > j}) >= ListLimit
      BY <2>3, <2>6, <2>8
    <3>3. Cardinality({i \in before : i > j}) <= Cardinality(newer(j))
      BY <2>7, <2>8, <3>1, FS_Subset
    <3>4. Cardinality({i \in before : i > j}) \in Nat
      BY <2>7, <2>8, <3>1, FS_Subset, FS_CardinalityType
    <3> QED
      BY <2>7, <2>8, <3>2, <3>3, <3>4, JobIndexAssumption
  <2>9. ASSUME NEW j \in mine
        PROVE  j \notin before /\ j \in shown /\ Cardinality(newer(j)) < ListLimit
    <3>1. j \in shown /\ j \in Nat
      BY <2>2, <2>3, <2>9, JobsAreFinite
    <3>2. j \notin before
      BY <2>1, <2>9, <3>1
    <3>3. newer(j) \subseteq mine
      <4> SUFFICES ASSUME NEW i \in shown, i > j, i \notin mine PROVE FALSE
        OBVIOUS
      <4>1. i \notin before
        BY <2>1, <2>9, <2>3, <3>1, JobsAreFinite
      <4>2. Cardinality({k \in before : k > i}) >= ListLimit
        BY <2>3, <2>6, <4>1
      <4>3. ASSUME NEW k \in before, k > i PROVE FALSE
        <5>1. k < j
          BY <2>1, <2>9
        <5>2. i \in Nat /\ k \in Nat
          BY <2>2, <2>3, JobsAreFinite
        <5> QED
          BY <3>1, <4>3, <5>1, <5>2
      <4>4. ListLimit = 0
        <5>1. {k \in before : k > i} = {}
          BY <4>3
        <5> QED
          BY <4>2, <5>1, FS_EmptySet, JobIndexAssumption
      <4>5. mine = {}
        BY <2>2, <2>4, <4>4, JobsAreFinite, FS_EmptySet
      <4> QED
        BY <2>9, <4>5
    <3>4. newer(j) # mine
      BY <2>9, <3>1
    <3>5. IsFiniteSet(mine)
      BY <2>2, JobsAreFinite
    <3>6. Cardinality(newer(j)) < Cardinality(mine)
      <4>1. Cardinality(newer(j)) <= Cardinality(mine)
        BY <3>3, <3>5, FS_Subset
      <4>2. Cardinality(newer(j)) # Cardinality(mine)
        BY <3>3, <3>4, <3>5, FS_Subset
      <4>3. Cardinality(newer(j)) \in Nat /\ Cardinality(mine) \in Nat
        BY <2>7, <3>1, <3>5, FS_CardinalityType
      <4> QED
        BY <4>1, <4>2, <4>3
    <3>7. Cardinality(newer(j)) < ListLimit
      BY <2>4, <2>7, <3>1, <3>6, JobIndexAssumption
    <3> QED
      BY <3>1, <3>2, <3>7
  <2> QED
    BY <2>5, <2>8, <2>9 DEF mine, before
<1> QED
  BY <1>1, InvHolds, PTL
=============================================================================
