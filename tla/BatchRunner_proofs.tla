-------------------------- MODULE BatchRunner_proofs --------------------------
(***************************************************************************)
(* Proofs about BatchRunner for any number of runs and of workers.         *)
(*                                                                         *)
(* A result does not always say which job it belongs to, so that the       *)
(* results have to be counted: there is one for every run that has ended,  *)
(* in the channel or with main.  When main has as many as there are runs,  *)
(* the channel is empty and every run has ended.                           *)
(***************************************************************************)
EXTENDS BatchRunner, Counting

\* The runs that workers have taken from the channel are the first ones.
Taken == 1 .. (next - Len(jobs) - 1)

\* j is in the hands of a worker.
InWork(j) == \E w \in Worker : worker[w] = j

Ended == {j \in Taken : ~InWork(j)}

\* The runs that have ended without a trace.
NoTrace == {j \in Ended : outputs[j] = "absent"}

\* All results, those that main has not taken yet behind the others.
AllResults == reported \o results

Of(j) == {i \in DOMAIN AllResults : AllResults[i].job = j}

\* The channel holds the runs that are submitted and not taken, in order; each run that is
\* taken is in the hands of one worker at most.
JobsInv ==
    /\ Len(jobs) < next
    /\ \A i \in DOMAIN jobs : jobs[i] = next - Len(jobs) - 1 + i
    /\ \A w \in Worker : worker[w] # 0 => worker[w] \in Taken
    /\ \A v, w \in Worker : worker[v] = worker[w] /\ worker[v] # 0 => v = w

TypeInv == TypeOK /\ JobsInv

\* What a run has left in its directory.
OutputsInv ==
    /\ \A j \in Runs \ Taken : outputs[j] = "absent"
    /\ \A j \in Taken : InWork(j) => outputs[j] \in {"absent", "started"}
    /\ \A j \in Ended : outputs[j] \in {"absent", "failed", "complete"}

\* One result for each run that has ended, which says how unless the run left no trace.
Accounted(j) ==
    IF j \in Ended /\ outputs[j] # "absent"
    THEN \E i \in DOMAIN AllResults :
             /\ Of(j) = {i}
             /\ AllResults[i].runError <=> outputs[j] = "failed"
    ELSE Of(j) = {}

ResultsInv ==
    /\ Len(AllResults) = Cardinality(Ended)
    /\ \A j \in 1 .. runs : Accounted(j)
    /\ Cardinality(Of(0)) = Cardinality(NoTrace)

ReturnInv == main = "returned" => Len(reported) = runs

IInv == TypeInv /\ OutputsInv /\ ResultsInv /\ ReturnInv

-----------------------------------------------------------------------------
(* Types, and where the runs are. *)

LEMMA InitType == Init => TypeInv
<1>. SUFFICES ASSUME Init PROVE TypeInv
  OBVIOUS
<1>1. runs \in 0..MaxRuns /\ parallel \in 0..MaxParallel /\ runs \in Nat
  BY BoundsAssumption DEF Init
<1>2. /\ jobs \in Seq(Runs) /\ Len(jobs) = 0 /\ results \in Seq(Result) /\ Len(results) = 0
      /\ reported \in Seq(Result)
  BY DEF Init
<1>3. worker \in [Worker -> 0..runs] /\ next \in 1..(runs + 1)
  BY <1>1 DEF Init
<1>4. outputs \in [Runs -> {"absent", "started", "failed", "complete"}]
  BY DEF Init
<1>5. main \in {"submitting", "collecting", "returned"} /\ gone \subseteq Worker
  BY DEF Init
<1>6. closed \in BOOLEAN
  BY Zenon DEF Init
<1>7. TypeOK
  BY <1>1, <1>2, <1>3, <1>4, <1>5, <1>6 DEF TypeOK
<1>8. JobsInv
  BY DEF Init, JobsInv
<1>. QED  BY <1>7, <1>8 DEF TypeInv

\* The next job for a worker is the first run that is not taken.
LEMMA HeadIsNext ==
    ASSUME TypeInv, jobs # <<>>
    PROVE  /\ Head(jobs) = next - Len(jobs) /\ Head(jobs) \in 1 .. runs /\ Head(jobs) \notin Taken
           /\ Len(Tail(jobs)) = Len(jobs) - 1 /\ Tail(jobs) \in Seq(Runs)
           /\ \A i \in DOMAIN Tail(jobs) : Tail(jobs)[i] = next - Len(Tail(jobs)) - 1 + i
<1>1. /\ jobs \in Seq(Runs) /\ Len(jobs) \in Nat /\ Len(jobs) >= 1 /\ DOMAIN jobs = 1 .. Len(jobs)
      /\ next \in Nat /\ next <= runs + 1 /\ runs \in Nat /\ Len(jobs) < next
      /\ \A i \in DOMAIN jobs : jobs[i] = next - Len(jobs) - 1 + i
  BY BoundsAssumption DEF TypeInv, TypeOK, JobsInv
<1>2. /\ Head(jobs) = jobs[1] /\ Tail(jobs) \in Seq(Runs) /\ Len(Tail(jobs)) = Len(jobs) - 1
      /\ DOMAIN Tail(jobs) = 1 .. Len(jobs) - 1
      /\ \A i \in 1 .. Len(jobs) - 1 : Tail(jobs)[i] = jobs[i + 1]
  BY <1>1
<1>3. Head(jobs) = next - Len(jobs)
  BY <1>1, <1>2
<1>4. \A i \in DOMAIN Tail(jobs) : Tail(jobs)[i] = next - Len(Tail(jobs)) - 1 + i
  BY <1>1, <1>2, SMTT(30)
<1>. QED  BY <1>1, <1>2, <1>3, <1>4 DEF Taken

LEMMA NextType == TypeInv /\ [Next]_vars => TypeInv'
<1>. SUFFICES ASSUME TypeInv, [Next]_vars PROVE TypeInv'
  OBVIOUS
<1>0. /\ runs \in Nat /\ parallel \in Nat /\ MaxRuns \in Nat /\ runs <= MaxRuns
      /\ jobs \in Seq(Runs) /\ next \in Nat /\ next <= runs + 1 /\ Len(jobs) \in Nat
      /\ results \in Seq(Result) /\ reported \in Seq(Result)
      /\ worker \in [Worker -> 0..runs]
      /\ outputs \in [Runs -> {"absent", "started", "failed", "complete"}]
      /\ 0 .. runs \subseteq {0} \cup Runs
  BY BoundsAssumption DEF TypeInv, TypeOK, Runs
<1>1. CASE Submit
  <2>1. next \in Runs /\ Len(jobs) < next /\ jobs' = Append(jobs, next) /\ next' = next + 1
    BY <1>0, <1>1 DEF Submit, Runs, TypeInv, TypeOK, JobsInv
  <2>2. /\ jobs' \in Seq(Runs) /\ Len(jobs') = Len(jobs) + 1 /\ DOMAIN jobs' = 1 .. Len(jobs) + 1
        /\ \A i \in 1 .. Len(jobs) : jobs'[i] = jobs[i]
        /\ jobs'[Len(jobs) + 1] = next
    BY <1>0, <2>1
  <2>3. TypeOK'
    BY <1>0, <1>1, <2>1, <2>2 DEF Submit, flags, TypeInv, TypeOK, Worker
  <2>4. next' - Len(jobs') = next - Len(jobs)
    BY <1>0, <2>1, <2>2
  <2>5. \A i \in DOMAIN jobs' : jobs'[i] = next' - Len(jobs') - 1 + i
    <3>1. \A i \in 1 .. Len(jobs) : jobs[i] = next - Len(jobs) - 1 + i
      BY <1>0 DEF TypeInv, JobsInv
    <3>2. next = next - Len(jobs) - 1 + (Len(jobs) + 1)
      BY <1>0
    <3>3. ASSUME NEW i \in 1 .. Len(jobs) + 1 PROVE jobs'[i] = next - Len(jobs) - 1 + i
      <4>1. CASE i = Len(jobs) + 1
        BY <2>2, <3>2, <4>1
      <4>2. CASE i # Len(jobs) + 1
        <5>1. i \in 1 .. Len(jobs)
          BY <1>0, <4>2
        <5>. QED  BY <2>2, <3>1, <5>1
      <4>. QED  BY <4>1, <4>2
    <3>. QED  BY <2>2, <2>4, <3>3
  <2>6. UNCHANGED <<worker, parallel>> /\ Taken' = Taken
    BY <1>1, <2>4 DEF Submit, flags, Taken
  <2>7. JobsInv'
    BY <1>0, <2>1, <2>2, <2>5, <2>6 DEF TypeInv, JobsInv, Worker
  <2>. QED  BY <2>3, <2>7 DEF TypeInv
<1>2. CASE Close \/ Return \/ \E w \in Worker : Leave(w)
  BY <1>0, <1>2 DEF Close, Return, Leave, Idle, flags, TypeInv, TypeOK, JobsInv, Taken, Worker
<1>3. CASE Collect
  <2>1. reported' \in Seq(Result) /\ results' \in Seq(Result) /\ Len(results') <= runs
    <3>1. /\ results # <<>> /\ Len(results) \in Nat /\ Len(results) <= runs
          /\ reported' = Append(reported, Head(results)) /\ results' = Tail(results)
      BY <1>0, <1>3 DEF Collect, TypeInv, TypeOK
    <3>2. /\ Head(results) \in Result /\ Tail(results) \in Seq(Result)
          /\ Len(Tail(results)) = Len(results) - 1
      BY <1>0, <3>1
    <3>. QED  BY <1>0, <3>1, <3>2
  <2>. QED  BY <1>0, <1>3, <2>1 DEF Collect, flags, TypeInv, TypeOK, JobsInv, Taken, Worker
<1>4. ASSUME NEW w \in Worker, Take(w) PROVE TypeInv'
  <2>. DEFINE j == Head(jobs)
  <2>0. /\ jobs' = Tail(jobs) /\ worker' = [worker EXCEPT ![w] = j]
        /\ j = next - Len(jobs) /\ j \in 1 .. runs /\ j \notin Taken
        /\ Len(jobs') = Len(jobs) - 1 /\ jobs' \in Seq(Runs)
        /\ \A i \in DOMAIN jobs' : jobs'[i] = next - Len(jobs') - 1 + i
        /\ UNCHANGED <<flags, main, next, closed, gone, results, outputs, reported>>
    BY <1>4, HeadIsNext DEF Take
  <2>1. worker' \in [Worker -> 0..runs]
    BY <1>0, <2>0
  <2>2. TypeOK'
    BY <1>0, <2>0, <2>1 DEF flags, TypeInv, TypeOK, Worker
  <2>3. Taken' = Taken \cup {j} /\ Len(jobs') < next
    BY <1>0, <2>0 DEF Taken, TypeInv, JobsInv
  <2>4. \A v \in Worker : worker'[v] = IF v = w THEN j ELSE worker[v]
    BY <1>0, <2>0
  <2>5. Worker' = Worker
    BY <2>0 DEF flags, Worker
  <2>6. JobsInv'
    BY <2>0, <2>3, <2>4, <2>5 DEF TypeInv, JobsInv
  <2>. QED  BY <2>2, <2>6 DEF TypeInv
<1>5. ASSUME NEW w \in Worker, StartRun(w) PROVE TypeInv'
  BY <1>0, <1>5 DEF StartRun, Works, flags, TypeInv, TypeOK, JobsInv, Taken, Worker
<1>6. ASSUME NEW w \in Worker, NoOutput(w) \/ EndRun(w) PROVE TypeInv'
  <2>1. PICK r \in Result : Send(w, r)
    BY <1>0, <1>6 DEF NoOutput, EndRun, Works, Result
  <2>2. /\ results' \in Seq(Result) /\ Len(results') <= runs
        /\ worker' = [worker EXCEPT ![w] = 0] /\ worker' \in [Worker -> 0..runs]
    BY <1>0, <2>1 DEF Send
  <2>3. outputs' \in [Runs -> {"absent", "started", "failed", "complete"}]
    BY <1>0, <1>6 DEF NoOutput, EndRun, Works
  <2>4. UNCHANGED <<flags, main, next, jobs, closed, gone, reported>>
    BY <1>6 DEF NoOutput, EndRun
  <2>5. TypeOK'
    BY <1>0, <2>2, <2>3, <2>4 DEF flags, TypeInv, TypeOK, Worker
  <2>6. \A v \in Worker : worker'[v] = IF v = w THEN 0 ELSE worker[v]
    BY <1>0, <2>2
  <2>7. JobsInv'
    BY <2>4, <2>6 DEF flags, TypeInv, JobsInv, Taken, Worker
  <2>. QED  BY <2>5, <2>7 DEF TypeInv
<1>7. CASE UNCHANGED vars
  BY <1>7 DEF vars, flags, moving, TypeInv, TypeOK, JobsInv, Taken, Worker
<1>. QED  BY <1>1, <1>2, <1>3, <1>4, <1>5, <1>6, <1>7 DEF Next, MainStep, WorkerStep

-----------------------------------------------------------------------------
(* Who has ended. *)

LEMMA TakenRuns ==
    ASSUME TypeInv
    PROVE  /\ Taken \subseteq 1 .. runs /\ Taken \subseteq Runs /\ 0 \notin Taken
           /\ IsFiniteSet(1 .. runs) /\ Cardinality(1 .. runs) = runs /\ runs \in Nat
<1>1. /\ runs \in Nat /\ MaxRuns \in Nat /\ runs <= MaxRuns
      /\ next \in Nat /\ next <= runs + 1 /\ Len(jobs) \in Nat
  BY BoundsAssumption DEF TypeInv, TypeOK
<1>2. IsFiniteSet(1 .. runs) /\ Cardinality(1 .. runs) = runs
  BY <1>1, FS_Interval, SMTT(30)
<1>. QED  BY <1>1, <1>2 DEF Taken, Runs

\* A step that moves no run.
LEMMA NobodyMoves ==
    ASSUME UNCHANGED <<worker, parallel>>, next' - Len(jobs') = next - Len(jobs)
    PROVE  Taken' = Taken /\ Ended' = Ended /\ \A j : InWork(j)' <=> InWork(j)
<1>1. Taken' = Taken
  BY DEF Taken
<1>2. \A j : InWork(j)' <=> InWork(j)
  BY DEF InWork, Worker
<1>. QED  BY <1>1, <1>2 DEF Ended

\* A run that a worker takes has not ended.
LEMMA OneIsTaken ==
    ASSUME TypeInv, NEW w \in Worker, Take(w)
    PROVE  /\ Taken' = Taken \cup {Head(jobs)} /\ Head(jobs) \in Runs \ Taken
           /\ Ended' = Ended
           /\ \A k \in Taken' : InWork(k)' <=> InWork(k) \/ k = Head(jobs)
<1>. DEFINE j == Head(jobs)
<1>0. /\ jobs' = Tail(jobs) /\ worker' = [worker EXCEPT ![w] = j] /\ worker[w] = 0
      /\ j = next - Len(jobs) /\ j \in 1 .. runs /\ j \notin Taken
      /\ Len(jobs') = Len(jobs) - 1 /\ UNCHANGED <<parallel, next>>
  BY HeadIsNext DEF Take, Idle, flags
<1>1. /\ worker \in [Worker -> 0..runs] /\ next \in Nat /\ Len(jobs) \in Nat
      /\ runs \in Nat /\ MaxRuns \in Nat /\ runs <= MaxRuns
  BY BoundsAssumption DEF TypeInv, TypeOK
<1>2. Taken' = Taken \cup {j} /\ j \in Runs \ Taken
  BY <1>0, <1>1, SMTT(30) DEF Taken, Runs
<1>3. \A v \in Worker : worker'[v] = IF v = w THEN j ELSE worker[v]
  BY <1>0, <1>1
<1>4. ASSUME NEW k, k # 0 PROVE InWork(k)' <=> InWork(k) \/ k = j
  BY <1>0, <1>3, <1>4 DEF InWork, Worker
<1>5. 0 \notin Taken'
  BY <1>0, <1>2 DEF Taken
<1>. QED  BY <1>2, <1>4, <1>5 DEF Ended

\* The run whose result a worker sends has ended, and no other.
LEMMA OneEnds ==
    ASSUME TypeInv, NEW w \in Worker, worker[w] # 0,
           worker' = [worker EXCEPT ![w] = 0], UNCHANGED <<parallel, next, jobs>>
    PROVE  /\ Taken' = Taken /\ worker[w] \in Taken \ Ended
           /\ Ended' = Ended \cup {worker[w]}
           /\ \A k \in Taken : InWork(k)' <=> InWork(k) /\ k # worker[w]
<1>. DEFINE j == worker[w]
<1>0. worker \in [Worker -> 0..runs] /\ j \in Taken /\ InWork(j) /\ Worker' = Worker
  BY DEF TypeInv, TypeOK, JobsInv, InWork, Worker
<1>1. \A v \in Worker : worker'[v] = IF v = w THEN 0 ELSE worker[v]
  BY <1>0
<1>2. \A v \in Worker : worker[v] = j => v = w
  BY DEF TypeInv, JobsInv
<1>3. Taken' = Taken /\ 0 \notin Taken
  BY DEF Taken
<1>4. \A k \in Taken : InWork(k)' <=> InWork(k) /\ k # j
  BY <1>0, <1>1, <1>2, <1>3 DEF InWork
<1>. QED  BY <1>0, <1>3, <1>4 DEF Ended

-----------------------------------------------------------------------------
(* What is left in the directories. *)

LEMMA InitOutputs == Init => OutputsInv
<1>. SUFFICES ASSUME Init PROVE OutputsInv
  OBVIOUS
<1>1. Taken = {} /\ \A j \in Runs : outputs[j] = "absent"
  BY DEF Init, Taken
<1>. QED  BY <1>1 DEF OutputsInv, Ended

LEMMA NextOutputs == TypeInv /\ OutputsInv /\ [Next]_vars => OutputsInv'
<1>. SUFFICES ASSUME TypeInv, OutputsInv, [Next]_vars PROVE OutputsInv'
  OBVIOUS
<1>0. /\ outputs \in [Runs -> {"absent", "started", "failed", "complete"}]
      /\ Taken \subseteq Runs /\ next \in Nat /\ Len(jobs) \in Nat /\ jobs \in Seq(Runs)
  BY TakenRuns DEF TypeInv, TypeOK
<1>1. CASE Submit
  <2>1. next' - Len(jobs') = next - Len(jobs)
    <3>1. Len(jobs') = Len(jobs) + 1 /\ next' = next + 1
      BY <1>0, <1>1 DEF Submit
    <3>. QED  BY <1>0, <3>1
  <2>2. UNCHANGED <<worker, parallel, outputs>>
    BY <1>1 DEF Submit, flags
  <2>. QED  BY <2>1, <2>2, NobodyMoves DEF OutputsInv
<1>2. CASE Close \/ Collect \/ Return \/ (\E w \in Worker : Leave(w)) \/ UNCHANGED vars
  <2>1. UNCHANGED <<worker, parallel, jobs, next, outputs>>
    BY <1>2 DEF Close, Collect, Return, Leave, flags, vars, moving
  <2>. QED  BY <2>1, NobodyMoves DEF OutputsInv
<1>3. ASSUME NEW w \in Worker, Take(w) PROVE OutputsInv'
  <2>1. UNCHANGED outputs
    BY <1>3 DEF Take
  <2>. QED  BY <1>3, <2>1, OneIsTaken DEF OutputsInv
<1>4. ASSUME NEW w \in Worker, StartRun(w) PROVE OutputsInv'
  <2>. DEFINE j == worker[w]
  <2>1. /\ j \in Taken /\ InWork(j) /\ outputs' = [outputs EXCEPT ![j] = "started"]
        /\ UNCHANGED <<worker, parallel, jobs, next>>
    BY <1>4 DEF StartRun, Works, TypeInv, JobsInv, InWork, flags
  <2>2. \A k \in Runs : outputs'[k] = IF k = j THEN "started" ELSE outputs[k]
    BY <1>0, <2>1
  <2>3. Taken' = Taken /\ Ended' = Ended /\ \A k : InWork(k)' <=> InWork(k)
    BY <2>1, NobodyMoves
  <2>. QED  BY <1>0, <2>1, <2>2, <2>3 DEF OutputsInv, Ended
<1>5. ASSUME NEW w \in Worker, NoOutput(w) \/ EndRun(w) PROVE OutputsInv'
  <2>. DEFINE j == worker[w]
  <2>1. /\ j # 0 /\ worker' = [worker EXCEPT ![w] = 0] /\ UNCHANGED <<parallel, next, jobs>>
    BY <1>5 DEF NoOutput, EndRun, Works, Send, flags
  <2>2. /\ Taken' = Taken /\ j \in Taken \ Ended /\ Ended' = Ended \cup {j}
        /\ \A k \in Taken : InWork(k)' <=> InWork(k) /\ k # j
    BY <2>1, OneEnds
  <2>3. /\ outputs'[j] \in {"absent", "failed", "complete"}
        /\ \A k \in Runs \ {j} : outputs'[k] = outputs[k]
    BY <1>0, <1>5, <2>2 DEF NoOutput, EndRun
  <2>4. Ended \subseteq Taken
    BY DEF Ended
  <2>. QED  BY <1>0, <2>2, <2>3, <2>4 DEF OutputsInv
<1>. QED  BY <1>1, <1>2, <1>3, <1>4, <1>5 DEF Next, MainStep, WorkerStep

-----------------------------------------------------------------------------
(* The results. *)

LEMMA InitResults == Init => ResultsInv /\ ReturnInv
<1>. SUFFICES ASSUME Init PROVE ResultsInv /\ ReturnInv
  OBVIOUS
<1>1. Taken = {} /\ Ended = {} /\ NoTrace = {}
  BY DEF Init, Taken, Ended, NoTrace
<1>2. Len(AllResults) = 0 /\ DOMAIN AllResults = {}
  BY DEF Init, AllResults
<1>3. \A j : Of(j) = {}
  BY <1>2 DEF Of
<1>4. ResultsInv
  BY <1>1, <1>2, <1>3, FS_EmptySet DEF ResultsInv, Accounted
<1>5. ReturnInv
  BY DEF Init, ReturnInv
<1>. QED  BY <1>4, <1>5

\* A step that ends no run and at most moves results to main.
LEMMA KeepResults ==
    ASSUME ResultsInv, UNCHANGED runs, AllResults' = AllResults, Ended' = Ended,
           \A j \in Ended : outputs'[j] = outputs[j]
    PROVE  ResultsInv'
<1>1. NoTrace' = NoTrace
  BY DEF NoTrace
<1>2. \A j : Of(j)' = Of(j)
  BY DEF Of
<1>3. ASSUME NEW j, Accounted(j) PROVE Accounted(j)'
  BY <1>2, <1>3 DEF Accounted
<1>. QED  BY <1>1, <1>2, <1>3 DEF ResultsInv

\* r says what it should of run j.
Fits(r, j) ==
    \/ r.job = 0 /\ outputs'[j] = "absent"
    \/ /\ r.job = j /\ outputs'[j] \in {"failed", "complete"}
       /\ r.runError <=> outputs'[j] = "failed"

\* One more run that has ended, and one more result, of that run.
LEMMA OneResult ==
    ASSUME TypeInv, ResultsInv, UNCHANGED runs,
           NEW j \in 1 .. runs, j \notin Ended, Ended' = Ended \cup {j},
           NEW r, AllResults \in Seq(Result), r \in Result,
           AllResults' = Append(AllResults, r), Fits(r, j),
           \A k \in Ended : outputs'[k] = outputs[k]
    PROVE  ResultsInv'
<1>. DEFINE n == Len(AllResults) + 1
<1>0. /\ runs \in Nat /\ IsFiniteSet(1 .. runs) /\ Ended \in SUBSET (1 .. runs)
      /\ NoTrace \in SUBSET (1 .. runs)
  BY TakenRuns DEF Ended, NoTrace
<1>1. /\ DOMAIN AllResults = 1 .. Len(AllResults) /\ Len(AllResults) \in Nat
      /\ DOMAIN AllResults' = 1 .. n /\ Len(AllResults') = n /\ AllResults'[n] = r
      /\ \A i \in 1 .. Len(AllResults) : AllResults'[i] = AllResults[i]
  OBVIOUS
<1>2. 1 .. n = (1 .. Len(AllResults)) \cup {n} /\ n \notin 1 .. Len(AllResults)
  BY <1>1
<1>3. \A k : Of(k)' = IF r.job = k THEN Of(k) \cup {n} ELSE Of(k)
  BY <1>1, <1>2 DEF Of
<1>4. \A k : Of(k) \in SUBSET (1 .. Len(AllResults)) /\ n \notin Of(k)
  BY <1>1, <1>2 DEF Of
<1>5. Len(AllResults') = Cardinality(Ended')
  <2>1. Cardinality(Ended') = Cardinality(Ended) + 1
    BY <1>0, OneMore
  <2>. QED  BY <1>1, <2>1 DEF ResultsInv
<1>6. ASSUME NEW k \in 1 .. runs PROVE Accounted(k)'
  <2>0. Accounted(k)
    BY DEF ResultsInv
  <2>1. CASE k = j
    <3>1. Of(j) = {}
      BY <2>0, <2>1 DEF Accounted
    <3>2. CASE r.job = 0 /\ outputs'[j] = "absent"
      <4>1. Of(j)' = {}
        BY <1>0, <1>3, <3>1, <3>2
      <4>. QED  BY <2>1, <3>2, <4>1 DEF Accounted
    <3>3. CASE /\ r.job = j /\ outputs'[j] \in {"failed", "complete"}
               /\ r.runError <=> outputs'[j] = "failed"
      <4>1. Of(j)' = {n} /\ n \in DOMAIN AllResults'
        BY <1>1, <1>2, <1>3, <3>1, <3>3
      <4>. QED  BY <1>1, <2>1, <3>3, <4>1 DEF Accounted
    <3>. QED  BY <3>2, <3>3 DEF Fits
  <2>2. CASE k # j
    <3>1. Of(k)' = Of(k)
      BY <1>0, <1>3, <2>2 DEF Fits
    <3>2. k \in Ended' <=> k \in Ended
      BY <2>2
    <3>3. CASE k \in Ended /\ outputs[k] # "absent"
      <4>1. PICK i \in DOMAIN AllResults :
                Of(k) = {i} /\ (AllResults[i].runError <=> outputs[k] = "failed")
        BY <2>0, <3>3 DEF Accounted
      <4>2. i \in DOMAIN AllResults' /\ AllResults'[i] = AllResults[i] /\ outputs'[k] = outputs[k]
        BY <1>1, <1>2, <3>3, <4>1
      <4>. QED  BY <3>1, <3>2, <3>3, <4>1, <4>2 DEF Accounted
    <3>4. CASE ~(k \in Ended /\ outputs[k] # "absent")
      <4>1. Of(k) = {} /\ ~(k \in Ended' /\ outputs'[k] # "absent")
        BY <2>0, <3>2, <3>4 DEF Accounted
      <4>. QED  BY <3>1, <4>1 DEF Accounted
    <3>. QED  BY <3>3, <3>4
  <2>. QED  BY <2>1, <2>2
<1>7. Cardinality(Of(0)') = Cardinality(NoTrace')
  <2>1. CASE r.job = 0 /\ outputs'[j] = "absent"
    <3>1. NoTrace' = NoTrace \cup {j} /\ j \notin NoTrace
      BY <2>1 DEF NoTrace
    <3>2. Of(0)' = Of(0) \cup {n}
      BY <1>3, <2>1
    <3>3. Cardinality(NoTrace') = Cardinality(NoTrace) + 1
      BY <1>0, <3>1, OneMore
    <3>4. Cardinality(Of(0)') = Cardinality(Of(0)) + 1
      <4>1. IsFiniteSet(1 .. Len(AllResults))
        BY <1>1, FS_Interval
      <4>. QED  BY <1>4, <3>2, <4>1, OneMore
    <3>. QED  BY <3>3, <3>4 DEF ResultsInv
  <2>2. CASE r.job = j /\ outputs'[j] \in {"failed", "complete"}
    <3>1. NoTrace' = NoTrace
      BY <2>2 DEF NoTrace
    <3>2. Of(0)' = Of(0)
      BY <1>0, <1>3, <2>2
    <3>. QED  BY <3>1, <3>2 DEF ResultsInv
  <2>. QED  BY <2>1, <2>2 DEF Fits
<1>. QED  BY <1>5, <1>6, <1>7 DEF ResultsInv

LEMMA NextResults ==
    TypeInv /\ OutputsInv /\ ResultsInv /\ ReturnInv /\ [Next]_vars => ResultsInv' /\ ReturnInv'
<1>. SUFFICES ASSUME TypeInv, OutputsInv, ResultsInv, ReturnInv, [Next]_vars
              PROVE  ResultsInv' /\ ReturnInv'
  OBVIOUS
<1>0. /\ outputs \in [Runs -> {"absent", "started", "failed", "complete"}]
      /\ Taken \subseteq Runs /\ next \in Nat /\ Len(jobs) \in Nat /\ jobs \in Seq(Runs)
      /\ results \in Seq(Result) /\ reported \in Seq(Result)
  BY TakenRuns DEF TypeInv, TypeOK
<1>1. ReturnInv'
  <2>1. CASE Return
    BY <2>1 DEF Return, flags, ReturnInv
  <2>2. CASE UNCHANGED vars
    BY <2>2 DEF vars, flags, moving, ReturnInv
  <2>3. ASSUME Next, ~Return PROVE ReturnInv'
    <3>1. UNCHANGED runs
      BY <2>3 DEF Next, MainStep, WorkerStep, Submit, Close, Collect, Take, NoOutput, StartRun, EndRun,
             Leave, flags
    <3>2. main' = "returned" => main = "returned" /\ reported' = reported
      BY <2>3 DEF Next, MainStep, WorkerStep, Submit, Close, Collect, Take, NoOutput, StartRun, EndRun,
             Leave, Works, Idle, Alive
    <3>. QED  BY <3>1, <3>2 DEF ReturnInv
  <2>. QED  BY <2>1, <2>2, <2>3
<1>2. CASE Submit
  <2>1. next' - Len(jobs') = next - Len(jobs)
    <3>1. Len(jobs') = Len(jobs) + 1 /\ next' = next + 1
      BY <1>0, <1>2 DEF Submit
    <3>. QED  BY <1>0, <3>1
  <2>2. UNCHANGED <<worker, parallel, outputs, runs, reported, results>>
    BY <1>2 DEF Submit, flags
  <2>. QED  BY <1>1, <2>1, <2>2, NobodyMoves, KeepResults DEF AllResults
<1>3. CASE Close \/ Return \/ (\E w \in Worker : Leave(w)) \/ UNCHANGED vars
  <2>1. UNCHANGED <<worker, parallel, jobs, next, outputs, runs, reported, results>>
    BY <1>3 DEF Close, Return, Leave, flags, vars, moving
  <2>. QED  BY <1>1, <2>1, NobodyMoves, KeepResults DEF AllResults
<1>4. CASE Collect
  <2>1. UNCHANGED <<worker, parallel, jobs, next, outputs, runs>>
    BY <1>4 DEF Collect, flags
  <2>2. AllResults' = AllResults
    BY <1>0, <1>4, MovedOver DEF Collect, AllResults
  <2>. QED  BY <1>1, <2>1, <2>2, NobodyMoves, KeepResults
<1>5. ASSUME NEW w \in Worker, Take(w) PROVE ResultsInv'
  <2>1. UNCHANGED <<outputs, runs, reported, results>>
    BY <1>5 DEF Take, flags
  <2>2. Ended' = Ended
    BY <1>5, OneIsTaken
  <2>. QED  BY <2>1, <2>2, KeepResults DEF AllResults
<1>6. ASSUME NEW w \in Worker, StartRun(w) PROVE ResultsInv'
  <2>. DEFINE j == worker[w]
  <2>1. /\ j \in Taken /\ InWork(j) /\ outputs' = [outputs EXCEPT ![j] = "started"]
        /\ UNCHANGED <<worker, parallel, jobs, next, runs, reported, results>>
    BY <1>6 DEF StartRun, Works, TypeInv, JobsInv, InWork, flags
  <2>2. Ended' = Ended
    BY <2>1, NobodyMoves
  <2>3. \A k \in Ended : outputs'[k] = outputs[k]
    BY <1>0, <2>1 DEF Ended
  <2>. QED  BY <2>1, <2>2, <2>3, KeepResults DEF AllResults
<1>7. ASSUME NEW w \in Worker, NoOutput(w) \/ EndRun(w) PROVE ResultsInv'
  <2>. DEFINE j == worker[w]
  <2>1. /\ j # 0 /\ worker' = [worker EXCEPT ![w] = 0]
        /\ UNCHANGED <<parallel, next, jobs, runs, reported>>
    BY <1>7 DEF NoOutput, EndRun, Works, Send, flags
  <2>2. /\ j \in Taken \ Ended /\ Ended' = Ended \cup {j}
    BY <2>1, OneEnds
  <2>3. j \in 1 .. runs /\ j \in Runs
    BY <2>2, TakenRuns
  <2>4. PICK r \in Result : results' = Append(results, r) /\ Fits(r, j)
    <3>1. CASE NoOutput(w)
      <4>. DEFINE q == [job |-> 0, runError |-> TRUE]
      <4>1. q \in Result /\ q.job = 0
        BY DEF Result
      <4>2. results' = Append(results, q) /\ outputs'[j] = "absent"
        BY <3>1 DEF NoOutput, Send
      <4>. QED  BY <4>1, <4>2 DEF Fits
    <3>2. CASE EndRun(w)
      <4>1. PICK ok \in BOOLEAN :
                /\ outputs' = [outputs EXCEPT ![j] = IF ok THEN "complete" ELSE "failed"]
                /\ Send(w, [job |-> j, runError |-> ~ok])
        BY <3>2 DEF EndRun
      <4>. DEFINE q == [job |-> j, runError |-> ~ok]
      <4>2. q \in Result /\ q.job = j /\ (q.runError <=> ~ok)
        BY <2>3 DEF Result
      <4>3. outputs'[j] = IF ok THEN "complete" ELSE "failed"
        BY <1>0, <2>3, <4>1
      <4>4. results' = Append(results, q)
        BY <4>1 DEF Send
      <4>. QED  BY <4>2, <4>3, <4>4 DEF Fits
    <3>. QED  BY <1>7, <3>1, <3>2
  <2>5. AllResults' = Append(AllResults, r) /\ AllResults \in Seq(Result)
    BY <1>0, <2>1, <2>4, GrowsAtItsEnd DEF AllResults
  <2>6. \A k \in Ended : outputs'[k] = outputs[k]
    <3>1. \A k \in Runs \ {j} : outputs'[k] = outputs[k]
      BY <1>0, <1>7, <2>3 DEF NoOutput, EndRun
    <3>. QED  BY <1>0, <2>2, <3>1 DEF Ended
  <2>. QED  BY <2>1, <2>2, <2>3, <2>4, <2>5, <2>6, OneResult
<1>. QED  BY <1>1, <1>2, <1>3, <1>4, <1>5, <1>6, <1>7 DEF Next, MainStep, WorkerStep

-----------------------------------------------------------------------------
(* Theorems. *)

\* The inductive invariant: where each run is, and one result for each that has ended.
THEOREM Inductive == Spec => []IInv
<1>1. Init => IInv
  BY InitType, InitOutputs, InitResults DEF IInv
<1>2. IInv /\ [Next]_vars => IInv'
  BY NextType, NextOutputs, NextResults DEF IInv
<1>. QED  BY <1>1, <1>2, PTL DEF Spec

\* With any number of runs and workers, however their ends interleave: when main returns
\* each run is reported once, under its number unless it left nothing behind.
THEOREM AllAccountedHolds == Spec => []AllAccounted
<1>1. IInv => AllAccounted
  <2>. SUFFICES ASSUME IInv, main = "returned"
                PROVE  /\ \A j \in 1..runs :
                              \/ outputs[j] = "absent" /\ Reports(j) = {}
                              \/ /\ outputs[j] \in {"failed", "complete"}
                                 /\ Cardinality(Reports(j)) = 1
                                 /\ \A i \in Reports(j) : reported[i].runError <=> outputs[j] = "failed"
                       /\ Cardinality(Reports(0)) = Cardinality({j \in 1..runs : outputs[j] = "absent"})
    BY DEF IInv, TypeInv, AllAccounted
  <2>0. /\ runs \in Nat /\ IsFiniteSet(1 .. runs) /\ Cardinality(1 .. runs) = runs
        /\ Ended \in SUBSET (1 .. runs)
        /\ results \in Seq(Result) /\ reported \in Seq(Result)
    BY TakenRuns DEF IInv, Ended, TypeInv, TypeOK
  <2>1. Len(reported) = runs /\ Len(AllResults) = Len(reported) + Len(results)
    BY <2>0 DEF IInv, ReturnInv, AllResults
  <2>2. Cardinality(Ended) >= Cardinality(1 .. runs)
    BY <2>0, <2>1 DEF IInv, ResultsInv
  <2>3. Ended = 1 .. runs
    BY <2>0, <2>2, FullCount
  <2>4. Len(results) = 0
    <3>1. Len(AllResults) = runs
      BY <2>0, <2>3 DEF IInv, ResultsInv
    <3>. QED  BY <2>0, <2>1, <3>1
  <2>5. AllResults = reported
    BY <2>0, <2>4 DEF AllResults
  <2>6. \A j : Of(j) = Reports(j)
    BY <2>5 DEF Of, Reports
  <2>7. Cardinality(Reports(0)) = Cardinality({j \in 1..runs : outputs[j] = "absent"})
    BY <2>3, <2>6 DEF IInv, ResultsInv, NoTrace
  <2>8. ASSUME NEW j \in 1 .. runs
        PROVE  \/ outputs[j] = "absent" /\ Reports(j) = {}
               \/ /\ outputs[j] \in {"failed", "complete"}
                  /\ Cardinality(Reports(j)) = 1
                  /\ \A i \in Reports(j) : reported[i].runError <=> outputs[j] = "failed"
    <3>1. outputs[j] \in {"absent", "failed", "complete"} /\ Accounted(j) /\ j \in Ended
      BY <2>3 DEF IInv, OutputsInv, ResultsInv
    <3>2. CASE outputs[j] = "absent"
      BY <2>6, <3>1, <3>2 DEF Accounted
    <3>3. CASE outputs[j] # "absent"
      <4>1. PICK i \in DOMAIN reported :
                Reports(j) = {i} /\ (reported[i].runError <=> outputs[j] = "failed")
        BY <2>5, <2>6, <3>1, <3>3 DEF Accounted
      <4>2. Cardinality({i}) = 1
        BY FS_Singleton
      <4>. QED  BY <3>1, <3>3, <4>1, <4>2
    <3>. QED  BY <3>2, <3>3
  <2>. QED  BY <2>7, <2>8
<1>. QED  BY <1>1, Inductive, PTL

=============================================================================
