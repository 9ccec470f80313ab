------------------------------ MODULE BatchRunner ------------------------------
(***************************************************************************)
(* The batch runner (lotus-soup/runner): main hands the runs of one        *)
(* composition to its workers through the channel jobs and collects what   *)
(* they send through the channel results; both have room for all runs.     *)
(* From where the composition has been built.                              *)
(*                                                                         *)
(* What a testground run does is left out, except what it leaves in its    *)
(* output directory.                                                       *)
(***************************************************************************)
EXTENDS Naturals, FiniteSets, Sequences

CONSTANTS
    MaxRuns,        \* bound on the flag -runs
    MaxParallel     \* bound on the flag -parallel

ASSUME BoundsAssumption == MaxRuns \in Nat /\ MaxParallel \in Nat

VARIABLES
    runs, parallel, \* the flags
    main,           \* "submitting", "collecting", "returned"
    next,           \* j: the next run to submit
    jobs,           \* the channel of jobs: run numbers
    closed,         \* jobs is closed
    worker,         \* worker[w]: the run it works on, or 0
    gone,           \* the workers that have left their loop
    results,        \* the channel of results
    outputs,        \* outputs[j]: directory of run j: "absent", "started", "failed", "complete"
    reported        \* the results that main has taken

flags == <<runs, parallel>>
moving == <<main, next, jobs, closed, worker, gone, results, outputs, reported>>
vars == <<flags, moving>>

Runs == 1..MaxRuns
Worker == 1..parallel

\* jobResult: the zero value of its job stands for run 0.
Result == [job : {0} \cup Runs, runError : BOOLEAN]

Init ==
    /\ runs \in 0..MaxRuns /\ parallel \in 0..MaxParallel
    /\ main = "submitting" /\ next = 1
    /\ jobs = <<>> /\ closed = FALSE /\ results = <<>>
    /\ worker = [w \in Worker |-> 0] /\ gone = {}
    /\ outputs = [j \in Runs |-> "absent"]
    /\ reported = <<>>

\* main has not returned, which ends the process.
Alive == main # "returned"

-----------------------------------------------------------------------------
(* main *)

Submit ==
    /\ main = "submitting" /\ next <= runs /\ Len(jobs) < runs
    /\ jobs' = Append(jobs, next)
    /\ next' = next + 1
    /\ UNCHANGED <<flags, main, closed, worker, gone, results, outputs, reported>>

Close ==
    /\ main = "submitting" /\ next > runs
    /\ closed' = TRUE /\ main' = "collecting"
    /\ UNCHANGED <<flags, next, jobs, worker, gone, results, outputs, reported>>

Collect ==
    /\ main = "collecting" /\ Len(reported) < runs /\ results # <<>>
    /\ reported' = Append(reported, Head(results))
    /\ results' = Tail(results)
    /\ UNCHANGED <<flags, main, next, jobs, closed, worker, gone, outputs>>

\* Faulty variant: main waits until all jobs are taken, not until they are done.
Return_JobsTaken ==
    /\ main = "collecting" /\ jobs = <<>>
    /\ main' = "returned"
    /\ UNCHANGED <<flags, next, jobs, closed, worker, gone, results, outputs, reported>>

Return ==
    /\ main = "collecting" /\ Len(reported) = runs
    /\ main' = "returned"
    /\ UNCHANGED <<flags, next, jobs, closed, worker, gone, results, outputs, reported>>

-----------------------------------------------------------------------------
(* A worker. *)

Idle(w) == Alive /\ w \notin gone /\ worker[w] = 0

Take(w) ==
    /\ Idle(w) /\ jobs # <<>>
    /\ worker' = [worker EXCEPT ![w] = Head(jobs)]
    /\ jobs' = Tail(jobs)
    /\ UNCHANGED <<flags, main, next, closed, gone, results, outputs, reported>>

Works(w) == Alive /\ worker[w] # 0

\* The worker sends the result of its run, and is ready for the next.
Send(w, result) ==
    /\ Len(results) < runs
    /\ results' = Append(results, result)
    /\ worker' = [worker EXCEPT ![w] = 0]

\* The directory or the file for the output cannot be made: the result does not say
\* for which job.
NoOutput(w) ==
    /\ Works(w) /\ outputs[worker[w]] = "absent"
    /\ Send(w, [job |-> 0, runError |-> TRUE])
    /\ UNCHANGED <<flags, main, next, jobs, closed, gone, outputs, reported>>

StartRun(w) ==
    /\ Works(w) /\ outputs[worker[w]] = "absent"
    /\ outputs' = [outputs EXCEPT ![worker[w]] = "started"]
    /\ UNCHANGED <<flags, main, next, jobs, closed, worker, gone, results, reported>>

\* Faulty variant: the result of a failed run does not say for which job either.
EndRun_NoJob(w) ==
    /\ Works(w) /\ outputs[worker[w]] = "started"
    /\ \E ok \in BOOLEAN :
        /\ outputs' = [outputs EXCEPT ![worker[w]] = IF ok THEN "complete" ELSE "failed"]
        /\ Send(w, [job |-> IF ok THEN worker[w] ELSE 0, runError |-> ~ok])
    /\ UNCHANGED <<flags, main, next, jobs, closed, gone, reported>>

\* Faulty variant: a worker gives up after a failed run.
EndRun_GiveUp(w) ==
    /\ Works(w) /\ outputs[worker[w]] = "started"
    /\ \E ok \in BOOLEAN :
        /\ outputs' = [outputs EXCEPT ![worker[w]] = IF ok THEN "complete" ELSE "failed"]
        /\ Send(w, [job |-> worker[w], runError |-> ~ok])
        /\ gone' = IF ok THEN gone ELSE gone \cup {w}
    /\ UNCHANGED <<flags, main, next, jobs, closed, reported>>

\* testground comes back, with an error or without.
EndRun(w) ==
    /\ Works(w) /\ outputs[worker[w]] = "started"
    /\ \E ok \in BOOLEAN :
        /\ outputs' = [outputs EXCEPT ![worker[w]] = IF ok THEN "complete" ELSE "failed"]
        /\ Send(w, [job |-> worker[w], runError |-> ~ok])
    /\ UNCHANGED <<flags, main, next, jobs, closed, gone, reported>>

\* The range over jobs ends.
Leave(w) ==
    /\ Idle(w) /\ jobs = <<>> /\ closed
    /\ gone' = gone \cup {w}
    /\ UNCHANGED <<flags, main, next, jobs, closed, worker, results, outputs, reported>>

-----------------------------------------------------------------------------
MainStep == Submit \/ Close \/ Collect \/ Return
WorkerStep(w) == Take(w) \/ NoOutput(w) \/ StartRun(w) \/ EndRun(w) \/ Leave(w)

Next == MainStep \/ \E w \in Worker : WorkerStep(w)

Spec == Init /\ [][Next]_vars

\* Go schedules every goroutine that can run, and every testground run comes to an end.
FairSpec ==
    /\ Spec
    /\ WF_vars(MainStep)
    /\ \A w \in 1..MaxParallel : WF_vars(w \in Worker /\ WorkerStep(w))

-----------------------------------------------------------------------------
(* Properties *)

\* The variables have their types, and no channel overflows.
TypeOK ==
    /\ runs \in 0..MaxRuns /\ parallel \in 0..MaxParallel
    /\ main \in {"submitting", "collecting", "returned"}
    /\ next \in 1..(runs + 1)
    /\ jobs \in Seq(Runs) /\ Len(jobs) <= runs /\ closed \in BOOLEAN
    /\ worker \in [Worker -> 0..runs] /\ gone \subseteq Worker
    /\ results \in Seq(Result) /\ Len(results) <= runs
    /\ outputs \in [Runs -> {"absent", "started", "failed", "complete"}]
    /\ reported \in Seq(Result)

Reports(j) == {i \in DOMAIN reported : reported[i].job = j}

\* When main returns, every run that left something in its directory has come to its
\* end and is reported under its number, once, with an error exactly if it failed; and
\* there is one report of "job 0" for each run that could not be started.
\* (The variables have their types.)
AllAccounted ==
    /\ TypeOK
    /\ main = "returned" =>
           /\ \A j \in 1..runs :
               \/ outputs[j] = "absent" /\ Reports(j) = {}
               \/ /\ outputs[j] \in {"failed", "complete"}
                  /\ Cardinality(Reports(j)) = 1
                  /\ \A i \in Reports(j) : reported[i].runError <=> outputs[j] = "failed"
           /\ Cardinality(Reports(0)) = Cardinality({j \in 1..runs : outputs[j] = "absent"})

\* With a worker, or with nothing to do, main returns.  (It submits all jobs before it
\* takes a result: the channels must hold them all, and a worker must outlive a run
\* that fails.  With no worker it waits for ever.)
Completes == (parallel > 0 \/ runs = 0) ~> (main = "returned")

=============================================================================
