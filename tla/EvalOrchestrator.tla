-------------------------- MODULE EvalOrchestrator --------------------------
(***************************************************************************)
(* The evaluation orchestrator, Evaluation._run_iterative_mode of          *)
(* benchmarks/utils/evaluation.py, with the files it resumes from          *)
(* (benchmarks/utils/iterative.py, critics.py, evaluation_utils.py).       *)
(*                                                                         *)
(* One main process walks the attempts.  In an attempt it submits every    *)
(* instance still to be processed to a pool of worker processes, collects  *)
(* results as they come, gives up on the ones past their deadline, appends *)
(* one line per result to the attempt's file, and at the end aggregates    *)
(* the attempt files into output.jsonl.  The process can be interrupted or *)
(* die at any point; the next process resumes from the attempt files.      *)
(*                                                                         *)
(* The worker's own retry loop is inside one step: here a worker           *)
(* is one step that starts an instance and one that ends it.               *)
(***************************************************************************)
EXTENDS Integers, FiniteSets, SequencesExt

CONSTANTS
    Instances,      \* the dataset's instances
    Selections,     \* the subsets of Instances a process may be asked to run
    MaxAttempts,    \* metadata.max_attempts
    NumWorkers,     \* num_workers, the size of the pool
    Critic,         \* "pass" (accepts everything) or "patch" (finish_with_patch)
    Faults,         \* the faults of the environment, a subset of AllFaults
    MaxRuns         \* bound on the number of processes started one after another

(* interrupt  Ctrl-C in the main process                                   *)
(* crash      the whole container dies, possibly while aggregating          *)
(* tear       it dies in the middle of appending a line                    *)
(* hang       a worker never returns from its instance                     *)
(* raise      _process_one_mp raises instead of returning an error output  *)
(* break      a worker process dies and takes the pool with it             *)
(* write      appending a line fails, with none or a part of it written     *)
(* publish    the same for the default writer's line in output.jsonl       *)
AllFaults == {"interrupt", "crash", "tear", "hang", "raise", "break", "write",
              "publish"}

ASSUME OrchestratorAssumption ==
    /\ MaxAttempts \in Nat \ {0}
    /\ NumWorkers \in Nat \ {0}
    /\ MaxRuns \in Nat \ {0}
    /\ Critic \in {"pass", "patch"}
    /\ Faults \subseteq AllFaults
    /\ Selections \subseteq SUBSET Instances

VARIABLES
    \* the main process
    phase,      \* where _run_iterative_mode is
    attempt,    \* current_attempt
    sel,        \* all_instances
    todo,       \* instances_to_process not yet submitted
    pending,    \* futures the loop still waits for, named by their instance
    done,       \* futures the last wait() returned, still to be collected
    late,       \* timed_out_futures still to be recorded
    warm,       \* metadata.llm.temperature was raised from 0.0 to 0.1
    \* the executor and its workers
    fut,        \* the state of the current attempt's future of an instance
    expired,    \* pending futures submitted more than instance_timeout ago
    exec,       \* <<n, i>>: a worker process is executing i for attempt n
    hung,       \* the part of exec that never returns
    broken,     \* the pool is broken
    \* the output directory
    file,       \* file[n][i]: outcomes of i readable in output.critic_attempt_n.jsonl
    torn,       \* torn[n]: that file does not end in a newline
    bare,       \* bare[n]: the instance whose last line there lacks only its newline
    out,        \* what output.jsonl holds, as <<instance, attempt, outcome>>
    \* history
    cut,        \* an append to an attempt file has failed or been cut short
    runs        \* processes started so far

main == <<phase, attempt, sel, todo, pending, done, late, warm>>
pool == <<fut, expired, exec, hung, broken>>
disk == <<file, torn, bare, out, cut>>
vars == <<main, pool, disk, runs>>

Attempts == 1..MaxAttempts

\* accept: no error and the critic is content; reject: no error but it is not;
\* error: an EvalOutput with its error set; timeout: one written by the main process.
Outcomes == {"accept", "reject", "error", "timeout"}
WorkerOutcomes == IF Critic = "pass" THEN {"accept", "error"}
                                     ELSE {"accept", "reject", "error"}
Errors == {"error", "timeout"}

\* evaluate_output.  An error output has no history and no patch: finish_with_patch
\* refuses it, and PassCritic accepts it like any other.
Accepted == IF Critic = "pass" THEN Outcomes ELSE {"accept"}

FutureStates == {"none", "queued", "claimed", "running", "failed", "cancelled"}
                \cup WorkerOutcomes
Finished == WorkerOutcomes \cup {"failed"}

InLoop == {"wait", "collect", "expire"}
InTry  == InLoop \cup {"submit", "shutdown"}
Phases == InTry \cup {"off", "select", "aggregate", "done", "stopped"}

NoFutures == [i \in Instances |-> "none"]

Init ==
    /\ phase = "off" /\ attempt = 1 /\ sel = {} /\ warm = FALSE
    /\ todo = {} /\ pending = {} /\ done = {} /\ late = {}
    /\ fut = NoFutures /\ expired = {} /\ exec = {} /\ hung = {} /\ broken = FALSE
    /\ file = [n \in Attempts |-> [i \in Instances |-> <<>>]]
    /\ torn = [n \in Attempts |-> FALSE] /\ bare = [n \in Attempts |-> {}]
    /\ out = {} /\ cut = FALSE
    /\ runs = 0

-----------------------------------------------------------------------------
(* Reading the attempt files.                                              *)

\* Faulty: only what the critic accepts counts as completed.
Mutant_get_completed_instances(n) ==
    {i \in Instances : \E k \in DOMAIN file[n][i] : file[n][i][k] \in Accepted}

get_completed_instances(n) == {i \in Instances : file[n][i] # <<>>}

\* Faulty: an output with an error is not taken for a failure.
Mutant_get_failed_instances(n) ==
    {i \in Instances : \E k \in DOMAIN file[n][i] :
                          file[n][i][k] \notin Accepted \cup Errors}

get_failed_instances(n) ==
    {i \in Instances : \E k \in DOMAIN file[n][i] : file[n][i][k] \notin Accepted}

\* Faulty: every attempt takes what is not completed in it.
Mutant_get_instances_for_attempt(n) == sel \ get_completed_instances(n)

_get_instances_for_attempt(n) ==
    IF n = 1 THEN sel \ get_completed_instances(1)
             ELSE (sel \cap get_failed_instances(n - 1)) \ get_completed_instances(n)

_get_output_rank(o) == IF o \in Errors THEN 0 ELSE IF o \in Accepted THEN 2 ELSE 1

\* Faulty: an equal rank replaces the later attempt's line.
Mutant_Better(best, line) ==
    IF best = <<>> \/ _get_output_rank(line[3]) >= _get_output_rank(best[3])
    THEN line ELSE best

Better(best, line) ==
    IF best = <<>> \/ _get_output_rank(line[3]) > _get_output_rank(best[3])
    THEN line ELSE best

\* The lines of i in attempt n's file, after the later attempts' gave best.
ReadFile(i, n, best) ==
    LET upto[j \in 0..Len(file[n][i])] ==
            IF j = 0 THEN best ELSE Better(upto[j - 1], <<i, n, file[n][i][j]>>)
    IN  upto[Len(file[n][i])]

\* The files are read from the last attempt's to the first's.
BestOf(i) ==
    LET read[k \in 0..MaxAttempts] ==
            IF k = 0 THEN <<>> ELSE ReadFile(i, MaxAttempts + 1 - k, read[k - 1])
    IN  read[MaxAttempts]

\* Faulty: errors are written too.
Mutant_aggregate_results ==
    {l \in Instances \X Attempts \X Outcomes : l = BestOf(l[1])}

\* Every instance of the files, selected now or not; errors are skipped.
aggregate_results ==
    {l \in Instances \X Attempts \X Outcomes : l = BestOf(l[1]) /\ l[3] \notin Errors}

-----------------------------------------------------------------------------
(* attempt_on_result: one line in the attempt's file, then the default     *)
(* writer's line in output.jsonl.  A failure of either is only logged.     *)

\* What is still readable once more is written behind a last line without a newline:
\* the readers parse a stripped line, so that one could be read until now.
Glued(n) ==
    [file EXCEPT ![n] = [i \in Instances |-> IF i \in bare[n] THEN Front(@[i]) ELSE @[i]]]

\* The append of a line ends early: before its first byte, before its last one, or
\* with nothing but the newline missing, which leaves a readable line at a clean end.
CutShort(n, i, o) ==
    /\ cut' = TRUE
    /\ \/ UNCHANGED <<file, torn, bare>>
       \/ /\ file' = Glued(n)
          /\ torn' = [torn EXCEPT ![n] = TRUE] /\ bare' = [bare EXCEPT ![n] = {}]
       \/ /\ ~torn[n]
          /\ file' = [file EXCEPT ![n][i] = Append(@, o)]
          /\ torn' = [torn EXCEPT ![n] = TRUE] /\ bare' = [bare EXCEPT ![n] = {i}]

\* Faulty: the attempt file is opened with "w".
Mutant_AppendLine(n, i, o) ==
    /\ file' = [file EXCEPT ![n] = [j \in Instances |-> IF j = i THEN <<o>> ELSE <<>>]]
    /\ torn' = [torn EXCEPT ![n] = FALSE] /\ bare' = [bare EXCEPT ![n] = {}]
    /\ UNCHANGED cut

\* A line after an unfinished one is glued to it, and neither can be read.
AppendLine(n, i, o) ==
    \/ /\ file' = IF torn[n] THEN Glued(n) ELSE [file EXCEPT ![n][i] = Append(@, o)]
       /\ torn' = [torn EXCEPT ![n] = FALSE] /\ bare' = [bare EXCEPT ![n] = {}]
       /\ UNCHANGED cut
    \/ "write" \in Faults /\ CutShort(n, i, o)

default_on_result_writer(n, i, o) ==
    \/ out' = IF o \in Errors THEN out ELSE out \cup {<<i, n, o>>}
    \/ "publish" \in Faults /\ out' = out

attempt_on_result(i, o) ==
    /\ AppendLine(attempt, i, o)
    /\ default_on_result_writer(attempt, i, o)

-----------------------------------------------------------------------------
(* The main process.                                                       *)

\* A process is started on a selection (dataset, n-limit, select file).
Start ==
    /\ phase \in {"off", "done", "stopped"} /\ runs < MaxRuns
    /\ runs' = runs + 1
    /\ \E s \in Selections :
          /\ sel' = s
          /\ phase' = IF s = {} THEN "done" ELSE "select"
    /\ attempt' = 1 /\ warm' = FALSE
    /\ UNCHANGED <<todo, pending, done, late, pool, disk>>

\* Faulty: range(1, max_attempts + 2).
Mutant_NextAttempt ==
    IF attempt <= MaxAttempts THEN phase' = "select" /\ attempt' = attempt + 1
                              ELSE phase' = "aggregate" /\ UNCHANGED attempt

NextAttempt ==
    IF attempt < MaxAttempts THEN /\ phase' = "select"
                                  /\ attempt' = attempt + 1
                             ELSE /\ phase' = "aggregate"
                                  /\ UNCHANGED attempt

\* The attempt's instances and a fresh pool, or straight on to the next attempt.
Select ==
    /\ phase = "select"
    /\ LET process == _get_instances_for_attempt(attempt) IN
         \/ process = {} /\ NextAttempt /\ UNCHANGED <<todo, warm>>
         \/ /\ process # {}
            /\ todo' = process /\ warm' = (attempt > 1)
            /\ phase' = "submit" /\ UNCHANGED attempt
    /\ UNCHANGED <<sel, pending, done, late, pool, disk, runs>>

Submit(i) ==
    /\ phase = "submit" /\ i \in todo /\ ~broken
    /\ fut' = [fut EXCEPT ![i] = "queued"]
    /\ todo' = todo \ {i} /\ pending' = pending \cup {i}
    /\ phase' = IF todo = {i} THEN "wait" ELSE "submit"
    /\ UNCHANGED <<attempt, sel, done, late, warm, expired, exec, hung, broken,
                   disk, runs>>

\* wait(): whatever is finished now, nothing when the 60 s pass without a result.
Wait ==
    /\ phase = "wait"
    /\ done' = {i \in pending : fut[i] \in Finished}
    /\ pending' = pending \ done'
    /\ expired' = expired \ done'
    /\ phase' = "collect"
    /\ UNCHANGED <<attempt, sel, todo, late, warm, fut, exec, hung, broken, disk, runs>>

\* fut.result() gives the output, or raises and leaves no trace but a log line.
Collect(i) ==
    /\ phase = "collect" /\ i \in done
    /\ done' = done \ {i}
    /\ IF fut[i] = "failed" THEN UNCHANGED disk ELSE attempt_on_result(i, fut[i])
    /\ UNCHANGED <<phase, attempt, sel, todo, pending, late, warm, pool, runs>>

\* Faulty: no deadline is ever checked.
Mutant_CheckDeadlines ==
    /\ phase = "collect" /\ done = {}
    /\ late' = {}
    /\ phase' = "expire"
    /\ UNCHANGED <<attempt, sel, todo, pending, done, warm, pool, disk, runs>>

\* The deadlines, checked against what was still pending when wait() returned.
CheckDeadlines ==
    /\ phase = "collect" /\ done = {}
    /\ late' = pending \cap expired
    /\ phase' = "expire"
    /\ UNCHANGED <<attempt, sel, todo, pending, done, warm, pool, disk, runs>>

\* Faulty: the future given up on stays in the set wait() is called with.
Mutant_TimeOut(i) ==
    /\ phase = "expire" /\ i \in late
    /\ late' = late \ {i} /\ expired' = expired \ {i}
    /\ attempt_on_result(i, "timeout")
    /\ fut' = [fut EXCEPT ![i] = IF @ = "queued" THEN "cancelled" ELSE @]
    /\ UNCHANGED <<phase, attempt, sel, todo, pending, done, warm, exec, hung, broken, runs>>

\* cancel() has an effect only on a future the executor has not claimed.
TimeOut(i) ==
    /\ phase = "expire" /\ i \in late
    /\ late' = late \ {i} /\ pending' = pending \ {i}
    /\ expired' = expired \ {i}
    /\ attempt_on_result(i, "timeout")
    /\ fut' = [fut EXCEPT ![i] = IF @ = "queued" THEN "cancelled" ELSE @]
    /\ UNCHANGED <<phase, attempt, sel, todo, done, warm, exec, hung, broken, runs>>

\* Faulty: the loop is not left when the pool is broken.
Mutant_LoopAgain ==
    /\ phase = "expire" /\ late = {}
    /\ phase' = IF pending = {} /\ ~broken THEN "shutdown" ELSE "wait"
    /\ UNCHANGED <<attempt, sel, todo, pending, done, late, warm, pool, disk, runs>>

LoopAgain ==
    /\ phase = "expire" /\ late = {}
    /\ phase' = IF pending = {} THEN "shutdown" ELSE "wait"
    /\ UNCHANGED <<attempt, sel, todo, pending, done, late, warm, pool, disk, runs>>

\* Faulty: pool.shutdown(wait=False).
Mutant_Shutdown ==
    /\ phase = "shutdown"
    /\ NextAttempt
    /\ warm' = FALSE
    /\ fut' = NoFutures /\ expired' = {} /\ broken' = FALSE
    /\ UNCHANGED <<sel, todo, pending, done, late, exec, hung, disk, runs>>

\* pool.shutdown(wait=True) returns when no submitted work is left.
Shutdown ==
    /\ phase = "shutdown"
    /\ \A i \in Instances : fut[i] \notin {"queued", "claimed", "running"}
    /\ NextAttempt
    /\ warm' = FALSE
    /\ fut' = NoFutures /\ expired' = {} /\ broken' = FALSE
    /\ UNCHANGED <<sel, todo, pending, done, late, exec, hung, disk, runs>>

Aggregate ==
    /\ phase = "aggregate"
    /\ out' = aggregate_results
    /\ phase' = "done"
    /\ UNCHANGED <<attempt, sel, todo, pending, done, late, warm, pool, file, torn, bare,
                   cut, runs>>

-----------------------------------------------------------------------------
(* The end of a process before its time.                                   *)

\* The main process is gone and its workers with it.
Stop ==
    /\ phase' = "stopped"
    /\ todo' = {} /\ pending' = {} /\ done' = {} /\ late' = {}
    /\ fut' = NoFutures /\ expired' = {} /\ exec' = {} /\ hung' = {} /\ broken' = FALSE
    /\ UNCHANGED <<attempt, sel, warm, runs>>

\* _cleanup_pool(wait=False): cancel what can be, terminate every worker, re-raise.
Interrupt ==
    /\ phase \in InTry /\ "interrupt" \in Faults
    /\ Stop /\ UNCHANGED disk

\* submit() on a broken pool raises, and takes the same way out.
SubmitRaises ==
    /\ phase = "submit" /\ broken
    /\ Stop /\ UNCHANGED disk

\* A crash can cut short the line being appended, or output.jsonl being rewritten.
Crash ==
    /\ phase \in InTry \cup {"select", "aggregate"}
    /\ Stop
    /\ \/ "crash" \in Faults /\ UNCHANGED disk
       \/ /\ "crash" \in Faults /\ phase = "aggregate"
          /\ out' \in SUBSET aggregate_results
          /\ UNCHANGED <<file, torn, bare, cut>>
       \/ /\ "tear" \in Faults
          /\ \/ \E i \in done : fut[i] # "failed" /\ CutShort(attempt, i, fut[i])
             \/ \E i \in late : CutShort(attempt, i, "timeout")
          /\ UNCHANGED out

-----------------------------------------------------------------------------
(* ProcessPoolExecutor and its workers.                                    *)

\* The executor moves work to its call queue, one more than it has workers,
\* and from then on the future cannot be cancelled.
Claim(i) ==
    /\ fut[i] = "queued" /\ ~broken
    /\ Cardinality({j \in Instances : fut[j] = "claimed"}) <= NumWorkers
    /\ fut' = [fut EXCEPT ![i] = "claimed"]
    /\ UNCHANGED <<main, expired, exec, hung, broken, disk, runs>>

\* Workers of the current attempt's pool.
Busy == {p \in exec : p[1] = attempt}

WorkerStart(i) ==
    /\ fut[i] = "claimed" /\ Cardinality(Busy) < NumWorkers
    /\ fut' = [fut EXCEPT ![i] = "running"]
    /\ exec' = exec \cup {<<attempt, i>>}
    /\ UNCHANGED <<main, expired, hung, broken, disk, runs>>

\* A worker returns its output, or its exception; its own attempt's future,
\* if the main process has not moved on, takes it.
WorkerEnd(n, i) ==
    /\ <<n, i>> \in exec \ hung
    /\ exec' = exec \ {<<n, i>>}
    /\ IF n = attempt /\ fut[i] = "running"
       THEN \E r \in WorkerOutcomes \cup (IF "raise" \in Faults THEN {"failed"} ELSE {}) :
               fut' = [fut EXCEPT ![i] = r]
       ELSE UNCHANGED fut
    /\ UNCHANGED <<main, expired, hung, broken, disk, runs>>

WorkerHang(n, i) ==
    /\ "hang" \in Faults /\ <<n, i>> \in exec \ hung
    /\ hung' = hung \cup {<<n, i>>}
    /\ UNCHANGED <<main, fut, expired, exec, broken, disk, runs>>

\* A worker process dies: every unfinished future gets BrokenProcessPool and the
\* executor terminates the other workers.
WorkerDies ==
    /\ "break" \in Faults /\ exec # {}
    /\ broken' = TRUE /\ exec' = {} /\ hung' = {}
    /\ fut' = [i \in Instances |->
                 IF fut[i] \in {"queued", "claimed", "running"} THEN "failed" ELSE fut[i]]
    /\ UNCHANGED <<main, expired, disk, runs>>

\* instance_timeout seconds have passed since i was submitted.
Expire(i) ==
    /\ phase \in InLoop \cup {"submit"}
    /\ i \in pending \ expired
    /\ expired' = expired \cup {i}
    /\ UNCHANGED <<main, fut, exec, hung, broken, disk, runs>>

-----------------------------------------------------------------------------
\* The process has ended and nobody starts another.
Over == phase \in {"done", "stopped"} /\ runs = MaxRuns /\ UNCHANGED vars

MainStep ==
    \/ Select \/ Wait \/ CheckDeadlines \/ LoopAgain \/ Shutdown \/ Aggregate
    \/ SubmitRaises
    \/ \E i \in Instances : Submit(i) \/ Collect(i) \/ TimeOut(i)

WorkerStep ==
    \/ \E i \in Instances : Claim(i) \/ WorkerStart(i)
    \/ \E n \in Attempts, i \in Instances : WorkerEnd(n, i)

FaultStep ==
    \/ Interrupt \/ Crash \/ WorkerDies
    \/ \E n \in Attempts, i \in Instances : WorkerHang(n, i)

Next ==
    \/ Start \/ MainStep \/ WorkerStep \/ FaultStep \/ Over
    \/ \E i \in Instances : Expire(i)

Spec == Init /\ [][Next]_vars

\* The main process is never stopped while it can run, a worker that is not hung
\* ends its instance (evaluate_instance has its own limits), and time passes.
FairSpec ==
    /\ Spec
    /\ WF_vars(MainStep)
    /\ \A i \in Instances : /\ WF_vars(Claim(i)) /\ WF_vars(WorkerStart(i))
                            /\ WF_vars(Expire(i))
    /\ \A n \in Attempts, i \in Instances : WF_vars(WorkerEnd(n, i))

-----------------------------------------------------------------------------
(* Properties.                                                             *)

TypeOK ==
    /\ phase \in Phases /\ attempt \in Attempts /\ sel \subseteq Instances
    /\ todo \subseteq Instances /\ pending \subseteq Instances
    /\ done \subseteq Instances /\ late \subseteq Instances
    /\ warm \in BOOLEAN /\ broken \in BOOLEAN
    /\ fut \in [Instances -> FutureStates] /\ expired \subseteq Instances
    /\ exec \subseteq Attempts \X Instances /\ hung \subseteq exec
    /\ file \in [Attempts -> [Instances -> Seq(Outcomes)]]
    /\ torn \in [Attempts -> BOOLEAN] /\ bare \in [Attempts -> SUBSET Instances]
    /\ out \subseteq Instances \X Attempts \X Outcomes
    /\ cut \in BOOLEAN /\ runs \in 0..MaxRuns

\* However results, deadlines, failures and restarts interleave, an attempt file
\* never holds two readable lines for one instance: a result that comes after its
\* instance was given up on is dropped, and a resumed process redoes nothing it
\* can read (evaluation.py:232-235 and the wait loop).
OneLinePerAttempt ==
    \A n \in Attempts, i \in Instances : Len(file[n][i]) <= 1

\* An instance has a line for attempt n > 1 only if the critic refused its line
\* of attempt n - 1, whatever processes wrote the two (evaluation.py:257).  Once an
\* append has been cut short the line of attempt n - 1 can be lost later on; what
\* remains is that it was there when attempt n was entered (AttemptLedger).
RetriesOnlyRefused ==
    ~cut => \A n \in Attempts \ {1}, i \in Instances :
        file[n][i] # <<>> =>
            \E k \in DOMAIN file[n - 1][i] : file[n - 1][i][k] \notin Accepted

\* An instance is never executed by two workers at once and no more than
\* num_workers workers exist, also across the change of attempt: a worker that
\* outlived its deadline is gone before the next attempt's pool starts.
WorkersBounded ==
    /\ Cardinality(exec) <= NumWorkers
    /\ \A p, q \in exec : p[2] = q[2] => p = q

\* After aggregation output.jsonl has, for each instance, its most recent
\* critic-accepted line of any attempt, else its most recent line without an
\* error, else nothing (iterative.py:91-92, _get_output_rank).
PublishedIsBest ==
    phase = "done" /\ sel # {} =>
      \A i \in Instances :
        LET has(n, S) == \E k \in DOMAIN file[n][i] : file[n][i][k] \in S \ Errors
            last(S)   == {n \in Attempts :
                            has(n, S) /\ \A m \in (n + 1)..MaxAttempts : ~has(m, S)}
            mine      == {l \in out : l[1] = i}
            best(S)   == \E l \in mine : mine = {l} /\ l[2] \in last(S) /\ l[3] \in S \ Errors
        IN  IF last(Accepted) # {} THEN best(Accepted)
            ELSE IF last(Outcomes) # {} THEN best(Outcomes) ELSE mine = {}

\* "will retry failed instances multiple times" (evaluation.py:212): when a process
\* ends by itself, each of its instances has a line the critic accepts or a refused
\* line in every attempt, unless an append was cut short.
FailedAreRetried ==
    phase = "done" /\ ~cut =>
      \A i \in sel :
        \/ \E n \in Attempts : \E k \in DOMAIN file[n][i] : file[n][i][k] \in Accepted
        \/ \A n \in Attempts : file[n][i] # <<>>

\* "handles all resume scenarios naturally ... Not completed in attempt 1 yet ->
\* include them" (evaluation.py:232-233): when a process ends by itself, each of
\* its instances can be read in the first attempt's file.
AllAnswered == phase = "done" => \A i \in sel : file[1][i] # <<>>

\* A line whose append ended stays, the same, through every later step and restart.
\* Only a line whose own append was cut before its newline can be lost, to the next
\* line appended behind it; no other line is ever brought into that position
\* (evaluation.py:351-352).
LinesStay ==
    [][\A n \in Attempts, i \in Instances :
          /\ \/ IsPrefix(file[n][i], file'[n][i])
             \/ i \in bare[n] /\ file'[n][i] = Front(file[n][i])
          /\ i \in bare'[n] => i \in bare[n] \/ file'[n][i] # file[n][i]]_vars

(* The strengthening that makes these inductive.  What an attempt still has *)
(* to do is unrecorded in it and refused in the one before; it is in exactly *)
(* one place; and the workers are those of the attempt's running futures.  *)

\* Instances of the attempt that have no line in its file yet.
Owed == todo \cup pending \cup done

WorkInOnePlace ==
    /\ late \subseteq pending
    /\ todo \cap pending = {} /\ pending \cap done = {}
    /\ phase \notin InLoop \cup {"submit"} => pending = {}
    /\ phase # "submit" => todo = {}
    /\ phase # "collect" => done = {}
    /\ phase # "expire" => late = {}
    /\ \A i \in done : fut[i] \in Finished

OwedIsEligible ==
    \A i \in Owed :
        /\ file[attempt][i] = <<>>
        /\ attempt > 1 => i \in get_failed_instances(attempt - 1)

WorkersAreRunning ==
    /\ IsFiniteSet(exec) /\ Cardinality(exec) <= NumWorkers
    /\ \A p \in exec : p[1] = attempt /\ fut[p[2]] = "running"
    /\ \A i \in todo : fut[i] = "none"
    /\ phase \notin InTry => exec = {} /\ fut = NoFutures

UnfinishedLines ==
    \A n \in Attempts :
        /\ bare[n] # {} => torn[n]
        /\ torn[n] => cut
        /\ \A i \in bare[n] : bare[n] = {i} /\ file[n][i] # <<>>

\* Only these faults cut an append short.
CutByFault == cut => Faults \cap {"write", "tear"} # {}

IInv ==
    /\ TypeOK /\ WorkInOnePlace /\ OwedIsEligible /\ WorkersAreRunning
    /\ UnfinishedLines /\ CutByFault /\ OneLinePerAttempt /\ RetriesOnlyRefused

\* Between the aggregation and the next process output.jsonl is its result.
Aggregated == phase = "done" /\ sel # {} => out = aggregate_results

(* Where no worker raises, no pool breaks and no append was cut short,      *)
(* every attempt that is over has settled every selected instance.         *)

Lossless == Faults \cap {"raise", "break"} = {}

NothingFailed == ~broken /\ \A i \in Instances : fut[i] # "failed"

Settled(i, n) ==
    \/ \E m \in Attempts : \E k \in DOMAIN file[m][i] : file[m][i][k] \in Accepted
    \/ \A m \in 1..n : file[m][i] # <<>>

AttemptsSettle ==
    ~cut =>
      /\ phase \in InTry \cup {"select"} => \A i \in sel : Settled(i, attempt - 1)
      /\ phase \in InTry => \A i \in sel \ Owed : Settled(i, attempt)
      /\ phase \in {"aggregate", "done"} => \A i \in sel : Settled(i, MaxAttempts)

\* The attempt files implement the ledger.
Ledger == INSTANCE AttemptLedger WITH
    ledger <- [n \in Attempts |-> [i \in Instances |-> ToSet(file[n][i])]],
    unclosed <- {p \in Attempts \X Instances : p[2] \in bare[p[1]]},
    MayCut <- Faults \cap {"write", "tear"} # {}
LedgerSpec == Ledger!Spec

\* The wait loop ends in every process, also with workers that hang: every
\* submitted instance is collected or given up on.
LoopEnds == phase \in InLoop ~> phase \notin InLoop

\* A process that is started ends.
RunEnds == phase = "select" ~> phase \in {"done", "stopped"}
=============================================================================
