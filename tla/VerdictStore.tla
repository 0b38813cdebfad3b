---------------------------- MODULE VerdictStore ----------------------------
(***************************************************************************)
(* Judging a task's runs and scoring them, assay: cli.py, judge.py and     *)
(* fingerprint.py for the rubric channel, quality.py and quality_cli.py    *)
(* for the quality channel.                                                *)
(*                                                                         *)
(* A judge pass asks one question per run and item, in a pool of threads   *)
(* with one run each, and appends each answer to the run's file under the  *)
(* version of the bundle the pass was started on.  A later pass skips what *)
(* is answered.  A score command decides whether the files may be used,    *)
(* replays them run by run and writes into every run's result.json.  The   *)
(* bundle can be edited, a pass can die, and the files can be removed.     *)
(*                                                                         *)
(* One call with its back-off (call_with_backoff) is one step.  There is   *)
(* one judge per run, as in every deployment with a configured judge.      *)
(***************************************************************************)
EXTENDS Integers, FiniteSets, SequencesExt, Subsequences

CONSTANTS
    Tasks,          \* the tasks to consider: runs, items, channel, runs with a patch, and
                    \* a bound on the judge passes
    Workers,        \* --workers
    Faults,         \* a subset of AllFaults
    MaxVersion      \* bound on the versions of the bundle

(* refuse       the bridge answers 401 or 403, or the account is capped    *)
(* unreachable  nothing listens at the bridge's address                    *)
(* kill         the pass dies between two calls                            *)
(* tear         it dies in the middle of writing to a file                 *)
AllFaults == {"refuse", "unreachable", "kill", "tear"}

ASSUME StoreAssumption ==
    /\ \A t \in Tasks : /\ t.runs \in Nat
                       /\ IsFiniteSet(t.items)
                       /\ t.channel \in {"rubric", "quality"}
                       /\ t.patched \subseteq 1..t.runs
                       /\ t.passes \in Nat
    /\ Workers \in Nat \ {0} /\ MaxVersion \in Nat \ {0}
    /\ Faults \subseteq AllFaults

VARIABLES
    task,
    bundle,         \* version of what a judge sees: items, prose, prompt, evidence
    \* the files
    store,          \* store[r]: the readable records of run r's file
    torn,           \* torn[r]: that file has a line that cannot be read
    cut,            \* cut[r]: its last record still lacks its newline
    result,         \* result[r]: the numbers in result.json and the status beside them
    \* the judge pass
    stamp,          \* the bundle version it was started on; 0 if none runs
    work,           \* work[r]: what has become of work(r) in the thread pool
    plan,           \* plan[r]: the items it has still to ask
    passes,         \* passes started so far
    last,           \* exit status and version of the last pass
    \* the score command
    against,        \* the bundle version it scores; 0 if none runs
    bare,           \* rubric: without --verdicts; quality: --shadow, not calibrated
    report          \* report[r]: what it has found for run r

files == <<store, torn, cut>>
judge == <<stamp, work, plan, passes, last>>
score == <<against, bare, report>>
vars == <<task, bundle, files, result, judge, score>>

Runs == 1..task.runs      \* in the order of the command line
Items == task.items       \* the rubric's, or the quality block's
channel == task.channel
\* The quality channel skips a run that has no patch, or an empty one.
Reviewed == IF channel = "quality" THEN task.patched ELSE Runs
Versions == 1..MaxVersion

\* usable: parses, cites evidence, not cut short; unusable: parses only;
\* none: blank after an error, or text that does not parse.
Answers == {"usable", "unusable", "none"}
Records == [item: Items, fp: Versions, answer: Answers]

WorkStates == {"idle", "queued", "asking", "finished", "failed", "raised", "cancelled"}
Settled == {"finished", "failed", "raised", "cancelled"}

Statuses == {"none", "judged", "unjudged", "no_evidence"}
Results == [status : Statuses, of : {0} \cup Versions, basis : SUBSET Versions]
Reports == [status : Statuses, basis : SUBSET Versions]
Exits == [exit : {"none", "ok", "error", "killed"}, version : {0} \cup Versions]

NoReport == [status |-> "none", basis |-> {}]
NoResult == [status |-> "none", of |-> 0, basis |-> {}]

Init ==
    /\ task \in Tasks /\ bundle = 1
    /\ store = [r \in Runs |-> <<>>] /\ torn = [r \in Runs |-> FALSE] /\ cut = torn
    /\ result = [r \in Runs |-> NoResult]
    /\ stamp = 0 /\ passes = 0 /\ last = [exit |-> "none", version |-> 0]
    /\ work = [r \in Runs |-> "idle"] /\ plan = [r \in Runs |-> <<>>]
    /\ against = 0 /\ bare = FALSE /\ report = [r \in Runs |-> NoReport]

-----------------------------------------------------------------------------
(* Reading the files.                                                      *)

\* Faulty: the rubric's resume asks for more than an answer that parses.
Mutant_already_done(r) ==
    {i \in Items : \E rec \in ToSet(store[r]) : rec.item = i /\ rec.answer = "usable"}

\* Whatever version the answer is about.
already_done(r) ==
    {i \in Items : \E rec \in ToSet(store[r]) : rec.item = i /\ rec.answer # "none"}

\* Faulty: the comparison is the wrong way round.
Mutant_keep_stale(r) == Kept(store[r], {rec \in ToSet(store[r]) : rec.fp # stamp})

\* The records of this pass's version, which _keep_current leaves in the file.
_keep_current(r) == Kept(store[r], {rec \in ToSet(store[r]) : rec.fp = stamp})

\* What quality-judge takes for decided.
_usable(r) ==
    {i \in Items : \E rec \in ToSet(_keep_current(r)) :
                      rec.item = i /\ rec.answer = "usable"}

plan_calls(done) == SetToSeq(Items \ done)

\* The versions recorded in all files of the task together.
Recorded == {rec.fp : rec \in UNION {ToSet(store[r]) : r \in Runs}}

\* Faulty: the score looks for its own version among those recorded.
Mutant_recorded_fingerprint ==
    IF bundle \in Recorded THEN bundle ELSE 0

recorded_fingerprint ==
    IF Cardinality(Recorded) = 1 THEN CHOOSE v \in Recorded : TRUE ELSE 0

\* Why the files cannot be scored: cmd_score refuses the task, build_report the run.
Refused ==
    IF channel = "rubric" THEN recorded_fingerprint # bundle
                          ELSE Recorded \ {bundle} # {}

\* ReplayJudge: the last completion recorded for the item.
LastOf(r, i) ==
    LET mine == SelectSeq(store[r], LAMBDA rec : rec.item = i)
    IN  IF mine = <<>> THEN "none" ELSE Last(mine).answer

\* AssayReport.is_judged: every item answered, and at least one that counts.
is_judged(r) ==
    /\ \A i \in Items : LastOf(r, i) # "none"
    /\ \E i \in Items : LastOf(r, i) = "usable"

\* build_report: nothing stale, and every item decided.
quality_scored(r) ==
    /\ store[r] # <<>>
    /\ \A rec \in ToSet(store[r]) : rec.fp = against
    /\ \A i \in Items : \E rec \in ToSet(store[r]) : rec.item = i /\ rec.answer = "usable"

-----------------------------------------------------------------------------
(* A judge pass.                                                           *)

\* The bundle is read and stamped, and the runs are handed to the pool.  The rubric
\* command counts pending calls first, over every file, and a partial line raises.
JudgeStart ==
    /\ stamp = 0 /\ passes < task.passes
    /\ passes' = passes + 1
    /\ IF channel = "rubric" /\ \E r \in Runs : torn[r]
       THEN /\ last' = [exit |-> "error", version |-> 0]
            /\ UNCHANGED <<stamp, work>>
       ELSE /\ last' = [exit |-> "none", version |-> 0]
            /\ stamp' = bundle
            /\ work' = [r \in Runs |-> "queued"]
    /\ UNCHANGED <<task, bundle, files, result, plan, score>>

\* A thread takes the next run and finds out what is left to ask.
WorkerStart(r) ==
    LET done == IF channel = "rubric" THEN already_done(r) ELSE _usable(r) IN
    /\ stamp # 0 /\ work[r] = "queued"
    /\ \A q \in 1..(r - 1) : work[q] # "queued"
    /\ Cardinality({q \in Runs : work[q] = "asking"}) < Workers
    /\ r \in Reviewed
    /\ IF channel = "quality" /\ torn[r]
       THEN work' = [work EXCEPT ![r] = "raised"] /\ UNCHANGED <<plan, store, cut>>
       ELSE /\ IF channel = "quality" /\ _keep_current(r) # store[r]
               THEN /\ store' = [store EXCEPT ![r] = _keep_current(r)]
                    /\ cut' = [cut EXCEPT ![r] = FALSE]
               ELSE UNCHANGED <<store, cut>>
            /\ plan' = [plan EXCEPT ![r] = plan_calls(done)]
            /\ work' = [work EXCEPT ![r] = IF Items \subseteq done THEN "finished"
                                                                   ELSE "asking"]
    /\ UNCHANGED <<task, bundle, torn, result, stamp, passes, last, score>>

\* A run with nothing to review is passed over, and no record says so.
Skip(r) ==
    /\ stamp # 0 /\ work[r] = "queued" /\ r \notin Reviewed
    /\ \A q \in 1..(r - 1) : work[q] # "queued"
    /\ Cardinality({q \in Runs : work[q] = "asking"}) < Workers
    /\ work' = [work EXCEPT ![r] = "finished"]
    /\ UNCHANGED <<task, bundle, files, result, stamp, plan, passes, last, score>>

\* What is appended runs into a last record without a newline, and neither is readable.
Glue(r) ==
    /\ cut[r]
    /\ store' = [store EXCEPT ![r] = Front(@)]
    /\ torn' = [torn EXCEPT ![r] = TRUE] /\ cut' = [cut EXCEPT ![r] = FALSE]

\* The answer a to the next item of r's plan, under the pass's version.
WithAnswer(r, a) ==
    [store EXCEPT ![r] = Append(@, [item |-> Head(plan[r]), fp |-> stamp, answer |-> a])]

\* Faulty: the error is stored as the completion.
Mutant_CallFails(r) ==
    /\ work[r] = "asking"
    /\ store' = WithAnswer(r, "error") /\ UNCHANGED <<torn, cut>>
    /\ plan' = [plan EXCEPT ![r] = Tail(@)]
    /\ work' = [work EXCEPT ![r] = IF Len(plan[r]) = 1 THEN "finished" ELSE @]
    /\ UNCHANGED <<task, bundle, result, stamp, passes, last, score>>

\* The answer, or a blank, is appended to the file.
Record(r, a) ==
    /\ work[r] = "asking"
    /\ \/ Glue(r)
       \/ ~cut[r] /\ store' = WithAnswer(r, a) /\ UNCHANGED <<torn, cut>>
    /\ plan' = [plan EXCEPT ![r] = Tail(@)]
    /\ work' = [work EXCEPT ![r] = IF Len(plan[r]) = 1 THEN "finished" ELSE @]
    /\ UNCHANGED <<task, bundle, result, stamp, passes, last, score>>

CallAnswers(r) == \E a \in Answers : Record(r, a)

\* An error that is not a throttle, thinking that took the larger budget too, or the
\* deadline of a throttled item.
CallFails(r) == Record(r, "none")

\* The run is left as it is and says why.
GiveUp(r, how) ==
    /\ work[r] = "asking"
    /\ work' = [work EXCEPT ![r] = how]
    /\ plan' = [plan EXCEPT ![r] = <<>>]
    /\ UNCHANGED <<task, bundle, files, result, stamp, passes, last, score>>

\* Faulty: the thread returns without adding to failures.
Mutant_CallRefused(r) == "refuse" \in Faults /\ GiveUp(r, "finished")

\* SubscriptionCapped and PermissionError are added to failures.
CallRefused(r) == "refuse" \in Faults /\ GiveUp(r, "failed")

\* BridgeUnreachable, which the rubric command does not catch.
CallUnreachable(r) ==
    /\ "unreachable" \in Faults
    /\ GiveUp(r, IF channel = "rubric" THEN "raised" ELSE "failed")

\* list(pool.map(...)) meets the exception in the order of the runs, and leaves the
\* map, which cancels the runs no thread has taken.
MapRaises ==
    /\ \E r \in Runs : /\ work[r] = "raised"
                       /\ \A q \in 1..(r - 1) : work[q] \in Settled
    /\ \E r \in Runs : work[r] = "queued"
    /\ work' = [r \in Runs |-> IF work[r] = "queued" THEN "cancelled" ELSE work[r]]
    /\ UNCHANGED <<task, bundle, files, result, stamp, plan, passes, last, score>>

Ends(exit) ==
    /\ last' = [exit |-> exit, version |-> IF exit = "ok" THEN stamp ELSE 0]
    /\ stamp' = 0
    /\ work' = [r \in Runs |-> "idle"]
    /\ plan' = [r \in Runs |-> <<>>]
    /\ UNCHANGED <<task, bundle, result, passes, score>>

\* Faulty: the pass waits until every run is finished.
Mutant_JudgeEnds ==
    /\ stamp # 0 /\ \A r \in Runs : work[r] = "finished"
    /\ Ends("ok")
    /\ UNCHANGED files

\* The pool is shut down when its threads are through.
JudgeEnds ==
    /\ stamp # 0 /\ \A r \in Runs : work[r] \in Settled
    /\ Ends(IF \A r \in Runs : work[r] = "finished" THEN "ok" ELSE "error")
    /\ UNCHANGED files

\* An append breaks off: inside the line, or before its newline.
TornAppend(r) ==
    /\ work[r] = "asking"
    /\ \/ Glue(r)
       \/ ~cut[r] /\ torn' = [torn EXCEPT ![r] = TRUE] /\ UNCHANGED <<store, cut>>
       \/ /\ ~cut[r] /\ \E a \in Answers : store' = WithAnswer(r, a)
          /\ cut' = [cut EXCEPT ![r] = TRUE] /\ UNCHANGED torn

\* The file that _keep_current writes anew breaks off after n records.
TornRewrite(r, n) ==
    /\ channel = "quality" /\ work[r] = "queued" /\ ~torn[r] /\ _keep_current(r) # store[r]
    /\ store' = [store EXCEPT ![r] = SubSeq(_keep_current(r), 1, n)]
    /\ \E how \in {"whole", "torn", "cut"} :
          /\ how = "torn" => n < Len(_keep_current(r))
          /\ how = "cut" => n > 0
          /\ torn' = [torn EXCEPT ![r] = (how = "torn")]
          /\ cut' = [cut EXCEPT ![r] = (how = "cut")]

\* The pass dies: between two calls, in an append, or while a thread of the quality
\* command rewrites the file it starts on.
Kill ==
    /\ stamp # 0 /\ Ends("killed")
    /\ \/ "kill" \in Faults /\ UNCHANGED files
       \/ "tear" \in Faults /\ \E r \in Runs : TornAppend(r)
       \/ "tear" \in Faults /\ \E r \in Runs : \E n \in 0..Len(_keep_current(r)) : TornRewrite(r, n)

-----------------------------------------------------------------------------
(* The score command.                                                      *)

\* The rubric command checks the task before anything else; without --verdicts there
\* is nothing to check.
ScoreStart ==
    /\ against = 0
    /\ \E b \in BOOLEAN :
          /\ channel = "rubric" /\ ~b => ~Refused
          /\ bare' = b
    /\ against' = bundle
    /\ report' = [r \in Runs |-> NoReport]
    /\ UNCHANGED <<task, bundle, files, result, judge>>

\* Run by run; a partial line raises, and nothing is written.
ScoreRun(r) ==
    /\ against # 0 /\ report[r] = NoReport
    /\ \A q \in 1..(r - 1) : report[q] # NoReport
    /\ LET reads  == ~(channel = "rubric" /\ bare)
           judged == /\ reads /\ r \in Reviewed
                     /\ IF channel = "rubric" THEN is_judged(r) ELSE quality_scored(r)
       IN  IF reads /\ torn[r]
           THEN against' = 0 /\ report' = [q \in Runs |-> NoReport]
           ELSE /\ report' = [report EXCEPT ![r] =
                     [status |-> CASE judged            -> "judged"
                                   [] r \notin Reviewed -> "no_evidence"
                                   [] OTHER             -> "unjudged",
                      basis  |-> IF judged THEN {rec.fp : rec \in ToSet(store[r])} ELSE {}]]
                /\ UNCHANGED against
    /\ UNCHANGED <<task, bundle, files, result, judge, bare>>

\* merge_scores adds numbers and never removes any.
merge_scores(old, rep) ==
    IF rep.status = "judged"
    THEN [status |-> "judged", of |-> against, basis |-> rep.basis]
    ELSE [old EXCEPT !.status = rep.status]

\* merge_quality publishes the number or takes it out.
merge_quality(old, rep) ==
    IF rep.status = "judged" /\ ~bare
    THEN [status |-> "judged", of |-> against, basis |-> rep.basis]
    ELSE [status |-> rep.status, of |-> 0, basis |-> {}]

ScoreWrite ==
    /\ against # 0 /\ \A r \in Runs : report[r] # NoReport
    /\ result' = [r \in Runs |-> IF channel = "rubric"
                                 THEN merge_scores(result[r], report[r])
                                 ELSE merge_quality(result[r], report[r])]
    /\ against' = 0 /\ report' = [r \in Runs |-> NoReport]
    /\ UNCHANGED <<task, bundle, files, judge, bare>>

-----------------------------------------------------------------------------
(* The people around it.                                                   *)

\* The rubric, the prose or the quality prompt changes, not while it is being scored.
Edit ==
    /\ bundle < MaxVersion /\ against = 0
    /\ bundle' = bundle + 1
    /\ UNCHANGED <<task, files, result, judge, score>>

\* Files that cannot be used any more are removed.
Clear ==
    /\ stamp = 0 /\ against = 0
    /\ Recorded \ {bundle} # {} \/ \E r \in Runs : torn[r]
    /\ store' = [r \in Runs |-> <<>>] /\ torn' = [r \in Runs |-> FALSE] /\ cut' = torn'
    /\ last' = [exit |-> "none", version |-> 0]
    /\ UNCHANGED <<task, bundle, result, stamp, work, plan, passes, score>>

JudgeStep ==
    \/ MapRaises \/ JudgeEnds
    \/ \E r \in Runs : WorkerStart(r) \/ Skip(r) \/ CallAnswers(r) \/ CallFails(r) \/ CallRefused(r)
                       \/ CallUnreachable(r)

ScoreStep == ScoreStart \/ ScoreWrite \/ \E r \in Runs : ScoreRun(r)

Next == JudgeStart \/ JudgeStep \/ Kill \/ ScoreStep \/ Edit \/ Clear

Spec == Init /\ [][Next]_vars

\* Every call ends: it has a timeout, and a throttled item a deadline.
FairSpec == Spec /\ WF_vars(JudgeStep)

-----------------------------------------------------------------------------
(* Properties.                                                             *)

TypeOK ==
    /\ task \in Tasks /\ bundle \in Versions
    /\ store \in [Runs -> Seq(Records)] /\ torn \in [Runs -> BOOLEAN] /\ cut \in [Runs -> BOOLEAN]
    /\ stamp \in {0} \cup Versions /\ against \in {0} \cup Versions
    /\ work \in [Runs -> WorkStates] /\ plan \in [Runs -> Seq(Items)]
    /\ passes \in 0..task.passes /\ bare \in BOOLEAN
    /\ last \in Exits /\ result \in [Runs -> Results] /\ report \in [Runs -> Reports]

\* "so they cannot be shown to match rubrics.json and truth.md as they stand"
\* (fingerprint.py:111): the numbers in a result.json rest on answers about the bundle
\* they were computed for, whatever passes, edits and scores went on around them.
ScoredOnItsBundle == \A r \in Runs : result[r].basis \subseteq {result[r].of}

\* "Judging resumes by skipping pairs whose stored answer parses" (cli.py:421): no
\* answer is paid for twice, over passes that fail and are resumed.  In the quality
\* channel the answer has to be one that decides.
AnsweredOnce ==
    \A r \in Runs : \A j, k \in DOMAIN store[r] :
        /\ store[r][j].item = store[r][k].item
        /\ \A x \in {j, k} : \/ store[r][x].answer = "usable"
                             \/ channel = "rubric" /\ store[r][x].answer = "unusable"
        => j = k

\* A pass that exits with 0 has asked everything there is to review: each item of such a
\* run has a record, in the quality channel about this very bundle, or its file has a
\* line that every reader raises on.  No refused, unreachable or cancelled run hides
\* behind the exit status, and no answer that was appended to a cut line.
ExitZeroAsked ==
    last.exit = "ok" =>
      \A r \in Reviewed, i \in Items :
        torn[r] \/ \E rec \in ToSet(store[r]) :
            rec.item = i /\ (channel = "quality" => rec.fp = last.version)

\* "Re-judge this task." (fingerprint.py:112, 118): after a pass over the bundle as it
\* stands exits with 0, no answer in the files keeps the task from being scored.
RejudgeHelps == last.exit = "ok" /\ last.version = bundle => ~Refused

\* "UNJUDGED and have no process score" (cli.py:624): a result.json whose status says
\* unjudged has no numbers in it.
NoStaleNumbers == \A r \in Runs : result[r].of # 0 => result[r].status = "judged"

\* The answers about the bundle as it stands that decide something.
Current(r) == {rec \in ToSet(store[r]) : rec.fp = bundle /\ rec.answer = "usable"}

\* Nothing but the death of a pass or the removal of the files takes away an answer
\* about the bundle as it stands: "Drop records from another era" (quality_cli.py:187)
\* is said of stale records only.  The death of a pass may strike later, when the next
\* one appends to the line it cut before the newline: then the file does not pass for a
\* good one, for it has a line that no reader accepts.
AnswersKept ==
    [][\/ bundle' # bundle \/ Kill \/ Clear
       \/ \A r \in Runs : Current(r) \subseteq Current(r)' \/ (cut[r] /\ torn'[r])]_vars

\* Every judge pass ends, also when runs are refused or the bridge goes away.
PassEnds == stamp # 0 ~> stamp = 0

-----------------------------------------------------------------------------
(* The inductive invariant.                                                *)

Decides(rec) ==
    \/ rec.answer = "usable"
    \/ channel = "rubric" /\ rec.answer = "unusable"

\* A pass is no newer than the bundle, and while it runs no answer is newer than it.
Versioned ==
    /\ stamp <= bundle
    /\ \A r \in Runs : \A rec \in ToSet(store[r]) :
          rec.fp <= bundle /\ (stamp # 0 => rec.fp <= stamp)

\* A score is of the bundle as it stands, and the rubric's check stays true until it is
\* written: no pass that could add answers about another version runs beside it.
CheckHolds ==
    /\ against \in {0, bundle}
    /\ (channel = "rubric" /\ against # 0 /\ ~bare) =>
          Recorded \subseteq {against} /\ stamp \in {0, against}

ReportHolds == \A r \in Runs : report[r].basis \subseteq {against}

\* What a thread has still to ask is asked once and was not decided before.
PlanOpen ==
    \A r \in Runs :
        /\ work[r] = "asking" => plan[r] # <<>>
        /\ IsInjective(plan[r])
        /\ \A i \in ToSet(plan[r]) : \A rec \in ToSet(store[r]) : rec.item = i => ~Decides(rec)

\* What it has not still to ask has a record, and only a thread that asks has a plan.
Asked(r, i, version) ==
    \E rec \in ToSet(store[r]) : rec.item = i /\ (channel = "quality" => rec.fp = version)

RestAsked ==
    \A r \in Runs :
        /\ work[r] \in {"asking", "finished"} /\ r \in Reviewed /\ ~torn[r] =>
              \A i \in Items : i \in ToSet(plan[r]) \/ Asked(r, i, stamp)
        /\ work[r] # "asking" => plan[r] = <<>>

\* Between passes no thread works, and the last exit status stands.
Between ==
    /\ stamp = 0 => \A r \in Runs : work[r] = "idle"
    /\ last.exit = "ok" => stamp = 0

IInv ==
    /\ TypeOK /\ Versioned /\ CheckHolds /\ ReportHolds /\ PlanOpen /\ RestAsked /\ Between
    /\ ScoredOnItsBundle /\ AnsweredOnce /\ ExitZeroAsked
=============================================================================
