---------------------------- MODULE ImageBuilder ----------------------------
(***************************************************************************)
(* Building the agent-server images: build_all_images and                  *)
(* _build_with_logging of benchmarks/utils/build_utils.py, the BuildKit    *)
(* resets of buildx_utils.py, and the wrapping of swebench/build_images.py *)
(* as the step after a build.                                              *)
(*                                                                         *)
(* The images are built batch by batch, a batch in a pool of processes of  *)
(* its own, to which they are submitted one by one.  A build that fails    *)
(* resets BuildKit, unless one of the other processes did so a moment ago, *)
(* and is tried again.  Builds push to the registry (--push).  Pruning     *)
(* after a batch and the logs are left out.                                *)
(***************************************************************************)
EXTENDS Integers, FiniteSets, SequencesExt

CONSTANTS
    base_images,    \* a sequence without repetitions, as collect_unique_base_images returns
    NeedWrap,       \* those the step after the build wraps
    BatchSize,      \* BUILD_BATCH_SIZE
    max_workers,
    max_retries,
    Throttle,       \* BUILDKIT_RESET_THROTTLE_SEC, in ticks of the clock
    Settings,       \* registry and faults, as below, in the combinations to consider
    MaxTime         \* bound on the clock

(* blind    a request to the registry fails, which reads as "no such       *)
(*          image" or, when it is the one for a token, raises              *)
(* docker   a docker command cannot be run at all, nor the lock file opened *)
(* die      a process of the pool dies                                     *)
(* lock     flock fails                                                    *)
(* unread   the state file cannot be read                                  *)
(* nowrite  it cannot be written                                           *)
AllFaults == {"blind", "docker", "die", "lock", "unread", "nowrite"}

NoOne == "none"
Images == ToSet(base_images)

ASSUME BuilderAssumption ==
    /\ base_images \in Seq(ToSet(base_images)) /\ IsInjective(base_images)
    /\ NoOne \notin ToSet(base_images)
    /\ BatchSize \in Nat \ {0} /\ max_workers \in Nat \ {0}
    /\ max_retries \in Nat \ {0} /\ Throttle \in Nat \ {0} /\ MaxTime \in Nat
    /\ Settings \subseteq [registry : [Images -> {"none", "plain", "wrapped"}], faults : SUBSET AllFaults]
    /\ \A s \in Settings, i \in Images : s.registry[i] = "wrapped" => i \in NeedWrap

VARIABLES
    clock,
    faults,     \* what can go wrong
    registry,   \* registry[i]: what is pushed under image i's tag
    \* the process that builds image i
    pc,
    attempt,
    began,      \* when it began the reset it runs
    seen,       \* what it had read in the state file by then
    result,     \* what its future holds
    lock,       \* the image whose process has the lock file, or NoOne
    state,      \* the state file: when the last reset of a kind began
    ran,        \* history: when the last reset of a kind that ran to its end began
    blame,      \* history: what has kept the file from bearing that out
    \* build_all_images
    batch,      \* the batch it is at
    broken,     \* the batch's pool has lost a process
    raised,     \* an exception has ended it
    manifest    \* the lines written

resets == <<began, seen, lock, state, ran, blame>>
parent == <<batch, broken, raised, manifest>>
vars == <<clock, faults, registry, pc, attempt, result, resets, parent>>

Never == -1
Kinds == {"partial", "full"}
Unknown == [k \in Kinds |-> Never]

batches == (Len(base_images) + BatchSize - 1) \div BatchSize
InBatch(n) == {base_images[k] : k \in {j \in DOMAIN base_images : (j - 1) \div BatchSize = n - 1}}

\* waiting: not submitted yet; queued: submitted; done: its future is set.
Failed == {"failed", "unwrapped"}
Running == Failed \cup {"building", "wrapping", "resetting"}
PCs == Running \cup {"waiting", "queued", "done", "written"}

(* untagged   the build gave no tag, and no error either                   *)
(* unwrapped  the image is built, and the wrapping is the error            *)
Results == {"none", "built", "untagged", "unwrapped", "error", "raised"}

Init ==
    /\ clock = 0
    /\ \E s \in Settings : registry = s.registry /\ faults = s.faults
    /\ pc = [i \in Images |-> "waiting"]
    /\ attempt = [i \in Images |-> 0]
    /\ result = [i \in Images |-> "none"]
    /\ began = [i \in Images |-> Never]
    /\ seen = [i \in Images |-> Unknown]
    /\ lock = NoOne
    /\ state = Unknown /\ ran = state /\ blame = {}
    /\ batch = 1 /\ broken = FALSE /\ raised = FALSE
    /\ manifest = <<>>

Tick ==
    /\ clock < MaxTime
    /\ clock' = clock + 1
    /\ UNCHANGED <<faults, registry, pc, attempt, result, resets, parent>>

-----------------------------------------------------------------------------
(* A process of the pool, _build_with_logging.                             *)

Goto(i, to) == pc' = [pc EXCEPT ![i] = to]

Return(i, res) == Goto(i, "done") /\ result' = [result EXCEPT ![i] = res]

\* The queue is first in, first out.
Take(i) ==
    /\ ~broken /\ pc[i] = "queued"
    /\ Cardinality({j \in Images : pc[j] \in Running}) < max_workers
    /\ \A k, j \in DOMAIN base_images :
          base_images[j] = i /\ k < j => pc[base_images[k]] # "queued"
    /\ Goto(i, "building")
    /\ UNCHANGED <<clock, faults, registry, attempt, result, resets, parent>>

Sees(i) == registry[i] # "none"
SeesNot(i) == registry[i] = "none" \/ "blind" \in faults

\* The step after a build; without one the result is returned.
PostBuild(i) ==
    IF i \in NeedWrap THEN Goto(i, "wrapping") /\ UNCHANGED result ELSE Return(i, "built")

\* build_image: what the registry has is not built again.
BuildSkipped(i) ==
    /\ pc[i] = "building" /\ Sees(i)
    /\ PostBuild(i)
    /\ UNCHANGED <<clock, faults, registry, attempt, resets, parent>>

BuildSucceeds(i) ==
    /\ pc[i] = "building" /\ SeesNot(i)
    /\ registry' = [registry EXCEPT ![i] = "plain"]
    /\ PostBuild(i)
    /\ UNCHANGED <<clock, faults, attempt, resets, parent>>

\* build() returns no tag: nothing is pushed, and nothing is called an error.
BuildUntagged(i) ==
    /\ pc[i] = "building" /\ SeesNot(i)
    /\ Return(i, "untagged")
    /\ UNCHANGED <<clock, faults, registry, attempt, resets, parent>>

\* Whatever build_image raises is an error.
BuildFails(i) ==
    /\ pc[i] = "building" /\ SeesNot(i)
    /\ Goto(i, "failed")
    /\ UNCHANGED <<clock, faults, registry, attempt, result, resets, parent>>

\* wrap_image, in place: the layer is built on the image under its own tag.
WrapSucceeds(i) ==
    /\ pc[i] = "wrapping" /\ Sees(i)
    /\ registry' = [registry EXCEPT ![i] = "wrapped"]
    /\ Return(i, "built")
    /\ UNCHANGED <<clock, faults, attempt, resets, parent>>

\* Faulty: a wrapping that fails is taken for done.
Mutant_WrapFails(i) ==
    /\ pc[i] = "wrapping"
    /\ Return(i, "built")
    /\ UNCHANGED <<clock, faults, registry, attempt, resets, parent>>

WrapFails(i) ==
    /\ pc[i] = "wrapping"
    /\ Goto(i, "unwrapped")
    /\ UNCHANGED <<clock, faults, registry, attempt, result, resets, parent>>

\* Nothing catches what the step after the build raises: there is no further attempt.
WrapRaises(i) ==
    /\ "blind" \in faults \/ "docker" \in faults
    /\ pc[i] = "wrapping"
    /\ Return(i, "raised")
    /\ UNCHANGED <<clock, faults, registry, attempt, resets, parent>>

-----------------------------------------------------------------------------
(* After a failure: maybe_reset_buildkit, reset_buildkit.                  *)

\* The last attempt resets nothing and is returned.
GiveUp(i) ==
    /\ pc[i] \in Failed /\ attempt[i] = max_retries - 1
    /\ Return(i, IF pc[i] = "unwrapped" THEN "unwrapped" ELSE "error")
    /\ UNCHANGED <<clock, faults, registry, attempt, resets, parent>>

Kind(i) == IF attempt[i] = 0 THEN "partial" ELSE "full"

\* A full reset counts as a partial one too.
_last_reset_for_kind(kind, read) ==
    IF kind = "full" \/ read.full > read.partial THEN read.full ELSE read.partial

_should_throttle_reset(kind, read) ==
    LET last == _last_reset_for_kind(kind, read)
    IN  last # Never /\ clock - last < Throttle

\* Without the lock a file may be read that another process is writing.
Reads(locked) == {state} \cup (IF "unread" \in faults \/ ~locked THEN {Unknown} ELSE {})

Blamed(locked, read) ==
    blame' = blame \cup (IF locked THEN {} ELSE {"lock"}) \cup (IF read = state THEN {} ELSE {"state"})

\* The lock is waited for; if flock fails the reset goes on without it.
MayLock(locked) == IF locked THEN lock = NoOne ELSE "lock" \in faults

Retry(i) ==
    /\ Goto(i, "building")
    /\ attempt' = [attempt EXCEPT ![i] = @ + 1]

\* With the lock the state is read, and the lock let go again.
ResetThrottled(i) ==
    /\ pc[i] \in Failed /\ attempt[i] < max_retries - 1
    /\ \E locked \in BOOLEAN : MayLock(locked) /\ Blamed(locked, state)
    /\ _should_throttle_reset(Kind(i), state)
    /\ Retry(i)
    /\ UNCHANGED <<clock, faults, registry, result, began, seen, lock, state, ran, parent>>

\* Faulty: nobody waits for the lock.
Mutant_ResetBegins(i) ==
    /\ pc[i] \in Failed /\ attempt[i] < max_retries - 1
    /\ ~_should_throttle_reset(Kind(i), state)
    /\ lock' = i
    /\ began' = [began EXCEPT ![i] = clock]
    /\ seen' = [seen EXCEPT ![i] = state]
    /\ Goto(i, "resetting")
    /\ UNCHANGED <<clock, faults, registry, attempt, result, state, ran, blame, parent>>

ResetBegins(i) ==
    /\ pc[i] \in Failed /\ attempt[i] < max_retries - 1
    /\ \E locked \in BOOLEAN : \E read \in Reads(locked) :
          /\ MayLock(locked) /\ Blamed(locked, read)
          /\ ~_should_throttle_reset(Kind(i), read)
          /\ lock' = IF locked THEN i ELSE lock
          /\ seen' = [seen EXCEPT ![i] = read]
    /\ began' = [began EXCEPT ![i] = clock]
    /\ Goto(i, "resetting")
    /\ UNCHANGED <<clock, faults, registry, attempt, result, state, ran, parent>>

\* What the write leaves: if it fails the file as it was or, truncated already, one that
\* does not parse; the latter also if somebody else writes at the same time.
Written(i) ==
    {[seen[i] EXCEPT ![Kind(i)] = began[i]]}
        \cup (IF "nowrite" \in faults THEN {state, Unknown} ELSE {})
        \cup (IF "lock" \in blame THEN {Unknown} ELSE {})

LetGo(i) ==
    /\ lock' = IF lock = i THEN NoOne ELSE lock
    /\ began' = [began EXCEPT ![i] = Never]
    /\ seen' = [seen EXCEPT ![i] = Unknown]

\* The exit statuses of the commands are not looked at.
ResetEnds(i) ==
    /\ pc[i] = "resetting"
    /\ state' \in Written(i)
    /\ ran' = [ran EXCEPT ![Kind(i)] = began[i]]
    /\ blame' = IF state'[Kind(i)] = began[i] THEN blame ELSE blame \cup {"state"}
    /\ LetGo(i) /\ Retry(i)
    /\ UNCHANGED <<clock, faults, registry, result, parent>>

\* Faulty: the lock file stays locked.
Mutant_ResetRaises(i) ==
    /\ "docker" \in faults /\ pc[i] = "resetting"
    /\ began' = [began EXCEPT ![i] = Never]
    /\ Return(i, "raised")
    /\ UNCHANGED <<clock, faults, registry, attempt, seen, lock, state, ran, blame, parent>>

\* The lock file cannot be opened or a command cannot be run, and the exception leaves
\* _build_with_logging: there is no further attempt.
ResetRaises(i) ==
    /\ "docker" \in faults
    /\ \/ pc[i] = "resetting"
       \/ pc[i] \in Failed /\ attempt[i] < max_retries - 1
    /\ LetGo(i)
    /\ Return(i, "raised")
    /\ UNCHANGED <<clock, faults, registry, attempt, state, ran, blame, parent>>

\* The executor ends the other processes too, and every future of the batch that is not
\* set raises BrokenProcessPool.  The lock goes with its process; one that is writing the
\* state file leaves it cut.
ProcessDies ==
    /\ "die" \in faults /\ ~broken
    /\ \E i \in InBatch(batch) : pc[i] \notin {"waiting", "written"}
    /\ LET lost == {j \in Images : pc[j] \in Running \cup {"queued"}} IN
       /\ pc' = [j \in Images |-> IF j \in lost THEN "done" ELSE pc[j]]
       /\ result' = [j \in Images |-> IF j \in lost THEN "raised" ELSE result[j]]
    /\ \/ UNCHANGED <<state, blame>>
       \/ /\ \E i \in Images : pc[i] = "resetting"
          /\ state' = Unknown /\ blame' = blame \cup {"state"}
    /\ began' = [j \in Images |-> Never] /\ seen' = [j \in Images |-> Unknown]
    /\ lock' = NoOne /\ broken' = TRUE
    /\ UNCHANGED <<clock, faults, registry, attempt, ran, batch, raised, manifest>>

-----------------------------------------------------------------------------
(* build_all_images                                                        *)

Submitted == \A i \in InBatch(batch) : pc[i] # "waiting"

\* The images of the batch are submitted in their order.
Submit(i) ==
    /\ ~broken /\ i \in InBatch(batch) /\ pc[i] = "waiting"
    /\ \A k, j \in DOMAIN base_images :
          base_images[j] = i /\ k < j => pc[base_images[k]] # "waiting"
    /\ Goto(i, "queued")
    /\ UNCHANGED <<clock, faults, registry, attempt, result, resets, parent>>

\* A pool that has lost a process takes nothing more, and nobody catches what submit raises.
SubmitRaises ==
    /\ broken /\ ~raised /\ ~Submitted
    /\ raised' = TRUE
    /\ UNCHANGED <<clock, faults, registry, pc, attempt, result, resets, batch, broken, manifest>>

\* The result of a future that raises has no tags, and its error is the exception.
Line(i) ==
    [image |-> i,
     tags |-> result[i] \in {"built", "unwrapped"},
     error |-> result[i] \notin {"built", "untagged"}]

\* A future is set and its line is written, in the order they are completed.
WriteLine(i) ==
    /\ Submitted /\ pc[i] = "done"
    /\ manifest' = Append(manifest, Line(i))
    /\ Goto(i, "written")
    /\ UNCHANGED <<clock, faults, registry, attempt, result, resets, batch, broken, raised>>

\* Faulty: the loop ends with the pool that broke.
Mutant_NextBatch ==
    /\ batch <= batches /\ \A i \in InBatch(batch) : pc[i] = "written"
    /\ batch' = IF broken THEN batches + 1 ELSE batch + 1
    /\ broken' = FALSE
    /\ UNCHANGED <<clock, faults, registry, pc, attempt, result, resets, raised, manifest>>

NextBatch ==
    /\ batch <= batches /\ \A i \in InBatch(batch) : pc[i] = "written"
    /\ batch' = batch + 1
    /\ broken' = FALSE
    /\ UNCHANGED <<clock, faults, registry, pc, attempt, result, resets, raised, manifest>>

\* It returns, or an exception ends it.
Ended == batch = batches + 1 \/ raised

Success(line) == line.tags /\ ~line.error
exit_code == IF raised \/ \E k \in DOMAIN manifest : ~Success(manifest[k]) THEN 1 ELSE 0

BuildStep(i) ==
    \/ Take(i)
    \/ BuildSkipped(i) \/ BuildSucceeds(i) \/ BuildUntagged(i) \/ BuildFails(i)
    \/ WrapSucceeds(i) \/ WrapFails(i) \/ WrapRaises(i)
    \/ GiveUp(i) \/ ResetThrottled(i) \/ ResetBegins(i) \/ ResetEnds(i) \/ ResetRaises(i)

Next ==
    \/ Tick \/ ProcessDies
    \/ \E i \in Images : BuildStep(i) \/ Submit(i) \/ WriteLine(i)
    \/ SubmitRaises \/ NextBatch

\* A build, a wrapping and a reset end; the kernel gives the lock to somebody
\* who waits; the parent submits, and takes what is completed.
Fairness ==
    /\ \A i \in Images : WF_vars(BuildStep(i)) /\ SF_vars(ResetThrottled(i) \/ ResetBegins(i))
    /\ \A i \in Images : WF_vars(Submit(i) \/ WriteLine(i))
    /\ WF_vars(SubmitRaises) /\ WF_vars(NextBatch)

Spec == Init /\ [][Next]_vars
FairSpec == Spec /\ Fairness

-----------------------------------------------------------------------------

Earlier(i) == \E n \in 1..(batch - 1) : i \in InBatch(n)

\* When the run returns the manifest has one line for every image, whatever processes
\* died once their batch was submitted.  One that died before that ends the run with an
\* exception: then the images of the batches before have one line each, and the others
\* none.  The exit status is 0 exactly if every image was built (build_all_images).
ManifestComplete ==
    Ended =>
        /\ raised => broken
        /\ \A i \in Images :
              Cardinality({k \in DOMAIN manifest : manifest[k].image = i})
                 = IF raised /\ ~Earlier(i) THEN 0 ELSE 1
        /\ exit_code = 0 <=> \A i \in Images : result[i] = "built"

\* A line with a tag and without an error is true for good: the image is there, and
\* wrapped if it has to be, whatever wrappings failed or raised and whatever the registry
\* did not answer (_build_with_logging, _wrap_if_needed).  A line without either tells
\* nothing, and counts as a failure.
LineHolds ==
    \A k \in DOMAIN manifest :
        Success(manifest[k]) => registry[manifest[k].image]
                                 = IF manifest[k].image \in NeedWrap THEN "wrapped" ELSE "plain"

\* The resets with which one of this kind may not coincide.
Before(kind) == {kind, "full"}

Begins(i) == pc[i] # "resetting" /\ pc'[i] = "resetting"

\* As long as flock works, a reset begins when no other is under way; as long as the
\* state file can also be read and written, and nobody dies writing it, it begins a
\* throttle's length after the beginning of every reset of its kind, and of every full
\* one, that ran to its end, whichever processes ask for them (reset_buildkit).
ResetsApart ==
    [][\A i \in Images : Begins(i) =>
          /\ "lock" \notin blame' => \A j \in Images : pc[j] # "resetting"
          /\ blame' = {} => \A kind \in Before(Kind(i)) :
                               ran[kind] = Never \/ clock - ran[kind] >= Throttle]_vars

\* Every run of the builder ends, whatever fails, and no process waits for the
\* lock for ever (reset_buildkit's finally).
BuildsEnd == <>Ended

-----------------------------------------------------------------------------
(* The inductive invariant.                                                *)

Times == [Kinds -> Never..MaxTime]

\* Types; a build is tried at most max_retries times.
TypeOK ==
    /\ clock \in 0..MaxTime /\ faults \subseteq AllFaults
    /\ registry \in [Images -> {"none", "plain", "wrapped"}]
    /\ pc \in [Images -> PCs] /\ result \in [Images -> Results]
    /\ attempt \in [Images -> 0..(max_retries - 1)]
    /\ began \in [Images -> Never..MaxTime] /\ seen \in [Images -> Times]
    /\ lock \in Images \cup {NoOne}
    /\ state \in Times /\ ran \in Times /\ blame \subseteq {"lock", "state"}
    /\ batch \in 1..(batches + 1) /\ broken \in BOOLEAN /\ raised \in BOOLEAN
    /\ manifest \in Seq([image : Images, tags : BOOLEAN, error : BOOLEAN])

BatchNumber(k) == (k - 1) \div BatchSize + 1

\* The batches before the one build_all_images is at are written, those after it wait,
\* and that one is not written as long as it is submitted, nor if that raises.
BatchesInOrder ==
    /\ \A k \in DOMAIN base_images :
          /\ BatchNumber(k) < batch => pc[base_images[k]] = "written"
          /\ BatchNumber(k) > batch => pc[base_images[k]] = "waiting"
          /\ BatchNumber(k) = batch /\ pc[base_images[k]] = "written" => Submitted
    /\ raised => broken /\ ~Submitted

\* A future is set once: what has no future has no result.
ResultsSet == \A i \in Images : pc[i] \in {"done", "written"} <=> result[i] # "none"

\* A result without an error tells the truth about the registry, and only images that
\* are wrapped are ever wrapped.
BuiltIsThere ==
    /\ \A i \in Images : pc[i] = "wrapping" \/ registry[i] = "wrapped" => i \in NeedWrap
    /\ \A i \in Images : result[i] = "built" =>
          registry[i] = IF i \in NeedWrap THEN "wrapped" ELSE "plain"

\* The lines are those of the written images, one each, with their results.
LinesWritten ==
    /\ \A k \in DOMAIN manifest :
          /\ pc[manifest[k].image] = "written"
          /\ Success(manifest[k]) <=> result[manifest[k].image] = "built"
    /\ \A j, k \in DOMAIN manifest : manifest[j].image = manifest[k].image => j = k
    /\ \A i \in Images : pc[i] = "written" => \E k \in DOMAIN manifest : manifest[k].image = i

\* Who resets has the lock, if flock worked; the state file tells what ran, unless
\* something is to blame, and nobody has changed it since it was read.
ResetLocked ==
    /\ \A i \in Images : pc[i] = "resetting" =>
          /\ attempt[i] < max_retries - 1 /\ began[i] \in 0..MaxTime
          /\ "lock" \notin blame => lock = i
          /\ blame = {} => seen[i] = state
    /\ blame = {} => state = ran

IInv == TypeOK /\ BatchesInOrder /\ ResultsSet /\ BuiltIsThere /\ LinesWritten /\ ResetLocked
=============================================================================
