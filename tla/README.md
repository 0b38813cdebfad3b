# A formal model of argos-harness

The repository runs coding agents on benchmark instances, through local HTTP
bridges to model providers, and judges what they did. This directory holds TLA+
modules for the parts where processes, threads, files and failures meet, the
TLC configurations that check them, and proofs for TLAPS.

Modelled: the evaluation orchestrator; the streaming path of the GLM bridge; the
account pool and request loop of the Claude bridge; the Codex bridge; judging and
scoring over ASSAY's verdict files; the numbers of the reward, from the outcome
formula to the composition of a group of runs; and the image builder with its
shared BuildKit resets. Every one of these seven has proofs: the safety properties the
runs check are theorems, for all values of the constants.

## 1. Inventory

| Part | State it keeps | Operations | Hard behaviour | Correct when | Here |
|---|---|---|---|---|---|
| Evaluation orchestrator (`benchmarks/utils/evaluation.py`, `iterative.py`, `critics.py`, `evaluation_utils.py`) | current attempt, futures, deadlines; one JSONL file per attempt, `output.jsonl` | select, submit, wait, collect, time out, append, shut down, aggregate, resume | late results against timeouts, hung and dying workers, Ctrl-C, crashes inside an append, resume on another selection | one result per attempt and instance, retries only of what was refused, nothing lost, best result published, the run ends | `EvalOrchestrator` |
| Worker retry loop (`_process_one_mp`) | retry and failure counts, workspace | prepare, evaluate, clean up, retry with more resources | termination skips clean-up | bounded retries, capped resources, every workspace closed | one step of `EvalOrchestrator` |
| GLM bridge, streaming (`proxy/zbridge/sse_translator.py`, `bridge.py`) | translator: open blocks, next index, terminal flags; capture buffer, attempts | feed, close, capture with retry, replay, pass through | broken upstream streams, parallel tool calls, `[DONE]` against end of stream | the client reads one legal stream or one error | `ZBridge` |
| GLM bridge, the rest | - | translate request and reply, map errors, tee | - | mapping | not modelled |
| Claude bridge (`proxy/claude_code_bridge`) | slots with token, invalid and exhausted marks; credential files; attempts of a request | take token, refresh under locks, send, wait, fail over | processes sharing rotated tokens, requests in threads, lost replies, crashes between grant and file | an account's error reaches its slot, files keep up, calls are bounded, requests end | `ClaudeBridge` |
| Codex bridge (`proxy/codex_bridge`) | `auth.json`, a cached copy in each process, the lock file; attempts of a request | read token and account, refresh under the lock, re-read, write back, forced reload, retry, collect a stream | 401 against a refresh in another thread, another bridge or the CLI; an answer or a write that is lost | no spent grant is presented, the grant is kept, a 401 leads to what the document has, requests end | `CodexBridge` |
| Codex bridge, shaping, probe, command line | - | - | - | - | not modelled |
| ASSAY judge and verdict store (`assay/judge.py`, `cli.py`, `fingerprint.py`, `quality*.py`, `writeback.py`) | append-only verdict files with a fingerprint in each record, `result.json` | judge, resume, give up, score, replay, merge | bundle edited between passes, death in an append or in a rewrite, threads with refusals | a score rests only on answers about the bundle it scores, answers are kept and paid for once, exit status 0 means that everything there is to review was asked | `VerdictStore` |
| Outcome and reward (`score_v2g.py`, `assay/rubric.py`, `compose.py`, `cli.py`) | a run's report, its outcome, its composition | convert, judge, score all runs or some | three formulas over overlapping sets; passes over parts of a group | breaking and tripping cost, process never outranks a target, order within a stratum | `OutcomeScore`, `RubricScore`, `RewardScores` |
| Rubric pipeline (`multiswebench/scripts/rubric`) | report, `result.json` | judge, write, patch, skip | crash between the two writes | both agree in the end | not modelled |
| Image builder (`build_utils.py`, `buildx_utils.py`, `swebench/build_images.py`) | manifest, registry tags, throttle state and its lock | submit in batches, build, skip, wrap, retry, reset | processes that reset a shared cache, a pool that breaks while it is filled, a registry that cannot be asked, a lock and a state file that need not work | one line per image, true for good, or an exception; resets apart as long as lock and file work; the builder ends | `ImageBuilder` |
| Finance report (`scripts/finance_report.py`) | sidecar per run | post, record, skip | crash or timeout after the post | posted once | not modelled |
| Run scripts (`run_eval.sh`, `run_custom_eval.sh`, `proxy/*.sh`) | window of PIDs, proxy and watchdog | dispatch, restart, stop | watchdog against shutdown | window bounded, every dataset counted | not modelled |
| Benchmark adapters, scoring, harbor export, other utilities, `legacy` | - | sequential | - | - | not modelled |

How they interact. A run script starts a bridge and one process per dataset;
that process is an adapter's subclass of `Evaluation`, which submits instances
to worker processes. The agent in a worker talks HTTP to a bridge. Parts that
outlive a process share state only through files: attempt files, credential
files with a lock beside each, verdict files, reports, the throttle file of
BuildKit. Inside a bridge, requests are coroutines and token refreshes run in
threads under the provider's lock.

`PROJECT.json` lists every hazard found, at its line, with the property that
covers it or the reason that none does yet.

## 2. Modules

| Module | Role |
|---|---|
| `AttemptLedger` | abstract: an append-only ledger of one outcome per attempt and instance |
| `EvalOrchestrator` | the orchestrator, its pool and its files; its properties and `IInv` |
| `EvalOrchestrator_proofs` | its theorems |
| `AnthropicStream` | abstract: the event streams a client may legally read |
| `ZBridge` | translator, the two streaming modes, upstream and client |
| `ZBridge_proofs` | its theorems |
| `ClaudeBridge` | the pool, the providers' two locks, the server, and the requests |
| `ClaudeBridge_proofs` | its theorems |
| `CodexBridge` | requests, providers, the document, its lock, the endpoint and the CLI |
| `CodexBridge_proofs` | its theorems |
| `VerdictStore` | judge passes, score commands, the files between them, edits |
| `VerdictStore_proofs` | its theorems |
| `OutcomeScore` | the outcome of one run, as operators over sets of tests |
| `RubricScore` | the rubric number of one run, as operators over items and answers |
| `RewardScores` | composes the two: runs converted, judged and scored in passes |
| `RewardScores_proofs` | its theorems, and those about the two formulas |
| `ImageBuilder` | the builder, the processes of its pool, the registry, the reset throttle |
| `ImageBuilder_proofs` | its theorems |
| `Subsequences` | the elements of a sequence that are in a set |
| `Subsequences_proofs` | what that returns, and induction over numbers |
| `MC...` | one per specification: small sets for TLC |

Operators whose names start with `Mutant_` are deliberately faulty versions of a
definition. No specification uses them; they show that each property can fail.

### EvalOrchestrator

`phase` is the place in `_run_iterative_mode`: *off* (no process), *select*,
*submit*, *wait*, *collect*, *expire*, *shutdown*, *aggregate*, *done*
(returned), *stopped* (raised). `todo`, `pending`, `done` and `late` are the
method's local sets, with futures named by their instance, and `warm` is the
raised temperature. `fut`, `exec`, `hung`, `expired` and `broken` are the
executor's side. `file[n][i]` holds the readable outcomes of instance `i` in the
file of attempt `n`; `torn[n]` says that the file does not end in a newline, and
`bare[n]` is the instance whose last line there lacks nothing but that; `out` is
`output.jsonl`. `cut` is history: some append ended early.

- One iteration of the wait loop is `Wait`, a `Collect` per finished future,
  `CheckDeadlines`, a `TimeOut` per late one, and `LoopAgain`. Workers move
  between any two of these, so a result can arrive after the deadline check and
  before the timeout line, and an executor can have claimed a future that
  `cancel()` then fails to stop.
- An append can end early (`CutShort`): before its first byte, inside the line,
  or with only the newline missing. The readers strip a line before they parse
  it, so in the last case the line can be read, until the next append runs into
  it (`Glued`, `AppendLine`): then neither can.
- An append ends early when the write fails (*write*) and when the container dies
  in it (*tear*). `Crash` can also cut `output.jsonl` anywhere while aggregation
  rewrites it, and the line of the default writer there can fail by itself
  (*publish*).
- `Start` begins a process, also after a crash or on another selection.
  Everything it knows, it reads from the files.
- An evaluation is its outcome: accepted or refused by the critic, an error
  output, or a timeout written by the main process. `Critic` is a constant:
  *pass* accepts every line, errors included, and *patch* only a finished patch.

### ZBridge

A GLM chunk is a sequence of items in the order in which the translator looks at
a delta: reasoning, text, pieces of two tool calls, finish, and two that yield
nothing. *null* is any other field. *mention* is a field whose bytes hold
`"finish_reason"` or `[DONE]` though nothing finishes, as in the
`"finish_reason": null` of an ordinary chunk: `saw_terminal` is the code's substring
test, which takes it for an end. `frame` holds the items not yet processed and
`outq` what the generator has yielded and the client has not read; a handler runs
when `outq` is empty, as a generator does. `DeltaScalar`, `DeltaToolCall`,
`_emit_terminal` and `_process_done` are the translator's methods, with all the
closing and opening of blocks they do.

Upstream can refuse, drop the connection, end early without an error, and break
off inside any frame (*torn*): the frame is lost, its bytes count for
`saw_terminal`. A disorderly upstream (`setup.orderly` is FALSE) also begins with
`[DONE]` and sends more after the finishing chunk; neither the bridge nor the
translator guards against that. `sent` says how far upstream really was. The
capture counts its attempts in two ways: `RetryStatus` only where one is left,
`RetryDrop` always. `setup` is the bridge's configuration with what upstream may
send and do, chosen once from `Setups`, so that one run covers both streaming modes.
`Read` is the client: it believes every event, and `AnthropicStream` says which
events it could legally have had. That module has one step that is there because
the code takes it: in passthrough a connection that fails adds an error frame to
whatever end there was (`bridge.py:362`, `LateError`).

### ClaudeBridge

The tokens of an account are numbered; a refresh gives the next number and
spends the grant of its predecessor, and tokens expire in order. `creds` and
`last` are a provider's `_creds` and a slot's `last_token`, in every process;
`file` is the shared credential file. `setting` says which process serves a
request, which tokens begin alike, and what can fail. A request moves through

    select -> provider -> flock -> post -> write -> note -> send -> sent

and leaves at *provider* or *flock* when the token it finds is good. It
holds the provider's lock in *flock*, *post* and *write*, and the file's lock in
*post* and *write*; these states are the locks. *failed* is a
`CredentialsError`, which `GiveUpSlot` turns into an invalid slot. `last_token`
is written by `RecordToken` after the provider's lock is released, as in the
code, so two requests can record in the wrong order. `_find_slot_by_prefix`
takes the slot that noted this very token; else it asks the providers in order and
takes the first whose token has the same first 20 characters (`Alike`), which may
be another account's; else none. An exhausted account can stay available
(`AccountExhausted`): the time of its reset comes from a header and can be past.
With the fault *files* the lock file cannot be locked or the credentials not be
read, and the code goes on without. `refused[s]` is history: the newest token of a
slot that upstream has refused.
`Crash` ends a process and empties its memory; a request that had not yet chosen
an account is served by the process's successor. `orphaned` is history: accounts
whose newest token is in no file because of a crash, a lost answer or a failed
write.

### CodexBridge

A pair of tokens is its number; `unspent` are the refresh tokens the endpoint
still takes. `doc` is `auth.json`, `cache[b]` what bridge `b` has of it, and
`ageof` the pair whose age `is_expired` works out: without a readable `exp` the
credentials a refresh returns still carry the `last_refresh` of the document
they came from. `refresh[b]` is `_refresh_locked` at *flock*, *post* and
*write*; while it runs it holds the provider's lock, so the steps of a request
that need that lock have `refresh[b].at = "idle"` as a guard. A request is at

    token -> (refreshing) -> account -> send -> (refused) -> token ... done

with two reads of the credentials, a send, and at *refused* the answer 401 that
has not been looked at. `Unauthorized` is `force_reload` and the retry, which
asks for no room among the retries. `Flock` takes the lock or, when the lock file
cannot be opened or locked (*nolock*), goes on without it; `Reread` keeps what is
in memory when the document cannot be read (*unread*), and a request that finds
neither memory nor document is answered 401 (`Unread`). `CliRefreshes` and
`CliWrites` are the codex CLI, which does not take the lock. `blame` is history:
the faults that can cost a pair, or the exclusion, and have happened.

### VerdictStore

`store[r]` is the readable part of a run's verdict file, `torn[r]` says that it
has a line that no reader accepts, and `cut[r]` that its last record lacks its
newline: it is readable, and the next append runs into it (`Glue`), after which
neither is. A pass is stamped with the version of the bundle that
it read; `work[r]` is what has become of a run in the thread pool. The channels
differ where the code does: the rubric resumes on any answer that parses,
whatever version it is about, and raises on a partial line before it starts;
quality passes over a run without a patch (`Skip`; `Reviewed` are the others) and
drops the records of other versions first, in place, and raises in the
thread. `Kill` can break an append off (`TornAppend`), or the rewriting of a file
(`TornRewrite`). Exceptions leave `pool.map` in the order of the runs and cancel what no
thread has taken (`MapRaises`). A score command reads run by run while judge
passes go on and writes at the end; `result[r]` keeps the version its numbers
were computed for (`of`) and the versions of the answers they rest on (`basis`).
`merge_scores` adds numbers and removes none; `merge_quality` does both.

### RewardScores, OutcomeScore, RubricScore

`OutcomeScore` is `compute_score_v2g`: buckets curated again where the dataset
has none, the status, and recall times the share of preserved tests, rounded as
Python rounds. `RubricScore` is the number of the rubric channel: dimension
budgets shared over items, prerequisites, a numerator with both signs over a
denominator with one, the floor band. `RewardScores` keeps a group of runs.
`Convert` scores a run's report once; `Judge` gives it its verdicts; a pass
composes outcome and process for the runs it covers: `FullPass` all,
`NarrowPass` those that `--models` or `--run` leave, with or without `--prune`.

### ImageBuilder

`pc[i]` is the process that builds image `i`, from *waiting* (not submitted) over
*queued* to *written* (its line is in the manifest). `registry[i]` is what is
pushed under its tag, *plain* or *wrapped*, and can be there from before. The
parent submits a batch image by image (`Submit`); a process that dies meanwhile
breaks the pool, `submit` raises outside every `try` (`SubmitRaises`), and
`raised` is the end. A process that dies later breaks the pool too: that ends the
batch's other processes and raises in their futures, and the parent writes their
lines (`ProcessDies`, `WriteLine`). What wrapping raises leaves the process
without another attempt (`WrapRaises`). A line has a tag, or an error, both (the
image is built and its wrapping failed) or neither (the build gave no tag).

After a failure a process waits for the lock file, or goes on without it when
`flock` fails; reads the state file (when a partial and a full reset last began),
where one that cannot be read says that there never was a reset (`Reads`);
and resets, which ends in writing what it had read with its own kind
updated (`seen`, `Written`), or skips the reset. A write that fails, or is cut by
a death, can leave a file that does not parse. `ran` is history: the resets that
ran to their end, as the file should have them; `blame` is the history of what has
kept it from that.

## 3. Runs

| Run | Question | Distinct states |
|---|---|---|
| `EvalRestart` | Do processes that crash, are interrupted or hang, and restart on another selection, keep one history, run no instance twice at once, lose no retry, leave the wait loop and publish the best result? | 390,933 |
| `EvalRunEnds` | With raising workers, broken pools, and appends that fail at any point: is a readable line duplicated, changed or lost, does every process end? | 703,098 |
| `ZBStream` | Both streaming modes, streams that break off anywhere or only look finished: is a finished one asked for again, is a broken one passed off as complete, is everything translated into a legal stream, does every client get a whole message or one error? | 105,927 |
| `ClaudePool` | Two processes, two accounts, two requests, a crash and every fault: do files keep up, does an error put out the account it is about, are calls bounded, does every request end? | 636,187 |
| `CodexBridge` | Requests on one or two bridges, the CLI beside them, a lock or a document that cannot be used, every kind of token age: is a spent grant presented, is the newest one lost, does the retry after a 401 see the document, does every request end? | 741,225 |
| `VerdictStore` | Passes that fail in every way, runs with nothing to review, edits, scores and removals, both channels: what do published numbers rest on, is an answer lost or paid for twice, what does exit status 0 mean, does every pass end? | 798,057 |
| `RewardScores` | Groups of three runs in six tasks, full and narrowed passes: does breaking a test or tripping a guardrail ever pay, does process outrank a target? | 57,559 |
| `ImageBuilder` | Three images in two batches, processes that die, wrappings and resets that fail, a registry, a lock and a state file that cannot be used: is the manifest complete and true, are resets apart, does the builder end? | 634,901 |
| `ClaudeStaleGrant`, `CodexUnknownAge`, `VerdictRejudge`, `RewardTarget` | each shows one disagreement of section 4 | first violation |

Bounds, and why they are enough:

- *Orchestrator.* Two instances are enough for one to finish, hang or be retried
  while another is in another state, and for one to come into the selection only
  in the second process. Two attempts are enough because attempt n reads only
  file n-1 and its own. One worker makes an instance queue; two make instances
  run at once. `MaxRuns` 2 gives one restart. Both runs use the critic *patch*;
  *pass*, under which nothing is ever retried, is covered by the proofs.
- *GLM bridge.* Four frames hold an opening of each kind of block, a switch and
  an end, or an end and what comes after it. One retry tells the last attempt
  from the others. Blocks of every kind meet in one setup (`RichFrames`), the
  chunks that say nothing or only look like an end in the others (`PlainFrames`),
  two of which have a disorderly upstream.
- *Claude bridge.* Two processes to share a file, two accounts to fail over,
  two requests in one process or in two, one retry, one crash, one refresh of an
  account (`MaxToken` 2). `ClaudeStaleGrant` has `MaxToken` 3, since the stale
  grant needs two refreshes. The faults are spread over three settings: refusals,
  quotas and network errors where two requests share a process, once with tokens
  that all begin alike; failures of files and answers where they share only the
  files.
- *Codex bridge.* Two requests on one provider or on two; three pairs, so that
  there is a refresh after somebody else's refresh; two posts tell a retried
  post from the last one; one retry besides the one after a 401. Failing grants
  and writes are combined with every kind of age and both placements of the
  requests, the CLI and an unusable lock or document with the ones they concern.
- *Verdict store.* Two runs of one item with two threads (one run raises while
  the other is asked or queued), and one run of two items (it can be left half
  judged). In the quality channel the second run also comes without a patch. Two
  versions and three passes: one before an edit, one cut short after it, one that
  resumes; two passes for the largest task, two reviewed runs in the quality channel.
- *Reward.* Three runs hold a pair to compare and a third that stretches or
  leaves their group. The tasks are chosen at the boundaries: answers of every
  shape at one outcome (`Process`), process scores closer than a spread that
  counts (`Near`), targets that passed before and tests broken by failing and by
  skipping (`Regressions`), outcomes one target apart where the width is 10 and
  where it is capped at 50 (`Tenths`, `Fiftieths`), and an instance without
  curated buckets (`Uncurated`).
- *Image builder.* Two images run side by side, one of them wrapped, and a third
  makes a second batch, so that a broken pool has a successor. Three attempts
  hold a partial and a full reset. The throttle is one tick and the clock has two
  values: resets fall inside a throttle and at its end. Faults of the builds are
  combined with every state of the first image's tag, faults of the lock and of the state
  file are each a setting of their own.

Deadlock is checked except in the two Codex runs and in `ImageBuilder`, where the
system stops: every request is answered and no pair is left to age, or the
builder has returned. There `RequestEnds` and `BuildsEnd` say that nothing stops
earlier. Elsewhere ending by oneself is an explicit stutter (`Over`), or
something can always happen.

### Fairness

- *Orchestrator.* The main process takes its steps, the executor hands out queued
  work, a worker that does not hang ends its instance (`evaluate_instance` has
  limits of its own), and time passes, so a deadline that is not met expires.
  Nothing is assumed of restarts and faults.
- *GLM bridge.* The client reads, and upstream answers, sends or fails: the HTTP
  client has a read timeout.
- *Claude bridge.* Each request's own steps. Threads run, a released lock is
  handed on, and every HTTP call has a timeout. It is weak fairness: no property
  relies on a lock being granted under unbounded contention, because the requests
  and their attempts are finite. Expiry and the reset of quotas are never assumed.
- *Codex bridge.* Some request or some provider takes a step while one can: calls
  have timeouts and threads run. Nothing is assumed of the CLI or of the clock.
- *Verdict store.* Some step of a running pass is taken while one can: a call has
  a timeout and a throttled item a deadline. Nothing is assumed of the operator.
- *Image builder.* A build, a wrapping and a reset end, the parent submits and
  collects what is done, and a process that waits for the lock gets it in the end: strong
  fairness, since others may take it in between (the kernel wakes the waiters of a file lock).

## 4. Disagreements found

Each of these has a run that ends in the violation:

1. **Stale grant** (`ClaudeStaleGrant`). Under the file lock the provider reads
   the rotated token; if that is expired too, it refreshes with the older token in
   its own memory (`claude_code_bridge/credentials.py:471`), whose grant is spent.
   The account is lost until the process restarts. The Codex bridge does this
   right (`codex_bridge/credentials.py:353`).
2. **Unknown age** (`CodexUnknownAge`). "Unknown age: don't proactively refresh; a
   401 will force it" (`codex_bridge/credentials.py:128`). The 401 drops the
   credentials and reads the same document again; the age is as unknown as before,
   the same token goes out again, and the client gets the second 401. No refresh
   is ever made.
3. **Judging again does not help** (`VerdictRejudge`). After the rubric or the
   prose changed, the score says "Re-judge this task" (`fingerprint.py:118`). A
   judge pass skips every item with an answer that parses, about whatever
   version (`judge.py:198`), asks nothing, and exits with 0; the score still
   refuses. The files have to be removed by hand. The quality channel does this
   right (`quality_cli.py:187`).
4. **A target outranked** (`RewardTarget`). The width of the process term is the
   number of f2p and n2p targets (`cli.py:308`); the outcome also counts s2p
   targets. In a task with many of those one target is worth less than the
   process term, against "The outcome channel's own resolution is one target
   test, so that is the gap alpha respects" (`compose.py:69`).

These follow from the same models and have no run of their own. Each is had by
changing the constants of a run as stated:

| What happens | Against | How to see it |
|---|---|---|
| The wait loop gives up a hung instance at its deadline, then `pool.shutdown(wait=True)` (`evaluation.py:477`) waits for its worker for ever. | the deadline itself, `evaluation.py:65` | `EvalRunEnds` with `Faults <- HangFaults` deadlocks, and with `CHECK_DEADLOCK FALSE` violates `RunEnds` |
| An exception that leaves a worker is only logged (line 425). The instance has no line in the attempt file and the next attempt, which takes its work from that file, never retries it. | `evaluation.py:212` | `EvalRestart` with `Faults <- RaiseFaults` violates `FailedAreRetried` |
| After a crash inside an append the resumed process appends to the unfinished line (line 351): its first result is unreadable, and so is the unfinished one if it lacked only its newline. | `evaluation.py:232-235` | `AllAnswered` in `EvalRestart` with `Faults <- TearFaults` |
| A capture counts as complete when `"finish_reason"` or `[DONE]` is somewhere in its bytes (`zbridge/bridge.py:442`), which is so after most chunks. If the connection drops in the first frame and behind those bytes, the client gets status 200 and nothing; if it drops later, a broken capture is replayed and ends in an error instead of being asked for again. | `zbridge/bridge.py:379` | the exception in `NeverSilent`; `FinishedOnce` says only that nothing finished is asked for again |
| On a drop in passthrough mode the generator adds an error frame (line 362) to the end that `close()` makes. | the protocol of the stream | `ZBStream` violates `ClientSpec` if `AnthropicStream` has no `LateError` |
| Chunks after the finishing one are translated: blocks open behind `message_stop` (`sse_translator.py:129`). | the protocol of the stream | `ZBStream` violates `ClientSpec` without the condition `setup.orderly` |
| An account whose token was refused stays in the pool, or another is put out in its place, when the tokens of two accounts begin with the same 20 characters and the slot has noted a newer one. | "This is reliable even after a refresh changed the token", `claude_code_bridge/credentials.py:686` | `ClaudePool` violates `RefusedIsOut` without the condition `Telling` |
| `merge_scores` leaves the numbers of an earlier score in the `result.json` of a run that is unjudged now (`writeback.py:44`). | "are UNJUDGED and have no process score", `cli.py:624` | `NoStaleNumbers` in `VerdictStore` |
| Two runs with one outcome scored in different narrowed passes have values of score_rl that do not compare. | "The strata need every run of the task at once", `cli.py:317` | `RlComparable` in `RewardScores` |

## 5. What is proved

The theorems hold for all values of the constants that satisfy the module's
assumption, and each assumption only types the constants, except as noted. What a
theorem states is the formula that a run checks. Every inductive
invariant was tried with TLC first. `Spec` has no fairness in any of them.

### EvalOrchestrator

For every set of instances, number of attempts, workers and processes, either
critic and every set of faults (`OrchestratorAssumption`).

| Theorem | Says |
|---|---|
| `TypeCorrect` | `TypeOK` always |
| `OneLine` | an attempt file never holds two readable lines of an instance |
| `RetriesJustified` | attempt n has a line only for what the critic refused in n-1, as long as no append was cut short |
| `WorkersStayBounded` | at most `NumWorkers` workers, never two on one instance |
| `LinesAreKept` | a line whose append ended stays; only one whose own append was cut before its newline can be lost, to the next line behind it |
| `BestIsPublished` | `output.jsonl` has each instance's last accepted line, else its last line without an error |
| `RetriedUnlessLost` | where nothing can be lost, a process that ends leaves each instance accepted or recorded in every attempt, unless an append was cut short |
| `FilesImplementLedger` | the files implement `AttemptLedger`, where an entry that a fault left unclosed can still be lost |

*Argument.* The properties are not inductive: nothing in them says that what the
process is about to append is not in the file already. `IInv` adds
`OwedIsEligible` (what the attempt still has to do has no line in its file and
was refused in the previous one), `WorkInOnePlace` (it is in exactly one of the
loop's sets, which are empty in other phases), and `WorkersAreRunning` (the
workers are those of running futures of this attempt, because `Shutdown` and
`_cleanup_pool` leave none behind), `UnfinishedLines` (a file has one line
without its newline at most, the last, and it is readable) and `CutByFault`. Each
part has a lemma with one step per action. The refinement maps a file to the sets
of its lines, and the line without its newline to the unclosed entry: `FileChange`
says that every step leaves the files alone, adds one line at an owed instance,
which `OwedIsEligible` makes an `Enter` of the ledger, or takes out the unclosed
one, a `Lose`. The ledger keeps its rule without a condition: attempt n was
entered on a refusal that was there then.

`BestIsPublished` needs that `out` is what `aggregate_results` computes as long as
the process has returned (`Aggregated`), and that the fold over the attempts,
which replaces an entry by one of at least its rank, leaves the last entry of the
best rank: an induction over the attempts read so far. `RetriedUnlessLost` has
the hypothesis `Lossless`: no worker raises and no pool breaks. Crashes,
interrupts, hung workers, restarts and appends cut short remain, the last until one
happens (`~cut`). Without it the
property is false (section 4). Its invariant `AttemptsSettle` says that an
attempt that is over has settled every selected instance and that the one in
progress has settled all it does not owe.

### ZBridge

For every set of setups, frames of any items, number of frames and retries, and
every set of faults (`BridgeAssumption`: upstream's frames are sequences of items
and not empty).

| Theorem | Says |
|---|---|
| `TypesCorrect` | `TypeOK` always |
| `FinishedIsFinal` | a capture that upstream finished is never asked for again, and a message is complete for the client only if upstream finished it |
| `ClientReadsProtocol` | what the client of an orderly upstream reads is a behaviour of `AnthropicStream` |
| `NotSilent` | a buffered request that has ended gave a whole message or an error, unless all there was is a torn frame that looks finished |

*Argument.* The bridge does not know whether the stream is finished, it knows
what it has captured. `StreamShape` relates the two (a frame that finishes makes
the stream finished, a torn frame is the last), `InOrder` adds what an orderly
upstream keeps to (nothing is added behind the end), `Translated` and
`TranslatedInOrder` say what of it the translator has seen, `CompleteIsTrue` that
no `message_stop` is on its way before upstream has finished, and `BlocksApart`
that text or thinking is never open beside a tool call and that blocks have
numbers of their own. For the refinement a state is not enough: what waits in `outq` is not read yet. `Coupled` says that the
waiting events can be read one after the other, each legal where the one before
leaves the client, and that they lead it to where the translator is (`Expected`:
the same open blocks, the same numbers used). A handler appends a path from
there, the client takes its first step. `ClientSpec` and `NeverSilent` have the
condition `setup.orderly`, and are false without it (section 4); `FinishedOnce`
holds of every upstream.

### ClaudeBridge

For every number of processes, accounts, requests, retries and tokens, and every
set of faults (`BridgeAssumption`).

| Theorem | Says |
|---|---|
| `TypeCorrect` | `TypeOK` always |
| `CallsAreBounded` | a request makes at most `MaxRetries + 1` calls upstream |
| `FilesKeepUp` | outside a refresh, a file holds its account's newest token unless a fault took it |
| `RefusedStaysOut` | an account whose token was refused is out of the pool or has a newer token, as long as the first 20 characters tell tokens apart (`Telling`) |

*Argument.* `Locks` says that each lock has one holder, `Refreshers` that who
posts holds an expired token and who writes holds the newest one,
`NewestIsSomewhere` that the newest token of an account that is not orphaned is in
the file or with the one request that will write it (`NewestKnown`: and nowhere
else), and `CallsCounted` relates calls to attempts in every state of a request.
`RefusedIsOut` is inductive with `GivenTokens`: a provider is never behind a token
it has given, so a refused token that the slot did not note last is either still
the provider's, and the search by prefix finds it, or older than it.

### CodexBridge

For every finite number of requests and bridges, of pairs, retries and posts,
and every kind of token age and fault (`CodexAssumption`; there is a request).

| Theorem | Says |
|---|---|
| `TypesCorrect` | `TypeOK` always |
| `ExchangeExclusive` | at most one bridge is between its second read of the document and its write, unless one went without the lock |
| `GrantsAreKept` | the refresh token that is good is in the document or about to be written, unless an answer or a write was lost; this takes no lock |
| `ReloadIsRead` | after a 401 the refused token goes out again only if the document held it at the reload |
| `NoSpentGrant` | as long as no answer was lost, lock and document could be used and the CLI kept away, no spent refresh token is posted |

*Argument.* `LockHeld` ties the lock file to the bridges in *post* and *write* as
long as nobody went without it. `Unshared` says that until the newest pair is
written, nobody but who was granted it has it, and that there is one such: the
endpoint gives a pair for a refresh token once, whoever holds the lock. With `NewestOnly` and
`Untroubled` that gives the two theorems about grants. `NotBack` is what
`ReloadIsRead` needs: a token that was refused and that the document did not hold
at the reload is older than everything that will ever be read again, in the
document, in the cache and with the CLI.

### VerdictStore

For every task of a finite number of runs and items, both channels, every number of
threads, versions and passes, and every set of faults (`StoreAssumption`).

| Theorem | Says |
|---|---|
| `TypesCorrect` | `TypeOK` always |
| `ScoresRest` | the numbers of a `result.json` rest on answers about the bundle they were computed for |
| `AskedOnce` | no answer that decides is asked for again |
| `ExitMeansAsked` | after exit status 0 every item of every run to review has a record, or the run's file a line that every reader raises on |
| `AnswersAreKept` | only a death or a removal takes away a usable answer about the bundle as it stands, or the append behind a record that a death cut before its newline, which leaves an unreadable line |

*Argument.* A score command reads while passes write, so `ScoresRest` needs that
its check stays true until it writes (`CheckHolds`): no pass that could add
answers about another version runs beside it. `PlanOpen` says that what a thread
has still to ask is asked once and was not decided when it was planned, and
`RestAsked` that what it has not to ask any more has a record, unless the file has
an unreadable line, as it has when an answer is appended to a cut record.
`KeptIndices` (in `Subsequences_proofs`) is the lemma about dropping the
records of another version.

### RewardScores

For every set of tasks, with finite lists of tests, any rubric of whole
weights, any verdicts, and any number of runs and passes (`RewardAssumption`).

| Theorem | Says |
|---|---|
| `Invariance` | a run stays what it was converted from, is judged once, and its published numbers compose its own |
| `BreakingAlwaysCosts` | of two runs with the same hits the one that stops fewer tests has the better outcome |
| `TrippingAlwaysCosts` | a guardrail tripped besides raises no score, and lowers the rubric's where four decimals can tell |
| `GapIsKept` | an outcome better by a target, or by .02 in a large task, is never turned round by process |
| `RlIsOrdered` | within a pass and an outcome score_rl orders runs as process does |

*Argument.* Published numbers are old: they may come from a pass over other runs,
before others were added. `IInv` says what they still are. The rest is
arithmetic: rounding half to even is monotone and off by at most half
(`RoundMonotone`, `RoundBounds`), so the room `alpha_for_task` gives process is
smaller than the gap of a target (`BlendKeepsGap`); sums over finite sets of
weights split at an item (`SumTakeOut`), so a guardrail lowers the numerator and
leaves the denominator, and the two branches of the rubric's score do not cross
(`ScoreFalls`, `ScoreDrops`); more broken tests lower the outcome's factor
(`FormulaFalls`). `BreakingCosts` speaks of outcomes from .20 on and of at most
twenty targets or kept tests, and the strict part of `TrippingCosts` of sums that
are a ten-thousandth apart (`Tells`): with less the published decimals are equal.
That the score is rounded to so many decimals is the code's doing.

### ImageBuilder

For every list of images without repetitions, size of batches and of the pool,
number of retries, throttle and set of faults (`BuilderAssumption`).

| Theorem | Says |
|---|---|
| `ManifestIsComplete` | when the builder returns, every image has one line; if submission raised, the batches before have one each and the others none; the exit status is 0 exactly if all images were built |
| `LinesHold` | what a line with a tag and without an error says stays true: the image is there, and wrapped if it has to be |
| `ResetsKeepApart` | resets do not overlap as long as `flock` works, and are a throttle's length apart as long as the state file does too |

*Argument.* `ResetLocked` says that who resets has the lock unless somebody went
without it, and that with nothing to blame the state file is what the resets that
ran make it and what the one under way has read. `BatchesInOrder`, `ResultsSet` and
`LinesWritten` relate the batches, the futures and the lines: batches before the
one at hand are written, those after it wait, and that one is not written before it
is submitted, so that both ends account for every image. `BuiltIsThere` relates
results and the registry.

### Induction

The library's induction theorems have an operator as parameter, which none of the
provers can instantiate. Stated for a set of numbers (`NatSetInduction`) and for
a set of subsets of a finite set (`SubsetInduction`), induction follows from the
well-foundedness of < on the naturals. With it recursive functions are shown to
exist, and so what the filter, the folds and the sums of the models return.

### Only model-checked

Liveness, which is out of the prover's reach: `LoopEnds`, `RunEnds`, `PassEnds`,
`BuildsEnd` and the `RequestEnds` of the three bridges. Beyond the hypotheses
named above (`Lossless`, `setup.orderly`, `Telling`) the property is false, and
section 4 says how to see it.

## 6. What is not modelled

- Of the orchestrator: the contents of results, the worker's own retry loop, the
  workspaces (a terminated worker leaves its container behind,
  `evaluation.py:529`), Laminar and logging. Which time counts for a deadline is
  in the model (an instance can expire in the queue), but no property judges it.
- Of the GLM bridge: keep-alive pings and the cancellation of a capture, the
  non-streaming request, names and ids of tool calls. More than two parallel
  calls, and other frames than the run's, are covered by the proofs only as far
  as `Items` has them.
- Of the Claude bridge: the Keychain and single-account providers, `/healthz` and
  `/quota`, and what is in a stream. The search
  for a slot by prefix takes providers' locks while it holds the pool's; the model
  lets it run only when they are free, and lets other requests of the process
  go on meanwhile, which the real event loop does not: the model has more
  interleavings, not fewer.
- Of the Codex bridge: `/healthz`, which reads the token and the account as a
  request does; a bridge that dies between a grant and its write; the inline source of
  credentials; the grace in which an endpoint may take a refresh token twice
  (`credentials.py:26`). There is one login, so a token and an account id that
  are read around a change of login (`bridge.py:304`) cannot be told apart. At
  `MaxPairs` the endpoint grants no more.
- Of the verdict store: the pacing of calls, whose clock is shared by threads
  without a lock (`judge.py:243`), and the back-off, which is one step with every
  outcome; several judges per item; the calibration, of which only its verdict is
  kept (`bare`). Start-up of a pass is one step. The bundle is not edited while
  a score command runs, and an edit back to an earlier text counts as a new
  version.
- Of the reward: the rewriting of Gradle's test names, several judge members,
  ties in the rounding of binary fractions; process is kept in
  ten-thousandths. With widths other than those of the tasks the rounding of the
  outcome to two decimals can make a step smaller than a target: at 12 targets,
  11/12 is published as .92. That one can gain by failing a prerequisite
  (`rubric.py:581`) is in the model and contradicts no text.
- Of the image builder: pruning between batches, logs, further tags, builds that
  are not pushed, other builders on the host, which share the throttle file,
  `BUILDKIT_RESET_ON_FAILURE=0`, and the caller's use of the exit status. The
  exit statuses of the commands of a reset are not looked at, by the code or the
  model. Docker commands are assumed to return, and the clock not to go back.
  That an image wrapped in an earlier run can be left plain by this one
  (`build_utils.py:306`) is in the model; `LineHolds` speaks of this run's lines.
- The parts marked *not modelled* in section 1 are sequential functions from
  files to files, or text.

## 7. Plan

1. `InstanceRetry`, composed with the orchestrator's `WorkerEnd`: bounded
   retries, capped resource factor, every workspace closed but a terminated
   worker's.
2. `ZBridge`: keep-alive pings and the cancellation of a capture, with `Coupled`
   extended by the pings that may stand anywhere in `outq`.
3. The rubric runner and the finance report, two writes with a crash between
   them, in one small module each.
4. Abstract specifications of the two parts that have none: a pool of
   accounts for `ClaudeBridge`, one document with one good grant for
   `CodexBridge`.
