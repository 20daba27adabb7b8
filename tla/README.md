# RioMisc in TLA+

RioMisc plays CTF contests: it discovers challenges, downloads their files,
starts one language-model solver process per challenge, verifies and submits
the flags the solvers find, and recovers from SQLite after a crash. This
directory holds TLA+ specifications of its control plane
(`apps/server/src`), TLC instances of them, and TLAPS proofs.

Paths below are relative to the repository; `control/` is short for
`apps/server/src/control/`.

Contents: 1 the system, 2 the modules and the code, 3 the runs, 4 fairness and
liveness, 5 the proofs, 6 where the code departs from its documentation, 7 what
is not modelled, 8 the plan, 9 how to run it.

## 1. The system

### One process, many awaits

The control plane is one JavaScript process with one thread. A handler (a timer
tick, an HTTP request, a message of a worker) runs without interruption up to
its next `await`; everything else happens between two awaits. So the
interleavings that matter are few and sharp: a handler reads state, awaits, and
goes on with what it read. Every module below takes one such stretch as one
action. Solvers are child processes; their messages and exits are events of the
control plane. SQLite is synchronous (`node:sqlite`): one statement is atomic,
several statements are one transaction only inside `StateMachine.transition`.

### Components

**State machine** (`apps/server/src/state-machine.ts`).
State: `lifecycle_status` and the columns patched with it (session, pause and
park reason, restart count). One operation, `transition(id, event, ctx)`: looks
the event up in a partial table, refuses it or patches the row and appends an
event in one transaction; returns whether it was allowed. All other components
call it and most of them ignore the result, which is where half of the hard
behaviour below comes from. Correct when: no reason outlives its pause (the
scheduler would skip the challenge forever), a session is only held while there
is work, no status is a dead end.

**SubmissionManager** (`control/submission.ts`).
State: candidate rows and submission rows (both unique per challenge and flag
value), the blocked reason of the challenge, a map of retry timers, and the
`#submitNow` calls suspended at the rate limiter or at the judge. Operations:
`onCandidate`, `reconsiderRejectedLocal`, `submitCandidate`, `#submitNow`,
`scheduleRetry`, `manualSubmit`, `retrySubmission`, `recoverSubmitting`,
`resumeSolvingAfterUnknown`. Called by workers, routes, timers and recovery.
Hard: a request whose answer is lost must not be sent blindly again; an answer
may come after the human paused or decided; rows are read before the limiter and
written after it; an answer is stored by several separate writes; a crash may
come anywhere. Correct when: no flag is sent more often than somebody asked for,
no challenge stays SUBMITTING with nobody driving it, a correct flag solves the
challenge, wrong flags are capped, nothing is sent on its own where there is no
judge.

**Recovery** (`control/recovery.ts`). At start: requeues ACTIVE and VERIFYING
challenges, lets SubmissionManager drive the SUBMITTING ones again, puts
PREPARING ones back, deletes partial downloads, clears leases. Correct when: it
re-establishes the invariants of every component from the rows alone.

**Scheduler** (`control-plane.ts`, `schedulerTick` and `#startSolver`;
`packages/scheduler`). State: `schedulerRunning`, LLM semaphore and the release
function kept per challenge (`llmHeld`). A tick prepares what was discovered,
queues what is ready, ranks the queue, cuts it to the capacity and starts
solvers one after the other, awaiting the contest and the worker's "ready" for
each. Correct when: the tick always ends, capacity and slots are respected, no
slot leaks and none is given back twice.

**WorkerPool and solver workers** (`control/worker-pool.ts`,
`workers/solver-worker.ts`). State: handle per challenge, its heartbeat, lease
rows, `intentionallyStopped`. Operations: `startWorker` (fork, "start", wait up
to 60 s for "ready"), the exit handler, heartbeats and `#markLost`, `abort`,
`kill`, handoff to another runtime. Everything is keyed by the challenge, not by
the worker: events of an old worker are applied to its successor. Correct when:
one worker per challenge, a lease names a live worker, an ACTIVE challenge has
somebody who works on it, a stopped one has nobody who goes on.

**Human operations** (`control-plane.ts`, `accept.ts`, behind
`api/routes.ts`): pause, resume, park, unpark, restart, accept, reject, submit,
retry, resume solving, reconsider, delete, force priority. Each is a handler
that touches rows, workers and slots at once, at any moment.

**Preparation, start policy, prepare retry, sync and poller**
(`control/preparation.ts`, `start-policy.ts`, `prepare-retry.ts`,
`challenge-sync.ts`, `packages/contest/src/poller.ts`). State: the challenge
row with `startStatus`, the attachment row, the file and its `.part`, the set
`preparing`, the backoff, the tombstones of deleted challenges. A poll creates
and refreshes rows, `#prepare` takes a challenge from DISCOVERED to READY or
ERROR with a start at the contest and downloads, each of them an await. Hard: a
poll, a deletion, a replaced file, a second download or a crash come during the
await. Correct when: PREPARING is driven, READY has its file, no outdated file
counts as downloaded for good, a solver works on a started challenge only, the
deleted stays deleted, everything discovered gets somewhere.

**Manager** (`control/manager/`): a model plans who gets a solver slot. State:
`dirty`, debounce timer, the run under way and its snapshot, the last applied
plan with its decisions, the orchestration of the human (lock, force, hold). The
coordinator runs one plan at a time; the gate uses a plan only while it is
fresh. Correct when: no request is lost, the human comes before the plan, a
plan that fails or expires blocks nobody.

**Reflection** (`control/reflection/`) and **hints** (`control/hints.ts`,
`hint-policy.ts`). State: review rows with a fingerprint of what they looked at,
a semaphore, whether a review was delivered; the hint's status and backoff.
Reviews are asked for by a watchdog, the solver and the human; they wait for a
slot and for a model, while the worker they are for comes and goes. Correct
when: one state is reviewed once, slots balance, a review is told once and gets
there, a hint arrives although calls fail.

**Agent runtime** (`packages/agent-runtime`, `workers/solver-worker.ts`,
`control/session-resume.ts`). State: the session rows of a challenge, the
conversation file, the worker's handle, the messages both ways, the budget and
cache of pictures. A worker opens or resumes a session, prompts, takes
injections, model switches and the abort, and reports. Correct when: a successor
continues the conversation and knows the task, the row tells which model runs,
a stop ends the worker, the vision budget holds over worker deaths.

**Tool runtime** (`packages/tool-runtime`, `packages/misc-runtime`). State: the
workspace, the experiment ledger that answers repeated calls, result files, the
Python process. Correct when: a replayed answer is still true, no effect is
swallowed, every call ends. Its **catalog** (`catalog/`): fifteen tools the
model sees and the ones it must discover; correct when everything it points to
can be called. **Crypto runtime** (`packages/crypto-runtime`), **files of the
tools** (`zip.ts`, `stream-io.ts`, `safe-name.ts`): pure functions with edges.

**Contest adapters** (`packages/contest`): what the answers of DASCTF and CTFd
mean for a submission, a download, a start. **Model registry and assignment**
(`control/registry.ts`, `model-assignments.ts`, `runtime-choice.ts`,
`advisory-runtime.ts`): which model solves, reflects, plans and looks at
pictures, while models and providers are edited. **Scheduler ranking**
(`packages/scheduler`). **Rate limiter** (`packages/contest/src/rate-limiter.ts`):
a token bucket per kind of request.

**Repositories** (`packages/database/src/repos`): SQL on the rows above.
**HTTP API, dashboard, CLI, evaluation**: clients of the operations.

### Interactions

    contest --list, detail--> poll --> rows, attachments --> #prepare --> READY
                                          ^ delete, retry (human)       |
    Manager plan --admitted--+            |                             v
    orchestration (human) ---+--> scheduler tick --ensure, fork--> WorkerPool
                                          ^                             |
                          slots, leases   | exit, lost                  v
                                          +------------------ solver worker
    reviews, hints --injected or with "start"--> session <-- tools, pictures
                                                    |
    worker --CANDIDATE--> SubmissionManager --submitFlag--> adapter --> judge
                               ^    |  transition, blocked reason
    human (routes) ------------+    v
                              StateMachine rows

- Everything meets in the rows of the challenge; whoever awaits may find them
  changed. The modules share the transition table (`LifecycleTable`), so a
  change of it is felt in all of them.
- The tick is where preparation, the manager's admission, capacity and the
  session of the next solver meet: `Intake`, `Manager`, `Workers` and `Agent`
  each model the tick up to what they are about and leave the rest open.
- A worker's messages and its exit arrive independently; the exit is handled by
  the pool, the control plane, the session rows and the slots in one stretch.
- Advice reaches a worker by injection or with its start message; both paths
  mark the same rows.

## 2. The modules and the code

| module | models | extends |
|---|---|---|
| `LifecycleTable` | the table `T` of `state-machine.ts` as a record of records, `Allowed`, `Target` | - |
| `Lifecycle` | `StateMachine.transition` on one row, with every column it patches | `LifecycleTable` |
| `Submission` | the submission of flags for one challenge | `LifecycleTable` (instantiates `Docket`) |
| `Docket` | abstract: what the judge sees of a challenge that no human touches | - |
| `Workers` | scheduler tick, worker processes, leases, LLM slots for a set of challenges | `LifecycleTable` (instantiates `Crew`) |
| `Crew` | abstract: what the pool of workers promises to the control plane and the human | - |
| `Intake` | poll, sync, preparation, start, downloads, deletion, restart | `LifecycleTable` |
| `Manager` | coordinator, plan, admission, orchestration, tick | - (instantiates `Replan`) |
| `Replan` | abstract: what the coordinator promises to whoever asks for a plan | - |
| `Advice` | reviews and hints of one challenge, and how they reach its worker | - |
| `Toolbox` | the tool catalog, schemas, discovery, help, hints | - |
| `Tools` | the tool calls of one solver with ledger, files, Python, result files | `Toolbox` |
| `Models` | registry, assignment, health, choice of runtime and model | - |
| `Agent` | the sessions of one challenge over several workers | `Models`, `LifecycleTable` |
| `Numbers` | number theory, RSA attacks, discrete logarithm, LCG, xor, Caesar | - |
| `Archives` | zip extraction, sampling of large files, file names | - |
| `Platforms` | answers of the contest platforms, ranking | - |
| `Probes` | the questions put to the pure functions and what the answers must satisfy | `Archives`, `Platforms`, `Models`, `Toolbox` |
| `Search` | the search of a large file in a stream | - |
| `Algorithms` | the questions put to `Numbers` and `Search` | both, `Probes` |
| `MC...` | the instances of the runs; `MCFoundations` joins `Lifecycle` and `Algorithms` (with `Probes`) | |
| `SubmissionProofs`, `WorkersProofs`, `IntakeProofs`, `ManagerProofs`, `AdviceProofs`, `ToolsProofs`, `AgentProofs` | proofs | the module each is named after |
| `FoundationsProofs` | proofs about `Lifecycle` and about `Archives` and `Platforms` as `Probes` asks for them; what is asked of `Models` is in `AgentProofs` | `Lifecycle`, `Probes` |

The table is shared: `Submission`, `Workers` and `Intake` move a challenge only
by `Target(status, event)`, so an event that the table refuses leaves the status
alone, as `transition` does when its caller ignores the result.

A definition under the comment "Mutant of D" is D with a plausible bug; no
action uses it. Section 3 says what they are for.

### Lifecycle

`Transition(e)` is `transition` with an allowed event. `pausedReason`,
`parkedReason`, `session` and `solverStarted` stand for "the column is not
null", which is all that any reader tests. The reasons and the session arrive in
`ctx`, as the callers in `control-plane.ts` pass them.

### Submission

Candidates and submissions are unique per challenge and flag value (after
`trim`), so both tables are functions of the flag.

| state | code |
|---|---|
| `life`, `blocked` | `lifecycle_status`, `blocked_reason` of the challenge |
| `cand`, `sub` | status of the candidate and submission row; "NONE" without a row |
| `newest` | the row `lastByChallenge` returns |
| `cooling` | rows whose `submittedAt` is less than `defaultCooldownMs` old |
| `calls` | `#submitNow` calls suspended at the limiter or the judge, and whether the loop of `reconsiderRejectedLocal` awaits them |
| `timer` | keys of `retryTimers` |
| `todo`, `todoAuto` | what `reconsiderRejectedLocal` has still to visit, and what it read about the block |
| `up` | the process runs |
| `credit` | history: attempts a flag was granted and has not used |

| action | code |
|---|---|
| `RejectLocally`, `HoldForHuman`, `AutoSubmitCandidate` | the outcomes of `onCandidate` |
| `SubmitCandidate`, `SubmitNow` | `submitCandidate`; `#submitNow` up to its first await, with the cooldown |
| `Reconsider`, `ReconsiderNext` | `reconsiderRejectedLocal`: its start and one turn |
| `Send` | the limiter's token arrives: row SENDING, request leaves |
| `Answer` | the answer arrives: rows, transition, block, retry timer |
| `TimerFires`, `CooldownEnds` | the callback of `scheduleRetry`; time |
| `Pause` ... `ResumeSolving` | the operations of the human |
| `Queue`, `Schedule`, `RuntimeUnavailable`, `WorkerGone` | what the scheduler and the workers do to this challenge |
| `Crash`, `CrashInCandidate`, `CrashInAnswer` | the process dies between handlers, or between two writes of one |
| `Recover` | `RecoveryManager.start` for this challenge, with `recoverSubmitting` |

A loop that does not stand at an await runs before anything else (`LoopRuns` in
`Next`), as JavaScript would. `verifyLocal` compares texts that change between
calls, so its verdict is open. The judge accepts the flags in `Good`; it may
also rate limit, be unreachable, time out, or (for an adapter without anything
to compare with) ask for review.

`Docket` leaves everything out but what the judge can tell: which flag is with
it, what came of each, whether the challenge is solved, whether a human has to
look. `Submission` without a human implements it (`DocketSpec`): a flag is at
the judge while its row is SENDING, its outcome is that of its row once the row
is CORRECT, WRONG or UNKNOWN, and `held` is a block for review or for a lost
outcome. The candidates, calls, timers, the cooldown, crashes and recovery are
stutters of it or its steps.

### Workers

| state | code |
|---|---|
| `life`, `lease` | `lifecycle_status`; the worker of the `worker_leases` row |
| `handle` | `WorkerPool.workers` |
| `proc` | the processes: forked, ready or gone, the challenge, the order received, who awaits "ready" |
| `held`, `taken` | keys of `llmHeld`; units of the LLM semaphore handed out |
| `stopped` | `intentionallyStopped` |
| `tick` | where the running tick stands (`schedulerRunning` is `tick.at # "idle"`) and the rest of its list |
| `draining` | handoffs that wait their 800 ms |
| `inflight` | challenges with a submission at the judge, seen from the outside |

| action | code |
|---|---|
| `TickStart`, `Advance` | `schedulerTick`: capacity, list, slot per challenge |
| `StartFails`, `StartForks` | `#startSolver` after `startService.ensure` |
| `Ready`, `StartTimeout` | `startWorker`: "ready", or 60 s without it |
| `Exit` | exit handler of the pool and `onWorkerExit` |
| `Lost` | `#markLost` and `onWorkerLost` |
| `Handoff`, `HandoffFails`, `HandoffForks` | `onWorkerHandoff` before and after its wait |
| `Pause` ... `ResumeSolving` | the human; `StopWorker` is what stops have in common |
| `FlagFound`, `Wrong`, `Correct`, `Unknown` | the submission seen from the workers |

`Exit(w)` clears handle, lease and slot of the *challenge* of `w`, as the code
does. Ranking and admission are left open: any subset of the queue that fits.
The constant `Faults` selects what goes wrong, `Operator` what the human does,
and `Careful` whether stops are aimed at challenges that have a worker.

`Crew` knows processes only: who is there for a challenge, who was told to stop,
which challenges nobody is to work on. `Workers` with crashes implements it
(`CrewSpec`): `works` are the processes from their fork to their exit, `told`
those that were sent an abort or a kill, `aside` the challenges that are
PAUSED, PARKED or SOLVED. Handles, leases, slots and the tick are left out, so
each of their steps must be a stutter or one of `Crew`.

### Intake

Each challenge has one attachment, which the contest may replace by another
version. What a version differs in, its URL, its size or both, and whether the
list of challenges shows the files, is the kind of the contest (`Contests`); the
content differs always.

| state | code |
|---|---|
| `life`, `start` | `lifecycle_status`, `start_status`; "ABSENT" without a row |
| `att`, `file`, `part` | the attachment row with its status, URL and size; the version on disk (`Torn`: the work of two writers); is there a `.part` file |
| `job` | the asynchronous functions under way per challenge: `#prepare`, `ensure` for a solver, re-downloads of a poll; the version each downloads and the size it expects, as read before its await |
| `preparing`, `held`, `tomb` | `ControlPlane.preparing`, `prepareBackoff`, `deletedRemoteIds` |
| `poll` | where the running poll stands and what it was told |
| `remote`, `config` | external: the contest's version; start policy, kind of the contest, category, whether the contest replaces a file during a poll or a download |
| `up` | down, started but not recovered, running |

| action | code |
|---|---|
| `PollAsk`, `SyncEntry`, `PollDetails`, `RefreshDetail`, `PollEnd`, `PollFails` | the poll with an await for the list and for the details; `SyncFile` with `Differs`, `Upserted` and `Launch` is `attachmentsDiffer`, the upsert and the re-download |
| `Prepare`, `Unsupported`, `BackoffEnds` | the head of the tick, `#prepare` up to its first await |
| `StartSucceeds`, `StartFails` | `ChallengeStartService.ensure` |
| `DetailArrives`, `DetailFails` | `getChallenge` in `preparation.ts` |
| `DownloadBegins`, `NoDisk`, `DownloadCompletes`, `SizeMismatch`, `DownloadFails` | `#downloadOne`: gate, disk check, stream, size check, rename |
| `Queue`, `StartSolver` | READY to QUEUED; `#startSolver` as far as the start policy |
| `RetryPrepare`, `Delete` | the human |
| `Replace` | the contest |
| `Crash`, `Boot`, `Recover` | the process; the first poll comes before recovery |

### Manager and Replan

| state | code |
|---|---|
| `mode`, `orch` | settings `manager.mode`; `challenge_orchestration` |
| `dirty`, `timer`, `manual` | of `ManagerCoordinator` |
| `run` | idle, waiting for the model, or to be continued; the snapshot it was asked about |
| `live`, `applied`, `lastHash` | is there a plan in force; its decision per challenge; the snapshot it was made of |
| `life`, `scored`, `tick` | status; has a score; what the running tick has to start |

`Request`, `ManualReplan`, `TimerFires`, `RunAgain` are the ways into
`runIfNeeded`; `PlanMade` is the answer with `validateAndApply`, `PlanFails`,
`PlanExpires` the fallback; `Tick` is admission, ranking and selection,
`StartSolver`, `StartFails`, `SolverLeaves` what becomes of the selected;
`SetMode`, `PatchOrchestration` the human; `Restart` the process.

`Replan` knows three bits: a plan is wanted, a run is under way, the manager is
on. `Manager` implements it with `wanted <- dirty`, `busy <- run.at = "ask"`,
`on <- mode # "OFF"`: the debounce, the continuation and the reasons a run ends
at once are stutters or steps of it.

### Advice

| state | code |
|---|---|
| `worker`, `mail`, `heard` | no worker, one that opens its session, one that listens; reviews in its start message; in its conversation |
| `review`, `newest`, `cooling` | `reflection_runs`, and whether the stored result parses; the latest row; the cooldown |
| `told` | history: how often a review was handed to a worker |
| `news` | what the fingerprint sees |
| `slots`, `others` | `ReflectionSemaphore.used`; the slots of other challenges |
| `hint`, `stored`, `eligible`, `backoff`, `fetch` | `hint_status`, the hint row, `eligibleAfterStartMs`, `hintRetry`, the ticks and calls of `HintManager`, with what a tick has read |
| `policy`, `silent`, `marked` | `autoFetch` and `requireStalled`; the two ways in which `isStalledForHint` finds a challenge stalled |

`Reflect`, `SkipDuplicate`, `GetSlot`, `GiveUp`, `ReviewEnds` are `run` of
`ReflectionExecutor` between its awaits; `StartWorker` collects what is pending
and marks it, then forks or fails for lack of a runtime; `SessionOpens`,
`WorkerGoes`, `Progress`, `Report`, `Silence` are the solver and its reports;
`HintTick`, `TickOne`, `HintComes`, `ForceHint` are `HintManager`. Of what waits
`Pending` is the latest, and nothing when that does not parse, as `pendingMessage`
has it.

### Toolbox and Tools

`Toolbox` is the catalog as a set of records (name, group, domains, documented
arguments, where its help points) with the schemas beside it, and discovery,
help and hints as operators over it.

| state | code |
|---|---|
| `files`, `made` | the workspace; outputs under a name of the tool's own |
| `ledger` | `state/experiments.json`: keys with what the run answered, of which the file keeps summary and outcome (`Previous`); the rest is history |
| `call`, `answer` | the call under way; what the solver was answered, and, where the ledger answered, its entry and what a run would answer now |
| `told` | the messages of the control tools |
| `results`, `counter`, `cited` | `results/tool-<n>.txt`, the worker's counter, the files the conversation knows |
| `child`, `orphan` | the Python process; a script that outlives its worker |

`Refuse`, `Replay` (ok and ALREADY_TESTED whatever was recorded, with the old
summary and outcome), `RunQuick`, `StartSlow`/`FinishSlow`, `StartPython` are what
`runTool` does with a call, `DiskFull` and `SlowFails` what it does when a file
cannot be written; `PythonCloses`, `SpawnFails`, `TimesOut`, `KilledCloses` are
`process.ts`; `WorkerGoes`, `WorkerComes`, `OrphanEnds` the worker. A slow tool
reads while it waits, so that its answer is of what the file held before or after a
last write of an orphan, and its key of what it holds after. Tools are grouped by
what they do (look, scan, cut, render, write, signal, calculate); what they compute
is a value that depends on the file read.

### Models and Agent

`Models` is operators on a registry (models, providers, keys, slots, health):
assignment, removal, the choice of runtime and model.

| state of `Agent` | code |
|---|---|
| `reg`, `leaving` | the registry; providers whose deletion stands between its two writes |
| `rows`, `story` | session rows; conversation files with what was said in each |
| `proc` | the worker: stage, row, models it was sent, conversation, model, pictures under way |
| `down`, `up` | messages to and from it, in order |
| `vision` | `vision-budget.json`, the calls made, the cache |
| `life`, `stopped`, `anew` | status, SUBMITTING and SOLVED included; `intentionallyStopped`; history: why an ACTIVE session row has nobody working on it (a restart by the human, a failed start, an exit that was only logged) |
| `fallback` | `agent.allowMockFallback` |

`StartSolver` (with `Launch`, or `LaunchThrows` where `#agentRuntime` throws) and
`StartTimeout` are the control plane's; `Begin`, `OpenSession`, `OpenFails`,
`FirstDone`, `FirstFails`, `LoopDone`, `PromptDone`, `Inject`, `SwitchModel`,
`Abort`, `AbortEnds`, `Crash`, `Look`, `LookDone` the worker's; `HearPersisted`,
`HearIdle`, `HearError`, `HearExit` what the control plane hears; `FlagFound`,
`FlagWrong`, `FlagCorrect` the flag and its verdict as far as they touch the status
and the worker (the rest is `Submission`); `Switch`, `Hint`, `Pause`, `Resume`,
`Restart`, `Accept`, `Reject`, `ResumeSolving`, `Edit`, `ProviderLeaves` the human.
While a worker is being started neither human nor judge acts here; `Workers` is
about that, and about handoffs.

### Archives, Platforms, Probes; Numbers, Search, Algorithms

Operators, one per function of the code. A state of `Probes` is a question (an
input of one of them); its step answers it with the operator; the invariants
compare the answer with an independent definition of what is asked for (a divisor
by trying all numbers, the bytes of a file by listing them). `BigInt`s are
integers, text is a sequence of characters, the window sizes of the stream
readers are arguments.

The questions of `Probes` are the constant `Inquiries`: the run takes those of
`MCInquiries`, the theorems hold for any. What can be proved about is kept apart
from what cannot: the loops over entries, names and replies in `Archives` and
`Platforms` are folds and sets, the loops of `Numbers` and `Search`
are recursive operators, which only `Algorithms` and its run use.

## 3. The runs

`tlc -config X.cfg M` with the module of the table. State counts are distinct
states.

| run | module, config | shows | states |
|---|---|---|---|
| `foundations` | `MCFoundations`, `Foundations.cfg` | everything without concurrency: all paths through the transition table, all questions to the pure functions | 144 k |
| `human` | `MCSubmission`, `SubmissionHuman.cfg` | with every operation of the human but parking (a second way back to QUEUED), crashes, limiter and timers: no blind resubmission, nothing hangs unseen | 1.1 M |
| `alone` | `MCSubmission`, `SubmissionAlone.cfg` | without the human: one driver, correct means solved, the cap on wrong flags, final outcomes, that a submission always resolves, and that the judge sees a `Docket` | 1.7 k |
| `no_judge` | `MCSubmission`, `SubmissionNoJudge.cfg` | without an official judge nothing leaves on its own and nothing blocks; the process may also die inside an answer | 270 k |
| `workers` | `MCWorkers`, `Workers.cfg` | every operation and every fault on one challenge: leases name live workers, the tick always ends | 70 k |
| `workers_calm` | `MCWorkers`, `WorkersCalm.cfg` | three challenges compete for two places and two slots; workers crash whenever they like, the human stops what runs: the pool is a `Crew` (one process each, stops are told), capacity, no leak, nobody forgotten | 1.3 k (with symmetry) |
| `intake` | `MCIntake`, `Intake.cfg` | from discovery to ACTIVE under polls, failures, replaced files, deletion and crashes, at three kinds of contest | 164 k |
| `manager` | `MCManager`, `Manager.cfg` | plans beside the human's orders and the tick; the coordinator implements `Replan` | 49 k |
| `advice` | `MCAdvice`, `Advice.cfg` | reviews and hints for a solver that comes and goes, under each policy of fetching hints | 151 k |
| `tools` | `MCTools`, `Tools.cfg` | tool calls, the ledger, failing writes, hanging scripts, dying workers | 646 k |
| `agent` | `MCAgent`, `Agent.cfg` | sessions over several workers while models are edited and flags are judged | 398 k |
| `double_worker` | `MCWorkers`, `DoubleWorker.cfg` | counterexample of section 6 | |

### Bounds, and why they are enough

- `MaxRestarts = 4` bounds the restart counter, the only unbounded column of
  `Lifecycle`; nothing reads it.
- Two flags: the rows of different flags meet in the status of the challenge,
  in `newest`, the block and the order in which recovery looks at them; each is
  a relation between one flag and another. `Good`, `Strong` give both kinds.
- `MaxWrong = 1` (10 in the configuration): the cap can be reached, and one
  more flag be waiting.
- `MaxInFlight = 1`, one `reconsiderRejectedLocal` loop at a time: at most two
  calls of a flag per caller, one at the limiter and one at the judge, which is
  what it takes for a call to act on a row another call has changed. The
  theorems do not have this restriction; TLC's instances do.
- `MaxCredit` bounds how far the human and the judge run ahead (two attempts
  not yet used, three in `alone`).
- `Workers` is the set of processes alive at once: two for one challenge are a
  worker and its successor, three a successor of the successor; `double_worker`
  needs three. One handoff and one flag under way per challenge.
- Two challenges with every fault at once exceed what TLC does in minutes, so
  `workers` has one challenge with everything and `workers_calm` three with the
  faults under which its properties hold. Challenges interact only through
  capacity, slots and the list of the tick, all in `workers_calm`. Challenges
  and workers are interchangeable there, hence the symmetry (no liveness is
  checked with it).

- `Foundations`: the numbers asked about go up to 12 for the basic functions and
  to moduli of small primes for the attacks; `TrialBound`, `SmallESteps`,
  `FermatSteps`, `LogBound`, `DefaultModulus` stand for the loop bounds of the
  code (10000 trial divisors and so on), small enough that both sides of each
  occur. Archives of up to three entries around every limit; files shorter than,
  as long as and longer than the windows; texts of five characters cut anywhere;
  replies of a platform with more redirects and limits than the adapter follows;
  three models of two providers, two of one name.
- `Intake`: one challenge, since challenges meet only in the download gate, in
  the triage limit and in the poll's list (the theorem is for any number). One
  re-download beside `#prepare`: two writers of one `.part`. A contest whose list
  shows files with their sizes, and two whose details show them without, one where
  a replaced file keeps its size and one where it does not. The contest replaces
  the file once; two faults of any kind, a crash included, so that a failure and
  a failure of its repair occur.
- `Manager`: two challenges, one place, one touched by the human: plan, score
  and human can each prefer either. `MaxCandidates = 2` shows both to the model.
- `Advice`: two reviews (one and its duplicate or successor), one change of the
  fingerprint, one slot, which another challenge may hold; two hint ticks and
  the human; two faults. Hints are fetched never, for a stalled challenge (the
  default), or always. The latest of two reviews may hide the other.
- `Tools`: three calls (a call, a change, the call again), out of fifteen chosen
  so that a script, a write, a replay, a forced replay, a control tool by both
  ways, a tool that streams, one that renders and one that extracts occur; four
  names, of which one is found in `work/`; two faults: a failed write and its
  repetition, a worker's death and what its script does after.
- `Agent`: two models of two providers, two rows (a worker and its successor),
  one order and one edit of the human, one fault; a flag counts as an order and an
  edit, and may be judged once and decided by the human once. One vision call
  allowed, and a question asked twice, by one worker or by two. `MaxFails` is the
  5 of the code.

### Properties

Properties that say one thing together are stated as one definition whose
conjuncts have names of their own.

`Submission`: `BudgetKept` is `SendBudget` - a flag is sent at most once for each
time it is first seen, each "rate limited" and each request of the human - with
`BudgetInv`, the invariant that explains why (section 5). `NothingHangsUnseen`
and `SubmittingIsDriven` - a SUBMITTING challenge has a call or an effective
timer, or asks the human. `DrivenOnce` is `SingleDriver` (alone, the process has
one attempt under way and the status shows it, so that no answer finds a status
that refuses it), `SubmittingIsDriven`, `CorrectIsSolved` and `WrongCap` (no more
wrong flags than the limit; at the limit the challenge is held for review, idle).
`DocketSpec` is the refinement: over any run, one flag at the judge at a time,
each until it has an outcome and never after, none after a correct one, after the
last wrong one that is allowed or past a block, which nothing takes back.
`OutcomeIsFinal` as its name says; `OnlyTheHumanActs` is `NoJudgeNoAutoSend`
and `NoJudgeNoBlock`, and its run leaves out reconsidering, which submits
without a judge (section 6).

`Workers`: `WorkersInv` is `LeaseHasWorker` and `SlotsNotFreedTwice`, under
every fault. `CrewSpec` (the refinement: never two processes of a challenge, not
even while the first is dying, none for who is set aside, and who is set aside has
its process told in that very step), `PlacesAreKept` (`Capacity`, `NoSlotLeaks`)
and `WorkFollowsStatus` (`StoppedIsTold`, `ActiveIsWorked`) hold with crashes and
stops, and fail with late exits, slow starts, handoffs or flags under way;
section 6 says how, `double_worker` shows it of `OneWorker`.

`Lifecycle`: `ColumnsFollow` (`NoStaleReason`, `SessionFollowsSolver`),
`CanStillBeSolved`.

`Intake`: `PreparationInv` - a PREPARING challenge is driven, a solver works on a
challenge the contest started, what is deleted stays deleted. `WorksWithFiles` -
from READY on the file is there. `NotSilentlyStale` - once the contest is calm,
no row calls an outdated file DOWNLOADED for good, and only a replaced file of
another size, at a contest that does not say sizes, stays out of reach at all
(section 6). `GetsPrepared`.

`Manager`: `ManagerInv` - a pending request has the timer, a run or its
continuation. `HumanDecides` - an answer changes nothing about what was locked
meanwhile; the tick picks the forced first and never the held. `FallbackStarts`
- a silent manager holds nothing up. `ReplanSpec` - the refinement.

`Advice`: `AdviceInv` - slots balance, a review is told once. `OncePerState`.
`ReviewsArrive` - a review nobody was told of is in the message of a start, unless
it or a later one that waits does not parse. `HintArrives` - where the policy
asks for it.

`Tools`: `ReplaysAreCurrent` - for the tools that read the file of their path
(`PathReaders`), the run a replay points at answered what a run would answer now,
and summary and outcome are those of a run now; entries of a run during which an
orphan wrote, or of a tool that failed to write its output, are excepted
(`Settled`). `EffectsHappen` - a write whose run says ok, or that is repeated with
an outcome other than FAILED, is in the file; a control call reaches the control
plane. `ToolsInv` - `force` forces, a cited result file
holds what was told. `CallsReturn`.

`Agent`: `SessionsInv` - who is told "resumed" has the conversation that knows
the task, a conversation belongs to its row, the row names the model that runs.
`VisionWithinBudget`. `KeepsStory` - a successor continues, unless the session has
ended, the human restarted it, a start failed or the exit was only logged.
`StopEnds` - the process of a worker that is told to end ends. `PersistedArrives`.

`Algorithms`: `AlgorithmsAreRight` - number theory agrees with its definition, an
attack that claims success is right, and one that is in its reach succeeds; a
search finds what it promises to find, wherever the stream is cut.

`Probes`: `FilesAreWhole` - an extraction stays in its budget and directory and
one that succeeds leaves no path out, a sample knows whether it saw every byte,
names differ. `PlatformsAreBelieved`
- CORRECT only from the reply that says so, WRONG never from one that speaks of a
limit or is no envelope, a download only of a 2xx whose body came to its end, an
environment only when a detail says it is ready. It does not say that every WRONG
is a wrong flag, nor that text is stored as it was sent (section 6).
`ModelsServe` - no role is left to a model that is gone. `CatalogIsUsable` - what
help, hints and discovery point to can be called.

Deadlock is checked everywhere but in `foundations` (UNSUPPORTED and an answered
question have no way out), `tools` (the calls are used up) and `agent` (orders
and faults are used up).

Every one of them was also tried against a "Mutant of" definition and is violated
there.

## 4. Fairness and liveness

`SubmittingResolves` (run `alone`): if the process does not crash forever, a
SUBMITTING challenge moves on or is blocked for the human. Assumed: recovery
runs after a start; a loop that may run runs; timers fire and time passes
(weak fairness); the limiter hands out a token (it refills, and its callers poll
it); and, strongly, a request that is made again and again is at some time
answered by something else than "rate limited". That a request is answered at
all is the 30 s timeout in `#submitNow`, which yields UNKNOWN. Nothing is assumed
of workers and the human.

`TickEnds` (run `workers`): the tick always ends, so `schedulerRunning` never
blocks the scheduler for good. Assumed: the await of the contest ends
(`StartFails`), and the 60 s timer of `startWorker` fires (`StartTimeout`).
Nothing is assumed of a worker: it may never be ready, crash, or be killed while
it starts. The code sets no limit of its own on the request to the contest; it
ends because Node's `fetch` gives up a connection that sends nothing (five
minutes). A contest that keeps a response trickling would stall the scheduler.

`GetsPrepared`, `NotSilentlyStale` (run `intake`). Assumed: polls go on, the
process is started again and recovers, the contest answers each request somehow
(the adapters have timeouts), the download gate lets its waiters in, the tick
comes round, a backoff passes. All of it is weak fairness, for each challenge.
Faults are bounded, which stands for "the contest does not fail forever". A start
that failed for good leaves the challenge DISCOVERED with `startStatus` FAILED
until the human acts: `GetsPrepared` accepts that. `NotSilentlyStale` says
something of a contest that does not replace a file while it is being downloaded
(`calm`), nor between a poll's request and its answer's use; the code does not look
at the version again after a download. Where sizes are not said the repair is that
every poll finds a difference and downloads once more.

`FallbackStarts`, `ReplanSpec` (run `manager`). Assumed: timers fire, the
continuation of a run is reached, the model's call ends (it has a timeout) and a
start ends. The tick needs strong fairness because a continuation runs before any
timer; it disables the tick for that moment without keeping it from firing.
`ReplanSpec` includes the fairness of `Replan`: a run ends, a wanted plan is
served.

`ReviewsArrive`, `HintArrives` (run `advice`). Assumed: time passes, timers and
ticks fire, calls end, a waiting review gets a slot or gives up, the scheduler
starts a worker again and its session opens. Nothing is assumed of the success of
a call, nor of what the solver reports. `ReviewsArrive` is conditional on workers
that start again and again; `HintArrives` on a challenge that stays silent or
marked as stalled where the policy asks for that, and it excuses a restart of the
process during a fetch, after which the status stays FETCHING (section 6).

`CallsReturn` (run `tools`). Assumed: a stream ends, a process ends or hangs, the
timer of `process.ts` fires, a killed process closes its pipes. A grandchild that
holds the pipes breaks the last one (section 6).

`StopEnds`, `PersistedArrives` (run `agent`). Assumed: the worker and the control
plane get to run, messages arrive in order and the scheduler ticks. A model that
never answers is not assumed away: `Abort` is taken during a prompt. With a session
`process.exit` waits for `abort` of the session; that it returns (`AbortEnds`) is
so in the mock and assumed of the Pi SDK, which is not in the repository. `StopEnds`
is about the process; what becomes of the status is not its matter.

## 5. The proofs

`tlapm` proves, for all values of the constants that satisfy the named
assumptions of the modules (finite sets of flags, challenges and workers,
positive bounds):

| theorem | statement |
|---|---|
| `FoundationsProofs!LifecycleType`, `ReasonsAreCleared`, `SessionsFollowSolvers`, `ColumnsFollowTheStatus`, `NoDeadEnd` | `Spec => []TypeOK`, `[]NoStaleReason`, `[]SessionFollowsSolver`, `[]ColumnsFollow`, `[]CanStillBeSolved` |
| `FoundationsProofs!ExtractionIsSafe`, `SamplesAreHonest`, `NamesAreDistinct` | of `ExtractZipFromFile`, `SampleFileWindows` and `DiskNames`, for every archive, budget, file and list |
| `FoundationsProofs!VerdictsAreBelieved`, `DownloadsAreWhole` | of what the adapters make of any sequence of replies, for every body |
| `FoundationsProofs!FilesStayWhole`, `PlatformsStayBelieved` | `ProbeSpec => []FilesAreWhole`, `[]PlatformsAreBelieved` |
| `SubmissionProofs!TypeCorrect` | `Spec => []TypeOK` |
| `SubmissionProofs!NoBlindResubmission`, `BudgetIsKept` | `ASSUME ~TornAnswers PROVE Spec => []SendBudget`, `[]BudgetKept` |
| `SubmissionProofs!SubmittingIsSeen` | `Spec => []NothingHangsUnseen` |
| `SubmissionProofs!NothingLeavesByItself` | `ASSUME NoLoop PROVE Spec => []OnlyTheHumanActs` |
| `SubmissionProofs!OneDriver`, `WrongFlagsAreCapped` | `ASSUME Unattended PROVE Spec => []DrivenOnce`, `[]WrongCap` |
| `SubmissionProofs!JudgeSeesADocket` | `ASSUME Unattended PROVE Spec => DocketSpec`, the refinement |
| `SubmissionProofs!OutcomesAreFinal` | `ASSUME Onlooking PROVE Spec => OutcomeIsFinal`, an action property |
| `WorkersProofs!WorkersType`, `LeasesHaveWorkers`, `SlotsAreReleasedOnce`, `WorkersAreSound` | `Spec => []TypeOK`, `[]LeaseHasWorker`, `[]SlotsNotFreedTwice`, `[]WorkersInv` |
| `WorkersProofs!OneWorkerUnlessLost`, `StoppedAreTold` | `ASSUME OnlyCrashes PROVE Spec => []OneWorker`, `[]StoppedIsTold` |
| `WorkersProofs!PoolKeepsPromise` | `ASSUME OnlyCrashes PROVE Spec => CrewSpec`, the refinement |
| `WorkersProofs!PlacesAreKeptUnlessResumed` | `ASSUME OnlyCrashes, "resumeSolving" \notin Operator PROVE Spec => []PlacesAreKept` |
| `WorkersProofs!WorkFollowsWhenCalm` | `ASSUME OnlyCrashes, Calm PROVE Spec => []WorkFollowsStatus` |
| `IntakeProofs!PreparationIsSound`, `SolversHaveFiles` | `Spec => []PreparationInv`, `[]WorksWithFiles` |
| `ManagerProofs!RequestsAreDriven` | `Spec => []ManagerInv` |
| `ManagerProofs!TheHumanDecides` | `Spec => HumanDecides`, two action properties |
| `ManagerProofs!CoordinatorKeepsPromise` | `Spec => Coordinator!Spec`, the refinement |
| `AdviceProofs!AdviceIsSound`, `StatesAreReviewedOnce` | `Spec => []AdviceInv`, `[]OncePerState` |
| `ToolsProofs!LedgerIsCurrent`, `AnswersHold`, `NoEffectIsSwallowed` | `Spec => []ReplaysAreCurrent`, `[]ToolsInv`, `EffectsHappen` (action properties) |
| `AgentProofs!RolesGoToUsable`, `PicturesGoToSeeing` | of `ResolveAssigned`, `ResolveAdvisory` and `ResolveVision`, for every registry and list of models |
| `AgentProofs!ModelsKeepServing` | `ProbeSpec => []ModelsServe` |
| `AgentProofs!SlotsStayUsable`, `VisionStaysWithinBudget`, `SessionsAgree` | `Spec => []SlotsUsable(reg)`, `[]VisionWithinBudget`, `[]SessionsInv` |
| `AgentProofs!StoryIsKept` | `Spec => KeepsStory`, an action property |

**Lifecycle.** The lemma `Table` condenses the transition table to the facts
that matter (`TableFacts`), by one case per status; `TransitionFacts` applies
it to a step. Each invariant is then inductive: PAUSED and PARKED are entered by
the events that set a reason and left only by those that clear both. A status is
no dead end (`NotDead`) if it lies in every set that holds SOLVED and, with a
status, whatever has an event into it. `NoDeadEnd` walks the table backwards
from SOLVED to show it of each status but UNSUPPORTED.

**Archives, Platforms.** Extraction and the naming of attachments are folds over a
sequence. A fold is first unfolded to a recursive function whose existence is proved
(`Recursion`, which gives `CanFold`), since the definition of a fold only chooses
one. What is said of its result is then an invariant of the prefixes, shown by
`Induction` (a set that holds 0 and with a number its successor holds all), which
like `HasLeast` follows from the well-foundedness of < and speaks of a set, since
the provers cannot instantiate an operator. For an extraction the invariant says
that what is on disk so far fits the budget and lies inside, and that while no entry
was refused each path so far has its file (`OverwrittenKeeps`: a later entry of one
path replaces it); for names, that those given so far differ in small letters, and a
free one is always found because more are tried than are taken (`UniqueName`, an
injection). The redirects of a request need no induction: `RequestEnds` and
`CtfdRequestEnds` say that a request either throws or ends with the reply it says it
read; `StreamEnds` says what a stream brings that succeeds. `VerdictsAreBelieved`
and `DownloadsAreWhole` say no more than the code does: an unknown code of DASCTF
may be WRONG, and converted text may differ from what was sent. The sampled windows
are arithmetic of their borders, the ranking (`ScoreAndRankQueued`) arithmetic of
scores. `Faithful` carries the results over to `Probes`: an answer is the operator's
for the question asked.

**Submission.** `SendBudget` is not inductive: it says that no credit is
negative, not why. `BudgetInv` adds, per flag, that what is `Pending` (calls at
the limiter, an armed timer, a turn of the reconsideration loop) is covered by
credit, that a flag which could still be picked up though nothing is pending
(`Dormant`: fresh, or a row or candidate that recovery would drive) has at least
one, that a fresh flag has nothing under way (`FreshIsUntouched`), and that a
process that is down holds nothing in memory (`DownIsEmpty`). `BudgetPerFlag`
states it for one flag; there is one lemma per group of actions, one for crashes
and one for recovery, and each says how `Pending` and `Dormant` of the flag
change. The assumption `~TornAnswers` is needed: section 6, torn answer.

`SubmittingIsSeen` has no hypothesis at all. Its invariant `Seen` is stronger
than the property: the rows and the block alone show a way out, the candidates
are not needed. Whatever ends a call or a timer of a SUBMITTING challenge either
ends SUBMITTING, or leaves a block or a row UNKNOWN, and a call that waits for
the judge has its row SENDING or is driven still.

`NothingLeavesByItself` is about a contest without a judge (and holds trivially
of others). `Reserved` says that what is pending of a flag was granted by the
human on top of the attempt that every flag starts with. The hypothesis
`NoLoop` - the human never asks to reconsider - is needed: that loop submits
without looking for a judge (section 6). The run `no_judge` leaves the operation
out for the same reason.

Two theorems are about the process on its own (`Unattended`): no operation of the
human, and no answer torn by a crash. Crashes between handlers, the limiter, the
judge's failures and recovery remain. `Alone` is inductive: at most one call, of a
row that fits its stage, or one timer, and never both (`CallsFit`, `TimersFit`); no
candidate that recovery would submit has an outcome (`CandidatesFit`); the last
wrong flag leaves the challenge held for review with nothing under way (`CapFits`,
which gives `WrongCap` its "held for review"). The lemma that matters is `Starts`:
`#submitNow` of a challenge with nothing under way leaves exactly one driver.

`JudgeSeesADocket` is about the same process, and about steps. A request is a
step of `Docket` only if nothing else is at the judge, the flag has no outcome,
the challenge is open, fewer flags than the cap were wrong and nobody is to
look. `Alone` gives the first of these only of calls; a row may also be SENDING
after a crash, before recovery has made it UNKNOWN. `Docketed` closes that: at
most one row is SENDING, and then no timer is armed and no call waits for the
limiter (`OneAsked`); a block fits the status and the rows (`BlocksShow`); and a
challenge that is held, or has no judge, has nothing under way. There is one
lemma per action; that the wrong flags of the docket are those of the rows is
`WrongOfTheDocket`.

`OutcomesAreFinal` allows more (`Onlooking`): the human may pause, park, resume
and resume solving at any moment. Then several flags may be under way at once,
and the argument goes flag by flag: `Mine(f)` says of one flag what `CallsFit`,
`TimersFit` and `CandidatesFit` say of all, and a step touches one flag
(`OwnStays`). What the human accepts, rejects, submits or retries he decides
himself, so these operations are left out.

None of these hypotheses is there for the prover. For each of them TLC finds a
counterexample when it is dropped: `DrivenOnce` and its `WrongCap` with a pause
or a retry while the judge decides, `DocketSpec` with either; these and
`OutcomeIsFinal` with a torn answer; `OutcomeIsFinal` with each of the other
operations, `OnlyTheHumanActs` with reconsidering.

**Workers.** `Inv` is the type invariant, `SlotsNotFreedTwice` and
`LeaseHasWorker`. It is inductive as it stands, because every action that
removes a process also drops the lease of its challenge, and every release goes
through `held`. There is one lemma per action; the cardinalities of `held` are
handled by `Removed`.

The other theorems assume that the only fault is a crash (`OnlyCrashes`), which
may come at any moment; with the other faults they are false, as
`double_worker` and section 6 show. They need less than the run `workers_calm`
has: any operation of the human unless named, and flags under way.

- `Pool` is the invariant they share: a process that lives is the one its
  challenge has a handle of, and conversely (`ProcessesFit`); only the tick
  awaits a worker, and only one (`AwaitedFit`); the places taken and those the
  tick has still to give are together no more than there are (`RoomFits`), which
  is why a tick that counts once, before its awaits, is enough. `OneWorker` and
  `Capacity` follow.
- `PoolKeepsPromise` maps each step to one of `Crew` or a stutter. `Pool` says that
  what the code finds by the handle is the process of the challenge, so that "tell
  the worker" is `Stop`, a fork is `Start` with nobody there, and the place it
  takes is free because the tick reserved it. With any of the other three faults
  (a slow start, a lost worker, a handoff) TLC refutes `CrewSpec`.
- `SlotsFit` - what is held was handed out, to a challenge that is worked on or
  to the start the tick is at - needs the status, since a queued challenge that
  keeps a slot would get a second one. That is what resuming solving does
  (section 6), hence its exclusion in `PlacesAreKeptUnlessResumed`.
- `LivesFit` - who is ACTIVE has a worker, who is marked as stopped still has
  one and is not ACTIVE - needs a human who stops only what has a worker
  (`Careful`) and no flag under way (`Calm`): section 6 has a counterexample for
  each, TLC finds both.
- `StoppedAreTold` is inductive with `Pool` and needs nothing of the human.

**Intake.** `PreparationInv` needs to know where every job of a challenge stands.
`Local(c)` says it for one challenge: the row of a challenge with a `#prepare` under
way is DISCOVERED, PREPARING or deleted, according to where the job stands
(`PrepareFits`); PREPARING is driven (`Driven`); a start for a solver belongs to a
QUEUED challenge or a deleted one (`AssignFits`); other jobs stand only where the
policy puts them (`OthersFit`), of the starts of a poll at most two (`StartsIdle`
says when there is none); STARTING has a job that awaits it (`StartingFits`); a
status beyond the phase of the start policy has `startStatus` STARTED
(`StartedFits`); a tombstone has nothing (`Tombed`), and neither has a challenge
nobody has seen (`Unseen`). `TypeOK` and `Local` of all challenges are inductive. An
action touches one challenge: `OthersKeep` carries `Local` over for the others, so
each action's lemma argues about one challenge only; `Shows` reads `Local` off one
challenge's columns. `SolversHaveFiles` adds `FilesFit`: a challenge in play has its
file, one that is gone has no attachment row, a download under way names a version,
and a re-download replaces a file by another or leaves the old one. A poll under way
applies versions it has seen (`PollFits`).

**Manager.** `ManagerInv` is inductive as it stands: whatever sets `dirty` sets
the timer too or finds a run under way, and the end of a run looks at `dirty`.
The assumption that scores lie in 1..9999 is the code's: a computed score stays
below 300, 10000 is added for a forced start. `TheHumanDecides` needs the rank
arithmetic of `rankAdmitted` and, for "forced before all", that the selection
takes a prefix of the ranking. The refinement maps each action to a step of
`Replan` or a stutter, with `ManagerInv` as invariant.

**Advice.** `AdviceInv` and `OncePerState` are inductive only together and with
three facts more: the rows of reviews are used in order, so that the next one is
free (`Consecutive`); a review is told at most once, is marked when it was told,
and only a finished one is marked (`Ledger`); crashes are among the bounded
faults. The count of slots is handled by `RunningCount`. One lemma per action.

**Tools.** The set of calls is open: any tool of the catalog, with any argument
its schema takes, as far as `ToolsAssumption` goes (a call by name is one of the
core tools, a path is given if it is not empty). `CardsFit` states of each card
of the catalog what the proofs need, one case per tool. `LedgerIsCurrent` rests
on an invariant of the ledger (`Entries`): a settled entry of a tool that reads a
file has in its key the fingerprint of that file, and its answer is what the tool
finds in a file of that fingerprint (`ReadingFits`); a key that matches therefore
proves the answer, whoever wrote the file meanwhile. A tool that waits is covered by
`Waiting`: while its call is steady, what it read at its start is what it finds at
its end. A failed write of a file is recorded too (`FullFits`, `SlowFits`), which is
why an entry of a tool that writes counts as settled only when it succeeded. For a
write the answer recorded says that it was done, or that it failed
(`WritingFits`). `NoEffectIsSwallowed` concludes from the fingerprint that the file
still holds it, where the call names the file that is written; a bare name,
which lands elsewhere (section 6), is outside `WriteHolds` when replayed, and
inside it when run. `AnswersHold` needs `Citing`: every number a worker has cited
is at most its counter, and smaller than the number of the process under way.

**Models and Agent.** `RolesGoToUsable` and `PicturesGoToSeeing` say for every
registry and list what a role and a picture are given; the order of creation is
a sequence, a list a set, and the first of a list the member with the least
place in it (`FirstOfList`). `Types` holds together with `SlotsUsable`, since a
message, a row and a command carry what the registry had. The three others add
one invariant each:

- `Budget`: the file counts what was called, and a worker that reads its messages
  counts with the file.
- `Sessions`: what a row, a message on its way and a worker say of a
  conversation is true of it: it is that row's, and one kept by Pi has begun with
  the challenge. A message is heard late, so it must be true when it is sent and
  stay true; conversations only grow, which `Owned` and `Begun` use.
- `Attended`: with `anew = "none"` a row is ACTIVE only while its worker is there.
  With it, a fork that finds a kept conversation resumes it (`StoryIsKept`).
  `BeginsFacts` and `StartShape` say what a start that throws and one that forks
  have in common, `BecomeFacts` what pausing, ending and interrupting do to the
  rows, `StoppedTyped` and `FlagsTyped` that flags leave everything in its type.
- `Follows`: the worker has, or the last switch on its way will give it, a model
  of the name of its row. With no command on its way this is `RowTellsModel`.

For every registry and every pair of answers `ModelsKeepServing` takes what
`Probes` asks of `Models`: an assignment that is edited stays usable, pictures go
to a model that sees them, and an advisory call asks twice at most.

**Only model-checked**:

- the liveness properties, those of the refinement `Replan` included (the prover
  does not do fairness): `SubmittingResolves`, `TickEnds`, `NotSilentlyStale`,
  `GetsPrepared`, `FallbackStarts`, `ReviewsArrive`, `HintArrives`, `CallsReturn`,
  `StopEnds`, `PersistedArrives`; of `ReplanSpec` the safety part is proved;
- `AlgorithmsAreRight`: number theory and search compute by recursive operators, as
  the code loops until it finds something; tlapm has no arithmetic backend in a
  module that declares one;
- `CatalogIsUsable`: the catalog is one finite table without a parameter, and TLC
  asks every question about it.

Every other property of a passing run is a theorem.

## 6. Where the code departs from its documentation

Found while modelling. The first has a run that finds the counterexample; the
others are visible in the models or in the code next to them. A definition named
in brackets states the expectation; it stands in the module and is refuted there
by the actions as the code has them.

1. **Two workers for one challenge** (`double_worker`). The exit handler clears
   whatever handle the challenge has (`worker-pool.ts:136`). If a worker was
   declared lost (or timed out) and its exit event comes after a successor
   started, the successor leaves the pool while it runs and a third is forked
   beside it. `README.md:244` promises at most one solver worker per challenge.

Without a run, **submission**:

- A correct flag is not the end. `#submitNow` ignores the result of
  `transition(SUBMIT_CORRECT)`. When the human pauses while the judge decides,
  the submission is CORRECT, the challenge stays PAUSED and is solved again after
  resume.
- UNKNOWN is sent again. `#submitNow` does not read its row after the wait for
  the limiter. With an earlier call and a retry by the human of the same row, the
  first one's UNKNOWN is followed by a request.
- A stranded candidate. A flag found while another is SUBMITTING gets a QUEUED
  row, VERIFY_OK is refused, nothing sends the row when the first turns out wrong.
- A torn answer. The writes of an answer are not one transaction. After WRONG
  reached the submission but not the candidate, a restart finds a VERIFIED
  candidate and sends the flag again. Without such tears the theorem
  `NoBlindResubmission` holds.
- The cooldown looks only at the newest row of the challenge, so two older flags
  may follow each other at once; it is not looked at again after the limiter.
- Recovery submits a candidate that was PENDING, i.e. held for the human.
- A RATE_LIMITED row is lost by a restart: `recoverSubmitting` looks at SENDING,
  UNKNOWN and QUEUED rows and at unsent candidates only.
- The loop of `reconsiderRejectedLocal` writes a candidate whatever became of it
  since the list was taken, and submits without an official judge.
- `manualSubmit` of an UNKNOWN row whose `#submitNow` is deferred by the cooldown
  drops the retry; the challenge stays SUBMITTING (the panel still shows it,
  `NothingHangsUnseen`).

**Workers and tick**:

- A crash taken for a stop. Pause, park, restart and accept mark a challenge in
  `intentionallyStopped` also when it has no worker; the next real crash is
  swallowed and the challenge stays ACTIVE without a worker.
- An exit of the old worker while the next start awaits the contest frees the
  slot of that start: its worker runs without one.
- `resumeSolving` requeues a challenge whose worker may still run. The next tick
  overwrites its entry in `llmHeld`, which leaks a slot, and `startWorker`
  refuses, at every tick.
- A handoff does not look again after its 800 ms: it forks for a challenge paused
  meanwhile, or beyond the concurrency; if the old worker is slower than that it
  is killed, nobody is started and the challenge stays ACTIVE.
- A worker that exits while its challenge is SUBMITTING is only logged; WRONG
  then leads to ACTIVE without a worker. So does WRONG for a flag submitted by
  hand for a QUEUED challenge.
- A late CORRECT for a challenge that is ACTIVE again kills its worker, is
  refused, and leaves the challenge ACTIVE.
- A worker that exits before "ready" holds the scheduler for up to 60 s
  (`TickEnds`: not for longer).
- SOLVER_ERROR in the tick's catch is sent whatever the challenge is by then; it
  requeues an ACTIVE challenge.
- The ranked list is cut to the capacity before paused and blocked challenges
  are skipped, so they can hide runnable ones (`control-plane.ts:451`).

**Intake**:

- Two re-downloads of one attachment for different versions write one `.part`.
  Whoever renames first takes what both wrote; the row says DOWNLOADED
  (`DownloadedIsNamed`; `NotSilentlyStale` is stated for a contest that does not
  replace a file during a download).
- A replaced file of another size does not arrive where the details do not say
  sizes (CTFd, DASCTF): the upsert keeps the old size (`challenge-sync.ts:107`),
  what is downloaded has another one and is thrown away as a mismatch
  (`preparation.ts:199-206`), at every poll (`ReplacedArrives`). The old file stays
  on disk, its row says FAILED.
- There a stored size and a size that is not said differ at every poll
  (`challenge-sync.ts:60-69`), so each poll downloads each file of the challenges it
  refreshes again, and tells their solvers of an update (`RefetchedOnChange`).
- Only the first eight challenges in play are refreshed (`Refreshed`); the ninth
  does not hear of a replaced file. A list the contest answered before a
  replacement, read after it, takes the row back to the file before (`calm`).
- A start that failed for good leaves the challenge DISCOVERED; every tick tries
  `#prepare` again and fails at `ensure`, without a backoff.

**Manager**:

- `scheduler-gate.ts:19` documents "manual lock/override, manager decision,
  deterministic scheduler", but a strategy lock only rejects the decision of a
  plan; without a decision the gate holds the challenge as MANAGER_DEFAULT_HOLD
  (`LockedIsNotHeld`).
- `control-plane.ts` (at the ranking in the tick) schedules "using the
  just-computed ranking", but admission reads `lastPriorityScore` from rows that
  were loaded before the scores were written, so it ranks by the scores of the
  tick before, or by 0 (`PickedByScore`).
- SKIP_UNCHANGED compares with the snapshot of the last applied plan also after
  that plan has expired or was dropped for the fallback: a silent manager stays
  silent while nothing changes.
- A START for a challenge that is ACTIVE by the time the answer comes still
  counts against the free slots. A plan row stays RUNNING after an exception.
  `flushManager` may return before the run it asked for.

**Advice**:

- "The result is injected into the same solver; if the worker is not online, it
  is sent at the next start" (`README.md`, reflection): a review that ends while
  the worker has forked but has no session handle is marked delivered and dropped
  by the worker (`DeliveredIsHeard`). So is one built into the message of a start
  that then fails, be it only that `#agentRuntime` finds no runtime.
- Nor is every review sent at the next start (`README.md:321`): `pendingMessage`
  takes the latest that is not delivered and gives up when its stored result does
  not parse (`reflection-service.ts:152-157`). It is not marked, so it hides itself
  and every older one at each start (`EveryReviewArrives`). The heuristic review is
  stored without the check the model's goes through.
- The SKIPPED row of a duplicate is the latest row: a watchdog tick that skips
  ends the cooldown of the review before it.
- A crash during a fetch leaves the hint FETCHING; no tick fetches it again, only
  the human. Two fetchers (tick and human) both inject; a tick that listed the
  challenge before overwrites FETCHED.
- A worker says "idle" once, after its first prompt. `reflectionHasMaterial`
  compares with triggers in lower case, while `control-plane.ts:740` sends
  SOLVER_REQUEST.

**Tools and catalog**:

- The ledger keys `run_python` by its arguments, not by the script: after
  `write_work_file`, `run_python` with the same `scriptPath` answers with the old
  output, although `catalog/core.ts:121` recommends just this sequence
  (`ScriptIsRun`).
- The fingerprint looks at `path`: `path2` of `aes_misuse_inspect` is not part of
  it, a bare name of `write_work_file` is fingerprinted where it does not land.
- A repeated call is answered ok whatever became of the first (`tools.ts:643-649`):
  a write that failed is recorded as FAILED, and the solver that tries again hears
  `ok: true`, ALREADY_TESTED, with FAILED in the data, and nothing is written
  (`AnsweredWritesHold`). A NOT_FOUND is repeated likewise.
- The fingerprint is taken after the run. A script of a dead worker that writes
  while a tool streams the file leaves an entry with the new fingerprint and the old
  answer (`StreamsAreCurrent`).
- Tools with a fixed output name overwrite the output of an earlier call the
  conversation still refers to, and the ledger goes on pointing at it
  (`OutputsAreThere`); the counter of result files restarts with the
  worker, so a successor overwrites `results/tool-1.txt` that a resumed
  conversation cites (`CitedHold` holds within one worker).
- A script outlives a killed worker and goes on writing. A grandchild in a
  process group of its own holds the pipes, and the call waits for `close`.
- `experiments.json` is written in place; a torn one is read as empty.
- Six tools do not take the arguments their cards document (`Misdescribed` in
  `Probes`). `README.md:274` counts 38 discoverable tools, the catalog has 43.
  `packages/solver/src/prompts.ts:49` and `triage.ts:63` tell the solver to call
  `extract_archive`, which is reachable by `execute_tool` only.

**Agent and models**:

- A model switch between fork and "ready" is announced, overwritten by
  `#startSolver`'s update of the row, and not carried out; so is one to a model of
  a provider whose key the worker was not given (`SwitchIsCarriedOut`, against
  `README.md:141`).
- The worker knows a model by its name: of two providers with one name the first
  is taken. A model without a key is chosen, the session fails to open and the
  scheduler starts again, forever.
- A worker that exits while its flag is judged (VERIFYING, SUBMITTING) is only logged
  (`control-plane.ts:1031-1033`). Its session row stays ACTIVE, and an ACTIVE row
  is not resumable (`511-513`): after a WRONG and a requeue the next worker
  starts with an empty conversation (`DeathKeepsStory`).
- The mark of a stop that `handleSubmissionCorrect` and `acceptCandidate` set
  outlives them when the challenge has no worker (`1748-1756`). After a reopening the
  next crash is taken for that stop (`1021`): nobody requeues the challenge, and its
  row stays ACTIVE.
- A start that finds no runtime (`#agentRuntime`, after the row was made ACTIVE)
  leaves that row ACTIVE as well.
- `restartSolver` leaves the row ACTIVE with its old file. A start that fails
  drops a session that could have been resumed. A first conversation that dies
  before its first prompt ends cannot be resumed.
- Failures of a model are booked on the provider of the row, which after a switch
  may be the wrong one; one or two failures turn UNKNOWN health into HEALTHY.
- Removing a provider deletes the key first and disables it after an await; until
  then it is chosen. Two models may both be PRIMARY.
- `vision-budget.json` is written in place. The message "usage" is handled
  (`control-plane.ts:919`) and never sent.

**Contest adapters**:

- A throttled DASCTF submission with status 200 and code 40001 is to be
  RATE_LIMITED (`dasctf.ts:79`, `tests/unit/dasctf-adapter.test.ts`), but the
  shared JSON parser throws for it first and the submission ends UNKNOWN
  (`ThrottledIsRetried`).
- `dasctf.ts:73-76` documents WRONG as code 40001 with a message that says so; any
  other code that is not 00000 is WRONG too (`201-209`) and counts against the
  challenge (`OnlyWrongCounts`).
- A submission that CTFd answers with 429 throws and ends UNKNOWN, not
  RATE_LIMITED.
- A submission answered with 429 is sent again up to five times inside one
  request, beyond the 30 s after which `#submitNow` has given it up.
- A text attachment of DASCTF is read with `text()`, which drops a byte order mark
  and changes bytes that are not UTF-8 (`dasctf.ts:431-436`, `DownloadsAreExact`).
  Only a JSON body is looked at for an error: an error page of another shape that
  comes with a 200 is stored.
- `writeChunk` skips a sink that is destroyed (`stream-body.ts:20`) and the bytes
  are counted all the same (`CountedIsWritten`). `#downloadOne` counts what
  passes its sink itself, and compares it only where a size is known.

**Crypto and files**:

- `pollardRho` is only asked for numbers that `isProbablePrime` denies, which it
  does only for multiples of the primes up to 23, all divided out before: it never
  runs. A product of two primes over 10000 is reported as prime; the card of
  `factor_integer` promises Pollard rho below 80 bits.
- `mt19937Untemper` applies the shift by 7 four times and the one by 11 twice to
  the value itself; the inverses take seven and three. It returns a wrong state,
  without a sign of it.
- A result that equals `0n` is reported as a failed attack. `lcgRecover` does not
  look at samples beyond the fourth.
- An archive that breaks a budget halfway leaves what it had extracted. An empty
  STORED entry is written as one byte.

## 7. What is not modelled

- In `Submission`: `cancelRetriesForChallenge` and `replaceAdapter` (deleting a
  challenge, changing the contest); the texts that `verifyLocal` compares; times,
  but for "the cooldown has passed". Rows of other challenges: the components
  meet across challenges only in the limiter, which is an await of any length.
- In `Workers`: the expiry times of leases, shutdown (`stopAll`), a restart of
  the control plane (and worker processes it leaves behind). Injected messages,
  model switches and session rows are in `Agent` and `Advice`, ranking and
  admission in `Manager` and `Platforms`, preparation in `Intake`.
- In `Lifecycle`: the appended events, `updatedAt` and other columns no
  transition's reader tests.
- In `Intake`: several attachments of one challenge (whose failures meet: one that
  mismatches fails them all), categories, text columns, parsing of lists. A file that
  is replaced under the same URL and size is nowhere shown, so nobody could notice. In
  `Manager`: the decisions that only advise (reflections,
  model hints) and `planner.ts`. In `Advice`: what a review or hint says. In
  `Agent`: the conversation itself; handoffs, and what the human and the judge do
  while a worker is being started, which are in `Workers`.
- In `Tools`: what a decoder computes. Of the crypto runtime the RSA attacks with
  given p and q and the generators with a modulus of their own, `aes.ts`, `lll.ts`,
  `parse.ts`, the factoring backends and mt19937 (but see section 6); of the file
  tools gzip and directory parsing; of the misc runtime signatures, metadata and
  pcap. They are pure functions of bytes, for tests rather than for a model.
- The rate limiter's buckets and queues count milliseconds; the modules take it
  as an await of any length, which is all that its callers may rely on.
- The review queue of the human for pictures, merging of challenges, changing the
  contest profile, the fixtures of the mock contest.
- SQLite and its migrations, the HTTP transport, dashboard, CLI, evaluation,
  logging, configuration and secrets: no state of their own that another
  part reads.

Each part is listed with its status in `PROJECT.json`.

## 8. The plan

Done, in this order: the transition table and `Lifecycle`; `Submission` with its
recovery; `Workers`; `Intake`; `Manager` with `Replan`; `Advice`; `Tools` and
`Agent` with the catalog and the registry; the pure functions; the proofs of
section 5; `Docket` and `Crew` with their refinements.

Next, in this order:

1. More abstract specifications: a budget that survives its workers (`Agent`), one
   review per state (`Advice`); `Docket` for a human who only pauses and resumes,
   with a challenge that is solved more than once.
2. Theorems that go beyond the runs: the expectations of section 6 under the
   restriction that makes each of them true (`UnknownNotResent` without a retry
   during a call, `LockedIsNotHeld` without strategy locks).
3. Composition of `Submission` and `Workers` on one challenge, for the cases of
   section 6 in which a verdict and a worker meet.
4. `Workers` with restarts of the control plane and leases that expire; the rate
   limiter with its queue; merging challenges and changing the profile.

## 9. How to run it

    tlasany Submission.tla                             # parse
    tlc -workers 2 -config SubmissionAlone.cfg MCSubmission.tla
    tlc -workers 2 -config Workers.cfg MCWorkers.tla
    tlc -workers 2 -config Intake.cfg MCIntake.tla
    tlc -workers 2 -config Manager.cfg MCManager.tla
    tlc -workers 2 -config Advice.cfg MCAdvice.tla
    tlc -workers 2 -config Tools.cfg MCTools.tla
    tlc -workers 2 -config Agent.cfg MCAgent.tla
    tlc -workers 2 -config Foundations.cfg MCFoundations.tla
    tlapm WorkersProofs.tla                            # proofs

`SubmissionHuman.cfg` and `Agent.cfg` take two to three minutes, the others up to
one and a half.
The proof modules take tlapm from half a minute to a few minutes each.
`PROJECT.json` maps every definition to its source lines, every hazard of the
code to the properties that would catch it, and every property to the mutant it
refutes.
