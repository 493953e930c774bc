# AgentBenchX, specified in TLA+

AgentBenchX evaluates AI agents on benchmark problems. A control plane (an API server on PostgreSQL,
object storage and Redis) hands jobs out to workers on other machines, which run untrusted agents in
Docker and send results back over HTTP. Almost everything that can go wrong goes wrong *between* these
parties: leases that run out while a result is being stored, answers that get lost, processes that die
with containers running, two requests that read the same row.

This directory holds a TLA+ model of those parts, the TLC runs that check them on small instances, and
theorems about them that TLAPS proves for every instance. Paths below are relative to the repository;
`services.py`, `main.py`, `storage.py`, `git_sources.py` and `models.py` are in
`apps/api/agentbenchx/`, and `lease.py`, `evaluator.py`, `docker_sandbox.py` in `workers/evaluator/`,
whose `main.py` is written `evaluator/main.py`.

Contents: [1 Inventory](#1-inventory) ·
[2 Modules](#2-modules-and-how-they-correspond-to-the-code) ·
[3 Runs](#3-runs-bounds-and-what-they-show) · [4 Fairness](#4-fairness) ·
[5 Proofs](#5-what-is-proved) · [6 Findings](#6-where-the-code-departs-from-its-documents) ·
[7 Limits](#7-what-is-not-modelled) · [8 Plan](#8-plan)

## 1 Inventory

| Component | State | Operations | Talks to |
|---|---|---|---|
| Evaluation manager (`services.py` `EvaluationManager`, routes and reaper loop in `main.py`) | rows of submissions, runner_jobs, evaluations, workers in PostgreSQL | submit, register, worker heartbeat, claim, job heartbeat, result, reap | workers by HTTP; storage while a result holds its row locks; Redis after commits |
| Agent upload (`AgentManager`) | agent_versions rows, stored objects | upload | storage, Agent row lock, the event loop of its process |
| Object storage (`storage.py`) | files or S3 objects, write-once keys | put, open, head, delete | called by the two above |
| Problem sources (`git_sources.py`) | a bare Git mirror per source, problem_sources, problem_versions | register, sync | upstream repositories, the source's row lock |
| Notification index and events (`events.py`) | a Redis sorted set and a channel | enqueue, claimed, publish | advisory; nothing reads them to decide |
| Lease keeper (`lease.py`) | deadline, cancel, a lock; three threads | renew, watchdog, renewal loop | job heartbeat route; cancels the sandbox |
| Evaluator and Docker sandbox (`evaluator.py`, `docker_sandbox.py`) | a directory per job: workspace, result file, receipt; containers | evaluate, acknowledged; execute, stop, destroy, recover | lease keeper, Docker |
| Worker process (`evaluator/main.py`) | stop event, active lease, identity file | recover, replay, claim, evaluate, upload | API by HTTP |
| Idle schedule (`scheduling.py`) | poll delay and two deadlines | heartbeat_sent, idle, claimed | worker loop |
| Inputs, results, harness, subprocesses, HTTP client | none that lasts | parsing, digests, process control, calls | the above |
| Web console, scripts, migrations | display state; none; the schema | read-only views; one-shot tools; DDL | API; database |

What makes them correct, and what is hard about it:

* **Evaluation manager** - every submission ends in one verdict or after a limited number of attempts,
  whatever workers do. Handlers hold row locks over reads, storage writes and commits; the reaper runs
  beside them with SKIP LOCKED; workers repeat, delay and contradict themselves.
* **Lease keeper** - an agent must not run once the server may have given its job away, although the
  worker only knows when it *sent* the renewals that were acknowledged.
* **Worker** - containers and results outlive the process. Every crash point of the result file,
  the receipt, the rename and the removal matters, and so does every exception on the way out.
* **Idle schedule and the worker's row** - a poll and a heartbeat deadline that move independently,
  behind calls that take their whole timeout, against a limit of silence at the server; a row that late
  requests revive or take OFFLINE.
* **Problem sources** - a mirror on disk, tables, and an upstream that rewrites its history; the row
  lock is released by a rollback *before* FAILED is written, and vanishes with a lost connection.
* **Agent upload** - a computed number, an object that cannot be rolled back, and a lock that is
  waited for on an event loop.

PROJECT.json lists each hazard at its line with the properties that cover it.

## 2 Modules, and how they correspond to the code

| Module | Models | Notes |
|---|---|---|
| `SubmissionLifecycle` | what a client may rely on: at most `MaxAttempts` attempts one after the other, the first verdict final | abstract specification, no code of its own |
| `EvaluationManager` | every state-changing operation of the class of that name, `worker_auth`, the reaper, the clock | refines `SubmissionLifecycle` |
| `MCEvaluationManager` | instances of it for TLC | symmetry of workers |
| `EvaluationManagerProofs` | its theorems | |
| `EvaluationManagerRefinement` | the proof that it implements `SubmissionLifecycle` | |
| `LeaseKeeper`, `LeaseKeeperProofs` | one lease: main thread, renewal loop, watchdog, server, containers | real time in ticks; refines `KeptLease` |
| `KeeperContract` | what a lease keeper promises: which job it lets run, and for how long at most | used by the next two |
| `KeptLease` | one lease at the server and a keeper that does what its contract allows | abstract specification of `LeaseKeeper` |
| `Fleet`, `MCFleet`, `FleetProofs` | all workers and the manager: `EvaluationManager` composed with a contracted keeper at each worker | extends `EvaluationManager` |
| `Worker`, `WorkerProofs` | the worker process between its crashes, its files and containers | |
| `Availability`, `AvailabilityProofs` | `IdleSchedule`, the deadlines of `run_worker`, the worker's row at the server | real time in ticks |
| `ProblemSourceManager`, `ProblemSourceManagerProofs` | `sync`, `GitRepositoryManager` and the mirror | |
| `AgentManager`, `AgentManagerProofs` | `upload`, `put` of both backends, the route and `db_session` | refines `VersionLog` |
| `VersionLog` | what a reader of an agent's versions may rely on: a log that only grows at its end | abstract specification, no code of its own |

Each module has the actions of its operations under the names of the code where that is possible, and
`map` in PROJECT.json names the lines behind every definition. Operators that `Next` does not use
(`LockFreely`, `RetriesOfPastLimit`, ...) are slips the code could have made. Each stands beside the
definition it would replace; substituting it breaks the property listed with it, which is how we know
that the property says something about that code.

**EvaluationManager.** A job is its unique (submission, attempt); one attempt beyond the limit can be
represented, so that the limit has to be kept by the code. A request is atomic where the code holds its
locks from its first read to its commit and nothing else may touch what it read, and is two actions where
it may: a worker heartbeat reads its jobs without locking them (`BeginWorkerHeartbeat`,
`CommitWorkerHeartbeat`), a result stores artifacts (`BeginResult`, then `CommitResult` or `Rollback`),
and a claim sees that its worker is online and has no job before it locks a queued one (`BeginClaim`,
`CommitClaim`). What keeps a claim's reads good until its commit is nothing but the lock of the worker's
row that `worker_auth` takes; without it (`LockableWithoutLock`) `OneActiveJob` and `OnlineIsIdle` fail.
`request[w]` is the heartbeat or result that holds the worker's row lock, `claimant[j]` the worker whose
claim holds the lock of the queued row, which other claims skip. The second check of the lease, after the
artifacts are stored (`services.py` 319), and the commit (356) are one action: the row is locked from
before the one until after the other, so `LeaseDecides` speaks of the lease at that check, as the code
does. The reaper's two transactions are `ReapJobs` and `ReapWorkers`.
Workers are an open world: any request with a token the worker was ever given may arrive at any time, so
duplicates and delays need no message buffer. `lease` and `silence` are time differences in ticks,
decremented by `Tick` and capped where the code stops telling values apart. `age` orders the queue by
commits rather than by timestamps.

**LeaseKeeper.** `Script` is what `evaluate` does between two renewals; `holder` and `call` are who is
inside `renew()` and how far; `call.good` is what is left of the safe time counted from when the request
was *sent*. Requests whose caller gave up stay in `late` and may still reach the server. Threads are
prompt (time does not pass while one is due); calls are not.

**Worker.** `pc` walks through `run_worker`, `replay_pending`, `evaluate` and `acknowledged`, with a step
for every file operation that another crash could separate from the next. Files, containers and the
server survive `Crash`; the process is started again by `Start`. `evidence[j]` is which result file a
job has, "torn" being an incomplete `result.pending.json`; `container[j]` is the worst its containers may
be. A result may be stored and answered with an error all the same (`Upload`), and one that was sent and
given up stays in `stray`. A write that completes may still fail in its `chmod` (`Written`). The server is reduced to what
`EvaluationManager` promises; that a lease does not lapse under an uncancelled keeper is
`LeaseKeeper!LeaseHeld`. Tearing `evaluate` apart this way is what shows that an `OSError` in its
`finally` can swallow a `CleanupError`.

**Availability.** One worker and its row. `beat`, `poll` and `delay` are the fields of `IdleSchedule`, as
what is left until each deadline; `timer` is what is left of the call or wait the loop is in. A random
draw is any whole number of ticks in its range (`HeartbeatSent`, `DrawPoll`). Each request is served
(`Serve`), fails (`CallFails`, `ReportFails`, `LastCallFails`), or is given up and arrives later
(`ServeLate`), after a crash, too. A call that fails may have been served. The job is reduced to
something that renews, ends, raises or loses its lease, which is `LeaseKeeper`'s subject; the result file
to `pending`, which is `Worker`'s. `since` is a history variable: ticks since the last "no job".
`--once` is not modelled: it is the same loop without idling.

**KeeperContract, KeptLease, Fleet.** The contract is three operators: what a keeper may promise after a
renewal (`AfterRenewal`: this job, for at most `Hold` ticks from when the request was *sent*), after a
step that takes no time (`AfterMove`: less, or nothing) and after a tick (`AfterTick`: at least one tick
less). `KeptLease` runs one such keeper against one lease; `LeaseKeeper!Promise` maps the threads,
deadlines and containers of the code to it, and `HonoursContract` says that they never do more. `Fleet`
uses the same operators for every worker against the manager itself: `keeper[w].job` is the job whose
containers the process of `w` may run and `keeper[w].left` the ticks until they have certainly been
killed. `Keep` is a renewal that can still be accepted, at any time its answer may come; `Elapse` is the
clock of both sides; `Move` the end for any reason. Every request of `EvaluationManager` still comes, at
any time and from every worker, stray renewals and results of earlier jobs included (`Served`). The one
thing the composition adds is that the result of a job does not come while its keeper lets it run:
`evaluate` returns it afterwards.

**ProblemSourceManager.** One source, two requests, a mirror with its head, pins and objects, and an
upstream that is force-pushed at will. `Git` is `GitRepositoryManager.run`: a command works if what it
needs is there, and a fault makes it fail before or after its effect. `Collect` removes objects no ref
names. The exception handler is two steps (`ReadStatus`, `MarkFailed`), because it reads without the
lock. No commit is an ancestor of another, which makes every unpinned commit of the past unreachable -
the worst case for `HistoryReachable`.

**AgentManager.** Each upload has a home process; `running` are the uploads that occupy their event loop.
An upload keeps the loop from `Begin` to its end, because nothing in it is awaited. One that fails leaves
the loop with its transaction open, and `Close` ends it when the loop is free again: `db_session` is a
synchronous generator, which FastAPI closes in a thread that the loop starts. (That is behaviour of
FastAPI and AnyIO at the versions in `requirements.lock`.)

**How the modules meet.** `EvaluationManager` assumes nothing of workers. `LeaseKeeper` contains its own
copy of the server's side of one lease (`Serve`, `ServeLate`), the same rule as `OwnsLease`/`Renewed`.
`Fleet` composes the manager itself with one keeper per worker, taken at its contract with `Hold` =
`Safe + Stop`. That the code keeps this contract is checked and proved (`HonoursContract`,
`ContractHonoured`), so the step from one keeper's threads to all workers' executions is not an
assumption; what remains one is that `docker kill` is confirmed within `Stop`, and that both clocks run
alike. A process that dies does not watch its containers any longer: its keeper is idle, and what it
leaves runs on alone until the next process of that worker removes it before it does anything else
(`Worker!NoLeftovers`). `SingleExecution` is therefore a promise about the workers
that are there. `Worker` and `Availability` use the summaries of the manager and the keeper named above;
`Availability` has a retained result where `Worker` has the files.

## 3 Runs, bounds and what they show

Passing runs:

| Run | Instance | Shows |
|---|---|---|
| `handover` | `Fleet` with 1 submission, 2 workers, 2 attempts, lease 2 ticks, hold 1 tick | `SingleExecution`, `ExecutionLeased`, `RetriedIffUndecided`, `EvaluationAgrees`, `ResultHoldsLiveJob`, `EndedIsFinal`, `LeaseDecides`, `DrainingHolds` |
| `queue` | 2 submissions, 1 worker, 2 attempts, lease 1 tick, fairness | `OneActiveJob`, `OnlineIsIdle`, `AbandonedJobEnds`, and the refinement `ImplementsLifecycle` |
| `lease` | lease 8, safe 6, interval 2, stop 1, 1 late request; any choice of network faults and signals | `ExecutionFenced`, `LeaseHeld`, `CutOffStops`, the refinement `HonoursContract`; `HealthyLeaseSurvives` where no fault was chosen |
| `worker_faults` | 2 jobs, any 3 faults of six kinds | `NoLeftovers`, `EvidenceAgrees`, `OneResultAtATime`, `KeptUntilAnswered`, `ResultsDecided` |
| `availability` | poll 2 to 4, heartbeat 3, pause 1, call 1, renewals 1 apart, offline after 9; 2 failed calls, 1 lost lease or late request | `StaysOnline`, `PollsPaced`, `WorksAgain`, `GoneIsOffline` |
| `source_sync` | 2 syncs, 2 commits (one without problems), 2 faults | `HistoryReachable`, `StatusDescribesCommit`, `LockedReadHolds`, `FaultlessSyncSucceeds` |
| `agent_upload` | 3 uploads in 2 processes, both backends, 3 faults | `VersionsHaveContent`, `VersionsConsecutive`, `NumberStillNext`, and the refinement `ImplementsLog` |

Each also checks its module's `TypeOK` except `queue`, whose module has it checked by `handover`.

Why the bounds are enough:

* *Two attempts, two workers.* A lease that passes from one worker to another, with the first one's late
  requests, needs two of each; the limit is reached, and one attempt past it can be represented. A lease
  of two ticks has a before, a during and an after. Two submissions make one worker choose. Two
  claims of different workers at once, with a row each, need two workers and two submissions, more than
  either run has; the theorems of section 5 cover all of these safety properties for every size.
* *Hold of one tick.* With a lease of two ticks it is the largest that ends before the lease does. The
  manager's own properties are checked in the same run, which loses nothing: the composition takes away
  only results of jobs that may still be running, and those of jobs that may not come at all times.
* *8/6/2/1* are the code's proportions (lease, three quarters, a quarter) with a stop time below the
  margin. `MaxLate = 1` is enough to be misled once; the theorems do not depend on it except as a bound.
  `HealthyLeaseSurvives` holds where `RenewsInTime`: an interval and two calls fit into the safe part of
  the lease (`2 * Call + Interval < Safe`). An acknowledged renewal counts from when it was sent, a call
  before its answer; then the loop waits, and calls again. The bound is tight: with equality (8/6/4/1 and
  calls of 1, or 12/10/4/1 and calls of 3) TLC finds a faultless keeper that cancels its job. With the
  code's defaults, 20 + 20 < 90 s. With `lease_seconds` at its minimum of 30 it is 20 + 7.5 > 22.5: calls
  that take their whole timeout of 10 s, which the client still accepts, can then cost a healthy worker
  its job. (Connecting has 5 s of its own; 20 + 30 < 90 s leaves the defaults as they are.)
* *Three faults* let a crash, a lost answer and a lost lease meet in one evaluation, followed by another
  job. The faults of a run are named in its configuration.
* *2 to 4, 3, 1, 1, 9* leave room for a doubled delay, for heartbeats due before, with and after a poll,
  and for exactly the silence the assumption of `Availability` allows: 1 + 3 + 1 + 2 + 2 = 9. With an
  `Offline` of 7 TLC finds a running worker that is reaped, so the assumption is tight within a tick (a
  draw takes whole ticks). With the code's defaults it reads 32 + 45 + 5 + 2 * 10 + 15 = 117 <= 120:
  renewals are at most 32 s apart (interval 20, a call of 10, a wait of 2 between tries), and one failed
  call is tolerated. With `WORKER_IDLE_HEARTBEAT_SECONDS` at its maximum of 60 none is: 60 in the place
  of 45 leaves room for no failed call (117 again), and a worker that suffers one may be shown OFFLINE
  for a moment, after which `WorksAgain` has it back. A call of 10 s is one that connects at once: httpx's
  timeouts are per phase (`client.py` 11: 5 s to connect, 10 s for each read and write). With calls of 15 s the defaults, too,
  leave room for no failed one (37 + 45 + 5 + 2 * 15 = 117), and a response that trickles in is bounded by
  no timeout at all.
* *Two syncs and two commits* have a sync whose lock is taken over by another one, on another commit.
* *Three uploads* let a number be computed, taken and missed.

`agent_upload` and `upload_loop` turn deadlock checking off: uploads are finite, and when all have
ended nothing is left to do. Every other run checks deadlock.

Runs that find a violation, each of one property a document states:

| Run | Property | Counterexample |
|---|---|---|
| `worker_fail_closed` | `FailClosed` | claims with a container running after a CleanupError was replaced |
| `worker_torn_result` | `UnacknowledgedReplayed` | a torn result file ends every later start |
| `worker_lost_lease` | `LostLeaseRetried` | a lease given up early becomes an accepted TIMEOUT |
| `worker_signal` | `SignalCancels` | a signal before `active_lease` is assigned cancels nothing |
| `upload_loop` | `UploadsAnswered` | an event loop waits for a lock only it can release |

## 4 Fairness

* `EvaluationManager!FairSpec`: time passes; the reaper loop runs every interval and catches what its
  passes raise (`main.py` 64-69), hence WF of `ReapJobs`; no request holds its locks for ever, since
  storage and SQL calls end or fail. Nothing is asked of workers. `AbandonedJobEnds` makes that visible:
  it promises nothing for a job that is renewed again and again.
  The reaper is started by the event loop; section 6 has the one way in which that loop stops.
* `LeaseKeeper!FairSpec`: time, the worker's own threads, and Docker stopping a cancelled container.
  Of the network only where no network fault was chosen, and there that calls are answered; otherwise a
  call may hang for ever. Nothing of the agent, which may run for ever.
* `Availability!FairSpec`: time passes, the worker takes its steps, calls that do not fail are answered,
  abandoned leases run out and the reaper runs (as above). Calls fail `MaxFailed` times and leases are
  lost `MaxOutages` times, not for ever: `WorksAgain` says that the worker comes back once they stop.
  Nothing is asked of an execution, nor of whoever starts the worker: `GoneIsOffline` is about one that
  nobody starts.
* `Worker!FairSpec`: the process takes its steps, and is started again after it ended, as
  `docs/mac-worker-1.md` has the operator do. Faults happen `MaxFaults` times, not for ever, so
  `ResultsDecided` says: once they stop, results are answered.
* `ProblemSourceManager!FairSpec`: a sync that began goes on; each Git command ends within its 120 s.
* `AgentManager!FairSpec`: an upload that can go on does. A lock wait is *not* assumed to end.

No fairness is given to faults, to signals, to pushes, or to whoever starts requests.

## 5 What is proved

All theorems hold for every value of the constants under the `ASSUME` of the module, which says no more
than what the code needs: positive limits and leases, a null that is not a worker, and for the lease
`Safe + Stop < Lease`: the code leaves a quarter of the lease for stopping, and that `docker kill` is
confirmed within it is assumed, not proved. TLC evaluates the assumptions in the runs.

**EvaluationManagerProofs.** `IInv` joins `TypeOK`, `OwnersRecorded`, `ResultHoldsLiveJob`,
`OneActiveJob`, `OnlineIsIdle`, `RetriedIffUndecided`, `EvaluationAgrees` and `ClaimsStillGood`. None is
inductive alone. A claim commits from what it read earlier; `ClaimsStillGood` says that all of it is still
true (the row is queued, the worker online and without a job, nobody else in its lock).
That a result never lands on a job the reaper has ended needs the row lock (`ResultHoldsLiveJob`); the
lock needs the owner (`OwnersRecorded`); that a retry finds its slot empty needs the whole chain of
attempts. The centre is `EndingKeepsChain`: a commit that ends live jobs, and queues a retry for exactly
those without a verdict below the limit, keeps the chain. Both the reaper and the result handler are
such commits, and each gets a lemma that says so. From `IInv` follow `TypeCorrect`, `OneActiveJobHolds`,
`RetriedIffUndecidedHolds`, `EvaluationAgreesHolds`, `OnlineIsIdleHolds`, `ResultHoldsLiveJobHolds`, and
by one more case split over the steps (`JobStep`) the action properties `EndedIsFinalHolds`,
`LeaseDecidesHolds`, `DrainingHoldsAlways`.

**LeaseKeeperProofs.** `KeeperInv` adds to the types three comparisons of clocks: an uncancelled keeper's
lease exceeds its safe time by the margin (`Uncancelled`), an answer on its way is worth at most what
the server's lease has left beyond the margin (`AnswerWorth`), and a cancelled container has used no more of the margin
than has passed since (`Stopping`). `ExecutionFencedHolds` and `LeaseHeldHolds` follow for every length
of lease, interval and stop time that fit together, and any behaviour of the network.

`HealthyLeaseSurvivesHolds` needs a second invariant beside it, `HealthyInv`: while nothing goes wrong,
what is left of the safe time is short of `Safe` by no more than one answered call, the wait of the loop
so far and the call under way (`SafeTimeLasts`). Whoever holds the keeper's lock, `RenewsInTime` then
leaves something when the next renewal is sent and answered.

`ContractHonoured`: `Spec => HonoursContract`. What is promised is the safe time, or what an answer on its
way is worth, and then the rest of `Stop` for a cancelled container (`Promised`, `PromiseBounded`). It
grows in the very step in which the server extends the lease, before the keeper knows (`ServeRenews`);
the answer then keeps it, and an answer that is lost takes it back (`AcknowledgedMoves`, `RaiseMoves`). A
request that arrives after its caller gave up extends the lease alone (`ServeLateRenews`). With every
tick the promise shrinks by at least one (`TickElapses`).

**EvaluationManagerRefinement.** `LifecycleImplemented`: `Spec => ImplementsLifecycle`. What a client sees of
a submission is its latest attempt, a maximum over the attempts made. That there is one would need an
induction over numbers; instead `HasLatest` is carried along the behaviour beside `IInv`, and `Chain`,
which has every earlier attempt end without a verdict. `Views` then says what the mapped state is, and
each operation of the manager gets a lemma that maps it to a step of `SubmissionLifecycle` or a stutter
(`SubmitMapped`, `ClaimMapped`, `ResultMapped`, `ReapMapped`, `OthersMapped`).
What the abstract lifecycle implies the manager then has, too: `SubmissionsSettled` (a submission is
decided exactly when its latest attempt has ended, and given up only at the limit) and
`DecisionsAreFinal` (what a client was told in the end is never taken back). Both rest on what one step
may do to one submission (`MovesOn`, `LifecycleMoves`); no run checks them on the manager, and
`RetriedIffUndecided` and `EndedIsFinal` alone do not say them, because they speak of attempts.

**FleetProofs.** `FleetIsServed` has every step of the fleet be one of the manager or leave it alone, so all of
the above holds of the fleet. Beside it `FleetInv` says that what a keeper lets run is a live job of its worker,
with a lease that outlives it and no result on its way; the contract keeps that by itself
(`ContractKeeps`), and so does whatever the manager does
(`ServedKeeps`), because only the owner's result and an expired lease end a job. `SingleExecutionHolds`
follows with `RetriedIffUndecided`: of a submission only one attempt is live (`OneLiveAttempt`).

**WorkerProofs.** `WorkerInv` ties the program counter to what a crash there leaves behind (`Stages`), adds
that a job never given out has left nothing (`Untouched`), and that between two evaluations nothing runs
and nothing waits (`Idle`). `NoLeftoversHolds`, `EvidenceAgreesHolds`, `OneResultAtATimeHolds` and
`KeptUntilAnsweredHolds` follow for any jobs and any number of faults. `Causes` adds which faults must have
been seen before a job is cancelled or a result file is torn, and so delimits the findings of section 6:
the promise of `docs/evaluation-flow.md` holds of every worker that neither gave up a lease nor was told
to stop (`RetriedUnlessGivenUp`), that of `docker_sandbox.py` of every one whose operating system works
(`FailClosedUnlessSystemFails`), and a torn result is left only by a crash or such a system (`CausesHold`).

**AvailabilityProofs.** `Budget` bounds, for each place of the loop, the ticks since the server last heard of
the worker: a renewal, what the failed calls cost, the heartbeat interval, and the calls and pauses in
between. `Leased` and `Fresh` tie it to the job and to answers just received; `Paced` does the same for
the time since the last "no job". `StaysOnlineHolds` and `PollsPacedHolds` follow for all settings that
satisfy `AvailabilityAssumption`.

**ProblemSourceManagerProofs.** `SourceInv` is pin-before-version (`PinnedFirst`, for syncs with the lock
or without) together with what a sync may do under its lock (`WorksWithLock`). It yields
`HistoryReachableHolds`, `StatusDescribesCommitHolds`, `LockedReadHoldsAlways`. With `MirrorReady` (what
the next Git command needs is there, whatever is pushed or collected meanwhile) it also yields the
safety half of `FaultlessSyncSucceeds`: `OnlyFaultsFailSyncs`, a sync that keeps its lock on a mirror
with its origin fails only by a fault. That it then ends is left to TLC.

**AgentManagerProofs.** `UploadInv` joins the numbering and the lock: whoever holds the lock has a number
nobody took since, and only a verified upload commits. `NextIsFree` says that max + 1 is count + 1 while
the numbers are consecutive, `CommitExtends` that a commit keeps them so. `LogImplemented` (`Spec => ImplementsLog`) is about what readers
see: entry n is chosen among the rows by its number, so `EntriesAreRows` first shows that each number has
one row, `RowsKept` that no step but a commit touches an entry, and `CommitPublishes` that a commit
appends one, complete.

Only model-checked: all liveness (`AbandonedJobEnds`, `CutOffStops`, `ResultsDecided`,
`FaultlessSyncSucceeds`, `WorksAgain`, `GoneIsOffline`), which is out of the prover's reach, as are
ENABLED and induction over data. Every invariant and every safety property of steps that a passing run
checks is a theorem, and so are the three refinements.

## 6 Where the code departs from its documents

Details, with the quoted lines, are under `findings` in PROJECT.json.

1. **A failed result write lets a worker claim with a container running** (`evaluator.py` 113).
2. **A torn `result.pending.json` stops the worker for good** (`evaluator.py` 113).
3. **A lost lease may count as the agent's TIMEOUT** (`evaluator.py` 58).
4. **A signal between claim and `active_lease` cancels nothing** (`evaluator/main.py` 126).
5. **Two uploads to one agent can stop the API process** (`main.py` 183). The first fails after it has
   the row lock, say with a 422; the second waits for the lock on the event loop; the first one's session
   is closed by that loop. Nothing times out, and the reaper and every other route stop with it.

Noticed while reading, without a run of its own: `docs/problem-sources.md` line 23 has the cloned
repository's symbolic HEAD supply the default branch, but `clone` is `init --bare` and a fetch, so that
HEAD names Git's initial branch, whatever upstream's default is. The model's source has its branch set.

## 7 What is not modelled

* *Pure functions*: costs, dashboard sums, report parsing, patch metrics, problem discovery and
  validation, the harness. They keep no state; what they decide is a nondeterministic outcome.
* *Redis and the console*: advisory and read-only.
* *The identity file*: written once per installation; its crash window is listed as a hazard.
* *`--once`*, and the limits of the database pool.
* *Formats, authentication, URL and path validation*: requests with a foreign token are refused
  and change nothing.
* *PostgreSQL* is taken at its word: row locks, SKIP LOCKED, commits. Clocks run at one rate.
* *Disk losses*: files are what was written before a crash, in order; no loss of unsynced data.
* *Other users of a sandbox*: Docker state changes only by the worker's commands and container exits.
* *Locks one at a time*: an action of `EvaluationManager` takes the worker's lock and the job's at once.
  Requests of a worker lock its row before the job's; the reaper commits its jobs before it locks workers,
  and skips rows that are locked, so it never waits for a lock another holds.
* *What a HEAD does not tell*: after a PUT, `storage.py` compares the length and the digest the uploader
  itself stored as metadata. That the content is the one sent is the `ContentMD5` check of the storage
  service; `AgentManager!Verified` takes both together as a comparison of contents.

## 8 Plan

Built, most important first: the manager, its abstraction and the proof that it implements it; the
lease; the worker; the fleet of workers; source synchronisation; uploads; the idle schedule and the
worker's row. Every module that models code has its safety properties proved, and what one module
assumes of another is proved of it where it could be stated as a contract (`KeeperContract`).

What could follow:

1. Such contracts for `Worker` and `Availability`, which use summaries of the manager and of the keeper
   (`MayBeGiven`, `Receives`, `Lapse`; `Renew`): abstract specifications of those sides, refined by
   `EvaluationManager` and `LeaseKeeper`.
2. `identity()` as steps of `Worker`: a crash between registration and the file, and a torn file.
3. Reference definitions for the arithmetic that decides something (costs with unknown parts, the
   dashboard's averages, patch metrics), over bounded inputs.
4. `ProblemSourceManager.register` and the choice of a branch.
5. The two locks of a request taken one after the other, and the connection pool, with deadlock checked.
6. The notification index: which stale entries a claim racing an enqueue can leave.
