# microvm-ctl in TLA+

TLA+ specifications of [microvm-ctl](../src/README.md), their TLC
configurations, and TLAPS proofs about them. Every definition is translated from
the Python source; `PROJECT.json` maps each one to its lines.

    tlc -workers 2 -config LeaseRuntime.cfg MCLeaseRuntime.tla
    tlapm LeaseRuntimeProofs.tla

## 1. The system

microvm-ctl launches Lambda microVMs, hands each one a task, and collects the
results. Half of it runs in the caller's process (a laptop, a Lambda function,
the playground server), half inside every microVM (the hook runtime).

| Component | State it keeps | Operations | Hard behaviour |
|---|---|---|---|
| Lease runtime, `hooks/server.py` | `LeaseContext`: done, error, lost, stop event, lock; a worker and a heartbeat thread | `/run`, `/terminate`, the handler, `_deliver`, the completers' `send` | three kinds of threads race for one decision; calls retried over a lossy network under a lock; the VM may go at any step |
| Job telemetry, `hooks/server.py`, `endpoint.py` | ring of 200 lines, `seq`, the lease's state; a cursor per reader | `log`, `since`, `snapshot`, `GET /status`, `GET /events`, `watch`, `_follow_status` | readers against a ring that overflows and a lease that is decided in two assignments |
| Hook HTTP server, `hooks/server.py` | routes | one thread per request | is where the concurrency of the other two comes from |
| Throttling, `throttle.py` | a token bucket per API operation | `acquire`, `Throttled.__call__` | threads share the bucket; sleeping outside the lock; retries |
| Endpoint client, `endpoint.py` | cached token and expiry | `request`, `_auth_headers` | an unguarded cache shared by threads; 403 / 429 / 502 retries |
| Dispatch, `fleet.py` | a queue, a result list, worker threads | `Fleet.dispatch` | requests fail, callbacks raise, workers end early |
| Fleet, `fleet.py` | the set `_terminated`, a thread pool | `scale_to`, `drain`, `suspend_all`, `resume_all`, `reap` | a listing that lags; calls left running by an operation that raised; partial failure |
| FleetManager, `fleet.py` | quotas, one `Throttled` per operation | `run`, `suspend`, `resume`, `terminate`, `wait_until`, `lease_many` | |
| Lease contract and sizing, `lease.py` | none | `Lease.validate`, `heartbeat_every`, `fanout_limit`, `plan_fanout`, `client_token` | arithmetic at its edges |
| Durable integration, `integrations/durable.py` | checkpoints of the execution | `lease_microvm`, `lease_with_relaunch`, `lease_map` | replays and crashes between launch and checkpoint, relaunch after a timeout |
| Step Functions integration, `integrations/stepfunctions.py` | none; it generates a state machine | `lease_state_machine` | the generated machine's catch and retry paths; a Map that stops its items; reaping by age |
| Image builder, `images.py` | none | `build`, `wait_for_build`, `ensure_active` | two builds at once |
| Monitor, `monitor.py` | endpoint clients, a pool of eight threads | `job_status`, cost model | sweeps of several callers share the threads; one deadline over a sweep, and polls that outlast it |
| Playground store, `playground/server.py` | jobs, trace, settings, `state.json` | `start_job`, `_push_trace`, `set_config`, `save_state`, `_load_state` | every thread saves, through one temporary file; a process that is killed |
| Playground handlers, `playground/server.py`, `client.py` | dry run, configuration, credentials; sessions, accounts, endpoint clients, monitor kept between requests | every POST and GET route that calls AWS | the session is switched under a request that is half way; failures half way through a launch |
| CLI, config, bootstrap, page, benchmark | none that outlives a call | | |

How they meet: `FleetManager` wraps every mutating API call in a `Throttled`;
`Fleet` runs those calls on its pool; `Fleet.dispatch` and the monitor send
through `EndpointClient`, whose requests arrive at the hook server in the
microVM; a lease travels in `runHookPayload` of a launch, is worked on by the
lease runtime, and is answered to the orchestrator (Step Functions, a durable
function, an HTTP target, a queue) through a completer. `/terminate` is called
by the platform when somebody calls TerminateMicrovm, the orchestrator included.

What makes each right: a lease is decided once and everybody hears the same; no
body of a dispatch is lost or sent for twice; the bucket grants what the rate
allows; scaling ends where it was told to and nothing that lives is forgotten;
a reader gets the lines in order and misses only what the ring dropped; what was
saved of jobs, trace and configuration survives a kill; dry run sends nothing; a caller always gets its thread back. The hazards, each with its line and the
properties that guard it, are listed in `PROJECT.json`.

## 2. The modules

| Module | Models | Composes |
|---|---|---|
| `LeasePromise` | what a lease promises its orchestrator: one verdict, nothing else heard, lost only if closed | |
| `LeaseRuntime` | `hooks/server.py` 148-561 | implements `LeasePromise` |
| `Throttle` | `throttle.py` | |
| `Endpoint` | `EndpointClient.request`, `_auth_headers` | |
| `Dispatch` | `Fleet.dispatch` | its workers' requests are steps of `Endpoint` |
| `Fleet` | `Fleet` but for `dispatch` | |
| `LeasePlan` | `lease.py` 137-138, 212-312: the sizing of a fan-out, as operators | |
| `FanoutPromise` | what a fan-out promises its caller: a settled width, no more shards than that in hand, each settled once | |
| `LeaseMap` | `integrations/durable.py`: `lease_map`, `lease_with_relaunch`, `lease_microvm` | uses `LeasePlan`, implements `FanoutPromise` |
| `LeaseMachine` | `integrations/stepfunctions.py` 21-320: the generated machine, run | |
| `Telemetry` | `hooks/server.py`: `Job`, `/status`, `/events`; `EndpointClient.watch`; the playground's `_follow_status` | |
| `Monitor` | `FleetMonitor.job_status` and the playground's `_follow_fleet` | |
| `PlaygroundStore` | `playground/server.py`: jobs, trace, settings and their file | |
| `PlaygroundRun` | `playground/server.py`: the handlers, `fm`, `ep`, `monitor`, `_reset_aws_sessions`; `client.py` | |
| `LeaseRuntimeProofs`, `DispatchProofs`, `FleetProofs`, `LeaseMapProofs`, `LeaseMachineProofs`, `TelemetryProofs`; `SharedProofs` (`Throttle` and `Monitor`); `PlaygroundProofs` (`PlaygroundStore` and `PlaygroundRun`) | the proofs | |
| `MC...` | instances for TLC | |

**LeaseRuntime.** `pc` says where each thread is: `worker` (`_run_lease` and its
`_deliver`), `heart` (`_heartbeat_loop`) and one thread per `/terminate` request.
`done`, `error`, `lost`, `stop`, `lock` are the fields of `LeaseContext`; `runPc`
is how far `_maybe_start_lease` came. A step is the code between two points where
another thread can matter: taking the lock with the test of `done`
(`DeliverLock`, `HeartLock`), the rest of the critical section
(`DeliverVerdict`), setting `_stop` and reading `lost` (`DeliverStop`), one
attempt of a completer call (`Attempt`, then one of `CallAnswered`,
`CallClosed`, `CallFails`). The network holds requests as a set: each may be
received late (after its sender has given up on it or has retried), refused or
lost, in any order. The orchestrator is external: a token open until answered or
expired, and a bus kind (sqs, eventbridge) that takes everything. Payloads are
abstracted to the outcome, times to nothing: a heartbeat may come at once.

**Throttle.** Integers stand for the bucket's floats: a token is `Unit` units, a
tick adds `Gain`, `Second` ticks are a second. `left` is the sleep a thread still
owes. `span` and `granted` observe a window of time opened at any moment.

**Endpoint and Dispatch.** The test of the token cache, the mint, the two
assignments and the read are separate steps, because nothing guards them.
A token is only told apart by whether the endpoint takes it. `Dispatch` adds the
calling thread (clients are built and workers started one by one, and
`client_factory` may raise between them), the queue, and `on_result`, which may
raise and end its worker.

**Fleet.** `state` is the platform's truth, `shown` the listing; `Surface` makes
it catch up, at any time or never. `terminated` is the code's set. An operation
begins with the listing (`Begin`), then either goes one call at a time
(scale-down, reap) or through the pool (`tasks`, started in order by at most
`Width` threads). A scale-down takes the members listed as SUSPENDED first and the
others by age, as `scale_down_victims` does: one that is SUSPENDING goes by its age
among the running ones. `Executor.map` takes results in order: at the first exception
it cancels what is queued, while what runs goes on as `strays`. A call that
raises may have had its effect.

**LeaseMap.** A durable function is run again from the top whenever it stops; what
a step, a callback or a map item has completed is read back, everything else is
lost. So the control of a shard is a function of its checkpoints: `callback`,
`launch` and `teardown` per lease (a shard and an attempt), `outcome` per shard,
`plan`, `gate` (the approval) and `final` of the execution. Volatile are only `up` and the
step body that executes for a lease. `Stop` drops both at any point, `Restart`
keeps the checkpoints and nothing else. The durable SDK is external, and modelled
from how durable.py uses it and tests/test_integrations_durable_scale.py expects
it: a launch step runs at most once and, with `RetryPresets.none()`, one that was
interrupted fails (`LaunchInterrupted`), although its request may still be carried
out; the plan step and the terminate step may run again; a map item holds its
place while it waits for its callback; the map waits for every item, the ones
that raised included. A microVM answers as `LeasePromise` says, at most once, or it ends
without a word, or stays silent. TerminateMicrovm is asynchronous
(playground/server.py:1573): the terminate step completes when the call is answered,
with the microVM `"ending"`, which may still work and answer in its `/terminate` hook,
or `"gone"`. `WorldStep` has what the platform does.

**LeaseMachine.** The code keeps no state; what it generates does, so the model is
the machine in execution: `exec` is the state of the outer machine (`Gate`,
`RequestApproval`, `Fanout`, and the ends), `at` the state of each item of the
Map, named as in the code. A machine for one lease is a Map of one item. Choice, Pass
and Fail states are part of the step that enters them. `Caught` is the lease
task's Catch with `OnLeaseError`; `cause` says what the error tells of the
microVM: its name, its name in a text cut at 32768 characters, which `$parse`
refuses (the code asks for `"microvm_id"` by `$contains`, which such a text still
passes), or nothing. Ticks are there for two comparisons: `TimeoutSeconds`
against the age of the task, and the age of a microVM against
`MaximumDurationInSeconds` in `Stale`. A launch whose task has timed out may
still be accepted (`sent`), a microVM that was told to end goes on answering for a
while (`"ending"`), as in `LeaseMap`, and an item that the Map stops leaves its microVM
behind; both are followed to the end.

**Telemetry.** A line is its number. `seq`, `ring` and `lease` are the fields of
`Job` and of the lease it shows; `locked` is `Job._lock` while a snapshot is being
taken, since `Job.snapshot` reads `done` early and `error` last. The threads that
log are the lease's (`work`), the heartbeat's (`heart`) and the application
(`LogFreely`); `DeliverDone` and `DeliverError` are two steps because no reader
takes `ctx._lock`. `tpc` is the serving thread: of a stream (`Loop`, `ReadSince`,
`WriteLine`, `CheckClient`) or of one `/status` request (`AnswerStatus`). `reader`
is what is attached: `watch`, which gets frames over `wire`, or `_follow_status`,
which polls with its `cursor`. `from` and `overrun` observe what the reader was
promised and what the ring dropped. `since` and the tail are the newest lines of
the ring, as many as are above the cursor or fit the tail (`Newest`).

**Monitor.** A sweep (`listed`, `due`, `answer`) belongs to a job that follows its
fleet or to the page. Polls wait in `queue`, in any order the platform may list the
members, and run on `worker`; `Collect` is the end of `job_status`, which cancels
what nobody has begun. A cancelled future keeps its place until a thread drops it
(`Skip`), as in the executor. A poll that runs when its sweep ends goes on for
nobody. A bad member fails, or keeps its poll for any length of time: the member
timeout bounds the wait for the connection and each wait for a byte of the answer,
and not the call that fetches a token first (endpoint.py:62, 96), so nothing ties the
length of a poll to the deadline of its sweep. Ticks are there for that deadline; what
takes no time comes before a tick. `pinned` observes the sweeps that saw time pass
with every thread held.

**PlaygroundStore.** Jobs have a runner thread each (`pc[j]`), requests of the page
one (`Req`), and the main thread saves as it stops (`Closing`). `save_state` is seven
steps, because nothing guards them: `Collect` lists the jobs and copies the trace;
`Describe`, `ReadResults` and `ReadEnds` read the settings and then the fields of the
jobs in the order of `to_dict` (status, result and error, finished), while the runners
write them; then `Open`, `Write`, `Rename`. `fd` is the file a thread has open, which
keeps its content when another thread renames it. Of the settings, `settings` numbers
the PlaneConfigs as they are made and `dryRun` is `pg.dry_run`; `set_config` changes
both and saves, `post_credentials` (`UseCredentials`) changes both and does not.
`Restart` may come between any two steps: it drops memory and threads and does what
`__init__` and `_load_state` do with the file, which restores the PlaneConfig and
leaves `dryRun` as the process was started (`DryFlag`).

**PlaygroundRun.** A handler is the sequence of its steps (`PostRun`, `PostProbe`,
...: one operator per handler, a set where the request body decides). `todo` is
what a request has left; each step has one action. `using` is the client it works
with: who it acts as, and how often its calls are traced. A switch
(`set_config`, `post_credentials`, `clear_credentials`) is itself step by step,
since `_reset_aws_sessions` throws five things away one after another. `crossed`
and `poisoned` record which requests a switch ran beside, and whether one of them
left something in a cache; the properties speak of the others.

## 3. The runs

| Run | Bounds | Shows |
|---|---|---|
| `lease_promise` | one `/terminate`, one kind of each behaviour (none, sfn, http, sqs), two http attempts, fairness | `OneVerdict`, `LostIsTrue`, `KeepsPromise` (refinement), `ThreadsEnd` |
| `lease_teardown` | http, one `/terminate` | **violated**: `VerdictLeavesBeforeTeardown` |
| `throttle` | two threads, two calls and two attempts each, rate 1.6/s with a bucket of one token, windows of two seconds, fairness | `WindowBound`, `SleepSuffices`, `CallsSettle` |
| `dispatch` | two microVMs, two workers on the first and one on the second, two bodies, two attempts, one revocation, fairness | `OnePlace`, `ReturnedComplete`, `DispatchEnds` |
| `fleet` | two microVMs at the start (none, one or two, in any active state), three ever, a pool of two, two operations, one failing call, one change by the platform itself (suspensions complete at any time), fairness | `ForgottenAreDead`, `TerminatedOnce`, `ReturnsExact`, `SparesWarm`, `OpsEnd` |
| `lease_map` | two shards with one relaunch each, five callers (every ceiling set, exactly met, exceeded by one, zero, negative; with and without an approver), a quota for one microVM or unknown, one stop or one failing step, a callback that times out silently, fairness | `UnderThePlan`, `ApprovedIsRun`, `RelaunchAfterTermination`, `StraysAreReported`, `SuccessIsKept`, `KeepsFanoutPromise` (refinement), `MapSettles` |
| `lease_machine` | a lease and Maps over none and two shards, one or two at a time, with an approval above a threshold and without; budget two ticks, slack one, one retry of a throttled launch per shard, one call that fails otherwise, fairness | `WithinConcurrency`, `LiveAreNotStale`, `StraysAreExcused`, `ExecutionEnds` |
| `telemetry` | a ring of two lines, a tail of one, five lines, two misses, one frame on the wire, either reader, fairness | `InOrderOnce`, `OnlyOverrunsAreMissed`, `DoneReaderHasTheEnd`, `ReadersEnd` |
| `monitor` | two members, any of them bad, a pool of three threads, a timeout of one tick, at most two entries left in the queue when a sweep begins; symmetric in the threads and in the members | `SettledIsTrue`, `NoBacklog`, `GoodAreAnswered` |
| `playground_store` | one job, two traced calls or one and a change of the settings, one restart | `RunningHasRunner`, `DoneHasResult`, `TraceOrdered`, `SavedStateSurvives` |
| `playground_settings` | one job, two traced calls, one change of the settings, one restart without `--dry-run` | **violated**: `SettingsSurvive` |
| `playground_run` | a request to any handler and then one that reads, up to three launches, one switch of the session at any point | `DryRunSendsNothing`, `ActsAsConfigured`, `FootprintKept` |

Four more configurations are kept beside these runs. Each checks one statement that the
repository's text makes of the code and that the code does not keep; TLC finds each
violated in a few seconds. No property of the runs depends on them.

| Configuration | Bounds | Violated |
|---|---|---|
| `LeaseMapCeiling.cfg` | two shards, one relaunch, budgets that run out, a ceiling the plan meets exactly, no stop and no failing step | `CeilingKept` |
| `LeaseMapMemory.cfg` | two shards, one relaunch, no ceilings, a quota for one microVM, no stop and no failing step | `LaunchesFitMemory` |
| `LeaseMapReplay.cfg` | two shards, one relaunch, no ceilings, one stop, no failing step | `ReplayGetsTheSameVM` |
| `MonitorPinned.cfg` | as `monitor` | `DeadDoNotPin` |

    tlc -workers 2 -config LeaseMapReplay.cfg MCLeaseMap.tla

Each module's `TypeOK` is checked or proved. Where it is checked, it is the first
conjunct of one of the run's properties (`OnePlace`, `ForgottenAreDead`,
`WithinConcurrency`, `InOrderOnce`, `RunningHasRunner`, `DryRunSendsNothing`). Those
of `LeaseRuntime`, `Throttle`, `LeaseMap` and `Monitor`, and `BeatExcludesVerdict`,
are proved.

Why these bounds are enough to meet the cases: one `/terminate` request and the
worker are two deliverers, which is what a race for the verdict takes (more of them
are the proofs' part); a retry after a lost answer and its late duplicate need two
attempts. The retries inside a boto3 call are those of the http
completer with other numbers; the runs give such a call one attempt. In `throttle` two threads contend for a bucket of one
token, the case in which every wait matters, and a rate that is no whole number
of ticks per token makes the rounding of `Wait` matter. In `dispatch` the two
workers of one client race on its token while a third shows that another client
is untouched; one revocation is enough to make a cached token bad under a
reader. In `fleet` the second operation meets what the first left behind: a
stale listing, a failed call, calls in flight; three microVMs are the fewest in
which a suspended, an older and a younger running one differ. In `lease_map` two
shards and a width of one or two make a shard wait for the other or run beside
it, one relaunch makes a first and a last attempt, and one stop falls between
any two steps of either. A failing step is checked with the smaller width alone, and
not together with a stop, and at the greater width the stop comes before the first
relaunch (`OneUpset`): either concerns the shard it falls in. That more of
each changes nothing for the safety properties is proved. A timeout by silence stands for one by budget, which the code
treats alike. In `telemetry` three lines
between two polls overrun the ring, two lines before the first answer outrun the
tail, and one frame on the wire makes the server wait for its client. In `monitor` a
bad member, asked by both sweeps, holds two of three threads, so a good one has the
last, until a poll that outlasts its sweep holds that too; one tick is enough for a
sweep to end while a poll goes on. Cancelled entries pile up in the queue while every
thread is held, so a sweep begins only below `MaxQueue`. In `playground_store` the
job's runner and the request that started it, or the main thread, save at the same
time, which is what an overtaken rename needs; two calls are two entries whose order
can be wrong, or one saved before its number and one after. A change of the settings takes the
place of one of them (`TwoChanges`): what it must meet is a save under way. These
sessions do not switch dry run, which none of the run's properties looks at:
`playground_settings` is about that. In `playground_run` three
launches are the first kept, one terminated, and one being timed in `post_probe`,
and one switch has all its eight steps fall between any two steps of a
request. In `lease_machine` one item can reap while the other's lease is live,
a budget of two ticks and a slack of one tell the budget, the cap and the
slack apart, and one retry gives a launch its second token. Deadlock is not
checked: every system here is one that comes to rest.

Every property of a passing run is broken by a mutant of the model named in
`PROJECT.json`; the mutants are operators marked "Mutant" beside the definition
they replace, each a slip the code could contain.

### Fairness

`FairSpec` assumes that a thread that can run does, and that a call on the
network or an API ends, which the timeouts of urllib, boto3 and requests give.
`LeaseRuntime` assumes strong fairness of taking the lock to deliver: Python's
lock is not fair, but between two beats it is free for a whole heartbeat
interval. `LeaseMap` assumes that the function is run again after a stop, that
its own steps go on, that requests the platform has accepted are carried out, and
that callbacks and the approval time out, as both are given timeouts. `LeaseMachine`
assumes that Step Functions takes the machine's steps, that the calls of
Terminate and List end, and that `TimeoutSeconds` is kept; neither the platform
nor a microVM has to answer. Nothing is
assumed of the handler (it may never end), of the network,
of the orchestrator, of the platform, or of the listing. In `Telemetry` the lease's
thread and the serving thread run, the five seconds between snapshots pass, a
reader takes what has arrived, and a stream of a microVM that is gone breaks; no
deadline has to come, because the readers must end without one. `Monitor`,
`PlaygroundStore` and `PlaygroundRun` are checked for safety alone: a sweep ends by
its own deadline and a save by its own last step, and what a handler waits for
(a state, a build, a person who looks at the page) is outside the code.

### What the violated statements show

- **A result may die with its microVM** (`lease_teardown`). `_deliver` sets `ctx.done` before it
  sends anything (server.py:538). A `/terminate` that comes in between finds
  `done` set (line 555) and returns 200 at once, and the platform removes the
  microVM with the result unsent and no `Terminated` either. docs/hooks.md:88
  says that returning sends success and that a `/terminate` mid-flight sends
  `Terminated`.
- **Relaunches are not in the plan** (`LeaseMapCeiling.cfg`). `plan_fanout` takes shards times
  `max_duration()` for the worst case (lease.py:291), and `lease_map` relaunches
  every shard once by default (durable.py:241). A fan-out accepted against
  `max_vm_seconds` may use twice that. lease.py:93-94 calls the policy's fields
  "the platform-owned ceilings a fan-out must stay under".
- **A relaunch is asked for beside the microVM it replaces** (`LeaseMapMemory.cfg`). The terminate step
  completes with the answer of TerminateMicrovm (durable.py:74-75), and the next
  attempt, or the next item of the map, is launched while the microVM before is still
  ending and holds its memory (docs/quotas-and-cost.md:20). With a quota for one
  microVM two are asked for, where docs/integrations.md:102 and
  106 give the concurrency as the number that can run at once on the account. The
  platform would refuse the second for as long as there is no room; whether
  `Throttled` retries long enough is not modelled. `UnderThePlan` says what does
  hold: it counts the microVMs that nobody has told to end.
- **A replay does not get its microVM back** (`LeaseMapReplay.cfg`). durable.py:5-6 says that the
  clientToken gives a replay after a crash the same VM. The launch step is
  AT_MOST_ONCE_PER_RETRY with no retries (193-194), so the replay fails a step that
  was interrupted and never makes the call that would find the microVM: the shard
  raises, and the microVM runs to its longest duration. `StraysAreReported` says
  what is left: its shard is among the errors.
- **A dead member pins threads** (`MonitorPinned.cfg`). The comment at monitor.py:143 has a poll bounded by
  the member timeout. `_auth_headers` may fetch a token first, through boto3 with its
  own timeouts and retries (endpoint.py:62), and requests applies the five seconds to
  the connection and then to each read (96). A poll may so outlast its sweep, the
  next sweep begins another on the same member, and after a few of them no thread is
  left for a member that answers: it is shown as unanswered although the bad members
  are fewer than the threads.
- **Dry run does not survive a restart** (`playground_settings`). `_settings` writes `dry_run`
  (playground/server.py:505) and `_load_state` does not read it, though the comment at
  line 494 says that jobs and session settings survive a restart: a session that was
  switched to a dry run is live in the next process.

### What the properties leave room for

A reader should know these behaviours of the code. The models have them, and the
properties are stated so that they hold beside them.

- *A second may see more calls than the quota.* The burst is `int(rate)` on top of
  the rate (throttle.py:23): with a quota of 5/s a full bucket lets seven calls
  pass in one second, where README.md:31 speaks of 80% of the quota. `WindowBound`
  is burst plus rate.
- *A shared token may vanish under a reader.* Between the test of `_token` and
  `return self._token` (endpoint.py:60, 70) another thread's 403 sets it to `None`
  (line 106); merging `None` raises a `TypeError`, and `dispatch` records an error
  for a request that was never sent. `OnePlace` counts it as a result.
- *A scale_to after a failed scale_to may miss its target.* Launches still running
  on the pool when the first raised land after the second has counted
  (fleet.py:349). `ReturnsExact` speaks of operations without such strays.
- *A watch ends before the last lines.* It stops at the first snapshot that says
  done (endpoint.py:166), and the lines of the same batch come after it. The
  snapshot's own tail has the newest fifty; `DoneReaderHasTheEnd` says what is left.
- *A budget may be longer than a microVM lives.* Nothing compares `budget_s` with
  MAX_DURATION_SECONDS; `max_duration()` cuts the cap and the age of stale microVMs
  to it (lease.py:138, stepfunctions.py:111), and not the task's timeout. A
  microVM at its cap may then be picked as stale while its lease is waited for;
  `LiveAreNotStale` speaks of the other budgets.
- *A failed lease reads as done for a moment* (server.py:183), between the two
  assignments of `_deliver`: a poll that falls there ends as a success.
- *Saves that overlap may lose a finished job.* The later rename may carry the
  older snapshot, or half of each (playground/server.py:522). `SavedStateSurvives`
  holds until two saves overlap.
- *A client made across a switch keeps its old identity*, or has untraced calls,
  for as long as the cache does (playground/server.py:483-491, client.py). A
  request that a switch did not cross, and that finds nothing kept by one that was
  crossed, never has one: `ActsAsConfigured`.
- *Eight slow members starve a sweep.* The limit of five seconds is the sweep's
  (monitor.py:148), where docs/playground.md:37 gives each member five seconds.
  `GoodAreAnswered` excuses a sweep that saw time pass with every thread held.
- *MicroVMs that are ending still work.* A relaunch may run beside a predecessor that
  is in its `/terminate` hook. `RelaunchAfterTermination` says that it was told to end.
- *Counts are of microVMs not yet told to end.* `FootprintKept` takes a microVM off
  with the call that terminates it, and `WithinConcurrency` counts leases in hand.

## 4. The proofs

The eight modules named `...Proofs` prove for every value of the constants what
their runs check on small ones. They rest on the named ASSUMEs of the modules
they extend, and on nothing else:

- `LeaseRuntime`: thread names differ, `Free` is no thread, the kinds are kinds, a
  call makes at least one attempt. `Throttle`: the scale's numbers are positive.
  `Dispatch`: every worker has a microVM, bodies are numbered, a request makes at
  least one attempt. `Fleet`: the pool has a thread. `Monitor`: members and threads
  are finitely many, the timeout is positive, and `None` is nothing else; a poll may
  take any time.
- `LeaseMap`: the inputs are of their types, `None` is neither a number nor a plan.
  `LeaseMachine`: each generated machine has a positive `MaxConcurrency`; budget and
  longest duration are positive. Neither needs to be the longer one.
- `Telemetry`: a tail fits the ring, the wire holds a frame, there is room under
  the bound for the three lines a lease always logs. `PlaygroundStore`: the trace
  and the saved list of jobs have room for one entry, and neither a file that is
  missing nor one that is broken is a state. `PlaygroundRun`: a probe measures at
  least one launch, `None` is no client.

Every proof has the same shape: an inductive invariant (`IInv` with its theorem
`Inductive`; `MonitorInv` with `MonitorInductive`, `RunInv` with `RunInvariant`), one
lemma per action or group of actions, and the properties read off it. What is
added to the properties to make them inductive:

- `TypeCorrect`, `OneVerdictHolds`, `BeatExclusion`, `LostIsTrueHolds`: from
  `Inductive`, which strengthens the properties by what makes them inductive: a
  thread in a critical section holds the lock, at most one thread ever comes past
  the test of `done`, what is on the wire was sent by a thread past its decision
  and says what that thread decided, and a reply "closed" was made by a closed
  token. Without the clause on the wire `OneVerdict` is not inductive, since a
  late message could carry anything.
- `KeepsPromiseHolds`: the refinement. The verdict is read off the outcome of
  whoever holds the lock from the moment `done` is set, and off `error` once it
  is recorded; each action maps to a step of `LeasePromise` or to a stutter.
- `WindowBoundHolds`: a window's grants plus what the bucket holds never exceed
  what it held at first plus what it earned (`Budget`); the bound follows because
  the bucket is never negative.
- `SleepSufficesHolds`: a sleeper's remaining wait always earns the missing part
  of a token, unless another thread took one.
- In `LeaseMapProofs`, `Inductive` says how far each lease has come (`EveryLease`:
  callback before launch, launch before microVM, microVM before teardown), that an
  attempt follows only attempts torn down with a retryable outcome (`Chain`), what
  an outcome says of a shard's attempts (`EveryShard`), and that nothing begins
  before the plan is accepted and approved (`PlanInv`). `Chain` is what the
  properties need and do not say: without it an outcome would speak of the last
  attempt only. `TypeCorrect`, `ApprovedIsRunHolds`, `RelaunchAfterTerminationHolds`,
  `StraysAreReportedHolds` and `SuccessIsKeptHolds` follow from it.
- `UnderThePlanHolds`: no more shards are in hand than the width (`WidthInv`);
  the microVMs that nobody has told to end map one to one into the shards in hand,
  since of a shard's attempts only the last is not torn down; and an accepted plan fits its quota
  (`PlanFits`).
- `KeepsFanoutPromiseHolds`: the refinement. The plan or the approval that lets
  the map begin is `Admit`, the end of an item is `Settle`; stops, restarts, steps,
  callbacks and relaunches are stutters.

- In `DispatchProofs`, that a body is queued once (`Distinct`), that only a running
  worker holds one and one that was not killed ends because the queue is empty
  (`WorkerInv`), and when the caller joins and returns (`CallInv`): from these
  `OnePlaceHolds` and `ReturnedCompleteHolds`. What an endpoint's token does is
  irrelevant to both, and the proofs do not use it.
- In `FleetProofs`, that the listing lags behind the platform in one direction only
  (`PlatformInv`), that the calls of one operation are for different microVMs and
  none of these has been terminated before (`OnceInv`), and how done, failed and
  pending calls add up to what the operation was asked for (`ScaleInv`, `DrainInv`).
  `TerminatedOnce` alone is not inductive: two queued calls for one microVM violate
  it two steps later. `ForgottenAreDeadHolds`, `TerminatedOnceHolds`,
  `ReturnsExactHolds` and `SparesWarmHolds` follow.
- In `LeaseMachineProofs`, what the state of an item says of its microVM
  (`ItemInv`), that a microVM is no older than the task that waits for it (`AgeInv`),
  what is picked as stale (`StaleInv`), which excuse an item that leaves a microVM
  has (`ExcuseInv`), and how many items work (`CountInv`).
  `WithinConcurrencyHolds`, `LiveAreNotStaleHolds` and `StraysAreExcusedHolds` follow.
- In `TelemetryProofs`, that the ring is the run of lines that ends with `seq`
  (`RingInv`; so `since` and a tail are runs too, `NewestIs`, `SinceIs`, `TailIs`),
  which thread is where (`WatchInv`, `FollowInv`), that what is handed over, on the
  wire and copied stands in this order around the cursor (`OrderInv`), where every
  promised line is (`CoverInv`), and that each snapshot accounts for the lines up to
  its own number, given what the reader holds when it comes to it (`SnapInv`).
  Without `SnapInv` a snapshot on the wire could end a watch with lines missing
  in between. `InOrderOnceHolds`, `OnlyOverrunsAreMissedHolds` and
  `DoneReaderHasTheEndHolds` follow.
- Of `Monitor`, in `SharedProofs`: what waits and what runs for a sweep are open futures
  of a sweep that is under way (`OpenInv`), each once (`OnceInv`), and every open future is
  among them (`CoverInv`); a member that a sweep did not list has been away (`AwayInv`)
  and what a future says was true of its member (`AnswerInv`). `SettledIsTrueHolds` and
  `NoBacklogHolds` follow. `GoodAreAnsweredHolds` needs `PaceInv` as well: once time has
  passed for a sweep that is not `pinned`, each member that answers has. Time passes
  only when a thread that is free has nothing to take and no poll of an answering
  member is under way, so by `CoverInv` nothing of such a sweep is open but polls of
  bad members. `GoodAreAnswered` alone says nothing of what is still open.
- Of `PlaygroundStore`, in `PlaygroundProofs`: what a thread of a job says of the job (`JobInv`), what a
  state that is being collected holds after each of its reads and what one in a file
  does (`DraftInv`, `SavedJobs`, `FileInv`), and,
  until saves overlap, that each finds its own file as it left it (`AloneInv`). `RunningHasRunnerHolds`, `DoneHasResultHolds` and
  `TraceOrderedHolds` follow, and `SavedStateSurvivesHolds`, which is about a step:
  a restart finds what the last rename recorded of jobs, trace and PlaneConfig.
  `DraftInv` is where the order of the reads matters: a status that was read as done
  was set after the result, which is read later.
- Of `PlaygroundRun`, in `PlaygroundProofs`, in three parts. First, every handler is sound
  (`TasksAreSound`, one lemma per handler): its steps keep pairs together, decide on dry run
  before anything is launched, gate what changes something, look a key up before they
  use it, launch no more than they may, and a probe terminates each launch before the
  next. These are statements about sequences of any length, since the number of
  launches is a constant. Second, every step of a request is one of a few kinds
  (`Does`): it passes some of the steps that are left or ends the request, and of what the
  properties speak of it changes at most its own part in a way that is named (`StepDoes`).
  Third, `RunInv`: what is left of a request keeps what soundness says of the whole, measured
  from where it is (`PlanInv`, `DryInv`, `FootInv`, `ProbeInv`), and what is kept between
  requests is the session's as far as the switch that is under way has come
  (`SessionInv`, `KeptInv`, `ActInv`). None of the three properties is inductive: a request
  that has one more launch left than it may have violates `FootprintKept` only two
  steps later, and a client in a cache does no harm until somebody looks it up.
  `DryRunHolds`, `ConfigurationHolds` and `FootprintHolds` follow.

Every invariant and every action property that a passing run checks is proved, and so
are the two refinements. Only model-checked is liveness (`ThreadsEnd`, `CallsSettle`,
`DispatchEnds`, `OpsEnd`, `MapSettles`, `ExecutionEnds`, `ReadersEnd`), which rests on
fairness and ENABLED and is beyond the prover.

## 5. What is abstracted, and what is left out

- Time, but in `Throttle`, `LeaseMachine` and `Monitor`. Elsewhere timeouts are choices: any call may time out, any
  deadline may pass. Whether a duration is long enough (the patience with a 502, the
  30 s of the `/terminate` hook against a heartbeat call of 32 s) is left out.
- One lease per microVM: docs/hooks.md promises one task and one token each, so
  a second `/run` in one process is not modelled.
- In `Fleet` a suspension that was asked for is SUSPENDING until it completes, at any
  time; a resumption and a termination show no state in between. A launch is listed at once, and a
  microVM whose start is unknown does not occur. One client uses the object; the
  playground builds a new one per request, so its sets `_terminated` and its token
  buckets do not outlive one: that composition is a hazard no property covers.
- In `Throttle` the length of a back-off is open.
- In `LeaseMap`, `on_event`, logging and the shape of the returned items; the
  client token, which makes a repeated RunMicrovm find the microVM of the first,
  is the lease itself. What a failed item says of its cause is reduced to whether
  it is retryable. The completer cuts the cause it sends to 4096 characters
  (server.py:321), and `_error_from` (durable.py) parses what arrives: one that is cut
  in the middle arrives as fatal, whatever the microVM meant. For Step Functions a cut
  cause is modelled (`Fails`), and `StraysAreExcused` has it among its excuses.
- In `LeasePlan` a negative `max_concurrency` is a legal input: it is not rejected,
  the concurrency comes out as 0, and `lease_map` takes 0 for 1.
- `UnderThePlan` counts the microVMs of shards that have not raised and that nobody
  has told to end. One of a shard that raised may run on to its longest duration
  beside the plan's width; the result reports the shard. One that is ending holds its
  memory a little longer: `LaunchesFitMemory`. The platform's own refusal of a launch
  for which there is no memory is `LaunchFails`.
- `LeaseMachine` is one execution alone with its image. `Reap` goes by image and
  age, so an execution with a shorter policy may terminate the live microVMs of
  another on the same image; it reads one page of the listing; the listing is
  taken to be current. Its retries of `Terminate` calls are inside the call, and
  what the approver is shown is left out, as are the IAM statements.
- A `max_concurrency` of 0, which nothing rejects and Step Functions takes for no
  limit, is not among the machines of `LeaseMachine`: it promises nothing there.
- When a Map fails, the items it stops are not cleaned up after: their microVMs
  run to `MaximumDurationInSeconds`. `StraysAreExcused` states this as what the
  machine does, not as a promise kept.
- A cut cause ends the failed microVM at its cap and not "at once", as
  docs/integrations.md:90 has it for every typed failure.
- `Telemetry` has one reader at a time. Phase, progress, counters and the text of
  lines are left out; the shares of `elapsed_s` too. A poll of `_follow_status`
  fails before its answer is being made or after, not while.
- In `Monitor` the members' endpoint clients and their tokens are left out: a member
  is good or bad for as long as the instance runs, and a bad one may take any time.
  `snapshot` and `tail_logs` only
  read; the cost model is arithmetic over floats without state.
- In `PlaygroundStore` what a job does is the calls it traces. A request is not
  answered while the main thread closes. `set_config` and `post_credentials` set the
  PlaneConfig and `dry_run` in one step, and `_settings` reads them in one: what the
  handlers see between the two is in `PlaygroundRun`. `to_dict` takes result and error
  in one step, since a job gets only one of them.
- In `PlaygroundRun` requests follow each other, each beside the switches: two
  handlers meet through what is kept between them. `ep` is modelled for one microVM
  that is given; the handlers' answers, validation and sample data are left out, and
  so are the handlers that only format (quotas, profiles, examples, cost, logs) and
  `parse_exports`. In dry run `post_bootstrap` asks for an account number after its
  gate; that read is left out.
- `images.py`: one build is a sequence of calls with two polling loops and no state
  that outlives it. Two builds of one image meet in S3, in a key with the time in
  seconds, and in the platform's versions; both are outside the code.
- The CLI, `config.py`, `bootstrap.py`, the page and the benchmark hold no state
  between calls; `Endpoint` leaves out `wait_ready` (a loop over one request) and
  `shell_token` (one call); `LeasePlan` leaves out `heartbeat_every`, whose subject
  is seconds, and the encoding of the payload.

## 6. The plan

In this order, the most important behaviour first:

1. *Done:* lease runtime and its promise; throttling; endpoint and dispatch;
   fleet; with their proofs.
2. *Done:* the sizing of a fan-out and the durable fan-out, with their proofs.
3. *Done:* the Step Functions machine, with its proofs. To come: a refinement of the
   part of `FanoutPromise` that it keeps (a Map that fails settles nothing).
4. *Done:* `Telemetry`: what a client may miss, and that what it sees is in order.
5. *Done:* the playground, its store and its handlers, and the monitor's sweep.

The proofs of all of these are done, but for liveness. To come: two lives of the
playground's `Fleet` and of its token buckets on one account, which no property covers;
the platform's refusal of launches for which there is no memory, against the patience of
`Throttled`.
