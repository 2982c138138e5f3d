# serverV2: a TLA+ model of the render lifecycle

pc-torrent renders Blender files on rented GPUs (Vast), serverless GPUs (Modal) and
machines people lend (community). `serverV2` is the coordinator: it splits a render
into chunks of frames, finds each chunk a machine, watches the machines, retries what
fails and rolls the result up into one status per render group. This directory models
what decides the fate of a chunk, from the parked row to the frames in the object store:
the lifecycle pipelines and the daemon, the allocation of targets, the monitors and the
lease that keeps each on one replica, the lent machines, and the workers' uploads. TLC
checks the models on small instances; TLAPS proves twenty-eight theorems about them for any.
Paths below are relative to `src/serverV2/` unless they start with `src/`.

Contents: [inventory](#1-inventory), [what is modelled](#2-what-is-modelled-and-how),
[runs](#3-runs), [fairness](#4-fairness), [proofs](#5-proofs),
[divergences](#6-where-code-and-comments-disagree), [limits](#7-what-is-not-modelled),
[plan](#8-plan).

## 1. Inventory

### State

| state | where | written by |
|---|---|---|
| `render_groups.status` | `repositories/render_group_repository.py` | reconcile, group cancel, manual retry |
| `jobs` (one row per attempt at a chunk) | `repositories/job_repository.py` | dispatch strategies, termination pipelines, worker reports |
| `in_progress_chunks` (chunk -> `current_job_id`, "the ledger") | `repositories/in_progress_chunk_repository.py` | dispatch strategies claim, pipelines release |
| `pending_allocation_queue` | `allocation/allocation_pending_queue_repository.py` | submission and retries park, the daemon and the releaser delete |
| `dispatch_queue`, UNIQUE (group, chunk) | `allocation/allocation_dispatch_queue_repository.py` | the daemon enqueues and dequeues, the releaser drains |
| `output_frames` | `services/jobs/service.py` | workers, one row per uploaded frame |
| availability snapshot | `fleets/fleet_availability/` | monitors rebuild it, each tick mutates it |
| machine rows | `services/machines/` | agents' polls, dispatch, termination |
| singleton leases (Redis) | `monitor_lock/` | every replica's monitor and daemon |

### Components

Each component's state, operations and what would make it correct. PROJECT.json has the
same list with its sources and status, and the hazards, each at its line.

- **Group roll-up** (`callbacks/group_status_aggregator.py`). Pure: job statuses, frame
  counts and "is anything queued" to a group status and whether to persist it. Correct
  when a group is closed only with its work finished, and when no reachable combination
  of statuses is held for ever.
- **Render lifecycle** (`orchestrator/lifecycle.py`, `lifecycle_job_termination/`,
  `lifecycle_job_retry/`, `callbacks/router.py`). Pipelines for failure, success,
  cancel of a job, cancel of a render, automatic and manual retry, reconcile. Called by
  HTTP threads, by the three fleet monitors, by the daemon when a dispatch fails and by
  the audit sweep, with no lock between them: the only synchronisation is the database,
  one statement at a time. Correct when each attempt is dispatched at most once, the
  retry budget is kept, claims are neither stranded nor stolen, no chunk is forgotten
  and terminal states last.
- **In-progress ledger**. `claim_or_replace` (upsert), `release`, `release_if_owner`
  (the compare-and-delete that elects the one failure handler who retries),
  `release_all`, `current_job_for`. Correct when an owner is a job that lives.
- **Allocation queues and daemon** (`allocation/`). Each tick visits `dispatch_queue`
  (dequeue, check the group, claim, insert the job, call the provider) and then
  `pending_allocation_queue` (list all rows, plan each, enqueue its chunks unless the
  ledger has an owner, delete the row). Correct when a chunk is never dispatched twice
  at once and a parked row is not lost.
- **Allocation planning** (`allocation/allocation_strategies`,
  `fleets/fleet_availability`). Caps per fleet and tick, target choice on a cached
  snapshot the tick mutates. Correct when caps and targets are not oversold.
- **Fleet strategies** (`fleets/*/strategy.py`). Claim, insert the job row, call the
  provider; a provider failure re-enters the router synchronously.
- **Fleet monitors and stall rules** (`fleets/*/monitor`, `fleets/shared`). Poll
  providers and heartbeats, promote, declare success or failure. Correct when a job
  whose frames are all in is not failed, and a dead one is eventually noticed.
- **Worker callbacks** (`services/jobs/service.py`). Status reports and frame
  registration from workers, which may be late, repeated or about a finished job.
- **Workers** (`src/worker_core`, `src/vast_worker`, `src/modal_worker`, `src/agent`). Run Blender, scan its
  output directory while it writes, upload and register what is ready, flush at the end.
  Correct when what is registered is stored and whole, and a chunk is rendered once.
- **Monitor lock and audit sweep** (`monitor_lock/`). A Redis lease so that one replica
  runs each singleton; a periodic reconcile of every active group.
- **Community machines** (`services/machines`, `api/routers/machines.py`, `src/agent`).
  Poll, claim, idle and demotion of lent machines.
- **Chunk progress, cost and spend**: read models and arithmetic over the above.
- **Backup monitor** (`src/backup_monitor`). A process of its own that reports orphaned jobs
  and rented units without a job. Correct when it destroys nothing that is in use.
- **API, upload, previews, admin, infrastructure, clients, desktop, web**: I/O and user
  interface.

### Interactions

```
 user / agent / worker            fleet monitors       audit sweep
        |  HTTP                         |                   |
        v                               v                   v
   JobService ----------------> CallbackRouter       reconcile + release
        | cancel, retry                 | failure, success  |
        v                               v                   v
   lifecycle pipelines:  status write, ledger release, retry park, reconcile
        |                                                   ^
        v                                                   | on_failure
   pending_allocation_queue --daemon--> dispatch_queue --daemon--> strategy:
                                                        claim, jobs row, provider
```

### What is hard here

Two handlers of one job's end; check-then-write of a status with no condition on the
UPDATE; five reads at five moments combined into one verdict and written
unconditionally; a row in no table while the daemon has it in hand; drains racing the
daemon; retries counted off by one; a process restart between two statements; one path
(the worker's own "done") that skips what the others do.

## 2. What is modelled, and how

| module | what it is | section |
|---|---|---|
| `GroupStatus` | `compute_group_status` as pure operators | 2.1 |
| `RenderLifecycle` | one group: tables, queues, ledger, handler threads and the daemon, one database statement per action | 2.1 |
| `ChunkPromise` | the abstract specification of a chunk's fate; `RenderLifecycle` implements it | 2.1 |
| `MonitorLock` | the Redis lease of a singleton and the loops around it | 2.2 |
| `FleetMonitor` | one Vast or Modal job: dispatch, unit, worker, monitor, backup monitor | 2.3 |
| `CommunityMachine` | one lent machine: agent, its requests in the server, allocator, monitor, user | 2.4 |
| `WorkerUpload` | the files of one chunk on their way to the store and to `output_frames` | 2.5 |
| `AllocationPlanner` | the planner as pure operators | 2.6 |
| `AllocationTick` | the daemon's ticks over the queues, the snapshot and the caps | 2.6 |
| `MCRenderLifecycle`, `MCWorkerUpload`, `MCAllocationTick` | the TLC instances' constants and symmetry | 3 |
| `RenderLifecycleProofs` and `AttemptProofs`, which extends it, `MonitorLockProofs`, `FleetMonitorProofs`, `CommunityMachineProofs`, `WorkerUploadProofs`, `AllocationTickProofs` | theorems and proofs | 5 |
| `PlannerProofs` | lemmas: what the planner's operators return for any input | 5 |

How they fit. `RenderLifecycle` is the centre: it has every reader and writer of the
group, job, ledger and queue rows, and lets everything around it act at any time. The
others look at one neighbour each, in the detail that neighbour needs, and keep of the
lifecycle only what they share with it: `FleetMonitor`, `CommunityMachine` and
`WorkerUpload` end jobs through the router's terminal check (`Route`), and
`AllocationTick` takes parked rows and creates job rows. `MonitorLock` is what entitles
the others to one daemon and one monitor.

### 2.1 `RenderLifecycle`

It follows one render group from the moment the user confirms it: one parked row that
lists all chunks, nothing else.

| variable | code |
|---|---|
| `group` | `render_groups.status` |
| `job[j]` | the `jobs` row of id `j`, or the id while it is only reserved on `dispatch_queue` (`queued`), only in the daemon's memory (`inhand`) or lost there (`lost`) |
| `ledger[c]` | `in_progress_chunks.current_job_id`, `NoJob` when there is no row |
| `pendingQ` | `pending_allocation_queue` |
| `frames` | the chunks whose whole range is in `output_frames` |
| `th[p]` | thread `p`'s program point and locals: its job, what it read and acts on later |
| `tick` | the locals of the daemon's pending phase: the rows `list_all` returned, the row and chunk in work |
| `crashes` | restarts so far, bounded |

**Granularity.** One action is one database statement with the Python between it and
the next one; a program point is named after the statement that comes next. So two
handlers interleave between any two statements, which is what the deployment does (each
repository method runs one autocommitted statement). A handler's start is a `Begin...`
action whose guard is the check made on entry, e.g. `CallbackRouter.route` reads a
non-terminal status; everything after it runs on what was read then.

**Handlers.** `BeginFailure` .. `MarkFailed` is `FAILURE_PIPELINE` with
`AUTO_RETRY_PIPELINE` inside it when the ledger release succeeded;
`BeginSuccess` .. `MarkDone` is `handle_chunk_succeeded`; `BeginCancel` ..
`ReleaseUnconditional` is `CANCEL_PIPELINE`, which goes on with the retry pipeline;
`BeginCancelGroup` .. `ReleaseAll` is `RenderCanceler.cancel`; `BeginRetry` ..
`ParkManualRetry` is `retry_chunk_manually` with its refusals as returns;
`BeginReport`, `BeginPromote`, `WriteReported` are the status writes of the worker and
of the monitors; `ReadGroup` .. `WriteGroup` is `reconcile_group_status`;
`CheckTerminal` .. `DrainPending` is `TerminalGroupResourceReleaser`. All pipelines that
end in reconcile and release run those same actions.

**Daemon.** `Dequeue` .. `LoseDispatch` is a dispatch up to the provider call, whose
failure re-enters the failure handler on the daemon's own thread (`Launch`);
`ListAll` .. `DeleteRow` is the pending phase.

**Crash** forgets every thread's locals and the tick; the tables stay; a row in hand is
lost.

**Abstractions.** Caps, priorities, targets and anti-affinity decide which rows a tick
takes and when: this module takes any number of any rows, or none (`AllocationTick` has
them). A chunk's frames arrive
as one, since the lifecycle asks only whether all of a chunk's, all or none of the
group's frames exist. Job ids are numbers in minting order, which stands for
`submitted_at`. Pending row ids are reused once nobody holds them. The jobs and the frame
counts enter the roll-up as the set of statuses and as none/some/all, which is all
`compute_group_status` tests of them.

**Refinement.** `PhaseOf(c)` maps every state to `ChunkPromise`: a chunk is rendered when
its frames are in, running while an active job owns its claim, waiting while it is parked,
queued, in hand or with the handler that will decide on its next attempt, spent when none of
these holds and its last attempt is used up, dropped otherwise. `closing` is true while
some thread is at a step of a teardown.

### 2.2 `MonitorLock`

A fleet monitor (`try_start`, then a thread that refreshes before every tick) or the
dispatch daemon (`_gate_lock`: try the lock while it has none, refresh while it has), on
every replica. `owner` and `ttl` are the Redis key; `st` says what each replica's loop is
doing, `left` how long its tick or sleep goes on. `SetLease` is `SET NX EX` or the
compare-and-EXPIRE; `RefreshBlip` is the `RedisError` that `refresh` answers with "still
ours"; `RefreshLost` the thread that exits or the flag the daemon drops. A process that
dies leaves its key to expire, under an instance id nobody has any more (`Ghost`). Time is
discrete and `Pass` waits for whoever is due, so a delay of the host counts as part of a
tick. Nothing in the code bounds a tick: `LeaseOutlivesTick`, that the 60 s lease is longer
than a tick plus the cycles whose refresh may fail, is an assumption and is stated as one.

### 2.3 `FleetMonitor`

One serverless job, from its row to the end of what was rented for it.

| variables | code |
|---|---|
| `dispatch`, `linked` | `FleetStrategy.dispatch` after the INSERT: the provider call and the later save of the id |
| `row`, `closed` | `jobs.status`; whether the group is terminal |
| `unit`, `worker` | the Vast instance or Modal call, and the handler in it |
| `frames`, `hb`, `redis` | `output_frames`, the heartbeat key and whether Redis answers |
| `seen`, `scan` | the monitor's memory of the job, and what its tick read before inspecting |
| `age`, `quiet` | time since the INSERT and since the last frame, in monitor intervals |

`VastBlocks` and `ModalBlocks` are the two `_inspect` methods: their blocks in order, each
with its verdict; `Look` is what they do to the liveness state first. Verdicts go through
`Route`, and the destroy call that goes with one may fail. `Scan` and `Inspect` are
separate steps, so the row and the instance may have changed in between. `ReportOrphan` and
`ReportGhost` are the backup monitor, by way of `/internal`. A stall rule is an age from which it
may fire (the rules are arithmetic on the job's age and frames); a snapshot for the
dashboard is left out.

### 2.4 `CommunityMachine`

Five writers of one machine's status, none of them under a condition: the dispatch that
locks it, the server's handlers of the agent's poll and of `set_available` (two may overlap),
the release after a failure, success or cancel, the monitor's demotion, the agent's
`set_idle`. `req[h]` is a request in the server with its program point (`read`, `reclaim`,
`offer`, `pick`, `lock`); `agent` is the desktop agent's loop; `tick` the community
monitor's tick, which reads `machines:alive` once and before the rows; `booking` the job
inserted by a dispatch that has not yet locked the machine.

Abstractions. The two writes of `update_status` (Postgres and its Redis mirror) are one.
A poll's ZADD and status read are one step, as are the last two statements of
`set_available`. A booked job is `queued` for as long as its snapshot is old and its row
waits, so planning from a stale snapshot is the time between `Plan` and `DispatchJob`. A
cancel and the agent's failure notice end the row and release the machine in one step; the
monitor's release is a step of its own. Any of the pending rows may be older than the claim
timeout. A stall rule that fires, and an image download that outlasts the 90 s of
`machines:alive`, count as faults. The agent's report of running changes nothing: that it may be
written over a job ended meanwhile (`services/jobs/service.py:150-165`) is in `RenderLifecycle` and
`AllocationTick`; here no property depends on it.

### 2.5 `WorkerUpload`

Two threads per container (the background uploader and the handler's last flush), two
containers or agent runs, two attempts of one chunk, one key per file name in the store.

| variables | code |
|---|---|
| `status`, `first`, `started` | the two jobs' rows and frame ranges; `worker_started` keys |
| `ct[c]` | handler's program point, Blender's progress, sizes seen by the last scan, files known to be uploaded |
| `up[c][t]` | the thread's batch: files still to PUT, files PUT and not registered |
| `object`, `rows` | what is stored under each file name: nothing, half a file, a whole one; files in `output_frames` |

`Claim` is Modal's start claim, with the case of no answer; `Scan` takes the files whose size has
not changed since the scan before; `FlushFinal` takes all; `Put`, `PutFails`, `Register` are
the two network calls, whose loss ends a scan differently for cloud workers and for the
agent; `TerminalSignal` is the 410 to a heartbeat, `CatchUp` the agent's second upload.
The server side is `Retry` (from the first missing frame to the end) and the monitor's
verdicts.

Abstractions. A file that Blender is writing grows between two scans (the scan interval is
seconds). All attempts at a chunk run in one fleet. A killed Blender counts as a fault. A handler that
returns stops its threads from sending further files, though they may still register what
they sent. The agent's two-scan flush and its direct catch-up upload are one scan each.

### 2.6 `AllocationPlanner` and `AllocationTick`

`AllocationPlanner` is `AllocationPlanner.plan_initial` and `plan_retry` on a given
snapshot: what is eligible (`Listed`, `Eligible`), how K targets are chosen (`Select`:
machines, each fleet's quota by largest remainder under the cap per GPU type, `ByQuota`, the spill), how frames are
dealt to them (`FrameCounts`: in proportion to speed, `Balanced`, then moved from targets whose
window is too short to those with room, `Fitted`; `Shares`), where a retry may go (`RetryTarget`). The order the
scores put targets in, the number of chunks K, speeds and windows are parameters: they come
from estimates, and any order and any K up to the bound may be the outcome. The filters on
engine and on a too short commitment only take targets away and are left out. Speeds are
integers and their proportions exact: the code's floats may round a share up to the next
frame, which moves that frame to another slot and not out of the sum. The code's
passes over sorted lists are written as sets: a slot is a place in the ranking, a target and
which of its slots it is, and "the first n that .." is the slots with fewer than n such before
them (`Before`, `Leading`). The selection gives each chosen slot its turn (`Turns`) in the walk
over the frame range.

`AllocationTick` is the daemon around it. `pending` and `queue` are the two tables, `jobs`
the job rows, `claims` the ledger (which attempts hold their chunk), `cache` the snapshot in Redis
with the age it has left, `tick` the daemon's program point and its copy of the snapshot.

| action | code |
|---|---|
| `Submit`, `Preview` | `submit_initial`; a dry run or the machines' list, which write the same cache, also over a live snapshot (the read failed, or found none before another thread wrote) |
| `TickStarts` | `_tick` up to `get_or_build`, whose read or write may fail |
| `Dispatch`, `FleetFull` | `process(fleet)`: while the fleet has room by the jobs table, one task becomes a row |
| `ListRows`, `Promote`, `Postpone` | the pending phase: plan, enqueue, mark the snapshot, delete the row |
| `Persist` | `persist`: `SET XX KEEPTTL` |
| `BeginReport`, `WriteReported` | a report of running: the row is read and found not terminal; later `running` is written over whatever it has become |
| `Finish`, `Fail` | the end of a job: the claim goes; a failure of the attempt that holds it parks what is missing with its exclusions |

A report that is written late revives a job that has failed or is done: it occupies its fleet
again, beside the job that got its slot, and its chunk has a retry of its own by then. It holds no
claim, so its next failure parks nothing. `Stands(j)` says that `j` is live and not such a job.

A group's own row has chunk 0 here and its chunks are numbered from 1. The read, the build and the
write of `get_or_build` are one step in a tick, and so are the build and the write of a preview: no
property speaks of how old a snapshot is, and `PlannedOncePerSnapshot` is about each one built. The
status UPDATE and `mark_started` are one step. The caps are one setting of what the daemon reads
live at each tick (`bootstrap.py:649`): an operator who lowers one stops no job. Rendered frames are a
prefix of the chunk. Cancels, the steps of a failure and the group's status are
`RenderLifecycle`'s. Statements of a tick between
which nothing else can tell the difference are one action (only the tick adds to the queue). `spent`,
`short` and `faults` are bookkeeping of the properties: what has been planned on each
snapshot, which groups the planner warned about, how often Redis failed.

### 2.7 Slips

Definitions commented "Slip" are not part of any `Next`. Each is a plausible bug in the
definition below it (a missing NX, a dropped guard, a count taken once, two blocks swapped), and
PROJECT.json says which property it must break in which run: they show that the
properties can fail.

## 3. Runs

Ten runs pass and two exhibit a divergence (section 6). All are exhaustive for their
bounds: `tlc -workers 2 -config <cfg> <module>`. Deadlock is checked in `lease`. Elsewhere a
settled group with no signals left, a unit destroyed or a chunk stored is a legitimate end.

| cfg | who acts | bounds | states | shows |
|---|---|---|---|---|
| `RenderLifecycle_outcomes` | the daemon; two threads, each reporting failures and successes | 1 chunk, 2 retries, 4 jobs, 2 rows | 582 k | each attempt dispatched once, budget kept, one runner at rest, the promise kept |
| `RenderLifecycle_users` | the daemon; a user cancelling jobs or the render and retrying by hand; a monitor failing jobs | 1 chunk, 0 retries, 2 jobs, 2 rows | 2.9 M | no claim is stranded by a cancel or a manual retry |
| `RenderLifecycle_crashes` | the daemon; one thread running every entry point | 1 chunk, 0 retries, 2 jobs, 2 rows, 1 crash, raising dispatches | 648 k | one dispatch per chunk and no steal survive a restart at any step |
| `RenderLifecycle_chunks` | the daemon; one thread: failure, success, audit | 2 chunks, 1 retry, 4 jobs, 3 rows | 721 k | the chunks of one initial row do not disturb each other |
| `RenderLifecycle_settles` | the daemon; one thread: failure, success, audit | 1 chunk, 2 retries, 3 jobs, 2 rows | 17 k | under fairness the render ends, for good |
| `MonitorLock_lease` | three replicas of a monitor or of the daemon | lease 6, sleep 1, ticks up to 2, 1 failed refresh in a row, 2 deaths | 2.6 k | one ticks, none holds the key idle, a dead holder is replaced |
| `FleetMonitor_watch` | dispatch, provider, worker, monitor, backup monitor, user | 2 frames, every deadline 1 to 3 intervals, 1 fault | 167 k | failed only for cause, destroyed only when over, ends with nothing rented |
| `WorkerUpload_upload` | two containers or agent runs, server | 2 frames, 2 attempts, 1 fault | 2.6 M | store, `output_frames` and status stay in step |
| `CommunityMachine_machine` | agent, server, allocator, monitor, user | 1 job, 2 requests at once, 1 disturbance | 204 k | failed only for cause, every job ends, the machine comes back |
| `AllocationTick_allocation` | daemon, workers, previews | 1 of 2 kinds of group, 2 chunks, 2 retries, 2 failures, 1 report or Redis failure | 587 k | caps, snapshot, frames, exclusions, and that rows get placed |

### Why these bounds

**Lifecycle.** All races are between handlers of one chunk, or between a handler and
the daemon, so one chunk with two handlers and the daemon shows them; `chunks` adds the
only couplings between chunks, the shared initial row and the roll-up. `MaxJobs` is
`MaxRetries + 1` per chunk where only automatic retries happen, so ids never run out
before the budget, and one more in `outcomes`, so that a launch beyond the budget would be
seen; a manual retry needs one more. Two rows per chunk let an initial, an automatic and a
manual row be pending together with one in the daemon's hands. `users` and `crashes` have
no automatic retries: manual ones re-enter the same promotion path. A restart resets
everything that is not a table, so a second one starts from a state the first kind of run
already explores. When ids or rows are exhausted the actions that need one are disabled.

**Lease.** Three replicas let two compete for a lease that a third, dead or asleep, has lost. The
lengths are the smallest at which a lease survives a failed refresh and no more than one (1 * (2 + 1)
+ 2 < 6); two deaths let the successor die too.

**Watch.** The deadlines keep the code's order (heartbeat, grace and staleness before the age at which a
stall rule fires). Two frames separate "some" from "all". Each fault (a lost call, a
callback that raises, a failover, an outage, a vanished unit) meets every state of the rest.

**Upload.** Two frames are needed for a retry whose range leaves one out; two containers
for a double start, or for the attempt that outlives its job's failure. `MCWorkerUpload` also
defines a chunk of one frame with two files (`TwoFiles`), on which the same properties hold
(2.7 M states); none of them promises both files of a frame, see section 6.

**Machine.** One job and two overlapping requests give every order of the five writers of the
machine's status; the disturbance is a pause, a fault or a stray request. Two faults, or two jobs
and one, break `JobEnds` (section 6).

**Allocation.** Two offers of one GPU type under a cap of one: the marketplace shows more than may
be used. A Modal endpoint with two slots for one snapshot entry. A group whose last frame is out
of phase with its step and one of whose targets has a window too small for its share, so
that overflow is dealt on. Three attempts: the last must avoid where
the first failed, whatever the second failed of, and partial retries follow each other. A group submitted for a machine, which takes no other target. One
step of age is enough: a snapshot may expire at any time, in a tick too. One report is enough: it
may come in time or late, to any attempt, before or after its retry is planned and dispatched,
and two late ones meet nowhere, since a revived job holds no claim and parks nothing. An
execution has a report or a Redis failure and not both (`MaxTrouble` = 1): a report touches the jobs
table only, and what a failed call of Redis disturbs is the snapshot.

### Properties

`RenderLifecycle`:

- `AttemptDispatchedOnce`: no two job rows of one chunk have the same attempt number.
  Fails when the ledger release is not conditional on ownership. It does not hold with a
  user cancelling concurrently (section 6), nor is it meant to with manual retries, which
  restart at attempt 0.
- `RetryBudget`: at most `MaxRetries + 1` rows per chunk.
- `OneRunnerPerChunk`: with all handlers at rest a chunk has at most one active job.
- `LedgerNamesLiveJob` (with cancels of jobs and of the render): an owner is a job of that chunk being dispatched or active, or
  one whose cancel is still at work. Two paths break it and are left out of its runs: a crash
  (the formula is about `crashes = 0`), and an old agent's own report of `done`
  (`reportDone`), which writes the status and never releases. A dispatch that raised
  counts as `lost`, with its claim kept, as the code does.
- `OneDispatchPerChunk`, `NoSteal`: see the proofs.
- `PromiseKept`: `ChunkPromise!Spec` under the mapping of 2.1. A chunk is given up only with
  every launch spent, dropped only by a step of a teardown or of a handler that saw a
  closed group, and never un-rendered.
- `EventuallySettled`: `group` is eventually terminal for ever.

`MonitorLock`: `OneTicks`, `OwnerRuns` (a key never names a live replica whose loop has ended),
`Failover` (again and again some replica ticks).

`FleetMonitor`: `FailedForCause` (a job the monitor fails has given it cause in the present: a
closed group, a lost instance, a whole TTL of silence with Redis answering, no frame for the
stale window, its age; however old the tick's reading and whatever a failover
forgot); `CompleteNotFailed` (all frames in: not failed, but for a closed group, a broken
start, or a Vast row never promoted); `DestroyedOnlyWhenOver`; `JobSettles` (a job whose unit
its row knows, or that ended on Vast, ends with nothing rented). Not covered by `JobSettles`,
because the code does not cover it: a Modal row whose only report of running was lost, with
a worker that beats and does not render; a Modal call whose id was not saved.

`CommunityMachine`: `KilledForCause` (a job the agent holds is failed without a fault only on
the agent's word, or by one of three races: a claim sweep or an offline check that had read
before the agent acted, a resume or stray request that declares it idle); `JobEnds` (every
job ends, while the server serves the agent's requests one after the other);
`MachineComesBack` (a machine whose agent polls without a job is offered in the end and stays so).

`WorkerUpload`: `OneRenderer`, `RegisteredIsStored`, `TruncatedByKill` (half a file in the
store is what a killed Blender left), `FlushMakesUp` (a last flush without failure registers
the whole range, whatever failed before and whatever the background thread still does),
`DoneCoversChunk` (a job is done only when the whole chunk is registered, what its range
leaves out included).

`AllocationTick`: `CapKept` (the jobs a fleet has over its cap are those that a late report has
revived; that there are none would be false); `PlannedOncePerSnapshot` (while Redis answers, a snapshot promises
a machine or offer once and Modal no more than the room it had, over all ticks that use it);
`FramesConserved` (unless the planner warned, every frame is in one piece that is parked,
queued or dispatched, or was rendered by an attempt that a later one has taken over from: no range
is lost or handed out twice; a worker that renders on after its attempt was failed does so on
its own account); `FailedNotRepeated` (an attempt never goes where one of its chunk failed for a
reason of its own, unless a late report wrote over that failure; of failures by the
infrastructure see section 6); `EventuallyPlaced` (every row gets its
targets, except those whose every target is excluded).

## 4. Fairness

- `RenderLifecycle` (`settles`): `WF(Step(p))`, `WF(DaemonStep)`: a handler or a tick that
  started runs to its end; nothing in it waits for another. `SF(ListAll)`, `SF(Dequeue(j))`:
  the daemon loops over both phases in turn, so neither can be put off for ever although the
  other keeps disabling it. `SF(PlanSome)`: a target frees up again and again; an
  assumption on supply, which `EventuallyPlaced` looks into. `SF(Outcome(j))`: the monitors'
  deadlines are finite, so an active job is eventually reported (which `JobSettles` shows of
  one job); strong, because the one modelled handler may be busy each time.
  `SF(BeginAudit)`: the sweep visits the group at every interval. Uploads, users, crashes
  and reports are not fair.
- `MonitorLock` (`lease`): every replica's sweeper pokes `try_start`, or its daemon thread
  tries, again and again, so a free key is taken (`SF`, as others may take it first); loops go on,
  processes restart, time passes (`WF`). Nothing says a refresh succeeds.
- `FleetMonitor` (`watch`): the dispatch thread goes on or dies; the provider starts what a Modal
  call queued and reports what exited; a worker polls and beats but need not render or
  exit; the monitor ticks, the backup monitor is run by its scheduler; Redis comes back
  and time passes. A Vast instance need never start.
- `CommunityMachine` (`machine`): handlers, the allocator's started bookings, the agent's own
  thread, the monitor (`WF`); keys expire when nobody renews them (`WF` of the
  fault-free expiry only); a row stays pending longer than the claim timeout only if the
  sweep may see it, hence `SF(ReadStalePending)` with that row.
- `AllocationTick` (`allocation`): a due tick starts (`WF(TickStarts)`) and comes to its end
  (`[]<>(tick.at = "rest")`, which for ticks, all of them finite, says no more than weak fairness
  of their steps); jobs are reported and end; the key expires. `EventuallyPlaced` does not speak of
  users who ask for previews for ever: a tick that read a marked snapshot may write it over
  the fresh one a preview built in the meantime, each time (section 6).

## 5. Proofs

TLAPS proves twenty-eight theorems, for any values of the constants that satisfy the
modules' named assumptions (TLC evaluates these in every run). Where a theorem holds only
of some traffic, its statement says which: as an `ASSUME` about `Does`, the
operations each handler thread may start, or as `crashes = 0 =>` before the conclusion.
The runs that check the same property have that traffic.

**Lifecycle** (`RenderLifecycleProofs`, `AttemptProofs`; any chunks, threads, entry points, retry
limit, bounds and number of crashes; assumption `ConstantsOK`):

- **`TypeCorrect == Spec => []TypeOK`.** `TypeOK` is not inductive: `SetStatus(th[p].job,
  ..)` keeps the jobs' type only if the thread's job exists, and `CreateJob` only if the
  reserved id has a chunk. The invariant `Shape` adds `JobShape` (an id in use has a chunk)
  and `Fit(p)` for every thread: at a point where it works on a job, the job is in the
  table; a cancel's list holds jobs of the table; only the daemon is at the daemon's
  points; at the three points with a row in hand its job is `inhand`. Other threads'
  `Fit` survives because no step takes a row out of the table (`TableKept`) and only the
  daemon empties its hand (`HandKept`). `OneMoves` is that argument, once;
  `GotoMoves`, `ResetMoves`, `StartMoves` and `DaemonMoves` cover the ways a record
  changes; then one case per action.
- **`OneDispatch == Spec => []OneDispatchPerChunk`.** The strengthening is `DispatchInv`:
  a row in hand is the daemon's current one (`HeldByDaemon`), which rules out another at
  `Enqueue`; between the owner check and the INSERT the chunk still has no owner
  (`FreeToEnqueue`), because only the daemon claims. All steps but the daemon's own are
  `Calm`: they release claims, bring no row to the queue or the hand and leave the daemon
  away from the points in question; `CalmKeeps` handles them together.
- **`NeverStolen == Spec => NoSteal`.** From the same invariant: at the claim the row in
  hand is still unlaunched, so the chunk has no owner to replace.
- **`ClaimsAreLive`: `LedgerNamesLiveJob`, unless a worker writes its own `done`** (that
  path leaves the claim behind; section 6). `LedgerInv`: a claim's job is live or a
  cancel at work will release it (`Accounted`), and a handler past its release
  finds its job without the claim (`Disowned`). `OwnerFit` ties a claim to a job of its
  chunk; `OpFit` says at which points a thread of each operation can be.
- **`DispatchedOnce`: `AttemptDispatchedOnce`, and `WithinBudget`: `RetryBudget`, without
  single-job cancels and manual retries (`NoRestart`), before the first restart.** The
  argument is that the right to the next dispatch of a chunk is in one place. `Holders`
  lists the places: a row of `pending_allocation_queue` or of the tick's list,
  for the chunks still to be enqueued; a `dispatch_queue` row or one in hand; the claim of
  a job; the handler that released that claim and has not parked yet. `HolderInv` has four
  parts: two holders of a chunk are the same (`OneHolder`); a holder's attempt is ahead of
  all that were dispatched (`NextAttempt`); attempts stay within the budget (`Capped`);
  no two dispatched jobs share chunk and attempt (`BegunOnce`). A step passes a right on,
  adds none or loses it; the ledger release is the one that could duplicate it,
  and its compare-and-set lets one handler through. A cancel releases unconditionally and a
  manual retry parks beside whatever is there: each breaks `OneHolder`, and TLC shows both
  breaking `AttemptDispatchedOnce`. So does a crash between the INSERT of one row and the
  DELETE of the other.
- **`OneRunner`: `OneRunnerPerChunk`, under the same conditions and with no status
  written by a worker or a promotion.** `RunnerInv`: a job that is active and at whose end no thread is
  at work owns the chunk's only right, and there is one. Reports are excluded because one that
  passed the terminal check writes `running` over a `failed` that came in between (the
  router's check and the repository's write are two statements).
- **`PromiseImplemented`: `PromiseKept`, that is `ChunkPromise`, under `Undisturbed`**
  (monitors, workers and sweeps; no dispatch that raises, no restart). `PhaseOf` is the
  refinement mapping; one lemma per action shows that each chunk's phase stays or makes
  the abstract step. On top of `HolderInv`: `ChainInv`, attempts are numbered without
  gaps, so that a chunk given up really had its whole budget of launches; `PromiseInv`,
  a row with chunks to enqueue is ahead of every launch (`RowsAhead`), a row is deleted
  only when its chunks went to `dispatch_queue` or in a teardown (`Promoted`), a job
  on its way to launch has its claim (`ClaimHolds`), success is only decided of rendered chunks
  (`DoneRendered`). A by-product, `NoOwnerFound`: under these conditions the pending phase's owner
  check never finds an owner. It is there for cancels, manual retries and restarts only.
  What `Undisturbed` excludes does not keep the promise step by step: a cancel or a retry revives a
  chunk at any point of its life, and a raised dispatch or a restart can lose the row in hand, after
  which a chunk is given up below its budget.

**Lease** (`MonitorLockProofs`; any replicas, lengths, failures and deaths; assumptions
`LockConstants` and `LeaseOutlivesTick`):

- **`OneTicker == Spec => []OneTicks`, `NoIdleOwner == Spec => []OwnerRuns`.** That two do not
  tick at once follows from who holds the key, and that from time: `Used(r)` bounds the
  time since `r` last set the lease by the refreshes that failed since (`blips`), one cycle
  each, and by what has passed of the present tick or sleep. `LeaseInv` says a ticking replica
  holds the key with `ttl + Used(r) >= TTL`, and so does a sleeping or due one that may still
  fail a refresh. `TickFits` turns `LeaseOutlivesTick` into `Used(r) < TTL` during a
  tick, so the key cannot run out under it; one whose refreshes have used up their failures
  learns the truth at the next. `LockTypes == Spec => []TypeOK` comes with it. Both `OneDispatch` and `FleetCaps` rest on one daemon,
  which is this theorem.

**Fleet monitors** (`FleetMonitorProofs`; any ages, windows, capacities, fleets and faults;
assumption `FleetConstants`):

- **`FleetTypes == Spec => []TypeOK`.** With `UnitFit` (what was scanned or linked is a
  unit that once existed) and `QuietFit` (the monitor counts no frame that is not there, and
  its patience with the next one is not longer than that frame has been due), this is `FleetInv`, the
  invariant the others use.
- **`CauseGiven == Spec => FailedForCause` and `CompleteStands == Spec => CompleteNotFailed`.**
  Both are about `_inspect`'s ordered blocks: `VastVerdict` and `ModalVerdict` say that a
  verdict is that of the first block that applies. For the first, each failing block
  implies a cause; what the monitor remembers can only be younger than the
  truth, which is `QuietFit`. For the second, of a finished chunk on a running row no
  failing block comes before the completion block but the two that are excused.
- **`NoLiveUnitDestroyed == Spec => DestroyedOnlyWhenOver`**, for a minimum ghost age above
  zero: the age gate keeps the sweep off a unit whose id is not saved yet.

**Lent machine** (`CommunityMachineProofs`; any jobs, TTLs, tick lengths; assumption
`MachineConstants`):

- **`MachineTypes == Spec => []TypeOK`**, with `AgentFit`: an agent at work has a job.
- **`AgentKeepsItsJob == Spec => KilledForCause`.** `CauseInv`: the agent's job was
  claimed by a poll (`GivenFit`), so the claim sweep that reads it later leaves it alone;
  until a request strays or the operator pauses, the server works on one request of the agent at
  most (`OneCall`), so nothing declares a working agent idle; and until the first fault the alive
  key or the job's heartbeat says that it lives, without a gap between the
  last poll and the first beat (`SignOfLife`), so the offline check has its evidence.

**Uploads** (`WorkerUploadProofs`; any containers, files and faults; assumption
`UploadConstants`):

- **`UploadTypes == Spec => []TypeOK`.** Every batch is a set of files because
  what a scan takes is on disk (`CandidatesAreFiles`), and the range of a job has a first file
  (`FirstFileExists`, from the well-foundedness of the naturals, `MinIsLeast`).
- **`NothingUnstored == Spec => []RegisteredIsStored`.** `StoredInv`: what a thread is about to
  register is in the store. A PUT precedes its registration within a thread, and objects
  are never deleted.
- **`ChunkCovered == Spec => []DoneCoversChunk`.** `RangeInv`: the frames before a job's range
  are registered, from the moment the retry takes the first missing frame as its start.
- **`SoleRenderer == Spec => []OneRenderer`.** `ClaimInv`: a Modal container past its claim
  either had no answer or put the key there itself, and no two did; a Vast container starts
  only when the ones before it stopped, and a lent machine never twice.
- **`TruncationNeedsKill == Spec => []TruncatedByKill`.** `DiskInv`: Blender runs only
  while the container renders (`StageFit`); a thread's batch holds whole files of its own disk, or
  the one that a kill cut short (`BatchFit`); a disk outlives the container's part in the chunk.
  That a scan of a running Blender takes no half-written file is the stability check of the
  uploader, of which this is the use.
- **`FlushSuffices == Spec => []FlushMakesUp`.** Marks are only set for what is registered
  (`MarkFit`); after a render that ended well, a flush without a failure leaves every file of the range
  marked, and no later step of the other thread takes a mark away (`FlushFit`).

**Allocation** (`AllocationTickProofs`, `PlannerProofs`; any machines, offers, endpoints,
groups, rankings, speeds, windows, failures and faults; assumptions `PlannerConstants`, that a
target has one kind and an endpoint one place; `TickConstants`, that a ranking lists no target
twice; and `SceneConstants`, that a group has at least one frame and a positive step, which
`services/pre_render/frame_range_resolver.py:50` and `services/render_groups/service.py:245` see
to, and that a target's speed is positive and its window a number of frames, as
`_distribute_time_balanced` computes them):

- **`FleetCaps == Spec => []CapKept`.** `CapInv`: the jobs table is finite, its rows are records with
  their columns, and no fleet has more rows that stand than its cap. Only `Dispatch` adds one, under its
  guard, which counts the revived ones too (`DispatchKeeps`, `OneMore`); the other steps that touch the
  table write over a row of the same fleet, and the new one stands only if the old one did
  (`BecomeKeeps`): a late report does not make a row stand again. No property of the
  snapshot is used: however stale it is, the dispatcher counts in the step that creates the row.
- **`PromisedOnce == Spec => []PlannedOncePerSnapshot`.** `SnapInv`: while Redis answers, a
  machine or offer that a snapshot in use still lists has had nothing planned on it, and
  Modal's headroom by the snapshot is no more than the room left of it (`Sound`). The cached
  copy is only sound of itself while no tick holds a copy of it: during the tick it may list what
  the tick has planned since, which does no harm because nobody else plans and the tick writes
  over it (`CacheSound`). That a plan fits its snapshot is a chain of lemmas about the planner:
  the ranking offers a machine or offer in one slot and each turn of Modal's headroom to one
  endpoint (`DealtOnce`, `ListedOffered`); the choice gives distinct turns to slots that were
  offered (`SelectTurns`); hence so do the shares and a retry (`SharesPlanned`,
  `RetryPlanned`, `PlansPlanned`); and marking such a plan keeps the snapshot sound
  (`MarkSound`).
- **`NeverBack == Spec => []FailedNotRepeated`.** `FailInv`: what is left to do of a chunk is in one
  piece, a parked row, a queued task or a job that stands (`OnePiece`), whose attempt is the last
  (`LastAttempt`); only such a job holds its chunk (`Claimed`), so that a revived one parks
  nothing; a parked row excludes what its chunk failed on (`Excluded`); a group not yet shared out is one row and nothing else (`OneRow`), so that fresh chunk numbers
  meet no old job. A retry takes a target outside the row's exclusions in each branch
  of the planner, and between the row and the job nothing else of the chunk can fail.
- **`TickTypes == Spec => []TypeOK`.** That a chunk has at least one frame, and a row parked by a
  failure too, is not inductive: it needs `Typed`, which says where the frames are.
  Every row, task and job lies in its group's range and starts on a frame of it (`Lies`,
  `Within`), and its count leaves none of its frames out unless the group is short (`Tight`).
- **`FramesKept == Spec => []FramesConserved`.** `Parted`: of a group that is not short every
  frame has one holder and no more. An attempt that a later one of its chunk has taken over from
  holds the frames it made, everything else all its frames (`Superseded`, `Held`); late reports and what
  follows them change neither, since the frames a revived job goes on to render are not of its account
  (`GoesParts`).
  `FramesConserved` is `Typed` and `Parted` (`PartedConserves`). A step takes one item and puts
  others in its place which hold its frames between them (`Swapped`): a queued task becomes a
  job (`Passed`, since it is the last attempt, `Newest`), a job goes on and holds what it held
  (`Replaced`), a failed job keeps what it made and the new row has the rest (`FailParts`), a
  group's row becomes its chunks
  (`PromoteParts`). The last rests on what the planner returns for any plan, in `PlannerProofs`:
  the sum of the counts is the row's count or all that the windows hold, whichever is less
  (`CountsSum`, from `BalancedSum`: rounding down leaves fewer frames than there are slots; and
  `FittedSum`: what is taken from one slot is given to another as long as there is room); and
  chunks dealt one after another from the row's first frame, each with its count, cut the row's
  range into disjoint ranges (`Segments`, `SharesFrames`). Sums over a finite set are reduced to
  cardinalities of disjoint unions (`SumIsSize`), which the library's theorems about finite sets
  apply to; induction is only on subsets of a finite set (`SubsetInduction`), for a property
  given as a set of them.

Model-checked only: the liveness properties (`EventuallySettled`, `Failover`, `JobSettles`,
`JobEnds`, `MachineComesBack`, `EventuallyPlaced`). They hold under fairness, which is out of
the prover's reach. The properties with crashes, cancels or manual retries excluded from a
theorem above are false or unknown there: `users` and `crashes` check what does hold of that
traffic.

## 6. Where code and comments disagree

Each of two runs violates one property that a comment or docstring states; PROJECT.json
quotes it.

- `early_done`: `all_done` looks at inserted rows only, so a group is done while a chunk is
  still queued, and the releaser then drains that chunk.
- `revived`: a monitor's promotion reads a row pending; the canceler marks every row, drains,
  releases and returns; the promotion then writes `running` over the cancelled row.
  `CancelledIsFinal` is about the time after the canceler has returned, with every row terminal.

Seen while modelling, and not the subject of a run.

*Lifecycle.* A success and a failure that both passed the terminal check overwrite each other: a
job goes from done to failed. Reconcile reads jobs, then pending, then dispatch; a row that
moves past it is seen nowhere and the group is written failed with its retry in flight.
Cancel releases unconditionally, and a concurrent failure of the same job has parked or
dispatched its retry already: the attempt is dispatched twice. Every frame in and the last
job cancelled: no branch of the roll-up applies and the audit holds the group active for
ever. A manual retry's flip to pending can be undone by a reconcile or audit between the
flip and the park, after which the daemon's guard drops the row. `drain_group` empties
`dispatch_queue` before `pending_allocation_queue`, so the daemon can refill the former in
between. A worker's own `done` leaves the chunk claimed.

*Lent machines.* `JobEnds` needs the server to serve an agent's requests one after the other.
If a poll that timed out is still in the server when the next arrives, or a resume's
`set_available` races a poll, a running job can be left on a machine written `available`,
which the self-heal of the next poll (`services/jobs/service.py:405`) does not look at. The
same happens when a handler dies between the claim and the lock. `strategy.py:97-101`
says the lock closes the window in which two bookings meet; a second one can be planned
when that self-heal reopens the machine before the first is claimed. The group-terminal
check at `fleets/community/community_monitor.py:291-304` concerns rows that its query does
not return; `is_complete` at line 349 is given no frame range and never suppresses a
verdict; lines 334-335 name the backup monitor, which does not visit this fleet. An image
download of more than 90 s before the first beat fails the job as offline.

*Uploads.* A File Output node's file is counted for its frame before the main file of the
frame exists (`output_frame_repository.py:102`), so a job may be done with the main file
missing. `src/agent/agent.py:1590-1605` announces a `done` PUT that lines 1675-1679 say is not made.

*Allocation.* When the chosen targets' windows hold fewer frames than the group has, the
last share still ends at the group's last frame while its `total_frames` is the clamped count, so the
job completes early; or the last target gets no share and the trailing frames are in no chunk.
The planner's comment leaves this to higher layers to re-plan, and nothing does; its
tests assume exact tiling (`FramesConserved` is about the other groups). Modal's per-GPU cap
decides what a snapshot lists and not how many slots of it are planned. Marking a
Vast or Modal task removes its whole GPU type, which hides free capacity until the
snapshot expires. A rebuild does not see `dispatch_queue`, so an offer or machine can be
planned for two chunks by two snapshots. Exclusions that cover every capability park a
retry for ever. A late report of running revives an ended job, and its fleet may be over its cap for as long
as it lives. `anti_affinity_service.py:16-24` says that failures of the infrastructure are held against
no target and the chunk's next retry sees the full pool. The failing row joins its siblings as it was
read, before its error is written (`anti_affinity_facade.py:58`, `lifecycle.py:321`), so the filter
does not know it and its target is excluded from that retry (a later one builds its exclusions
anew and skips it): `FailedNotRepeated` is about the other failures. A retry of a group submitted for certain machines ignores them. `get_or_build` logs
"without caching" after a failed read and goes on to write. A tick may persist a marked
snapshot over a fresh one that a preview has built since (`XX` sees a key, not whose).

## 7. What is not modelled

- Within the modelled parts: telemetry, terminal snapshots and the dashboards' snapshots; provider
  arguments; the scores, speeds and windows the planner reads (parameters); the engine and
  commitment filters; registration of a machine's specs; Docker, preflight and tray of the
  agent; input download and GPU choice of the workers. Partial chunks in
  `RenderLifecycle`: a retry of the missing frames is a retry of the chunk there, and a range
  in `WorkerUpload` and `AllocationTick`.
- Several groups at once, except as competitors for capacity in `AllocationTick`'s rows:
  they share nothing else. Fairness between groups (priorities) only orders a tick's rows, and
  the model takes them in any order.
- Deletion of a render, and a group still uploading, which never reaches these components.
- Cost and spend: arithmetic over rows, read by people and by the scores.
- The HTTP API, previews, admin and infrastructure (`bootstrap.py`, repositories' plumbing, provider
  clients, LLM): requests in, rows out, no state of their own between two requests.
- `src/frontend`, `src/desktop`, `src/render_scripts`: user interface and scripts run inside
  Blender. `src/server` and `src/reference_only`: the first version of the service and material kept
  for reference, which the deployed coordinator does not import. `src/scripts`, `src/infra`,
  `src/plans`: operations.

These last groups are most of the repository's lines, so the models stand for a small share of
them, and for nearly all of the code in which two parties can disagree about the state of
a render.

## 8. Plan

Done: `RenderLifecycle` and its proofs, `ChunkPromise` and the refinement, `MonitorLock`,
`FleetMonitor`, `CommunityMachine`, `WorkerUpload`, `AllocationPlanner` and `AllocationTick`.

The proofs of section 5 cover every safety property of these modules.

Next, in order of importance:

1. Two machines in `CommunityMachine`, for a chunk that moves from one to the other.
2. The estimates behind the scores, windows and costs, as functions against reference
   definitions, with their units and rounding.
