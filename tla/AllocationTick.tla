------------------------------ MODULE AllocationTick ------------------------------
(***************************************************************************)
(* The allocation daemon at work: rows parked by submissions and failures, *)
(* the dispatch queue, and the availability snapshot.  The snapshot is     *)
(* built from the live tables, kept in Redis for a minute, copied by each  *)
(* tick, marked with what the tick plans, and written back.                *)
(*                                                                         *)
(* One daemon ticks (MonitorLock).  The steps of a failure, cancels and    *)
(* the group's status are RenderLifecycle's; here a chunk has one attempt  *)
(* at a time, but for those that a late report of their worker revives.    *)
(***************************************************************************)
EXTENDS AllocationPlanner

CONSTANTS
  Groups,     \* Groups[g]: frames of the group and what is known of its scene
  Rankings,   \* orders the scores may put the targets in
  GpuCap,     \* per_gpu_max_parallel of Modal
  MaxGroups,  \* bound: groups submitted
  MaxTargets, \* the most chunks made of a group
  MaxRetries,
  Life,       \* bound: steps of age after which a snapshot has expired
  MaxFailures, \* bound: attempts that fail
  MaxFaults,  \* bound: reads and writes of Redis that fail
  MaxTrouble  \* bound: these and the attempts that are reported to run, together

ASSUME TickConstants ==
  /\ {MaxGroups, MaxRetries, MaxFailures, MaxFaults, MaxTrouble} \subseteq Nat
  /\ {MaxTargets, Life} \subseteq Nat \ {0}
  /\ \A f \in Fleet : Cap[f] \in Nat
  /\ \A rank \in Rankings : rank \in Seq(Target) /\ IsInjective(rank)

\* A group has frames to render, and every target a speed and a window.
ASSUME SceneConstants ==
  \A g \in DOMAIN Groups :
    /\ Groups[g].first \in Int /\ Groups[g].last \in Int /\ Groups[g].first <= Groups[g].last
    /\ Groups[g].step \in Nat \ {0}
    /\ \A t \in Target : Groups[g].weight[t] \in Nat \ {0} /\ Groups[g].window[t] \in Nat

VARIABLES
  pending,  \* rows of pending_allocation_queue
  queue,    \* tasks in dispatch_queue
  jobs,     \* the jobs rows
  claims,   \* in_progress_chunks: the attempts that hold their chunk
  cache,    \* the snapshot in Redis, and the age it has left
  tick,     \* the daemon's tick: where it is, and its copy of the snapshot
  spent,    \* of each snapshot, what has been planned on it since it was built, and
            \* what that leaves of Modal's room
  short,    \* groups the planner has warned about: frames that fit nowhere
  faults

vars == <<pending, queue, jobs, claims, cache, tick, spent, short, faults>>

Group  == DOMAIN Groups
Build  == {1, 2}      \* names of snapshots: one in the cache, one in a tick
Rented == {"vast", "modal"}
Fleets == <<"community", "modal", "vast">>

Snapshot == [avail : SUBSET Target, inflight : [Rented -> Nat], build : Build]
NoSnapshot == [avail |-> {}, inflight |-> [f \in Rented |-> 0], build |-> 1]
Expired == [left |-> 0, snap |-> NoSnapshot]
Unspent == [on |-> [t \in Machine \cup Offer |-> 0], room |-> 0]
Rest == [at |-> "rest", full |-> {}, snap |-> NoSnapshot, rows |-> {}]

Live(j)    == j.status \in {"pending", "running"}
\* Live since it was dispatched: no late report has revived it.
Stands(j)  == Live(j) /\ j.report # "late"
On(t)      == {j \in jobs : Live(j) /\ j.target = t}
OnFleet(f) == {j \in jobs : Live(j) /\ FleetOf(j.target) = f}
Active(f)  == Cardinality(OnFleet(f))
Id(j)      == <<j.group, j.chunk, j.attempt>>
Frames(p)  == FramesOf(p.first, p.last, Groups[p.group].step)

Row == [group : Group, chunk : Nat, attempt : 0..MaxRetries, first : Int, last : Int,
        count : Nat \ {0}, avoid : SUBSET {Key(t) : t \in Target}]
Task == [group : Group, chunk : Nat \ {0}, attempt : 0..MaxRetries, target : Target,
         first : Int, last : Int, count : Nat \ {0}]
Job == [group : Group, chunk : Nat \ {0}, attempt : 0..MaxRetries, target : Target,
        first : Int, last : Int, count : Nat \ {0}, made : Nat,
        status : {"pending", "running", "done", "failed", "infra"},
        report : {"none", "begun", "written", "late"}]

TypeOK ==
  /\ pending \subseteq Row /\ queue \subseteq Task /\ jobs \subseteq Job
  /\ claims \subseteq {Id(j) : j \in jobs}
  /\ cache.left \in 0..Life /\ cache.snap \in Snapshot
  /\ tick.at \in {"rest", "drain", "plan"} /\ tick.full \subseteq Fleet
  /\ tick.snap \in Snapshot /\ tick.rows \subseteq pending
  /\ spent \in [Build -> [on : [Machine \cup Offer -> Nat], room : Int]]
  /\ short \subseteq Group /\ faults \in 0..MaxFaults

Init ==
  /\ pending = {} /\ queue = {} /\ jobs = {} /\ claims = {}
  /\ cache = Expired
  /\ tick = Rest
  /\ spent = [b \in Build |-> Unspent]
  /\ short = {} /\ faults = 0

Trouble == faults + Cardinality({j \in jobs : j.report # "none"})
Fault == faults < MaxFaults /\ Trouble < MaxTrouble /\ faults' = faults + 1
Fine  == UNCHANGED faults

-----------------------------------------------------------------------------
\* submit_initial parks one row for the group.
Submit(g) ==
  /\ LET known == {p.group : p \in pending \cup queue \cup jobs}
     IN g \notin known /\ Cardinality(known) < MaxGroups
  /\ pending' = pending \cup
       {[group |-> g, chunk |-> 0, attempt |-> 0, first |-> Groups[g].first,
         last |-> Groups[g].last, avoid |-> {},
         count |-> Cardinality(FramesOf(Groups[g].first, Groups[g].last, Groups[g].step))]}
  /\ UNCHANGED <<queue, jobs, claims, cache, tick, spent, short, faults>>

-----------------------------------------------------------------------------
\* The builder: machines, offers and endpoints free by the jobs rows.  A task in
\* the queue has no jobs row yet.
Free(f) ==
  CASE f = "community" -> {m \in Machine : On(m) = {}}
    [] f = "vast"  -> IF Active("vast") >= Cap["vast"] THEN {} ELSE {o \in Offer : On(o) = {}}
    [] f = "modal" -> IF Active("modal") >= Cap["modal"] THEN {}
                      ELSE {e \in Endpoint : Cardinality(On(e)) < GpuCap}

Built(b) == [avail |-> UNION {Free(f) : f \in Fleet},
             inflight |-> [f \in Rented |-> Active(f)], build |-> b]

\* The snapshots in the cache and in the tick.  A new one takes a name not in use.
InUse == (IF cache.left > 0 THEN {cache.snap.build} ELSE {})
         \cup (IF tick.at = "rest" THEN {} ELSE {tick.snap.build})

Fresh == Built(CHOOSE b \in Build : b \notin InUse)

Opened(b) ==
  spent' = [spent EXCEPT ![b] =
    [Unspent EXCEPT !.room = Larger(0, Cap["modal"] - Active("modal"))]]

\* What is forgotten with the snapshots nobody has any more.
Forget == spent' = [b \in Build |-> IF b \in InUse' THEN spent[b] ELSE Unspent]

\* get_or_build: the cached snapshot; or, when it has expired or the read fails, a new
\* one, and the write that caches it may fail as well.
GetOrBuild(snap) ==
  \/ cache.left > 0 /\ snap = cache.snap /\ UNCHANGED <<cache, spent>> /\ Fine
  \/ /\ snap = Fresh /\ Opened(snap.build)
     /\ \/ cache.left = 0 /\ cache' = [left |-> Life, snap |-> snap] /\ Fine
        \/ cache.left > 0 /\ cache' = [left |-> Life, snap |-> snap] /\ Fault
        \/ UNCHANGED cache /\ Fault

\* A dry run or the list of available machines, in a request's thread: it builds and
\* caches a snapshot, over the one there is if it found none before that was written.
Preview ==
  /\ LET snap == Built(CHOOSE b \in Build : tick.at = "rest" \/ b # tick.snap.build)
     IN cache' = [left |-> Life, snap |-> snap] /\ Opened(snap.build) /\ Fine
  /\ UNCHANGED <<pending, queue, jobs, claims, tick, short>>

\* The key in Redis grows older, at any time.
Age ==
  /\ cache.left > 0
  /\ cache' = IF cache.left = 1 THEN Expired ELSE [cache EXCEPT !.left = @ - 1]
  /\ UNCHANGED tick /\ Forget
  /\ UNCHANGED <<pending, queue, jobs, claims, short, faults>>

-----------------------------------------------------------------------------
\* A tick: nothing to do, no tick.
TickStarts ==
  /\ tick.at = "rest" /\ pending \cup queue # {}
  /\ \E snap \in {cache.snap, Fresh} :
       /\ GetOrBuild(snap)
       /\ tick' = [Rest EXCEPT !.at = "drain", !.snap = snap]
  /\ UNCHANGED <<pending, queue, jobs, claims, short>>

Queued(f) == {k \in queue : FleetOf(k.target) = f}

\* The fleets that have tasks waiting and have not been found full, in order.
ToDrain == SelectSeq(Fleets, LAMBDA f : Queued(f) # {} /\ f \notin tick.full)
Turn(f) == tick.at = "drain" /\ ToDrain # << >> /\ f = Head(ToDrain)

\* Slip: the fleet's jobs are counted once, with the snapshot.
DispatchBySnapshot(k) ==
  LET f == FleetOf(k.target) IN
  /\ Turn(f)
  /\ IF f \in Rented THEN tick.snap.inflight[f] < Cap[f] ELSE Active(f) < Cap[f]
  /\ queue' = queue \ {k}
  /\ jobs' = jobs \cup {[group |-> k.group, chunk |-> k.chunk, attempt |-> k.attempt,
       target |-> k.target, first |-> k.first, last |-> k.last, count |-> k.count,
       made |-> 0, status |-> "pending", report |-> "none"]}
  /\ claims' = claims \cup {Id(k)}
  /\ UNCHANGED <<pending, cache, tick, spent, short, faults>>

\* process(fleet): while the fleet has room, one task becomes a jobs row.
Dispatch(k) ==
  /\ Turn(FleetOf(k.target)) /\ Active(FleetOf(k.target)) < Cap[FleetOf(k.target)]
  /\ queue' = queue \ {k}
  /\ jobs' = jobs \cup {[group |-> k.group, chunk |-> k.chunk, attempt |-> k.attempt,
       target |-> k.target, first |-> k.first, last |-> k.last, count |-> k.count,
       made |-> 0, status |-> "pending", report |-> "none"]}
  /\ claims' = claims \cup {Id(k)}
  /\ UNCHANGED <<pending, cache, tick, spent, short, faults>>

FleetFull(f) ==
  /\ Turn(f) /\ Active(f) >= Cap[f]
  /\ tick' = [tick EXCEPT !.full = @ \cup {f}]
  /\ UNCHANGED <<pending, queue, jobs, claims, cache, spent, short, faults>>

ListRows ==
  /\ tick.at = "drain" /\ ToDrain = << >>
  /\ tick' = [tick EXCEPT !.at = "plan", !.full = {}, !.rows = pending]
  /\ UNCHANGED <<pending, queue, jobs, claims, cache, spent, short, faults>>

\* affinity_for_group: where a job of the group has started, whatever became of it.
Liked(g) == {Key(j.target) : j \in {i \in jobs : i.group = g /\ i.report \in {"written", "late"}}}

\* Whether the windows of the slots chosen hold all the frames: the planner's warning,
\* when they do not.
HoldsAll(turn, row) ==
  LET window == [s \in DOMAIN turn |-> Groups[row.group].window[s.target]]
  IN Sum(window, DOMAIN turn) >= row.count

\* What the planner may make of a row.
PlansOf(row) ==
  LET scene   == Groups[row.group]
      \* a group submitted for certain machines takes no others, but its retries may
      among   == IF row.chunk = 0 /\ scene.only # {} THEN scene.only ELSE Target
      Scored  == {Eligible(tick.snap, rank, among, scene.fits) : rank \in Rankings}
      Chosen  == UNION {InitialTargets(s, Smaller(MaxTargets, row.count)) : s \in Scored}
      Retries == UNION {RetryTarget(row, s, Liked(row.group)) : s \in Scored}
  IN IF row.chunk = 0
     THEN {[tasks |-> Shares(turn, row, scene.step, FrameCounts(turn, row.count, scene)),
            fits  |-> HoldsAll(turn, row)] : turn \in Chosen}
     ELSE {[tasks |-> {[group |-> row.group, chunk |-> row.chunk, attempt |-> row.attempt,
                        target |-> t, first |-> row.first, last |-> row.last,
                        count |-> row.count]},
            fits  |-> TRUE] : t \in Retries}

\* Slip: only what was planned on Vast is marked.
MarkedVastOnly(snap, tasks) ==
  [snap EXCEPT
    !.avail = {t \in @ : \A k \in tasks : Key(k.target) # Key(t) \/ t \notin Offer},
    !.inflight["vast"] = @ + Cardinality({k \in tasks : FleetOf(k.target) = "vast"})]

\* mark_planned_dispatched: a machine goes, or every target of the GPU type, and
\* the fleet has one more in flight.
Marked(snap, tasks) ==
  [snap EXCEPT
    !.avail = {t \in @ : \A k \in tasks : Key(k.target) # Key(t)},
    !.inflight = [f \in Rented |->
                    @[f] + Cardinality({k \in tasks : FleetOf(k.target) = f})]]

Spend(tasks) ==
  spent' = [spent EXCEPT ![tick.snap.build] =
    [on   |-> [t \in Machine \cup Offer |-> @.on[t] + Cardinality({k \in tasks : k.target = t})],
     room |-> @.room - Cardinality({k \in tasks : FleetOf(k.target) = "modal"})]]

\* _try_promote: plan, enqueue, mark, delete the row.
Promote(row) ==
  /\ tick.at = "plan" /\ row \in tick.rows
  /\ \E plan \in PlansOf(row) : LET tasks == plan.tasks IN
       /\ tasks # {}
       /\ queue' = queue \cup tasks
       /\ tick' = [tick EXCEPT !.snap = Marked(@, tasks), !.rows = @ \ {row}]
       /\ Spend(tasks)
       /\ short' = IF plan.fits THEN short ELSE short \cup {row.group}
  /\ pending' = pending \ {row}
  /\ UNCHANGED <<jobs, claims, cache, faults>>

\* No target: the row stays parked.
Postpone(row) ==
  /\ tick.at = "plan" /\ row \in tick.rows
  /\ PlansOf(row) = {} \/ \E plan \in PlansOf(row) : plan.tasks = {}
  /\ tick' = [tick EXCEPT !.rows = @ \ {row}]
  /\ UNCHANGED <<pending, queue, jobs, claims, cache, spent, short, faults>>

\* Slip: the snapshot is written as a new one is.
PersistAnew ==
  /\ tick.at = "plan" /\ tick.rows = {}
  /\ tick' = Rest
  /\ \/ cache' = [left |-> Life, snap |-> tick.snap] /\ Fine
     \/ cache.left > 0 /\ cache.snap # tick.snap /\ UNCHANGED cache /\ Fault
  /\ Forget
  /\ UNCHANGED <<pending, queue, jobs, claims, short>>

\* persist: XX, so an expired key stays away, and KEEPTTL, so it gets no younger.
Persist ==
  /\ tick.at = "plan" /\ tick.rows = {}
  /\ tick' = Rest
  /\ \/ /\ cache' = IF cache.left > 0 THEN [cache EXCEPT !.snap = tick.snap] ELSE cache
        /\ Fine
     \/ cache.left > 0 /\ cache.snap # tick.snap /\ UNCHANGED cache /\ Fault
  /\ Forget
  /\ UNCHANGED <<pending, queue, jobs, claims, short>>

-----------------------------------------------------------------------------
\* The jobs, by whichever worker and monitor.
Become(j, new) == jobs' = (jobs \ {j}) \cup {new}

\* A report "running" of the worker or the monitor: the row is read ...
BeginReport(j) ==
  /\ Live(j) /\ j.report = "none" /\ Trouble < MaxTrouble
  /\ Become(j, [j EXCEPT !.report = "begun"])
  /\ UNCHANGED <<pending, queue, claims, cache, tick, spent, short, faults>>

\* ... and written, whatever has become of it: an attempt that has ended runs again.
WriteReported(j) ==
  /\ j.report = "begun"
  /\ Become(j, [j EXCEPT !.status = "running",
                         !.report = IF Live(j) THEN "written" ELSE "late"])
  /\ UNCHANGED <<pending, queue, claims, cache, tick, spent, short, faults>>

\* handle_chunk_succeeded: the chunk's claim goes, whichever attempt holds it.
Finish(j) ==
  /\ Live(j)
  /\ Become(j, [j EXCEPT !.status = "done"])
  /\ claims' = {c \in claims : c[1] # j.group \/ c[2] # j.chunk}
  /\ UNCHANGED <<pending, queue, cache, tick, spent, short, faults>>

\* build_exclusions: every failed attempt of the chunk counts, but those the
\* infrastructure is to blame for.  The failing row, read before its error is
\* written, always counts.
Exclusions(j) ==
  {Key(i.target) : i \in {i \in jobs : /\ i.group = j.group /\ i.chunk = j.chunk
                                       /\ i.status = "failed" \/ i = j}}

Parked(j, n) ==
  LET first == j.first + n * Groups[j.group].step
  IN {[group |-> j.group, chunk |-> j.chunk, attempt |-> j.attempt + 1,
       first |-> first, last |-> j.last,
       count |-> (j.last - first) \div Groups[j.group].step + 1,
       avoid |-> Exclusions(j)]}

Failures == Cardinality({i \in jobs : i.status \in {"failed", "infra"}})

\* Slip: the chunk is parked again though nothing of it is missing.
FailComplete(j, n, status) ==
  /\ Live(j) /\ Failures < MaxFailures
  /\ (j.status = "pending" => n = 0) /\ (status = "infra" => FleetOf(j.target) \in Rented)
  /\ claims' = claims \ {Id(j)}
  /\ Become(j, [j EXCEPT !.status = status, !.made = IF Id(j) \in claims THEN n ELSE @])
  /\ pending' = pending \cup
       (IF Id(j) \in claims /\ j.attempt < MaxRetries THEN Parked(j, n) ELSE {})
  /\ UNCHANGED <<queue, cache, tick, spent, short, faults>>

\* handle_chunk_failed, with n frames rendered: if the attempt holds its chunk, what is
\* missing is parked again, from the first missing frame to the end of the chunk.
Fail(j, n, status) ==
  /\ Live(j) /\ Failures < MaxFailures
  /\ (j.status = "pending" => n = 0) /\ (status = "infra" => FleetOf(j.target) \in Rented)
  /\ n < j.count
  /\ claims' = claims \ {Id(j)}
  /\ Become(j, [j EXCEPT !.status = status, !.made = IF Id(j) \in claims THEN n ELSE @])
  /\ pending' = pending \cup
       (IF Id(j) \in claims /\ j.attempt < MaxRetries THEN Parked(j, n) ELSE {})
  /\ UNCHANGED <<queue, cache, tick, spent, short, faults>>

-----------------------------------------------------------------------------
Failing ==
  \E j \in jobs : \E n \in 0..j.count, status \in {"failed", "infra"} : Fail(j, n, status)

Tick ==
  \/ TickStarts \/ ListRows \/ Persist
  \/ (\E k \in queue : Dispatch(k)) \/ (\E f \in Fleet : FleetFull(f))
  \/ (\E row \in tick.rows : Promote(row) \/ Postpone(row))

Work == \E j \in jobs : BeginReport(j) \/ WriteReported(j) \/ Finish(j)

Next ==
  \/ Tick \/ Work \/ Failing \/ Preview \/ Age
  \/ \E g \in Group : Submit(g)

Spec == Init /\ [][Next]_vars
\* A tick that is due starts and comes to its end; jobs start and end; keys expire.
FairSpec ==
  Spec /\ WF_vars(TickStarts) /\ []<>(tick.at = "rest") /\ WF_vars(Work) /\ WF_vars(Age)

-----------------------------------------------------------------------------
\* The jobs a fleet has over its cap are those that a late report has revived, whatever
\* was planned, failed and planned again since the snapshot was built: update_status
\* writes "running" over what became of the row since it was read, when the slot may be
\* another job's (AllocationDispatchTickProcessor.process, JobService.update_status).
CapKept == \A f \in Fleet : Cardinality({j \in OnFleet(f) : Stands(j)}) <= Cap[f]

\* As long as Redis answers, a snapshot promises nothing twice, over all the ticks that
\* use it: a machine or an offer goes to one chunk, and Modal gets no more chunks than
\* it had room for when the snapshot was built (the mutator and persist).
PlannedOncePerSnapshot ==
  faults = 0 => \A b \in Build :
    spent[b].room >= 0 /\ \A t \in Machine \cup Offer : spent[b].on[t] <= 1

Made(j) == {f \in Frames(j) : f < j.first + j.made * Groups[j.group].step}

\* Unless the planner warned that a group does not fit, every frame of it is either
\* rendered by an attempt that another one has taken over from, or in exactly one piece
\* that is parked, queued or dispatched, and the frame count of every piece is the size
\* of its range: sharing out, retrying from the first missing frame, failing again and
\* late reports lose no range and hand none out twice (_distribute_time_balanced,
\* handle_chunk_failed).  What a worker renders after its attempt was failed is its own.
FramesConserved ==
  \A g \in Group \ short :
    LET pieces == {p \in pending \cup queue \cup jobs : p.group = g}
        gone   == {j \in pieces \cap jobs :
                     \E p \in pieces : p.chunk = j.chunk /\ p.attempt > j.attempt}
        held   == pieces \ gone
        all    == FramesOf(Groups[g].first, Groups[g].last, Groups[g].step)
    IN pieces # {} =>
         /\ \A p \in pieces : p.count = Cardinality(Frames(p)) /\ Frames(p) \subseteq all
         /\ \A f \in all :
              Cardinality({p \in held : f \in Frames(p)} \cup {j \in gone : f \in Made(j)}) = 1

\* An attempt never goes back to the machine or GPU type that an earlier attempt of its
\* chunk failed on for a reason of its own, however much the rest of the group likes it
\* there, unless a late report wrote over that failure (build_exclusions, plan_retry).
FailedNotRepeated ==
  \A p \in queue \cup jobs : \A j \in jobs :
    /\ j.group = p.group /\ j.chunk = p.chunk /\ j.attempt < p.attempt
    /\ j.status = "failed" /\ j.report # "late"
    => Key(j.target) # Key(p.target)

\* A retry every target of which is excluded.
Hopeless(row) ==
  row.chunk # 0 /\ \A t \in Target \cap Groups[row.group].fits : Key(t) \in row.avoid

\* Unless users go on asking for previews for ever, every row gets its targets in the
\* end, those apart whose every target is excluded: the snapshot that hides what it has
\* planned expires though every tick writes it back (persist's KEEPTTL), and capacity
\* it does not know to be free comes back.
EventuallyPlaced ==
  []<><<Preview>>_vars \/ <>[](\A row \in pending : Hopeless(row))

=============================================================================
