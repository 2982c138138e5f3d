-------------------------- MODULE RenderLifecycle --------------------------
(***************************************************************************)
(* The life of one render group on serverV2: the threads that move its     *)
(* chunks through pending_allocation_queue, dispatch_queue, the jobs table *)
(* and the in_progress_chunks ledger, and roll the result up to the group. *)
(*                                                                         *)
(* Every database statement is one atomic step; a handler is the sequence  *)
(* of steps its pipeline runs, so that two handlers interleave between any *)
(* two statements.  What a handler read and acts on later is in its own    *)
(* record th[p].  The frames of a chunk are uploaded as one.               *)
(***************************************************************************)
EXTENDS Integers, FiniteSets, GroupStatus

CONSTANTS
  Chunk,        \* the chunks the planner splits the group's frames into
  Handler,      \* monitor threads, the audit sweep and HTTP request threads
  Daemon,       \* the thread of AllocationDispatchQueueDaemon
  Does,         \* Does[p]: the entry points thread p runs in this instance
  MaxRetries,   \* max_retries of the pricing/limits configuration
  MaxJobs,      \* bound: job ids minted
  MaxRows,      \* bound: pending_allocation_queue rows alive at one time
  MaxCrashes,   \* bound: restarts of the server process
  DispatchRaises,  \* may a dispatch raise before it has inserted the job?
  NoChunk       \* the chunk of an id not minted yet

Op == {"failure", "success", "cancel", "cancelGroup", "retry", "report",
       "reportDone", "promote", "audit"}

ASSUME ConstantsOK ==
  /\ Daemon \notin Handler
  /\ Does \in [Handler -> SUBSET Op]
  /\ NoChunk \notin Chunk
  /\ MaxRetries \in Nat /\ MaxJobs \in Nat /\ MaxRows \in Nat \ {0}
  /\ MaxCrashes \in Nat /\ DispatchRaises \in BOOLEAN

Thread == Handler \cup {Daemon}
JobId  == 1..MaxJobs
NoJob  == 0
RowId  == 1..MaxRows

(***************************************************************************)
(* A job id is minted when its dispatch_queue row is written.  "queued":   *)
(* the row is on dispatch_queue.  "inhand": the daemon has deleted that    *)
(* row and has not inserted the jobs row yet, so it is in no table.        *)
(* "lost": the daemon gave up or died with it in hand.                     *)
(***************************************************************************)
JobStatus == JobState \cup {"unused", "queued", "inhand", "lost"}
Job       == [chunk : Chunk \cup {NoChunk}, attempt : Nat, status : JobStatus]
Unused    == [chunk |-> NoChunk, attempt |-> 0, status |-> "unused"]

\* A pending_allocation_queue row: the initial group, or one chunk's retry.
Row   == [id : RowId, chunks : SUBSET Chunk, attempt : Nat]
NoRow == [id |-> 0, chunks |-> {}, attempt |-> 0]

PC == {"idle",
       "cas", "load", "remaining", "park", "markFailed",
       "release", "markDone",
       "markCancelled", "unclaim",
       "gJobs", "gMark", "gUnclaim",
       "mLedger", "mLatest", "mRemaining", "mFlip",
       "report",
       "rGroup", "rJobs", "rFrames", "rPending", "rDispatch", "rWrite",
       "dGroup", "dDispatch", "dPending",
       "qGroup", "claim", "create", "launch",
       "batch", "owner", "enqueue"}

(***************************************************************************)
(* A thread's locals.  job: the job it handles; saw: the group status it   *)
(* read (from rWrite on, the one it computed); view, rend: what            *)
(* reconcile_group_status read of the jobs and of the frames; todo: the    *)
(* active jobs a group cancel read.                                        *)
(***************************************************************************)
Local == [pc : PC, op : Op \cup {"none", "stale", "dispatch", "plan"},
          job : JobId \cup {NoJob}, saw : GroupState \cup {"none"},
          view : SUBSET JobState, rend : Rendered, todo : SUBSET JobId]
Idle  == [pc |-> "idle", op |-> "none", job |-> NoJob, saw |-> "none",
          view |-> {}, rend |-> "none", todo |-> {}]

VARIABLES
  group,     \* render_groups.status
  job,       \* the jobs table, with the ids reserved on dispatch_queue
  ledger,    \* in_progress_chunks: chunk -> current_job_id
  pendingQ,  \* pending_allocation_queue
  frames,    \* chunks whose every frame is in output_frames
  th,        \* the threads' locals
  tick,      \* the pending phase of the daemon's tick: the rows list_all
             \* returned, the row in work, its chunks still to enqueue and
             \* the one whose ledger entry was found free
  crashes

vars == <<group, job, ledger, pendingQ, frames, th, tick, crashes>>
db   == <<group, job, ledger, pendingQ, frames>>

NoTick == [batch |-> {}, row |-> NoRow, plan |-> {}, chunk |-> NoChunk]

TypeOK ==
  /\ group \in GroupState
  /\ job \in [JobId -> Job]
  /\ ledger \in [Chunk -> JobId \cup {NoJob}]
  /\ pendingQ \subseteq Row
  /\ frames \subseteq Chunk
  /\ th \in [Thread -> Local]
  /\ tick \in [batch : SUBSET Row, row : Row \cup {NoRow}, plan : SUBSET Chunk,
               chunk : Chunk \cup {NoChunk}]
  /\ crashes \in Nat

\* A group the user has just confirmed: one parked row for all its chunks.
Init ==
  /\ group = "pending"
  /\ job = [j \in JobId |-> Unused]
  /\ ledger = [c \in Chunk |-> NoJob]
  /\ pendingQ = {[id |-> 1, chunks |-> Chunk, attempt |-> 0]}
  /\ frames = {}
  /\ th = [p \in Thread |-> Idle]
  /\ tick = NoTick
  /\ crashes = 0

-----------------------------------------------------------------------------
\* Helpers.

InTable(j)  == job[j].status \in JobState
Active(j)   == job[j].status \in ActiveJob
Queued(c)   == \E j \in JobId : job[j].status = "queued" /\ job[j].chunk = c
Siblings(c) == {j \in JobId : InTable(j) /\ job[j].chunk = c}
MyChunk(p)  == job[th[p].job].chunk

SetStatus(j, s) == job' = [job EXCEPT ![j].status = s]
Goto(p, l)      == th' = [th EXCEPT ![p].pc = l]
Return(p)       == th' = [th EXCEPT ![p] = Idle]
Begin(p, l, o, j) ==
  /\ p \in Handler
  /\ th[p] = Idle
  /\ o \in Does[p]
  /\ th' = [th EXCEPT ![p] = [Idle EXCEPT !.pc = l, !.op = o, !.job = j]]

RowIds(rows) == {r.id : r \in rows}
LeastFree(S, used) ==
  {i \in S \ used : \A k \in S \ used : i <= k}

\* INSERT INTO pending_allocation_queue; ids the daemon still holds are taken.
Park(chunks, attempt) ==
  \E i \in LeastFree(RowId, RowIds(pendingQ \cup tick.batch \cup {tick.row})) :
    pendingQ' = pendingQ \cup {[id |-> i, chunks |-> chunks, attempt |-> attempt]}

-----------------------------------------------------------------------------
(***************************************************************************)
(* Failure.  CallbackRouter.route reads the status and, if it is not       *)
(* terminal, hands the job to FAILURE_PIPELINE; the idle notifier and the  *)
(* worker's own report read it likewise before they get there.             *)
(***************************************************************************)
BeginFailure(p, j) ==
  /\ Active(j)
  /\ Begin(p, "cas", "failure", j)
  /\ UNCHANGED <<db, tick, crashes>>

\* Slip: the ledger row is deleted without comparing its owner.
ReleaseWhoever(p) ==
  /\ th[p].pc = "cas"
  /\ ledger' = [ledger EXCEPT ![MyChunk(p)] = NoJob]
  /\ Goto(p, "load")
  /\ UNCHANGED <<group, job, pendingQ, frames, tick, crashes>>

ReleaseIfOwner(p) ==
  LET j == th[p].job
      c == MyChunk(p)
  IN /\ th[p].pc = "cas"
     /\ \/ /\ ledger[c] = j
           /\ ledger' = [ledger EXCEPT ![c] = NoJob]
           /\ Goto(p, "load")
        \/ /\ ledger[c] # j
           /\ th' = [th EXCEPT ![p].pc = "markFailed", ![p].op = "stale"]
           /\ UNCHANGED ledger
     /\ UNCHANGED <<group, job, pendingQ, frames, tick, crashes>>

(* AUTO_RETRY_PIPELINE, run by a failure that owned the ledger and by a    *)
(* cancel.                                                                 *)
AfterRetry(p) == IF th[p].op = "cancel" THEN "rGroup" ELSE "markFailed"

LoadJobAndGroup(p) ==
  /\ th[p].pc = "load"
  /\ Goto(p, IF group \in {"cancelled", "done"} THEN AfterRetry(p)
                                                ELSE "remaining")
  /\ UNCHANGED <<db, tick, crashes>>

\* Slips: the retry cap is off by one, down or up.
CapOneEarly(p) ==
  /\ th[p].pc = "remaining"
  /\ Goto(p, IF MyChunk(p) \in frames \/ job[th[p].job].attempt + 1 >= MaxRetries
               THEN AfterRetry(p) ELSE "park")
  /\ UNCHANGED <<db, tick, crashes>>

CapOneLate(p) ==
  /\ th[p].pc = "remaining"
  /\ Goto(p, IF MyChunk(p) \in frames \/ job[th[p].job].attempt > MaxRetries
               THEN AfterRetry(p) ELSE "park")
  /\ UNCHANGED <<db, tick, crashes>>

ComputeRemaining(p) ==
  /\ th[p].pc = "remaining"
  /\ Goto(p, IF MyChunk(p) \in frames \/ job[th[p].job].attempt + 1 > MaxRetries
               THEN AfterRetry(p) ELSE "park")
  /\ UNCHANGED <<db, tick, crashes>>

ParkRetry(p) ==
  /\ th[p].pc = "park"
  /\ th[p].op # "retry"
  /\ Park({MyChunk(p)}, job[th[p].job].attempt + 1)
  /\ Goto(p, AfterRetry(p))
  /\ UNCHANGED <<group, job, ledger, frames, tick, crashes>>

\* Slip: a status outside the enumeration.
MarkErrored(p) ==
  /\ th[p].pc = "markFailed"
  /\ SetStatus(th[p].job, "error")
  /\ th' = [th EXCEPT ![p] = [Idle EXCEPT !.pc =
              IF th[p].op = "stale" THEN "dGroup" ELSE "rGroup"]]
  /\ UNCHANGED <<group, ledger, pendingQ, frames, tick, crashes>>

MarkFailed(p) ==
  /\ th[p].pc = "markFailed"
  /\ SetStatus(th[p].job, "failed")
  /\ th' = [th EXCEPT ![p] = [Idle EXCEPT !.pc =
              IF th[p].op = "stale" THEN "dGroup" ELSE "rGroup"]]
  /\ UNCHANGED <<group, ledger, pendingQ, frames, tick, crashes>>

-----------------------------------------------------------------------------
\* Success: handle_chunk_succeeded, reached like the failure above, once the
\* output frames cover the chunk's range.
BeginSuccess(p, j) ==
  /\ Active(j)
  /\ job[j].chunk \in frames
  /\ Begin(p, "release", "success", j)
  /\ UNCHANGED <<db, tick, crashes>>

\* Slip: success keeps the chunk's claim.
KeepLedger(p) ==
  /\ th[p].pc = "release"
  /\ Goto(p, "markDone")
  /\ UNCHANGED <<db, tick, crashes>>

ReleaseLedger(p) ==
  /\ th[p].pc = "release"
  /\ ledger' = [ledger EXCEPT ![MyChunk(p)] = NoJob]
  /\ Goto(p, "markDone")
  /\ UNCHANGED <<group, job, pendingQ, frames, tick, crashes>>

MarkDone(p) ==
  /\ th[p].pc = "markDone"
  /\ SetStatus(th[p].job, "done")
  /\ th' = [th EXCEPT ![p] = [Idle EXCEPT !.pc = "rGroup"]]
  /\ UNCHANGED <<group, ledger, pendingQ, frames, tick, crashes>>

-----------------------------------------------------------------------------
\* The user cancels one job: cancel_one_job and CANCEL_PIPELINE.
BeginCancel(p, j) ==
  /\ Active(j)
  /\ Begin(p, "markCancelled", "cancel", j)
  /\ UNCHANGED <<db, tick, crashes>>

MarkCancelled(p) ==
  /\ th[p].pc = "markCancelled"
  /\ SetStatus(th[p].job, "cancelled")
  /\ Goto(p, "unclaim")
  /\ UNCHANGED <<group, ledger, pendingQ, frames, tick, crashes>>

\* Slip: a cancelled job keeps the chunk's claim.
KeepClaim(p) ==
  /\ th[p].pc = "unclaim"
  /\ Goto(p, "load")
  /\ UNCHANGED <<db, tick, crashes>>

ReleaseUnconditional(p) ==
  /\ th[p].pc = "unclaim"
  /\ ledger' = [ledger EXCEPT ![MyChunk(p)] = NoJob]
  /\ Goto(p, "load")
  /\ UNCHANGED <<group, job, pendingQ, frames, tick, crashes>>

-----------------------------------------------------------------------------
\* The user cancels the render: RenderCanceler.cancel.
BeginCancelGroup(p) ==
  /\ Begin(p, "gJobs", "cancelGroup", NoJob)
  /\ group' = "cancelled"
  /\ UNCHANGED <<job, ledger, pendingQ, frames, tick, crashes>>

ReadActiveJobs(p) ==
  /\ th[p].pc = "gJobs"
  /\ th' = [th EXCEPT ![p].pc = "gMark", ![p].todo = {j \in JobId : Active(j)}]
  /\ UNCHANGED <<db, tick, crashes>>

MarkNextCancelled(p) ==
  /\ th[p].pc = "gMark"
  /\ \/ \E j \in th[p].todo :
          /\ SetStatus(j, "cancelled")
          /\ th' = [th EXCEPT ![p].todo = @ \ {j}]
     \/ /\ th[p].todo = {}
        /\ Goto(p, "dGroup")
        /\ UNCHANGED job
  /\ UNCHANGED <<group, ledger, pendingQ, frames, tick, crashes>>

ReleaseAll(p) ==
  /\ th[p].pc = "gUnclaim"
  /\ ledger' = [c \in Chunk |-> NoJob]
  /\ Return(p)
  /\ UNCHANGED <<group, job, pendingQ, frames, tick, crashes>>

-----------------------------------------------------------------------------
\* The user retries a chunk: retry_chunk_manually and MANUAL_RETRY_PIPELINE.
\* A refusal (ManualRetryError) is a return.
BeginRetry(p, j) ==
  /\ InTable(j)
  /\ group # "cancelled"
  /\ p \in Handler /\ th[p] = Idle /\ "retry" \in Does[p]
  /\ th' = [th EXCEPT ![p] = [Idle EXCEPT !.pc = "mLedger", !.op = "retry",
                                          !.job = j, !.saw = group]]
  /\ UNCHANGED <<db, tick, crashes>>

RefuseIfActiveSibling(p) ==
  /\ th[p].pc = "mLedger"
  /\ IF ledger[MyChunk(p)] # NoJob THEN Return(p) ELSE Goto(p, "mLatest")
  /\ UNCHANGED <<db, tick, crashes>>

\* max by (attempt, submitted_at): ids are minted in submission order.
IsLatest(j, c) ==
  \A k \in Siblings(c) : \/ job[k].attempt < job[j].attempt
                         \/ job[k].attempt = job[j].attempt /\ k <= j

ResolveLatestSibling(p) ==
  /\ th[p].pc = "mLatest"
  /\ \E latest \in Siblings(MyChunk(p)) :
       /\ IsLatest(latest, MyChunk(p))
       /\ IF job[latest].status \in {"failed", "cancelled"}
            THEN th' = [th EXCEPT ![p].pc = "mRemaining", ![p].job = latest]
            ELSE Return(p)
  /\ UNCHANGED <<db, tick, crashes>>

RefuseIfNoRemaining(p) ==
  /\ th[p].pc = "mRemaining"
  /\ IF MyChunk(p) \in frames THEN Return(p) ELSE Goto(p, "mFlip")
  /\ UNCHANGED <<db, tick, crashes>>

\* Decides on the group status read at the start of the pipeline.
FlipGroupPending(p) ==
  /\ th[p].pc = "mFlip"
  /\ group' = IF th[p].saw \in Unlockable THEN "pending" ELSE group
  /\ Goto(p, "park")
  /\ UNCHANGED <<job, ledger, pendingQ, frames, tick, crashes>>

ParkManualRetry(p) ==
  /\ th[p].pc = "park"
  /\ th[p].op = "retry"
  /\ Park({MyChunk(p)}, 0)
  /\ Return(p)
  /\ UNCHANGED <<group, job, ledger, frames, tick, crashes>>

-----------------------------------------------------------------------------
\* The worker's own PUT of status running or, from old agents, done
\* (JobService.update_status), and the fleet monitor's promotion
\* (_promote_pending_to_running): all check, then write.
BeginReport(p, j) ==
  /\ Active(j)
  /\ \E o \in {"report", "reportDone"} : Begin(p, "report", o, j)
  /\ UNCHANGED <<db, tick, crashes>>

BeginPromote(p, j) ==
  /\ job[j].status = "pending"
  /\ Begin(p, "report", "promote", j)
  /\ UNCHANGED <<db, tick, crashes>>

WriteReported(p) ==
  /\ th[p].pc = "report"
  /\ SetStatus(th[p].job, IF th[p].op = "reportDone" THEN "done" ELSE "running")
  /\ th' = [th EXCEPT ![p] =
              IF th[p].op = "promote" THEN [Idle EXCEPT !.pc = "rGroup"] ELSE Idle]
  /\ UNCHANGED <<group, ledger, pendingQ, frames, tick, crashes>>

\* register_outputs: accepted from any job that has a row.
Upload(j) ==
  /\ InTable(j)
  /\ frames' = frames \cup {job[j].chunk}
  /\ UNCHANGED <<group, job, ledger, pendingQ, th, tick, crashes>>

-----------------------------------------------------------------------------
(***************************************************************************)
(* reconcile_group_status: five reads, the pure roll-up, one write.  The   *)
(* audit sweep runs it for every active group.                             *)
(***************************************************************************)
BeginAudit(p) ==
  /\ group \in ActiveGroup
  /\ Begin(p, "rGroup", "audit", NoJob)
  /\ UNCHANGED <<db, tick, crashes>>

ReadGroup(p) ==
  /\ th[p].pc = "rGroup"
  /\ th' = [th EXCEPT ![p] = [Idle EXCEPT !.pc = "rJobs", !.saw = group]]
  /\ UNCHANGED <<db, tick, crashes>>

ReadJobs(p) ==
  /\ th[p].pc = "rJobs"
  /\ th' = [th EXCEPT ![p].pc = "rFrames",
              ![p].view = {job[j].status : j \in {k \in JobId : InTable(k)}}]
  /\ UNCHANGED <<db, tick, crashes>>

ReadFrames(p) ==
  /\ th[p].pc = "rFrames"
  /\ th' = [th EXCEPT ![p].pc = "rPending",
              ![p].rend = IF frames = {} THEN "none"
                          ELSE IF frames = Chunk THEN "all" ELSE "some"]
  /\ UNCHANGED <<db, tick, crashes>>

\* The verdict on what was read: nothing to persist means on to the releaser.
Conclude(p, queued) ==
  LET v == ComputeGroupStatus(th[p].saw, th[p].view, th[p].rend, queued)
  IN th' = [th EXCEPT ![p] =
       IF v.persist THEN [Idle EXCEPT !.pc = "rWrite", !.saw = v.status]
                    ELSE [Idle EXCEPT !.pc = "dGroup"]]

ReadPending(p) ==
  /\ th[p].pc = "rPending"
  /\ IF pendingQ # {} THEN Conclude(p, TRUE) ELSE Goto(p, "rDispatch")
  /\ UNCHANGED <<db, tick, crashes>>

ReadDispatch(p) ==
  /\ th[p].pc = "rDispatch"
  /\ Conclude(p, \E c \in Chunk : Queued(c))
  /\ UNCHANGED <<db, tick, crashes>>

WriteGroup(p) ==
  /\ th[p].pc = "rWrite"
  /\ group' = th[p].saw
  /\ th' = [th EXCEPT ![p] = [Idle EXCEPT !.pc = "dGroup"]]
  /\ UNCHANGED <<job, ledger, pendingQ, frames, tick, crashes>>

-----------------------------------------------------------------------------
\* TerminalGroupResourceReleaser.release: drain both queues of a terminal
\* group.  A group cancel goes on to clear the ledger.
AfterDrain(p) ==
  IF th[p].op = "cancelGroup" THEN Goto(p, "gUnclaim") ELSE Return(p)

CheckTerminal(p) ==
  /\ th[p].pc = "dGroup"
  /\ IF group \in TerminalGroup THEN Goto(p, "dDispatch") ELSE AfterDrain(p)
  /\ UNCHANGED <<db, tick, crashes>>

DrainDispatch(p) ==
  /\ th[p].pc = "dDispatch"
  /\ job' = [j \in JobId |-> IF job[j].status = "queued" THEN Unused ELSE job[j]]
  /\ Goto(p, "dPending")
  /\ UNCHANGED <<group, ledger, pendingQ, frames, tick, crashes>>

DrainPending(p) ==
  /\ th[p].pc = "dPending"
  /\ pendingQ' = {}
  /\ AfterDrain(p)
  /\ UNCHANGED <<group, job, ledger, frames, tick, crashes>>

-----------------------------------------------------------------------------
(***************************************************************************)
(* The daemon's dispatch phase.  Fleet caps and priorities decide how many *)
(* rows a tick takes and which: here, any number and any.                  *)
(***************************************************************************)
Dequeue(j) ==
  /\ th[Daemon] = Idle
  /\ job[j].status = "queued"
  /\ SetStatus(j, "inhand")
  /\ th' = [th EXCEPT ![Daemon] = [Idle EXCEPT !.pc = "qGroup",
                                     !.op = "dispatch", !.job = j]]
  /\ UNCHANGED <<group, ledger, pendingQ, frames, tick, crashes>>

GuardTerminalGroup ==
  /\ th[Daemon].pc = "qGroup"
  /\ IF group \in ActiveGroup
       THEN Goto(Daemon, "claim") /\ UNCHANGED job
       ELSE Return(Daemon) /\ job' = [job EXCEPT ![th[Daemon].job] = Unused]
  /\ UNCHANGED <<group, ledger, pendingQ, frames, tick, crashes>>

ClaimOrReplace ==
  /\ th[Daemon].pc = "claim"
  /\ ledger' = [ledger EXCEPT ![MyChunk(Daemon)] = th[Daemon].job]
  /\ Goto(Daemon, "create")
  /\ UNCHANGED <<group, job, pendingQ, frames, tick, crashes>>

CreateJob ==
  /\ th[Daemon].pc = "create"
  /\ SetStatus(th[Daemon].job, "pending")
  /\ Goto(Daemon, "launch")
  /\ UNCHANGED <<group, ledger, pendingQ, frames, tick, crashes>>

\* The provider call of FleetStrategy.dispatch; its failure calls on_failure,
\* which is the router again.
Launch ==
  LET j == th[Daemon].job
  IN /\ th[Daemon].pc = "launch"
     /\ \/ Return(Daemon)
        \/ /\ Active(j)
           /\ th' = [th EXCEPT ![Daemon].pc = "cas", ![Daemon].op = "failure"]
     /\ UNCHANGED <<db, tick, crashes>>

\* Anything raised before the jobs row exists: the row is already deleted.
LoseDispatch ==
  /\ DispatchRaises
  /\ th[Daemon].pc \in {"claim", "create"}
  /\ SetStatus(th[Daemon].job, "lost")
  /\ Return(Daemon)
  /\ UNCHANGED <<group, ledger, pendingQ, frames, tick, crashes>>

-----------------------------------------------------------------------------
(***************************************************************************)
(* The daemon's pending phase: every row list_all returned is planned (or  *)
(* not, when no target has capacity), its chunks enqueued unless the       *)
(* ledger has an owner, and the row deleted by id.                         *)
(***************************************************************************)
ListAll ==
  /\ th[Daemon] = Idle
  /\ pendingQ # {}
  /\ tick' = [NoTick EXCEPT !.batch = pendingQ]
  /\ th' = [th EXCEPT ![Daemon] = [Idle EXCEPT !.pc = "batch", !.op = "plan"]]
  /\ UNCHANGED <<db, crashes>>

PlanRow(r) ==
  /\ th[Daemon].pc = "batch"
  /\ r \in tick.batch
  /\ tick' = [tick EXCEPT !.batch = @ \ {r}, !.row = r, !.plan = r.chunks]
  /\ Goto(Daemon, "owner")
  /\ UNCHANGED <<db, crashes>>

SkipRow(r) ==
  /\ th[Daemon].pc = "batch"
  /\ r \in tick.batch
  /\ tick' = [tick EXCEPT !.batch = @ \ {r}]
  /\ UNCHANGED <<db, th, crashes>>

EndBatch ==
  /\ th[Daemon].pc = "batch"
  /\ tick.batch = {}
  /\ tick' = NoTick
  /\ Return(Daemon)
  /\ UNCHANGED <<db, crashes>>

\* Slip: a row is promoted without looking at the ledger.
IgnoreOwner(c) ==
  /\ th[Daemon].pc = "owner"
  /\ c \in tick.plan
  /\ tick' = [tick EXCEPT !.plan = @ \ {c}, !.chunk = c]
  /\ Goto(Daemon, "enqueue")
  /\ UNCHANGED <<db, crashes>>

CheckOwner(c) ==
  /\ th[Daemon].pc = "owner"
  /\ c \in tick.plan
  /\ \/ /\ ledger[c] # NoJob
        /\ tick' = [tick EXCEPT !.plan = @ \ {c}]
        /\ UNCHANGED th
     \/ /\ ledger[c] = NoJob
        /\ tick' = [tick EXCEPT !.plan = @ \ {c}, !.chunk = c]
        /\ Goto(Daemon, "enqueue")
  /\ UNCHANGED <<db, crashes>>

\* Slip: the INSERT without its ON CONFLICT clause.
EnqueueTwice ==
  /\ th[Daemon].pc = "enqueue"
  /\ \E j \in LeastFree(JobId, {k \in JobId : job[k] # Unused}) :
       job' = [job EXCEPT ![j] = [chunk |-> tick.chunk,
                                  attempt |-> tick.row.attempt,
                                  status |-> "queued"]]
  /\ tick' = [tick EXCEPT !.chunk = NoChunk]
  /\ Goto(Daemon, "owner")
  /\ UNCHANGED <<group, ledger, pendingQ, frames, crashes>>

\* INSERT ... ON CONFLICT (group_id, chunk_index) DO NOTHING.
Enqueue ==
  /\ th[Daemon].pc = "enqueue"
  /\ \/ /\ Queued(tick.chunk)
        /\ UNCHANGED job
     \/ /\ ~Queued(tick.chunk)
        /\ \E j \in LeastFree(JobId, {k \in JobId : job[k] # Unused}) :
             job' = [job EXCEPT ![j] = [chunk |-> tick.chunk,
                                        attempt |-> tick.row.attempt,
                                        status |-> "queued"]]
  /\ tick' = [tick EXCEPT !.chunk = NoChunk]
  /\ Goto(Daemon, "owner")
  /\ UNCHANGED <<group, ledger, pendingQ, frames, crashes>>

\* Slip: a promoted row stays on the queue.
KeepRow ==
  /\ th[Daemon].pc = "owner"
  /\ tick.plan = {}
  /\ tick' = [tick EXCEPT !.row = NoRow]
  /\ Goto(Daemon, "batch")
  /\ UNCHANGED <<db, crashes>>

DeleteRow ==
  /\ th[Daemon].pc = "owner"
  /\ tick.plan = {}
  /\ pendingQ' = {r \in pendingQ : r.id # tick.row.id}
  /\ tick' = [tick EXCEPT !.row = NoRow]
  /\ Goto(Daemon, "batch")
  /\ UNCHANGED <<group, job, ledger, frames, crashes>>

-----------------------------------------------------------------------------
\* The process dies and restarts: the tables stay, what threads knew is gone.
Crash ==
  /\ crashes < MaxCrashes
  /\ crashes' = crashes + 1
  /\ th' = [p \in Thread |-> Idle]
  /\ tick' = NoTick
  /\ job' = [j \in JobId |-> IF job[j].status = "inhand"
                               THEN [job[j] EXCEPT !.status = "lost"] ELSE job[j]]
  /\ UNCHANGED <<group, ledger, pendingQ, frames>>

Signal(p, j) ==
  \/ BeginFailure(p, j) \/ BeginSuccess(p, j) \/ BeginCancel(p, j)
  \/ BeginRetry(p, j) \/ BeginReport(p, j) \/ BeginPromote(p, j)

GroupSignal(p) == BeginCancelGroup(p) \/ BeginAudit(p)

Step(p) ==
  \/ ReleaseIfOwner(p) \/ LoadJobAndGroup(p) \/ ComputeRemaining(p)
  \/ ParkRetry(p) \/ MarkFailed(p)
  \/ ReleaseLedger(p) \/ MarkDone(p)
  \/ MarkCancelled(p) \/ ReleaseUnconditional(p)
  \/ ReadActiveJobs(p) \/ MarkNextCancelled(p) \/ ReleaseAll(p)
  \/ RefuseIfActiveSibling(p) \/ ResolveLatestSibling(p)
  \/ RefuseIfNoRemaining(p) \/ FlipGroupPending(p) \/ ParkManualRetry(p)
  \/ WriteReported(p)
  \/ ReadGroup(p) \/ ReadJobs(p) \/ ReadFrames(p) \/ ReadPending(p)
  \/ ReadDispatch(p) \/ WriteGroup(p)
  \/ CheckTerminal(p) \/ DrainDispatch(p) \/ DrainPending(p)

DispatchPhase ==
  \/ \E j \in JobId : Dequeue(j)
  \/ GuardTerminalGroup \/ ClaimOrReplace \/ CreateJob \/ Launch \/ LoseDispatch

PendingPhase ==
  \/ ListAll \/ EndBatch \/ DeleteRow \/ Enqueue
  \/ \E r \in tick.batch : PlanRow(r) \/ SkipRow(r)
  \/ \E c \in Chunk : CheckOwner(c)

Next ==
  \/ \E p \in Handler, j \in JobId : Signal(p, j)
  \/ \E p \in Handler : GroupSignal(p)
  \/ \E p \in Thread : Step(p)
  \/ \E j \in JobId : Upload(j)
  \/ DispatchPhase
  \/ PendingPhase
  \/ Crash

Spec == Init /\ [][Next]_vars

(***************************************************************************)
(* Scheduling.  A handler that started runs to its end; every tick visits  *)
(* dispatch_queue and then pending_allocation_queue, and a slot and a      *)
(* target become free again and again; the fleet monitor, whose stall and  *)
(* heartbeat deadlines are finite, signals every active job; the audit     *)
(* sweep visits the group for as long as it is active.                     *)
(***************************************************************************)
PlanSome == \E r \in tick.batch : PlanRow(r)

DaemonStep ==
  \/ GuardTerminalGroup \/ ClaimOrReplace \/ CreateJob \/ Launch
  \/ EndBatch \/ DeleteRow \/ Enqueue
  \/ \E r \in tick.batch : PlanRow(r) \/ SkipRow(r)
  \/ \E c \in Chunk : CheckOwner(c)

Outcome(j) == \E p \in Handler : BeginFailure(p, j) \/ BeginSuccess(p, j)

Fairness ==
  /\ \A p \in Thread : WF_vars(Step(p))
  /\ WF_vars(DaemonStep)
  /\ SF_vars(ListAll)
  /\ SF_vars(PlanSome)
  /\ \A j \in JobId : SF_vars(Dequeue(j)) /\ SF_vars(Outcome(j))
  /\ SF_vars(\E p \in Handler : BeginAudit(p))

FairSpec == Spec /\ Fairness

-----------------------------------------------------------------------------
\* Properties.

CancelInProgress(j) ==
  \E p \in Thread :
    \/ th[p].pc = "unclaim" /\ th[p].job = j
    \/ /\ th[p].op = "cancelGroup"
       /\ th[p].pc \in {"gMark", "dGroup", "dDispatch", "dPending", "gUnclaim"}

(* Unless the process died, an in_progress_chunks row names a job of that  *)
(* chunk that is being dispatched or is active, or one that a cancel still *)
(* at work has marked.  So a manual retry refused with                     *)
(* active_sibling_exists was refused for a reason, and no chunk is kept    *)
(* from promotion by a claim nobody will release.  A dispatch that raised  *)
(* leaves its claim ("lost"), and so does a worker that writes its job's   *)
(* status done itself: the latter is left out of the runs that check this. *)
LedgerNamesLiveJob ==
  crashes = 0 =>
    \A c \in Chunk : ledger[c] # NoJob =>
      /\ job[ledger[c]].chunk = c
      /\ \/ job[ledger[c]].status \in ActiveJob \cup {"inhand", "lost"}
         \/ job[ledger[c]].status = "cancelled" /\ CancelInProgress(ledger[c])

Unlaunched(j) ==
  \/ job[j].status = "queued"
  \/ job[j].status = "inhand" /\ th[Daemon].pc \in {"qGroup", "claim"}

(* From the moment a dispatch_queue row exists until the daemon claims it, *)
(* nobody owns the chunk, and no second dispatch of the chunk is queued or *)
(* in hand: the owner check of the pending phase and the UNIQUE key are    *)
(* enough, through any crash, with a single daemon.                        *)
OneDispatchPerChunk ==
  /\ \A j \in JobId : Unlaunched(j) => ledger[job[j].chunk] = NoJob
  /\ \A j, k \in JobId :
       /\ job[j].status \in {"queued", "inhand"}
       /\ job[k].status \in {"queued", "inhand"}
       /\ job[j].chunk = job[k].chunk
       => j = k

(* claim_or_replace never replaces: a claim is only ever released.         *)
NoSteal ==
  [][\A c \in Chunk : ledger[c] # NoJob => ledger'[c] \in {NoJob, ledger[c]}]_vars

(* However many signals report a job's end, and however they interleave,   *)
(* each attempt of a chunk is dispatched at most once (release_if_owner).  *)
AttemptDispatchedOnce ==
  \A j, k \in JobId :
    /\ InTable(j) /\ InTable(k)
    /\ job[j].chunk = job[k].chunk
    /\ job[j].attempt = job[k].attempt
    => j = k

(* A chunk costs at most the first attempt and max_retries more.           *)
RetryBudget == \A c \in Chunk : Cardinality(Siblings(c)) <= MaxRetries + 1

Quiet == \A p \in Thread : th[p] = Idle

LastAttempt(c) == \E j \in Siblings(c) : job[j].attempt >= MaxRetries

\* On one of the queues, in the daemon's hand, or with the handler that will
\* decide on its next attempt.
Awaited(c) ==
  \/ \E j \in JobId : job[j].chunk = c /\ job[j].status \in {"queued", "inhand"}
  \/ \E r \in pendingQ : c \in r.chunks
  \/ \E p \in Thread : /\ th[p].pc \in {"unclaim", "load", "remaining", "park"}
                       /\ MyChunk(p) = c

Dropping(p) ==
  \/ th[p].pc \in {"gMark", "gUnclaim", "dDispatch", "dPending"}
  \/ th[p].pc = "qGroup" /\ group \in TerminalGroup
  \/ th[p].pc = "load" /\ group \in {"cancelled", "done"}

\* Where ChunkPromise says a chunk is.
PhaseOf(c) ==
  IF c \in frames THEN "rendered"
  ELSE IF \E j \in JobId : Active(j) /\ job[j].chunk = c /\ ledger[c] = j
    THEN "running"
  ELSE IF Awaited(c) THEN "waiting"
  ELSE IF LastAttempt(c) THEN "spent"
  ELSE "dropped"

Promise == INSTANCE ChunkPromise WITH
  Budget   <- MaxRetries + 1,
  phase    <- [c \in Chunk |-> PhaseOf(c)],
  launches <- [c \in Chunk |-> Cardinality(Siblings(c))],
  closing  <- \E p \in Thread : Dropping(p)

(* The queues, the claims and the pipelines implement the promise made to  *)
(* the user: a chunk waits, runs and is launched again until it is         *)
(* rendered; it is given up only when every launch it may cost is spent,   *)
(* and dropped only by a step of a teardown; what is rendered stays so.    *)
PromiseKept == Promise!Spec

(* While no handler is at work a chunk has one active job at most.         *)
OneRunnerPerChunk ==
  Quiet => \A j, k \in JobId :
             Active(j) /\ Active(k) /\ job[j].chunk = job[k].chunk => j = k

(* The render ends: the group becomes done, failed or cancelled for good.  *)
EventuallySettled == <>[](group \in TerminalGroup)

-----------------------------------------------------------------------------
\* What the code's own comments promise.

(* group_status_aggregator.py: every branch waits for parked work, so a    *)
(* group is done only when all its frames are in.                          *)
DoneIsComplete == group = "done" => frames = Chunk

(* render_canceler.py: once a group cancel has returned and every row is   *)
(* terminal, late signals bounce: none of these rows becomes active again. *)
CancelledIsFinal ==
  [][/\ group = "cancelled" /\ \A p \in Thread : th[p].op # "cancelGroup"
     /\ \A j \in JobId : ~Active(j)
     => \A j \in JobId : InTable(j) => ~Active(j)']_vars

=============================================================================
