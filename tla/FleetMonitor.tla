---------------------------- MODULE FleetMonitor ----------------------------
(***************************************************************************)
(* One serverless job from its jobs row to the end of the unit rented for  *)
(* it: the dispatch that rents the unit, the worker in it, the fleet       *)
(* monitor that judges both from what it can see (the row, the provider's  *)
(* list, the heartbeat key, the frames), and the backup monitor behind it. *)
(*                                                                         *)
(* Time passes in units of a monitor's interval; the deadlines are given   *)
(* in them.  What an end of the job sets in motion is RenderLifecycle's.   *)
(***************************************************************************)
EXTENDS Integers

CONSTANTS
  Frames,     \* frames of the chunk
  TTL,        \* _TTL_SEC of the heartbeat key
  Grace,      \* heartbeat_grace_sec
  Stale,      \* frame_progress_stale_sec
  Startup,    \* startup_timeout_sec (Vast), in_queue_timeout_sec (Modal)
  Ceiling,    \* the age at which a stall rule gives the job up
  MinAge,     \* VAST_GHOST_MIN_AGE_SEC
  MaxFaults   \* bound: lost calls, raised callbacks, restarts and outages

ASSUME FleetConstants ==
  /\ Frames \in Nat \ {0} /\ TTL \in Nat \ {0}
  /\ Grace \in Nat /\ Stale \in Nat /\ Startup \in Nat /\ Ceiling \in Nat
  /\ MinAge \in Nat \ {0} /\ MaxFaults \in Nat

VARIABLES
  fleet,     \* "vast" or "modal"
  dispatch,  \* FleetStrategy.dispatch after the INSERT: call, save, ended
  row,       \* jobs.status
  linked,    \* vast_job_id or modal_function_call_id is set
  closed,    \* the group is terminal
  unit,      \* the Vast instance, or the Modal function call
  worker,    \* the handler in it
  frames,    \* frames of the chunk in output_frames
  hb,        \* time the heartbeat key has left; Never before the first beat
  redis,     \* is Redis up?
  age,       \* time since the row was inserted
  quiet,     \* time since the last frame
  seen,      \* the monitor's state for this job
  scan,      \* the row and instance its tick read, before it inspects them
  faults

vars == <<fleet, dispatch, row, linked, closed, unit, worker, frames, hb, redis,
          age, quiet, seen, scan, faults>>
cloud == <<fleet, dispatch, linked, closed, redis, age>>

Active   == {"pending", "running"}
Ended    == {"done", "failed", "cancelled"}
Never    == -1
Unset    == -1
Greater(a, b) == IF a > b THEN a ELSE b
AgeCap   == Greater(Startup + 1, Greater(Ceiling, MinAge))
Seen     == [anchor : Unset..Grace, count : Unset..Frames, still : 0..Stale + 1,
             ran : BOOLEAN]
NotSeen  == [anchor |-> Unset, count |-> Unset, still |-> 0, ran |-> FALSE]
Scanned  == [row : Active, unit : {"none", "starting", "running", "fatal", "exited", "gone"}]
NoScan   == [row |-> "none", unit |-> "none"]
Least(a, b) == IF a < b THEN a ELSE b

TypeOK ==
  /\ fleet \in {"vast", "modal"}
  /\ dispatch \in {"call", "save", "ended"}
  /\ row \in Active \cup Ended
  /\ linked \in BOOLEAN /\ closed \in BOOLEAN
  /\ unit \in {"none", "starting", "running", "fatal", "exited", "gone"}
  /\ worker \in {"none", "boot", "up", "work", "exit"}
  /\ frames \in 0..Frames
  /\ hb \in Never..TTL
  /\ redis \in {"up", "down"}
  /\ age \in 0..AgeCap /\ quiet \in 0..Stale + 1
  /\ seen \in Seen
  /\ scan \in Scanned \cup {NoScan}
  /\ faults \in 0..MaxFaults

Init ==
  /\ fleet \in {"vast", "modal"}
  /\ dispatch = "call" /\ row = "pending" /\ linked = FALSE /\ closed = FALSE
  /\ unit = "none" /\ worker = "none"
  /\ frames = 0 /\ hb = Never /\ redis = "up" /\ age = 0 /\ quiet = 0
  /\ seen = NotSeen /\ scan = NoScan /\ faults = 0

Complete == frames = Frames

\* Something outside the process goes wrong, or nothing does.
Fault == faults < MaxFaults /\ faults' = faults + 1
Fine  == UNCHANGED faults

\* CallbackRouter.route drops what concerns a job already over.
Route(s) == row' = IF row \in Active THEN s ELSE row

\* The provider call that ends the unit; its errors are swallowed.
Destroy ==
  \/ /\ unit' = IF unit = "none" THEN unit ELSE "gone"
     /\ worker' = IF worker = "none" THEN worker ELSE "exit"
     /\ Fine
  \/ UNCHANGED <<unit, worker>> /\ Fault

-----------------------------------------------------------------------------
\* FleetStrategy.dispatch, once the row is inserted.
DispatchJob ==
  /\ dispatch = "call"
  /\ dispatch' = "save"
  /\ unit' = "starting"
  /\ UNCHANGED <<fleet, row, linked, closed, worker, frames, hb, redis, age, quiet,
                 seen, scan, faults>>

SaveProviderJobId ==
  /\ dispatch = "save"
  /\ dispatch' = "ended"
  /\ linked' = TRUE
  /\ UNCHANGED <<fleet, row, closed, unit, worker, frames, hb, redis, age, quiet,
                 seen, scan, faults>>

\* Either call raises; the unit may have been rented all the same.
DispatchRaises ==
  /\ dispatch \in {"call", "save"}
  /\ dispatch' = "ended"
  /\ Route("failed")
  /\ Fault
  /\ UNCHANGED <<fleet, linked, closed, unit, worker, frames, hb, redis, age, quiet,
                 seen, scan>>

\* The server dies in between.
DispatchDies ==
  /\ dispatch \in {"call", "save"}
  /\ dispatch' = "ended"
  /\ Fault
  /\ UNCHANGED <<fleet, row, linked, closed, unit, worker, frames, hb, redis, age,
                 quiet, seen, scan>>

-----------------------------------------------------------------------------
\* The provider.
UnitStarts ==
  /\ unit = "starting"
  /\ unit' = "running"
  /\ UNCHANGED <<cloud, row, worker, frames, hb, quiet, seen, scan, faults>>

UnitFatal ==
  /\ fleet = "vast" /\ unit = "starting"
  /\ unit' = "fatal"
  /\ UNCHANGED <<cloud, row, worker, frames, hb, quiet, seen, scan, faults>>

UnitExits ==
  /\ unit = "running" /\ worker = "exit"
  /\ unit' = "exited"
  /\ UNCHANGED <<cloud, row, worker, frames, hb, quiet, seen, scan, faults>>

UnitDisappears ==
  /\ unit \in {"starting", "running", "exited"}
  /\ unit' = "gone"
  /\ worker' = "exit"
  /\ Fault
  /\ UNCHANGED <<cloud, row, frames, hb, quiet, seen, scan>>

-----------------------------------------------------------------------------
\* The worker.  A job already over is not rendered.
StartWorker ==
  /\ unit = "running" /\ worker = "none"
  /\ worker' = IF row \in Ended THEN "exit" ELSE "boot"
  /\ UNCHANGED <<cloud, row, unit, frames, hb, quiet, seen, scan, faults>>

\* One PUT, never repeated.  Vast's handler beats first, Modal's marks first.
MarkRunning ==
  /\ worker = IF fleet = "modal" THEN "boot" ELSE "up"
  /\ worker' = IF fleet = "modal" THEN "up" ELSE "work"
  /\ \/ Route("running") /\ Fine
     \/ UNCHANGED row /\ Fault
  /\ UNCHANGED <<cloud, unit, frames, hb, quiet, seen, scan>>

FirstBeat == worker = IF fleet = "modal" THEN "up" ELSE "boot"
Beats     == worker = "work" \/ (fleet = "vast" /\ worker = "up")

AfterBeat == IF ~FirstBeat THEN worker ELSE IF fleet = "modal" THEN "work" ELSE "up"

\* Slip: a beat adds a whole TTL to what the key has left.
HeartbeatAdds ==
  /\ FirstBeat \/ Beats
  /\ worker' = AfterBeat
  /\ hb' = IF redis = "up" /\ row \in Active THEN hb + TTL ELSE hb
  /\ UNCHANGED <<cloud, row, unit, frames, quiet, seen, scan, faults>>

\* Whether the job is over is looked up in Redis, which then records no beat.
Heartbeat ==
  /\ FirstBeat \/ Beats
  /\ worker' = AfterBeat
  /\ hb' = IF redis = "up" /\ row \in Active THEN TTL ELSE hb
  /\ UNCHANGED <<cloud, row, unit, frames, quiet, seen, scan, faults>>

\* Answered 410, the handler kills the render at the next line it prints.
HeartbeatGone ==
  /\ FirstBeat \/ Beats
  /\ row \in Ended /\ redis = "up"
  /\ worker' = "exit"
  /\ UNCHANGED <<cloud, row, unit, frames, hb, quiet, seen, scan, faults>>

RegisterOutputs ==
  /\ worker = "work" /\ frames < Frames
  /\ frames' = frames + 1
  /\ quiet' = 0
  /\ UNCHANGED <<cloud, row, unit, worker, hb, seen, scan, faults>>

\* mark_failed, or an exit with no word: finished, killed, or cut off.
WorkerExits ==
  /\ worker \in {"boot", "up", "work"}
  /\ worker' = "exit"
  /\ Route("failed") \/ UNCHANGED row
  /\ UNCHANGED <<cloud, unit, frames, hb, quiet, seen, scan, faults>>

-----------------------------------------------------------------------------
(***************************************************************************)
(* The fleet monitor.  A tick reads the active rows and the provider's     *)
(* list, then inspects row after row; the rest of what a verdict needs is  *)
(* read as it inspects.  A failed list() is no tick at all.                *)
(***************************************************************************)
Scan ==
  /\ scan = NoScan /\ linked /\ row \in Active
  /\ scan' = [row |-> row, unit |-> unit]
  /\ UNCHANGED <<cloud, row, unit, worker, frames, hb, quiet, seen, faults>>

\* State is dropped for rows no longer active.
DropState ==
  /\ scan = NoScan /\ row \in Ended /\ seen # NotSeen
  /\ seen' = NotSeen
  /\ UNCHANGED <<cloud, row, unit, worker, frames, hb, quiet, scan, faults>>

\* LivenessCheck.__init__, note_activity and mark_active.
FirstRun == fleet = "vast" /\ scan.unit = "running" /\ ~seen.ran

\* Slip: the clock of a stalled worker runs from when it was first seen.
NoteOnce(s) == [s EXCEPT !.count = frames]

NoteActivity(s) ==
  IF frames = s.count THEN s ELSE [s EXCEPT !.count = frames, !.still = 0]

Look ==
  LET s == NoteActivity(seen)
  IN IF FirstRun THEN [s EXCEPT !.ran = TRUE, !.anchor = 0]
     ELSE IF fleet = "modal" /\ s.anchor = Unset THEN [s EXCEPT !.anchor = 0]
     ELSE s

\* Slip: a Redis that does not answer counts as a missing key.
HeartbeatUnknownDead(s) == s.anchor = Grace /\ (hb <= 0 \/ redis = "down")

\* Slip: only a worker that was heard once can be dead.
HeartbeatMissedDead(s) == s.anchor = Grace /\ hb = 0 /\ redis = "up"

\* No answer from Redis is no verdict.
HeartbeatDead(s) == s.anchor = Grace /\ hb <= 0 /\ redis = "up"

IsStale(s) == s.count > 0 /\ s.still > Stale

\* Some stall rule fires; none does without samples.
Stall == redis = "up" /\ hb # Never /\ age >= Ceiling

\* The blocks of _inspect in their order, each with what it makes of the job.
VastBlocks(s) ==
  << <<scan.unit = "gone", IF Complete THEN "done" ELSE "failed">>,
     <<scan.unit = "fatal", "failed">>,
     <<closed, "failed">>,
     <<Complete /\ scan.row = "running", "done">>,
     <<~seen.ran /\ scan.unit # "running" /\ age > Startup, "failed">>,
     <<scan.unit = "running" /\ (IsStale(s) \/ HeartbeatDead(s) \/ Stall), "failed">>,
     <<scan.unit = "exited", IF Complete THEN "done" ELSE "failed">> >>

\* Slip: liveness is judged before completeness.
ModalBlocksSwapped(s) ==
  << <<closed, "failed">>,
     <<scan.row = "pending" /\ age > Startup /\ HeartbeatDead(s), "failed">>,
     <<scan.row = "running" /\ (HeartbeatDead(s) \/ IsStale(s) \/ Stall), "failed">>,
     <<Complete, "done">> >>

ModalBlocks(s) ==
  << <<closed, "failed">>,
     <<Complete, "done">>,
     <<scan.row = "pending" /\ age > Startup /\ HeartbeatDead(s), "failed">>,
     <<scan.row = "running" /\ (HeartbeatDead(s) \/ IsStale(s) \/ Stall), "failed">> >>

Verdict(s) ==
  LET blocks == IF fleet = "vast" THEN VastBlocks(s) ELSE ModalBlocks(s)
      hits   == {i \in DOMAIN blocks : blocks[i][1]}
  IN IF hits = {} THEN "none"
     ELSE blocks[CHOOSE i \in hits : \A k \in hits : i <= k][2]

\* Nothing to say; a Vast instance first seen running promotes its row, once.
InspectKeeps ==
  /\ scan # NoScan /\ Verdict(Look) = "none"
  /\ scan' = NoScan
  /\ seen' = Look
  /\ IF FirstRun /\ scan.row = "pending" /\ row = "pending"
       THEN \/ row' = "running" /\ Fine
            \/ UNCHANGED row /\ Fault
       ELSE UNCHANGED row /\ Fine
  /\ UNCHANGED <<cloud, unit, worker, frames, hb, quiet>>

InspectEnds ==
  /\ scan # NoScan /\ Verdict(Look) # "none"
  /\ scan' = NoScan
  /\ seen' = NotSeen
  /\ Route(Verdict(Look))
  /\ Destroy
  /\ UNCHANGED <<cloud, frames, hb, quiet>>

\* The callback raises: the verdict is lost, the state kept.
InspectRaises ==
  /\ scan # NoScan /\ Verdict(Look) # "none"
  /\ scan' = NoScan
  /\ seen' = Look
  /\ Fault
  /\ \/ unit' = "gone" /\ worker' = "exit"
     \/ UNCHANGED <<unit, worker>>
  /\ UNCHANGED <<cloud, row, frames, hb, quiet>>

\* The replica dies or loses the lease; the next one starts from nothing.
MonitorDies ==
  /\ scan # NoScan \/ seen # NotSeen
  /\ scan' = NoScan /\ seen' = NotSeen
  /\ Fault
  /\ UNCHANGED <<cloud, row, unit, worker, frames, hb, quiet>>

-----------------------------------------------------------------------------
\* The backup monitor, by way of /internal.
ReportOrphan ==
  /\ row = "running" /\ redis = "up" /\ hb <= 0
  /\ row' = "failed"
  /\ UNCHANGED <<cloud, unit, worker, frames, hb, quiet, seen, scan, faults>>

Rented == unit \in {"starting", "running", "fatal", "exited"}

\* Slip: no check of the row before the instance is destroyed.
ReportGhostAnyway ==
  /\ Rented
  /\ fleet = "vast" \/ linked
  /\ age >= MinAge
  /\ Destroy
  /\ UNCHANGED <<cloud, row, frames, hb, quiet, seen, scan>>

\* Modal cannot list its calls: only terminal rows with an id are repeated.
ReportGhost ==
  /\ Rented
  /\ \/ linked /\ row \in Ended
     \/ fleet = "vast" /\ ~linked /\ age >= MinAge
  /\ Destroy
  /\ UNCHANGED <<cloud, row, frames, hb, quiet, seen, scan>>

-----------------------------------------------------------------------------
\* The rest of the system: the user, the other chunks, Redis, time.
CancelJob ==
  /\ row \in Active
  /\ row' = "cancelled"
  /\ IF linked THEN Destroy ELSE UNCHANGED <<unit, worker, faults>>
  /\ UNCHANGED <<cloud, frames, hb, quiet, seen, scan>>

CloseGroup ==
  /\ ~closed /\ row \in Active
  /\ closed' = TRUE
  /\ UNCHANGED <<fleet, dispatch, row, linked, unit, worker, frames, hb, redis, age,
                 quiet, seen, scan, faults>>

RedisFails ==
  /\ redis = "up"
  /\ redis' = "down"
  /\ Fault
  /\ UNCHANGED <<fleet, dispatch, row, linked, closed, unit, worker, frames, hb, age,
                 quiet, seen, scan>>

RedisRecovers ==
  /\ redis = "down"
  /\ redis' = "up"
  /\ UNCHANGED <<fleet, dispatch, row, linked, closed, unit, worker, frames, hb, age,
                 quiet, seen, scan, faults>>

\* A worker beats several times per unit.  A dispatch rents right after the
\* INSERT and takes less than MinAge to save the id of what it rented.
Pass ==
  /\ (Beats /\ redis = "up" /\ row \in Active) => hb = TTL
  /\ dispatch # "call" /\ (dispatch = "save" => age + 1 < MinAge)
  /\ age' = Least(age + 1, AgeCap)
  /\ quiet' = Least(quiet + 1, Stale + 1)
  /\ hb' = IF hb > 0 THEN hb - 1 ELSE hb
  /\ seen' = [seen EXCEPT !.still = IF seen.count = Unset THEN 0
                                     ELSE Least(@ + 1, Stale + 1),
                           !.anchor = IF @ = Unset THEN Unset ELSE Least(@ + 1, Grace)]
  /\ UNCHANGED <<fleet, dispatch, row, linked, closed, unit, worker, frames, redis,
                 scan, faults>>

Dispatch == DispatchJob \/ SaveProviderJobId \/ DispatchRaises \/ DispatchDies
Provider == UnitStarts \/ UnitFatal \/ UnitExits \/ UnitDisappears
Worker   ==
  StartWorker \/ MarkRunning \/ Heartbeat \/ HeartbeatGone \/ RegisterOutputs \/ WorkerExits
Inspect  == InspectKeeps \/ InspectEnds
Monitor  == Scan \/ DropState \/ Inspect \/ InspectRaises \/ MonitorDies

Next ==
  \/ Dispatch \/ Provider \/ Worker \/ Monitor
  \/ ReportOrphan \/ ReportGhost
  \/ CancelJob \/ CloseGroup \/ RedisFails \/ RedisRecovers \/ Pass

Spec == Init /\ [][Next]_vars

(***************************************************************************)
(* The dispatch goes on or dies; the provider starts what a Modal call     *)
(* queued and reports what exited; a worker polls and beats; the monitor   *)
(* ticks on some replica; Cloud Scheduler runs the backup monitor; Redis   *)
(* comes back; time passes.                                                *)
(***************************************************************************)
Fairness ==
  /\ WF_vars(DispatchJob \/ SaveProviderJobId)
  /\ WF_vars(UnitExits \/ (fleet = "modal" /\ UnitStarts))
  /\ WF_vars(StartWorker \/ MarkRunning \/ Heartbeat)
  /\ WF_vars(Scan \/ Inspect)
  /\ WF_vars(ReportOrphan \/ ReportGhost)
  /\ WF_vars(RedisRecovers \/ Pass)

FairSpec == Spec /\ Fairness

-----------------------------------------------------------------------------
Judged == scan # NoScan /\ scan' = NoScan /\ row \in Active /\ row' = "failed"

(* A job the monitor fails has given it cause, whatever the monitor forgot *)
(* in a failover and however old what its tick read is: a closed group, an *)
(* instance that is lost or never came up, a worker unheard of for a whole *)
(* TTL with Redis answering, no frame for the stale window, or its age.    *)
FailedForCause ==
  [][Judged =>
       \/ closed
       \/ fleet = "vast" /\ scan.unit \in {"gone", "fatal", "exited"}
       \/ fleet = "vast" /\ scan.unit = "starting" /\ age > Startup
       \/ redis = "up" /\ hb <= 0
       \/ frames > 0 /\ quiet > Stale
       \/ redis = "up" /\ age >= Ceiling]_vars

(* A chunk whose frames are all in is not failed by the monitor, unless    *)
(* its group is closed, or Vast reports a broken start, or its row was     *)
(* never promoted: Vast takes success from running rows only.              *)
CompleteNotFailed ==
  [][Judged /\ Complete =>
       \/ closed
       \/ fleet = "vast" /\ (scan.unit = "fatal" \/ scan.row = "pending")]_vars

(* A unit is destroyed only when its job is over or is being ended.        *)
DestroyedOnlyWhenOver ==
  [][(unit \in {"starting", "running"} /\ unit' = "gone" /\ faults' = faults)
       => (row' \in Ended \/ (~linked /\ dispatch = "ended"))]_vars

(* A job whose unit is known to its row ends and leaves nothing rented,    *)
(* however its worker hangs, dies or falls silent, and although destroy    *)
(* calls fail and callbacks raise; on Vast so does one whose row never got *)
(* the id.  Not covered: a Modal row whose only report of running was      *)
(* lost, with a worker that beats and does not render, which no block of   *)
(* the monitor ends; and a Modal call whose id was not saved.              *)
Paid     == unit = "running" \/ (fleet = "vast" /\ unit \in {"starting", "fatal", "exited"})
Unmarked == fleet = "modal" /\ row = "pending" /\ worker = "work"
JobSettles ==
  (linked \/ (fleet = "vast" /\ row \in Ended)) ~> (Unmarked \/ (row \in Ended /\ ~Paid))

=============================================================================
