---------------------------- MODULE CommunityMachine ----------------------------
(***************************************************************************)
(* One community machine: the desktop agent that polls for work and        *)
(* renders it, the server's handlers for its requests, the allocator that  *)
(* books the machine from a cached snapshot, the community monitor, and    *)
(* the user.  All of them write the machine's status, each at its own      *)
(* time, and none of them under a condition.                               *)
(*                                                                         *)
(* MachineRepository.update_status writes Postgres and the Redis mirror;   *)
(* the two are one variable here.  What the end of a job sets in motion is *)
(* RenderLifecycle's: a retry is simply one more job.                      *)
(***************************************************************************)
EXTENDS Integers

CONSTANTS
  Jobs,       \* bound: jobs 1..Jobs are planned for the machine, in this order
  Handlers,   \* bound: requests of the agent the server works on at once
  MaxTrouble  \* bound: pauses by the operator, faults (lost calls, outages, crashes
              \* of the agent, stalls) and strays (requests the agent gives up, or
              \* whose process dies), together

ASSUME MachineConstants ==
  Jobs \in Nat /\ Handlers \in Nat /\ MaxTrouble \in Nat

VARIABLES
  job,      \* jobs.status, from the plan on
  covered,  \* jobs whose frames are all in output_frames
  machine,  \* machines.status and its mirror
  alive,    \* the machine's entry in machines:alive is fresh
  beats,    \* jobs whose heartbeat key is alive
  booking,  \* the job CommunityStrategy.dispatch has inserted and not yet locked for
  req,      \* the agent's requests in the server
  agent,    \* what the agent does, and its job
  paused,   \* pause_event
  tick,     \* the community monitor's tick and what it has read
  pauses, faults, strays

vars == <<job, covered, machine, alive, beats, booking, req, agent, paused, tick,
          pauses, faults, strays>>
bounds == <<pauses, faults, strays>>

Job     == 1..Jobs
Handler == 1..Handlers
None    == 0
Active  == {"pending", "running"}
Ended   == {"done", "failed", "cancelled"}
Running == {j \in Job : job[j] = "running"}
Pending == {j \in Job : job[j] = "pending"}

Request == [at : {"free", "read", "reclaim", "offer", "pick", "lock"},
            call : {"poll", "available"}, waits : BOOLEAN, todo : SUBSET Job,
            job : Job \cup {None}]
Free == [at |-> "free", call |-> "poll", waits |-> FALSE, todo |-> {}, job |-> None]

TypeOK ==
  /\ job \in [Job -> {"none", "queued"} \cup Active \cup Ended]
  /\ covered \subseteq Job /\ beats \subseteq Job
  /\ machine \in {"idle", "available", "processing"}
  /\ alive \in BOOLEAN /\ paused \in BOOLEAN
  /\ booking \in Job \cup {None}
  /\ req \in [Handler -> Request]
  /\ agent \in [at : {"off", "joined", "offering", "idle", "asking", "got", "work", "after"},
                job : Job \cup {None}, stop : BOOLEAN]
  /\ tick \in [at : {"rest", "jobs", "inspect", "sweep"}, alive : BOOLEAN,
               rows : SUBSET Job, release : BOOLEAN]
  /\ {pauses, faults, strays} \subseteq 0..MaxTrouble

\* Where the agent goes on without an answer.
GivesUp == {[at |-> place, job |-> None, stop |-> FALSE] :
              place \in IF agent.at = "offering" THEN {"off", "idle"} ELSE {"idle"}}

At(place, j) == [at |-> place, job |-> j, stop |-> FALSE]
Rest == [at |-> "rest", alive |-> FALSE, rows |-> {}, release |-> FALSE]

Init ==
  /\ job = [j \in Job |-> "none"] /\ covered = {}
  /\ machine = "idle" /\ alive = FALSE /\ beats = {}
  /\ booking = None
  /\ req = [h \in Handler |-> Free]
  /\ agent = At("off", None) /\ paused = FALSE
  /\ tick = Rest
  /\ pauses = 0 /\ faults = 0 /\ strays = 0

Trouble == pauses + faults + strays < MaxTrouble
Fault == Trouble /\ faults' = faults + 1 /\ UNCHANGED <<pauses, strays>>
Stray == Trouble /\ strays' = strays + 1 /\ UNCHANGED <<pauses, faults>>
Fine  == UNCHANGED bounds

-----------------------------------------------------------------------------
\* The allocator takes the machine from a snapshot of those available and alive,
\* strikes it off, and builds the next one a minute later, when the item may still
\* be queued.  The age of the snapshot, too, is time spent "queued".
Plan(j) ==
  /\ machine = "available" /\ alive
  /\ job[j] = "none" /\ \A i \in 1..(j - 1) : job[i] # "none"
  /\ job' = [job EXCEPT ![j] = "queued"]
  /\ UNCHANGED <<covered, machine, alive, beats, booking, req, agent, paused, tick, bounds>>

\* CommunityStrategy.dispatch: the row first, the machine's lock second.
DispatchJob(j) ==
  /\ job[j] = "queued" /\ booking = None
  /\ job' = [job EXCEPT ![j] = "pending"]
  /\ booking' = j
  /\ UNCHANGED <<covered, machine, alive, beats, req, agent, paused, tick, bounds>>

LockMachine ==
  /\ booking # None
  /\ booking' = None
  /\ machine' = "processing"
  /\ UNCHANGED <<job, covered, alive, beats, req, agent, paused, tick, bounds>>

\* A user cancels the job, or its group; a queued one is drained.
Cancel(j) ==
  /\ job[j] \in {"queued"} \cup Active
  /\ job' = [job EXCEPT ![j] = "cancelled"]
  /\ machine' = IF job[j] = "queued" THEN machine ELSE "available"
  /\ UNCHANGED <<covered, alive, beats, booking, req, agent, paused, tick, bounds>>

-----------------------------------------------------------------------------
\* The server's handlers: next_for_machine (a poll) and set_available.
Received(h, call, place, waits) ==
  /\ req[h] = Free /\ \A g \in 1..(h - 1) : req[g] # Free
  /\ req' = [req EXCEPT ![h] =
       [at |-> place, call |-> call, waits |-> waits, todo |-> {}, job |-> None]]

Goto(h, place) == req' = [req EXCEPT ![h].at = place]

\* The handler returns; its answer, if the agent waits for it, may be lost.
\* set_available then raises: the connect flow ends, the loop polls again.
Answer(h, j) ==
  /\ req' = [req EXCEPT ![h] = Free]
  /\ IF req[h].waits
     THEN \/ /\ agent' = IF j = None THEN At("idle", None) ELSE At("got", j)
             /\ Fine
          \/ agent' \in GivesUp /\ Fault
     ELSE UNCHANGED agent /\ Fine

\* handle_community_machine_idle: the running rows are listed, then ended one by
\* one, whatever they have become; it does not go through the router.
ReadRunning(h) ==
  /\ req[h].at = "read"
  /\ req' = [req EXCEPT ![h].at = "reclaim", ![h].todo = Running]
  /\ UNCHANGED <<job, covered, machine, alive, beats, booking, agent, paused, tick, bounds>>

Reclaim(h, j) ==
  /\ req[h].at = "reclaim" /\ j \in req[h].todo
  /\ req' = [req EXCEPT ![h].todo = @ \ {j}]
  /\ job' = [job EXCEPT ![j] = IF j \in covered THEN "done" ELSE "failed"]
  /\ machine' = "available"
  /\ UNCHANGED <<covered, alive, beats, booking, agent, paused, tick, bounds>>

\* update_status; set_available then stamps machines:alive and returns.
Offer(h) ==
  /\ req[h].at = "offer" \/ (req[h].at = "reclaim" /\ req[h].todo = {})
  /\ machine' = "available"
  /\ IF req[h].call = "poll"
     THEN Goto(h, "pick") /\ UNCHANGED <<alive, agent, bounds>>
     ELSE Answer(h, None) /\ alive' = TRUE
  /\ UNCHANGED <<job, covered, beats, booking, paused, tick>>

\* claim_next_for_machine, one statement.
ClaimJob(h) ==
  /\ req[h].at = "pick"
  /\ IF Pending = {} THEN Answer(h, None) /\ UNCHANGED job
     ELSE \E j \in Pending :
            /\ job' = [job EXCEPT ![j] = "running"]
            /\ req' = [req EXCEPT ![h].at = "lock", ![h].job = j]
            /\ UNCHANGED <<agent, bounds>>
  /\ UNCHANGED <<covered, machine, alive, beats, booking, paused, tick>>

LockClaimed(h) ==
  /\ req[h].at = "lock"
  /\ machine' = "processing"
  /\ Answer(h, req[h].job)
  /\ UNCHANGED <<job, covered, alive, beats, booking, paused, tick>>

\* The agent's request times out while the server goes on with it.
TimeOut(h) ==
  /\ req[h].waits
  /\ req' = [req EXCEPT ![h].waits = FALSE]
  /\ agent' \in GivesUp
  /\ Stray
  /\ UNCHANGED <<job, covered, machine, alive, beats, booking, paused, tick>>

\* The process that serves a request is stopped.
HandlerDies(h) ==
  /\ req[h] # Free
  /\ req' = [req EXCEPT ![h] = Free]
  /\ IF req[h].waits THEN agent' \in GivesUp ELSE UNCHANGED agent
  /\ Stray
  /\ UNCHANGED <<job, covered, machine, alive, beats, booking, paused, tick>>

-----------------------------------------------------------------------------
\* The agent.  set_idle's errors are swallowed, so it may not arrive.
SetIdle ==
  \/ machine' = "idle" /\ alive' = FALSE /\ Fine
  \/ UNCHANGED <<machine, alive>> /\ Fault

\* notify_orchestrator_failure, which swallows errors too; the agent waits for
\* the machine's release with the rest of the handler.
Notify(j) ==
  \/ /\ job' = IF job[j] \in Active THEN [job EXCEPT ![j] = "failed"] ELSE job
     /\ machine' = IF job[j] \in Active THEN "available" ELSE machine
     /\ Fine
  \/ UNCHANGED <<job, machine>> /\ Fault

\* run_connect_flow registers the machine; failing that, it uses the saved id.
Connect ==
  /\ agent.at = "off"
  /\ agent' = At("joined", None) /\ paused' = FALSE
  /\ machine' \in {machine, "idle"}
  /\ UNCHANGED <<job, covered, alive, beats, booking, req, tick, bounds>>

AskAvailable(h) ==
  /\ agent.at = "joined" \/ (agent.at = "after" /\ ~paused)
  /\ Received(h, "available", "read", TRUE)
  /\ agent' = At("offering", None)
  /\ UNCHANGED <<job, covered, machine, alive, beats, booking, paused, tick, bounds>>

\* Slips: the handler heals a machine left processing without its jobs, or leaves
\* a demoted one alone.
PollHealsStatusOnly(h) ==
  /\ agent.at = "idle" /\ ~paused
  /\ Received(h, "poll", IF machine = "available" THEN "pick" ELSE "offer", TRUE)
  /\ alive' = TRUE
  /\ agent' = At("asking", None)
  /\ UNCHANGED <<job, covered, machine, beats, booking, paused, tick, bounds>>
PollLeavesIdle(h) ==
  /\ agent.at = "idle" /\ ~paused
  /\ Received(h, "poll", IF machine = "processing" THEN "read" ELSE "pick", TRUE)
  /\ alive' = TRUE
  /\ agent' = At("asking", None)
  /\ UNCHANGED <<job, covered, machine, beats, booking, paused, tick, bounds>>

\* poll_for_job; the server stamps machines:alive and reads the status.
Poll(h) ==
  /\ agent.at = "idle" /\ ~paused
  /\ Received(h, "poll", CASE machine = "available"  -> "pick"
                           [] machine = "processing" -> "read"
                           [] machine = "idle"       -> "offer", TRUE)
  /\ alive' = TRUE
  /\ agent' = At("asking", None)
  /\ UNCHANGED <<job, covered, machine, beats, booking, paused, tick, bounds>>

\* The report of running has no effect on a claimed job, and the agent goes on
\* when it is refused; pausing is not looked at any more.  A report written late,
\* over a job ended meanwhile, is RenderLifecycle's and AllocationTick's.
ExecuteJob ==
  /\ agent.at = "got"
  /\ agent' = At("work", agent.job)
  /\ UNCHANGED <<job, covered, machine, alive, beats, booking, req, paused, tick, bounds>>

\* The report raises, or the render image cannot be had: back to the loop.
NotExecuted ==
  /\ agent.at = "got"
  /\ agent' = At("idle", None)
  /\ \/ UNCHANGED <<job, machine>> /\ Fault
     \/ Notify(agent.job)
  /\ UNCHANGED <<covered, alive, beats, booking, req, paused, tick>>

Beat ==
  /\ agent.at = "work" /\ job[agent.job] \in Active
  /\ beats' = beats \cup {agent.job}
  /\ UNCHANGED <<job, covered, machine, alive, booking, req, agent, paused, tick, bounds>>

\* The last frame of the chunk is registered.
RegisterOutputs ==
  /\ agent.at = "work"
  /\ covered' = covered \cup {agent.job}
  /\ UNCHANGED <<job, machine, alive, beats, booking, req, agent, paused, tick, bounds>>

\* Rendered: nobody is told, the monitor sees the frames.  A last upload that
\* failed is only logged.
RenderDone ==
  /\ agent.at = "work" /\ ~agent.stop
  /\ agent' = At("after", None)
  /\ \/ agent.job \in covered /\ Fine
     \/ Fault
  /\ UNCHANGED <<job, covered, machine, alive, beats, booking, req, paused, tick>>

\* It failed, or was stopped by the operator or by the cancel poll, which finds
\* the job over.
RenderFails ==
  /\ agent.at = "work"
  /\ agent' = At("after", None)
  /\ Notify(agent.job)
  /\ UNCHANGED <<covered, alive, beats, booking, req, paused, tick>>

AfterPause ==
  /\ agent.at = "after" /\ paused
  /\ agent' = At("idle", None)
  /\ SetIdle
  /\ UNCHANGED <<job, covered, beats, booking, req, paused, tick>>

\* pause_agent stops the active job, or else reports the machine idle.
Pause ==
  /\ agent.at # "off" /\ ~paused /\ Trouble
  /\ paused' = TRUE /\ pauses' = pauses + 1
  /\ IF agent.at = "work"
     THEN agent' = [agent EXCEPT !.stop = TRUE] /\ UNCHANGED <<machine, alive>>
     ELSE machine' = "idle" /\ alive' = FALSE /\ UNCHANGED agent
  /\ UNCHANGED <<job, covered, beats, booking, req, tick, faults, strays>>

\* resume_agent calls set_available from the user interface's thread, whatever
\* the agent's own thread does.
Resume(h) ==
  /\ paused /\ agent.at # "off"
  /\ paused' = FALSE
  /\ \/ Received(h, "available", "read", FALSE) /\ Fine
     \/ UNCHANGED req /\ Fault
  /\ UNCHANGED <<job, covered, machine, alive, beats, booking, agent, tick>>

\* The operator leaves between two jobs.
Leave ==
  /\ agent.at = "idle"
  /\ agent' = At("off", None)
  /\ SetIdle
  /\ UNCHANGED <<job, covered, beats, booking, req, paused, tick>>

\* The agent's process or its computer stops; a request it waits for goes on.
AgentCrash ==
  /\ agent.at # "off"
  /\ agent' = At("off", None)
  /\ req' = [h \in Handler |-> [req[h] EXCEPT !.waits = FALSE]]
  /\ IF req' = req THEN Fault ELSE Stray
  /\ UNCHANGED <<job, covered, machine, alive, beats, booking, paused, tick>>

\* An entry of machines:alive ages out without polls, a heartbeat key without
\* beats.  Both outlive the gaps between polls and between beats, and the first
\* the time from the claim to the first beat; an image download or an outage
\* that is longer is a fault.
AliveExpires ==
  /\ alive
  /\ IF \/ agent.at \in {"idle", "asking"} /\ ~paused
        \/ agent.at = "got" \/ (agent.at = "work" /\ agent.job \notin beats)
     THEN Fault ELSE Fine
  /\ alive' = FALSE
  /\ UNCHANGED <<job, covered, machine, beats, booking, req, agent, paused, tick>>

BeatExpires(j) ==
  /\ j \in beats
  /\ IF agent.at = "work" /\ agent.job = j /\ job[j] \in Active THEN Fault ELSE Fine
  /\ beats' = beats \ {j}
  /\ UNCHANGED <<job, covered, machine, alive, booking, req, agent, paused, tick>>

-----------------------------------------------------------------------------
\* The community monitor.  machines:alive is read once, before the rows.
\* CallbackRouter.route drops what concerns a job already over; the machine is
\* released by a later statement of the same thread.
Route(j, s) ==
  /\ job' = IF job[j] \in Active THEN [job EXCEPT ![j] = s] ELSE job
  /\ tick' = [tick EXCEPT !.rows = @ \ {j}, !.release = job[j] \in Active]

Passed(j) == tick' = [tick EXCEPT !.rows = @ \ {j}] /\ UNCHANGED job

\* ReleaseMachineStep, and the like statement of handle_chunk_succeeded.
ReleaseMachine ==
  /\ tick.release
  /\ tick' = [tick EXCEPT !.release = FALSE]
  /\ machine' = "available"
  /\ UNCHANGED <<job, covered, alive, beats, booking, req, agent, paused, bounds>>

TickStarts ==
  /\ tick.at = "rest"
  /\ tick' = [Rest EXCEPT !.at = "jobs", !.alive = alive]
  /\ UNCHANGED <<job, covered, machine, alive, beats, booking, req, agent, paused, bounds>>

ReadJobs ==
  /\ tick.at = "jobs"
  /\ tick' = [tick EXCEPT !.at = "inspect", !.rows = Running]
  /\ UNCHANGED <<job, covered, machine, alive, beats, booking, req, agent, paused, bounds>>

\* Slip: the window between the claim and the first beat is forgotten.
OfflineByBeat(j) == j \notin beats

\* Neither signal speaks for the agent; the test for a finished chunk that
\* follows is given no frame range, and is never true.
Offline(j) == j \notin beats /\ ~tick.alive

Inspect(j) ==
  /\ tick.at = "inspect" /\ ~tick.release /\ j \in tick.rows
  /\ \/ j \in covered /\ Route(j, "done") /\ Fine
     \/ j \notin covered /\ Offline(j) /\ Route(j, "failed") /\ Fine
     \/ j \notin covered /\ ~Offline(j) /\ Passed(j) /\ Fine
     \* a stall rule fires
     \/ j \notin covered /\ j \in beats /\ Route(j, "failed") /\ Fault
  /\ UNCHANGED <<covered, machine, alive, beats, booking, req, agent, paused>>

\* Some of the pending rows are older than the claim timeout.
ReadStalePending(stale) ==
  /\ tick.at = "inspect" /\ ~tick.release /\ tick.rows = {}
  /\ stale \subseteq Pending
  /\ tick' = [tick EXCEPT !.at = "sweep", !.rows = stale]
  /\ UNCHANGED <<job, covered, machine, alive, beats, booking, req, agent, paused, bounds>>

FailUnclaimed(j) ==
  /\ tick.at = "sweep" /\ ~tick.release /\ j \in tick.rows
  /\ Route(j, "failed")
  /\ UNCHANGED <<covered, machine, alive, beats, booking, req, agent, paused, bounds>>

\* Slip: the status the code reports for an agent is written for a machine.
DemoteToOffline ==
  /\ tick.at = "sweep" /\ ~tick.release /\ tick.rows = {}
  /\ tick' = Rest
  /\ machine' = IF machine = "available" /\ ~tick.alive THEN "offline" ELSE machine
  /\ UNCHANGED <<job, covered, alive, beats, booking, req, agent, paused, bounds>>

DemoteGhosts ==
  /\ tick.at = "sweep" /\ ~tick.release /\ tick.rows = {}
  /\ tick' = Rest
  /\ machine' = IF machine = "available" /\ ~tick.alive THEN "idle" ELSE machine
  /\ UNCHANGED <<job, covered, alive, beats, booking, req, agent, paused, bounds>>

-----------------------------------------------------------------------------
ServerStep(h) ==
  \/ ReadRunning(h) \/ (\E j \in Job : Reclaim(h, j)) \/ Offer(h)
  \/ ClaimJob(h) \/ LockClaimed(h)

\* The agent's own thread.
AgentStep ==
  \/ (\E h \in Handler : AskAvailable(h) \/ Poll(h))
  \/ ExecuteJob \/ RenderDone \/ RenderFails \/ AfterPause

MonitorStep ==
  \/ TickStarts \/ ReadJobs \/ (\E j \in Job : Inspect(j) \/ FailUnclaimed(j))
  \/ (\E stale \in SUBSET Job : ReadStalePending(stale)) \/ DemoteGhosts
  \/ ReleaseMachine

Allocator == LockMachine \/ \E j \in Job : Plan(j) \/ DispatchJob(j)

Next ==
  \/ Allocator \/ MonitorStep \/ AgentStep
  \/ (\E h \in Handler : ServerStep(h) \/ TimeOut(h) \/ HandlerDies(h) \/ Resume(h))
  \/ (\E j \in Job : Cancel(j) \/ BeatExpires(j))
  \/ Connect \/ NotExecuted \/ Beat \/ RegisterOutputs \/ Pause \/ Leave \/ AgentCrash \/ AliveExpires

Spec == Init /\ [][Next]_vars

Fairness ==
  /\ \A h \in Handler : WF_vars(ServerStep(h))
  /\ WF_vars(LockMachine \/ \E j \in Job : DispatchJob(j))
  /\ WF_vars(AgentStep)
  /\ WF_vars(AliveExpires /\ Fine) /\ \A j \in Job : WF_vars(BeatExpires(j) /\ Fine)
  /\ WF_vars(MonitorStep)
  /\ \A j \in Job : SF_vars(\E stale \in SUBSET Job : j \in stale /\ ReadStalePending(stale))

FairSpec == Spec /\ Fairness

-----------------------------------------------------------------------------
\* A job the agent holds is failed by the server, when nothing goes wrong
\* outside it, only on the agent's own word, or by one of three known races: the
\* claim sweep had read the row before the claim, the tick had read
\* machines:alive before the agent came back, or the operator resumed the agent
\* (or a request strayed) and so declared it idle.  Outside them the two liveness
\* signals leave no gap.
Held(j) == agent.at \in {"got", "work"} /\ agent.job = j
KilledForCause ==
  [][\A j \in Job :
       Held(j) /\ job[j] = "running" /\ job'[j] = "failed" /\ faults' = 0 =>
         \/ agent' # agent
         \/ tick.at = "sweep"
         \/ tick.at = "inspect" /\ alive /\ ~tick.alive
         \/ pauses + strays > 0]_vars

\* As long as the server serves the agent's requests one after the other, every
\* job given to the machine ends: whatever is lost, and wherever the agent
\* stops, the idle notice, the offline check or the claim timeout ends it.
Serial == strays = 0 /\ \A g, h \in Handler : req[g] # Free /\ req[h] # Free => g = h
JobEnds == []Serial => \A j \in Job : job[j] \in Active ~> job[j] \in Ended

\* A machine whose agent polls and has no job is offered again in the end, and
\* stays so, whatever a late release, lock or demotion had made of its status.
Polling == agent.at \in {"idle", "asking"} /\ ~paused
MachineComesBack ==
  <>[](Polling /\ \A j \in Job : job[j] \notin {"queued"} \cup Active)
    => <>[](machine = "available" /\ alive)

=============================================================================
