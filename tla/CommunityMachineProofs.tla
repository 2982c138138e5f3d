----------------------- MODULE CommunityMachineProofs -----------------------
(***************************************************************************)
(* The server fails no job its agent holds without cause, for any number   *)
(* of jobs and of requests in flight.                                      *)
(***************************************************************************)
EXTENDS CommunityMachine, TLAPS

AgentState == [at : {"off", "joined", "offering", "idle", "asking", "got", "work", "after"},
               job : Job \cup {None}, stop : BOOLEAN]
TickState == [at : {"rest", "jobs", "inspect", "sweep"}, alive : BOOLEAN,
              rows : SUBSET Job, release : BOOLEAN]

(* An agent at work, or about to be, has a job.                            *)
AgentFit == agent.at \in {"got", "work"} => agent.job \in Job
TypeInv == TypeOK /\ AgentFit

-----------------------------------------------------------------------------
LEMMA Types ==
  ASSUME TypeOK
  PROVE  /\ job \in [Job -> {"none", "queued"} \cup Active \cup Ended]
         /\ req \in [Handler -> Request] /\ agent \in AgentState /\ tick \in TickState
         /\ pauses \in Nat /\ faults \in Nat /\ strays \in Nat
         /\ None \notin Job
  BY MachineConstants DEF TypeOK, AgentState, TickState, None, Job

LEMMA Records ==
  /\ \A place \in {"off", "joined", "offering", "idle", "asking", "got", "work", "after"} :
       \A j \in Job \cup {None} : /\ At(place, j) \in AgentState
                                 /\ At(place, j).at = place /\ At(place, j).job = j
  /\ \A a \in GivesUp : a \in AgentState /\ a.at \in {"off", "idle"}
  /\ Free \in Request /\ Rest \in TickState
<1>1. Free \in Request /\ Rest \in TickState
  BY DEF Free, Request, Rest, TickState
<1>2. \A a \in GivesUp : a \in AgentState /\ a.at \in {"off", "idle"}
  <2> SUFFICES ASSUME NEW a \in GivesUp PROVE a \in AgentState /\ a.at \in {"off", "idle"}
    OBVIOUS
  <2>1. PICK place \in {"off", "idle"} : a = [at |-> place, job |-> None, stop |-> FALSE]
    BY DEF GivesUp
  <2> QED
    BY <2>1 DEF AgentState
<1> QED
  BY <1>1, <1>2 DEF At, AgentState

(* What a step costs of the bound on trouble.                              *)
LEMMA Counted ==
  ASSUME TypeOK, Fault \/ Stray \/ Fine
  PROVE  {pauses, faults, strays}' \subseteq 0..MaxTrouble
  BY MachineConstants DEF TypeOK, Fault, Stray, Fine, Trouble, bounds

LEMMA ReceivedType ==
  ASSUME TypeOK, NEW h \in Handler, NEW call \in {"poll", "available"},
         NEW place \in {"read", "offer", "pick"}, NEW w \in BOOLEAN, Received(h, call, place, w)
  PROVE  req' \in [Handler -> Request]
<1>1. [at |-> place, call |-> call, waits |-> w, todo |-> {}, job |-> None] \in Request
  BY DEF Request
<1> QED
  BY <1>1 DEF TypeOK, Received

LEMMA AnswerType ==
  ASSUME TypeInv, NEW h \in Handler, NEW j \in Job \cup {None}, Answer(h, j)
  PROVE  /\ req' \in [Handler -> Request] /\ agent' \in AgentState
         /\ agent'.at \in {"got", "work"} => agent'.job \in Job
         /\ {pauses, faults, strays}' \subseteq 0..MaxTrouble
<1>t. req \in [Handler -> Request] /\ agent \in AgentState /\ None \notin Job
  BY Types DEF TypeInv
<1>1. req' \in [Handler -> Request]
  BY <1>t, Records DEF Answer
<1>2. agent' \in GivesUp \/ agent' = At("idle", None) \/ (j \in Job /\ agent' = At("got", j))
      \/ UNCHANGED agent
  BY DEF Answer
<1>3. agent' \in AgentState /\ (agent'.at \in {"got", "work"} => agent'.job \in Job)
  BY <1>t, <1>2, Records DEF TypeInv, AgentFit
<1> QED
  BY <1>1, <1>3, Counted DEF Answer, TypeInv

LEMMA InitType == Init => TypeInv
<1> SUFFICES ASSUME Init PROVE TypeInv
  OBVIOUS
<1>1. /\ agent \in AgentState /\ AgentFit
      /\ tick \in TickState /\ req \in [Handler -> Request]
  BY Records DEF Init, AgentFit
<1>2. {pauses, faults, strays} \subseteq 0..MaxTrouble
  BY MachineConstants DEF Init
<1> QED
  BY <1>1, <1>2 DEF Init, TypeInv, TypeOK, AgentState, TickState

LEMMA AllocatorType == TypeInv /\ Allocator => TypeInv'
  BY MachineConstants
  DEF TypeInv, TypeOK, AgentFit, Allocator, LockMachine, Plan, DispatchJob, Active, None, bounds

LEMMA ServerType == ASSUME TypeInv, NEW h \in Handler, ServerStep(h) PROVE TypeInv'
<1>t. req \in [Handler -> Request] /\ agent \in AgentState /\ None \notin Job
      /\ job \in [Job -> {"none", "queued"} \cup Active \cup Ended]
  BY Types DEF TypeInv
<1>1. CASE ReadRunning(h) \/ \E j \in Job : Reclaim(h, j)
  <2>1. req' \in [Handler -> Request]
    BY <1>1, <1>t DEF ReadRunning, Reclaim, Request, Running
  <2>2. job' \in [Job -> {"none", "queued"} \cup Active \cup Ended]
    BY <1>1, <1>t DEF ReadRunning, Reclaim, Ended
  <2> QED
    BY <1>1, <2>1, <2>2 DEF TypeInv, TypeOK, AgentFit, ReadRunning, Reclaim, bounds
<1>2. CASE Offer(h)
  <2>1. CASE req[h].call = "poll"
    <3>1. req' \in [Handler -> Request]
      BY <1>2, <2>1, <1>t DEF Offer, Goto, Request
    <3> QED
      BY <1>2, <2>1, <3>1 DEF TypeInv, TypeOK, AgentFit, Offer, bounds
  <2>2. CASE req[h].call # "poll"
    <3>1. Answer(h, None)
      BY <1>2, <2>2 DEF Offer
    <3> QED
      BY <1>2, <2>2, <3>1, AnswerType DEF TypeInv, TypeOK, AgentFit, AgentState, Offer
  <2> QED
    BY <2>1, <2>2
<1>3. CASE ClaimJob(h)
  <2>1. CASE Pending = {}
    <3>1. Answer(h, None)
      BY <1>3, <2>1 DEF ClaimJob
    <3> QED
      BY <1>3, <2>1, <3>1, AnswerType DEF TypeInv, TypeOK, AgentFit, AgentState, ClaimJob
  <2>2. CASE Pending # {}
    <3>1. PICK j \in Job : /\ job' = [job EXCEPT ![j] = "running"]
                           /\ req' = [req EXCEPT ![h].at = "lock", ![h].job = j]
                           /\ UNCHANGED <<agent, bounds>>
      BY <1>3, <2>2 DEF ClaimJob, Pending
    <3>2. req' \in [Handler -> Request]
      <4>1. req[h] \in Request
        BY <1>t
      <4>2. [req[h] EXCEPT !.at = "lock", !.job = j] \in Request
        BY <4>1 DEF Request
      <4>3. req' = [req EXCEPT ![h] = [req[h] EXCEPT !.at = "lock", !.job = j]]
        BY <1>t, <3>1
      <4> QED
        BY <1>t, <4>2, <4>3
    <3>3. job' \in [Job -> {"none", "queued"} \cup Active \cup Ended]
      BY <1>t, <3>1 DEF Active
    <3>4. UNCHANGED <<covered, machine, alive, beats, booking, paused, tick>>
      BY <1>3 DEF ClaimJob
    <3> QED
      BY <3>1, <3>2, <3>3, <3>4 DEF TypeInv, TypeOK, AgentFit, bounds
  <2> QED
    BY <2>1, <2>2
<1>4. CASE LockClaimed(h)
  <2>1. Answer(h, req[h].job) /\ req[h].job \in Job \cup {None}
    BY <1>4, <1>t DEF LockClaimed, Request
  <2> QED
    BY <1>4, <2>1, AnswerType DEF TypeInv, TypeOK, AgentFit, AgentState, LockClaimed
<1> QED
  BY <1>1, <1>2, <1>3, <1>4 DEF ServerStep

LEMMA RequestType ==
  ASSUME TypeInv, NEW h \in Handler, TimeOut(h) \/ HandlerDies(h) \/ Resume(h)
  PROVE  TypeInv'
<1>t. req \in [Handler -> Request] /\ agent \in AgentState
  BY Types DEF TypeInv
<1>1. CASE TimeOut(h) \/ HandlerDies(h)
  <2>1. req' \in [Handler -> Request]
    <3>0. Free \in Request
      BY Records
    <3>1. [req[h] EXCEPT !.waits = FALSE] \in Request
      BY <1>t DEF Request
    <3>2. req' = [req EXCEPT ![h] = Free] \/ req' = [req EXCEPT ![h] = [req[h] EXCEPT !.waits = FALSE]]
      BY <1>1, <1>t DEF TimeOut, HandlerDies
    <3> QED
      BY <1>t, <3>0, <3>1, <3>2
  <2>2. agent' \in AgentState /\ AgentFit'
    BY <1>1, <1>t, Records DEF TimeOut, HandlerDies, AgentFit, TypeInv
  <2>3. {pauses, faults, strays}' \subseteq 0..MaxTrouble
    BY <1>1, Counted DEF TimeOut, HandlerDies, TypeInv
  <2> QED
    BY <1>1, <2>1, <2>2, <2>3 DEF TypeInv, TypeOK, AgentState, TimeOut, HandlerDies
<1>2. CASE Resume(h)
  <2>1. req' \in [Handler -> Request]
    BY <1>2, ReceivedType DEF Resume, TypeInv, TypeOK
  <2>2. {pauses, faults, strays}' \subseteq 0..MaxTrouble
    BY <1>2, Counted DEF Resume, TypeInv
  <2>3. /\ paused' \in BOOLEAN
        /\ UNCHANGED <<job, covered, machine, alive, beats, booking, agent, tick>>
    BY <1>2 DEF Resume
  <2> QED
    BY <2>1, <2>2, <2>3 DEF TypeInv, TypeOK, AgentFit
<1> QED
  BY <1>1, <1>2

(* The agent's own word about its job, if it gets through.                 *)
LEMMA NotifyType ==
  ASSUME TypeInv, NEW j \in Job, Notify(j)
  PROVE  /\ job' \in [Job -> {"none", "queued"} \cup Active \cup Ended]
         /\ machine' \in {"idle", "available", "processing"}
         /\ {pauses, faults, strays}' \subseteq 0..MaxTrouble
<1>1. {pauses, faults, strays}' \subseteq 0..MaxTrouble
  BY Counted DEF Notify, TypeInv
<1> QED
  BY <1>1 DEF Notify, TypeInv, TypeOK, Ended

LEMMA AgentType ==
  ASSUME TypeInv,
         \/ AgentStep \/ Connect \/ NotExecuted \/ Beat \/ RegisterOutputs
         \/ Pause \/ Leave \/ AgentCrash \/ AliveExpires
  PROVE  TypeInv'
<1>t. /\ req \in [Handler -> Request] /\ agent \in AgentState /\ None \notin Job
      /\ (agent.at \in {"got", "work"} => agent.job \in Job)
      /\ \A place \in {"off", "joined", "offering", "idle", "asking", "after"} :
           At(place, None) \in AgentState /\ At(place, None).at = place
  BY Types, Records DEF TypeInv, AgentFit
<1>1. ASSUME NEW h \in Handler, AskAvailable(h) \/ Poll(h)
      PROVE  TypeInv'
  <2>1. req' \in [Handler -> Request]
    BY <1>1, ReceivedType DEF AskAvailable, Poll, TypeInv, TypeOK
  <2>2. agent' \in AgentState /\ AgentFit'
    BY <1>1, <1>t DEF AskAvailable, Poll, AgentFit
  <2>3. /\ alive' \in BOOLEAN
        /\ UNCHANGED <<job, covered, machine, beats, booking, paused, tick, bounds>>
    BY <1>1 DEF AskAvailable, Poll, TypeInv, TypeOK
  <2> QED
    BY <2>1, <2>2, <2>3 DEF TypeInv, TypeOK, AgentState, bounds
<1>2. CASE ExecuteJob
  BY <1>2, <1>t, Records DEF TypeInv, TypeOK, AgentFit, AgentState, ExecuteJob, bounds
<1>3. CASE NotExecuted \/ RenderFails \/ RenderDone
  <2>1. \/ Notify(agent.job)
        \/ UNCHANGED <<job, machine>> /\ (Fault \/ Fine)
    BY <1>3 DEF NotExecuted, RenderFails, RenderDone
  <2>2. agent.job \in Job
    BY <1>3, <1>t DEF NotExecuted, RenderFails, RenderDone
  <2>3. /\ job' \in [Job -> {"none", "queued"} \cup Active \cup Ended]
        /\ machine' \in {"idle", "available", "processing"}
        /\ {pauses, faults, strays}' \subseteq 0..MaxTrouble
    BY <2>1, <2>2, NotifyType, Counted DEF TypeInv, TypeOK
  <2> QED
    BY <1>3, <1>t, <2>3
    DEF TypeInv, TypeOK, AgentFit, AgentState, NotExecuted, RenderFails, RenderDone
<1>4. CASE AfterPause \/ Leave
  <2>1. {pauses, faults, strays}' \subseteq 0..MaxTrouble
    BY <1>4, Counted DEF AfterPause, Leave, SetIdle, TypeInv
  <2> QED
    BY <1>4, <1>t, <2>1 DEF TypeInv, TypeOK, AgentFit, AgentState, AfterPause, Leave, SetIdle
<1>5. CASE Connect \/ Beat \/ RegisterOutputs
  <2>1. agent' \in AgentState /\ AgentFit'
    BY <1>5, <1>t DEF Connect, Beat, RegisterOutputs, AgentFit
  <2>2. /\ covered' \subseteq Job /\ beats' \subseteq Job /\ paused' \in BOOLEAN
        /\ machine' \in {"idle", "available", "processing"}
    BY <1>5, <1>t DEF Connect, Beat, RegisterOutputs, TypeInv, TypeOK
  <2>3. UNCHANGED <<job, alive, booking, req, tick, bounds>>
    BY <1>5 DEF Connect, Beat, RegisterOutputs
  <2> QED
    BY <2>1, <2>2, <2>3 DEF TypeInv, TypeOK, AgentState, bounds
<1>6. CASE Pause
  <2>1. agent' \in AgentState /\ AgentFit'
    BY <1>6, <1>t DEF Pause, AgentState, AgentFit
  <2>2. {pauses, faults, strays}' \subseteq 0..MaxTrouble
    BY <1>6, MachineConstants DEF Pause, Trouble, TypeInv, TypeOK
  <2> QED
    BY <1>6, <2>1, <2>2 DEF TypeInv, TypeOK, AgentState, Pause
<1>7. CASE AgentCrash
  <2>1. req' \in [Handler -> Request]
    BY <1>7, <1>t DEF AgentCrash, Request
  <2>2. {pauses, faults, strays}' \subseteq 0..MaxTrouble
    BY <1>7, Counted DEF AgentCrash, TypeInv
  <2> QED
    BY <1>7, <1>t, <2>1, <2>2 DEF TypeInv, TypeOK, AgentFit, AgentState, AgentCrash
<1>8. CASE AliveExpires
  <2>1. {pauses, faults, strays}' \subseteq 0..MaxTrouble
    BY <1>8, Counted DEF AliveExpires, TypeInv
  <2>2. /\ alive' \in BOOLEAN
        /\ UNCHANGED <<job, covered, machine, beats, booking, req, agent, paused, tick>>
    BY <1>8 DEF AliveExpires
  <2> QED
    BY <2>1, <2>2 DEF TypeInv, TypeOK, AgentFit
<1> QED
  BY <1>1, <1>2, <1>3, <1>4, <1>5, <1>6, <1>7, <1>8 DEF AgentStep

LEMMA RouteType ==
  ASSUME TypeOK, NEW j \in Job, NEW s \in Ended, Route(j, s)
  PROVE  job' \in [Job -> {"none", "queued"} \cup Active \cup Ended] /\ tick' \in TickState
<1>1. job' \in [Job -> {"none", "queued"} \cup Active \cup Ended]
  BY Types DEF Route
<1>2. tick \in TickState /\ (job[j] \in Active) \in BOOLEAN
  BY Types
<1>3. tick' = [tick EXCEPT !.rows = tick.rows \ {j}, !.release = job[j] \in Active]
  BY DEF Route
<1>4. ASSUME NEW w \in BOOLEAN
      PROVE  [tick EXCEPT !.rows = tick.rows \ {j}, !.release = w] \in TickState
  BY <1>2 DEF TickState
<1> QED
  BY <1>1, <1>2, <1>3, <1>4

LEMMA MonitorType == TypeInv /\ MonitorStep => TypeInv'
<1> SUFFICES ASSUME TypeInv, MonitorStep PROVE TypeInv'
  OBVIOUS
<1>t. tick \in TickState /\ Rest \in TickState /\ "failed" \in Ended /\ "done" \in Ended
  BY Types, Records DEF TypeInv, Ended
<1>1. CASE TickStarts \/ ReadJobs \/ DemoteGhosts \/ ReleaseMachine
  <2>1. tick' \in TickState
    <3>1. CASE TickStarts
      <4>1. tick' = [Rest EXCEPT !.at = "jobs", !.alive = alive] /\ alive \in BOOLEAN
        BY <3>1 DEF TickStarts, TypeInv, TypeOK
      <4> QED
        BY <1>t, <4>1 DEF TickState
    <3>2. CASE ReadJobs
      <4>1. tick' = [tick EXCEPT !.at = "inspect", !.rows = Running] /\ Running \subseteq Job
        BY <3>2 DEF ReadJobs, Running
      <4> QED
        BY <1>t, <4>1 DEF TickState
    <3>3. CASE DemoteGhosts \/ ReleaseMachine
      BY <3>3, <1>t DEF DemoteGhosts, ReleaseMachine, TickState
    <3> QED
      BY <1>1, <3>1, <3>2, <3>3
  <2> QED
    BY <1>1, <2>1
    DEF TypeInv, TypeOK, AgentFit, TickState, TickStarts, ReadJobs, DemoteGhosts, ReleaseMachine,
        bounds
<1>2. ASSUME NEW j \in Job, Inspect(j) PROVE TypeInv'
  <2>1. tick' \in TickState /\ job' \in [Job -> {"none", "queued"} \cup Active \cup Ended]
    BY <1>2, <1>t, RouteType DEF Inspect, Passed, TickState, TypeInv, TypeOK
  <2>2. {pauses, faults, strays}' \subseteq 0..MaxTrouble
    BY <1>2, Counted DEF Inspect, TypeInv
  <2> QED
    BY <1>2, <2>1, <2>2 DEF TypeInv, TypeOK, AgentFit, TickState, Inspect
<1>3. ASSUME NEW j \in Job, FailUnclaimed(j) PROVE TypeInv'
  BY <1>3, <1>t, RouteType DEF FailUnclaimed, TypeInv, TypeOK, AgentFit, TickState, bounds
<1>4. ASSUME NEW stale \in SUBSET Job, ReadStalePending(stale) PROVE TypeInv'
  <2>1. tick' \in TickState
    BY <1>4, <1>t DEF ReadStalePending, TickState
  <2> QED
    BY <1>4, <2>1 DEF TypeInv, TypeOK, AgentFit, TickState, ReadStalePending, bounds
<1> QED
  BY <1>1, <1>2, <1>3, <1>4 DEF MonitorStep

LEMMA UserType ==
  ASSUME TypeInv, NEW j \in Job, Cancel(j) \/ BeatExpires(j)
  PROVE  TypeInv'
<1>1. CASE Cancel(j)
  BY <1>1 DEF Cancel, TypeInv, TypeOK, AgentFit, Ended, bounds
<1>2. CASE BeatExpires(j)
  <2>1. {pauses, faults, strays}' \subseteq 0..MaxTrouble
    BY <1>2, Counted DEF BeatExpires, TypeInv
  <2> QED
    BY <1>2, <2>1 DEF BeatExpires, TypeInv, TypeOK, AgentFit
<1> QED
  BY <1>1, <1>2

LEMMA TypeStep == TypeInv /\ [Next]_vars => TypeInv'
<1>1. TypeInv /\ UNCHANGED vars => TypeInv'
  BY DEF TypeInv, TypeOK, AgentFit, vars
<1> QED
  BY <1>1, AllocatorType, ServerType, RequestType, AgentType, MonitorType, UserType DEF Next

LEMMA TypeAlways == Spec => []TypeInv
  BY InitType, TypeStep, PTL DEF Spec

(* CommunityMachine's TypeOK: no writer, of the six, leaves a status the   *)
(* others do not know, and every request works for a job of the machine.   *)
THEOREM MachineTypes == Spec => []TypeOK
<1>1. TypeInv => TypeOK
  BY DEF TypeInv
<1> QED
  BY TypeAlways, <1>1, PTL

-----------------------------------------------------------------------------
Quiet == pauses + strays = 0

\* Jobs somebody has claimed, whatever has become of them since.
Given == {"running"} \cup Ended

(* The job of the agent, or of an answer on its way to it, was claimed;    *)
(* only polls claim.                                                       *)
GivenFit ==
  /\ agent.at \in {"got", "work"} => job[agent.job] \in Given
  /\ \A h \in Handler :
       /\ req[h].at \in {"pick", "lock"} => req[h].call = "poll"
       /\ req[h].at = "lock" => req[h].job \in Job /\ job[req[h].job] \in Given

\* What the agent does while it waits for an answer.
Awaits(call) == agent.at = IF call = "poll" THEN "asking" ELSE "offering"

(* While the operator has paused nothing and no request has strayed, the   *)
(* server works on one request of the agent at most, and the agent waits.  *)
OneCall ==
  /\ paused => pauses > 0
  /\ Quiet => /\ \A h \in Handler : req[h] # Free => req[h].waits /\ Awaits(req[h].call)
              /\ \A g, h \in Handler : req[g] # Free /\ req[h] # Free => g = h

(* Unless something goes wrong, the polls answer for the agent until its   *)
(* job's first beat does.                                                  *)
SignOfLife ==
  Quiet /\ faults = 0 =>
    /\ agent.at \in {"idle", "asking", "got"} => alive
    /\ agent.at = "work" /\ job[agent.job] \in Active => alive \/ agent.job \in beats

CauseInv == TypeInv /\ GivenFit /\ OneCall /\ SignOfLife

LEMMA Numbers ==
  ASSUME TypeOK
  PROVE  /\ pauses \in Nat /\ faults \in Nat /\ strays \in Nat
         /\ Quiet <=> (pauses = 0 /\ strays = 0)
  BY Types DEF Quiet

Paid == \/ Fault \/ Stray \/ Fine
        \/ pauses' = pauses + 1 /\ UNCHANGED <<faults, strays>>

(* Every step costs a fault, a stray, a pause or nothing.                  *)
LEMMA StepPaid == ASSUME Next PROVE Paid
<1>1. CASE Allocator
  BY <1>1 DEF Allocator, LockMachine, Plan, DispatchJob, Paid, Fine, bounds
<1>2. CASE MonitorStep
  <2>1. ASSUME NEW j \in Job, Inspect(j) PROVE Paid
    BY <2>1 DEF Inspect, Paid
  <2> QED
    BY <1>2, <2>1
    DEF MonitorStep, TickStarts, ReadJobs, FailUnclaimed, ReadStalePending, DemoteGhosts,
        ReleaseMachine, Paid, Fine, bounds
<1>3. ASSUME NEW h \in Handler, ServerStep(h) PROVE Paid
  <2>1. ASSUME NEW j, Answer(h, j) PROVE Paid
    BY <2>1 DEF Answer, Paid
  <2>2. CASE Offer(h) \/ ClaimJob(h) \/ LockClaimed(h)
    BY <2>1, <2>2 DEF Offer, ClaimJob, LockClaimed, Paid, Fine, bounds
  <2> QED
    BY <1>3, <2>2 DEF ServerStep, ReadRunning, Reclaim, Paid, Fine, bounds
<1>4. ASSUME NEW h \in Handler, TimeOut(h) \/ HandlerDies(h) \/ Resume(h) PROVE Paid
  BY <1>4 DEF TimeOut, HandlerDies, Resume, Paid
<1>5. ASSUME NEW j \in Job, Cancel(j) \/ BeatExpires(j) PROVE Paid
  BY <1>5 DEF Cancel, BeatExpires, Paid, Fine, bounds
<1>6. CASE AgentStep
  <2>1. ASSUME NEW h \in Handler, AskAvailable(h) \/ Poll(h) PROVE Paid
    BY <2>1 DEF AskAvailable, Poll, Paid, Fine, bounds
  <2>2. CASE ExecuteJob \/ RenderDone
    BY <2>2 DEF ExecuteJob, RenderDone, Paid, Fine, bounds
  <2>3. CASE RenderFails \/ AfterPause
    BY <2>3 DEF RenderFails, Notify, AfterPause, SetIdle, Paid
  <2> QED
    BY <1>6, <2>1, <2>2, <2>3 DEF AgentStep
<1>7. CASE NotExecuted \/ Leave
  BY <1>7 DEF NotExecuted, Notify, Leave, SetIdle, Paid
<1>8. CASE Connect \/ Beat \/ RegisterOutputs \/ Pause \/ AgentCrash \/ AliveExpires
  BY <1>8 DEF Connect, Beat, RegisterOutputs, Pause, AgentCrash, AliveExpires, Paid, Fine, bounds
<1> QED
  BY <1>1, <1>2, <1>3, <1>4, <1>5, <1>6, <1>7, <1>8 DEF Next

(* What a step costs it never gives back.                                  *)
LEMMA NeverQuieter ==
  ASSUME TypeOK, Paid
  PROVE  /\ Quiet' => Quiet
         /\ faults' = 0 => faults = 0
         /\ pauses' >= pauses
  BY Numbers DEF Paid, Fault, Stray, Fine, bounds, Quiet

(* A claimed job stays claimed, and one that is over stays over.           *)
Kept(s, t) == (s \in Given => t \in Given) /\ (s \in Ended => t \in Ended)

LEMMA JobsGoOn ==
  ASSUME TypeInv, Next
  PROVE  \A k \in Job : Kept(job[k], job'[k])
<1>t. /\ job \in [Job -> {"none", "queued"} \cup Active \cup Ended]
      /\ agent.at \in {"got", "work"} => agent.job \in Job
  BY Types DEF TypeInv, AgentFit
<1>0. \A s : Kept(s, s)
  BY DEF Kept
<1>s. ASSUME NEW j \in Job, NEW s, Kept(job[j], s), job' = [job EXCEPT ![j] = s]
      PROVE  \A k \in Job : Kept(job[k], job'[k])
  BY <1>t, <1>0, <1>s
<1>e. \A s : s \in Ended => \A t : Kept(t, s)
  BY DEF Kept, Given
<1>1. CASE UNCHANGED job
  BY <1>0, <1>1
<1>2. ASSUME NEW j \in Job, Plan(j) \/ DispatchJob(j)
      PROVE  \A k \in Job : Kept(job[k], job'[k])
  <2>1. PICK s : job' = [job EXCEPT ![j] = s] /\ job[j] \in {"none", "queued"}
    BY <1>2 DEF Plan, DispatchJob
  <2>2. Kept(job[j], s)
    BY <2>1 DEF Kept, Given, Ended
  <2> QED
    BY <1>s, <2>1, <2>2
<1>3. ASSUME NEW h \in Handler, ClaimJob(h)
      PROVE  \A k \in Job : Kept(job[k], job'[k])
  <2>1. CASE Pending # {}
    <3>1. PICK j \in Pending : job' = [job EXCEPT ![j] = "running"]
      BY <1>3, <2>1 DEF ClaimJob
    <3>2. j \in Job /\ Kept(job[j], "running")
      BY <3>1 DEF Pending, Kept, Given, Ended
    <3> QED
      BY <1>s, <3>1, <3>2
  <2> QED
    BY <1>1, <1>3, <2>1 DEF ClaimJob
<1>4. ASSUME NEW j \in Job, \/ job' = [job EXCEPT ![j] = "done"]
                            \/ job' = [job EXCEPT ![j] = "failed"]
                            \/ job' = [job EXCEPT ![j] = "cancelled"]
      PROVE  \A k \in Job : Kept(job[k], job'[k])
  <2>1. \A s \in {"done", "failed", "cancelled"} : Kept(job[j], s)
    BY <1>e DEF Ended
  <2> QED
    BY <1>s, <1>4, <2>1
<1>5. ASSUME NEW j \in Job, Inspect(j) \/ FailUnclaimed(j) \/ Cancel(j)
      PROVE  \A k \in Job : Kept(job[k], job'[k])
  BY <1>1, <1>4, <1>5 DEF Inspect, FailUnclaimed, Route, Passed, Cancel
<1>6. ASSUME NEW h \in Handler, NEW j \in Job, Reclaim(h, j)
      PROVE  \A k \in Job : Kept(job[k], job'[k])
  BY <1>4, <1>6 DEF Reclaim
<1>7. CASE NotExecuted \/ RenderFails
  <2>1. agent.job \in Job
    BY <1>7, <1>t DEF NotExecuted, RenderFails
  <2> QED
    BY <1>1, <1>4, <1>7, <2>1 DEF NotExecuted, RenderFails, Notify
<1> QED
  <2>1. CASE Allocator \/ MonitorStep
    BY <1>1, <1>2, <1>5, <2>1
    DEF Allocator, LockMachine, MonitorStep, TickStarts, ReadJobs, ReadStalePending, DemoteGhosts,
        ReleaseMachine
  <2>2. ASSUME NEW h \in Handler, ServerStep(h) \/ TimeOut(h) \/ HandlerDies(h) \/ Resume(h)
        PROVE  \A k \in Job : Kept(job[k], job'[k])
    BY <1>1, <1>3, <1>6, <2>2
    DEF ServerStep, ReadRunning, Offer, LockClaimed, TimeOut, HandlerDies, Resume
  <2>3. CASE AgentStep
    BY <1>1, <1>7, <2>3 DEF AgentStep, AskAvailable, Poll, ExecuteJob, RenderDone, AfterPause
  <2>4. CASE \/ Connect \/ NotExecuted \/ Beat \/ RegisterOutputs
             \/ Pause \/ Leave \/ AgentCrash \/ AliveExpires
    BY <1>1, <1>7, <2>4 DEF Connect, Beat, RegisterOutputs, Pause, Leave, AgentCrash, AliveExpires
  <2>5. ASSUME NEW j \in Job, Cancel(j) \/ BeatExpires(j)
        PROVE  \A k \in Job : Kept(job[k], job'[k])
    BY <1>1, <1>5, <2>5 DEF BeatExpires
  <2> QED
    BY <2>1, <2>2, <2>3, <2>4, <2>5 DEF Next

(* The agent's job is the one it had, or the one a claim answers it with.  *)
SameJob ==
  agent'.at \in {"got", "work"} =>
    \/ agent.at \in {"got", "work"} /\ agent'.job = agent.job
    \/ \E h \in Handler : req[h].at = "lock" /\ agent'.job = req[h].job

LEMMA AgentMoves == ASSUME TypeInv, Next PROVE SameJob
<1>t. agent \in AgentState
  BY Types DEF TypeInv
<1>0. ASSUME UNCHANGED agent PROVE SameJob
  BY <1>0 DEF SameJob
<1>1. ASSUME agent' \in GivesUp PROVE SameJob
  BY <1>1, Records DEF SameJob
<1>2. ASSUME NEW place \in {"off", "joined", "offering", "idle", "asking", "after"},
             agent' = At(place, None)
      PROVE  SameJob
  BY <1>2, Records DEF SameJob
<1>3. ASSUME NEW h \in Handler, NEW j \in {None, req[h].job}, Answer(h, j),
             j # None => req[h].at = "lock"
      PROVE  SameJob
  <2>1. CASE agent' = At("got", j) /\ j # None
    BY <1>3, <2>1 DEF SameJob, At
  <2> QED
    BY <1>0, <1>1, <1>2, <1>3, <2>1 DEF Answer
<1>4. ASSUME NEW h \in Handler, ServerStep(h) PROVE SameJob
  <2>1. CASE Offer(h)
    BY <1>0, <1>3, <2>1 DEF Offer
  <2>2. CASE ClaimJob(h)
    BY <1>0, <1>3, <2>2 DEF ClaimJob
  <2>3. CASE LockClaimed(h)
    BY <1>3, <2>3 DEF LockClaimed
  <2> QED
    BY <1>0, <1>4, <2>1, <2>2, <2>3 DEF ServerStep, ReadRunning, Reclaim
<1>5. ASSUME NEW h \in Handler, TimeOut(h) \/ HandlerDies(h) \/ Resume(h) PROVE SameJob
  BY <1>0, <1>1, <1>5 DEF TimeOut, HandlerDies, Resume
<1>6. CASE AgentStep
  <2>1. ASSUME NEW h \in Handler, AskAvailable(h) \/ Poll(h) PROVE SameJob
    BY <1>2, <2>1 DEF AskAvailable, Poll
  <2>2. CASE ExecuteJob
    BY <2>2 DEF ExecuteJob, At, SameJob
  <2> QED
    BY <1>2, <1>6, <2>1, <2>2 DEF AgentStep, RenderDone, RenderFails, AfterPause
<1>7. CASE Pause
  <2>1. agent'.at = agent.at /\ agent'.job = agent.job
    BY <1>7, <1>t DEF Pause, AgentState
  <2> QED
    BY <2>1 DEF SameJob
<1>8. CASE Connect \/ NotExecuted \/ Leave \/ AgentCrash
  BY <1>2, <1>8 DEF Connect, NotExecuted, Leave, AgentCrash
<1>9. CASE Allocator \/ MonitorStep
  BY <1>0, <1>9
  DEF Allocator, LockMachine, Plan, DispatchJob, MonitorStep, TickStarts, ReadJobs, Inspect,
      FailUnclaimed, ReadStalePending, DemoteGhosts, ReleaseMachine
<1> QED
  BY <1>0, <1>4, <1>5, <1>6, <1>7, <1>8, <1>9
  DEF Next, Beat, RegisterOutputs, AliveExpires, Cancel, BeatExpires

(* A handler that is to lock the machine does so for a job it has claimed. *)
SameClaim(h) ==
  /\ req'[h].at \in {"pick", "lock"} => req'[h].call = "poll"
  /\ req'[h].at = "lock" => \/ req[h].at = "lock" /\ req'[h].job = req[h].job
                            \/ req'[h].job \in Job /\ job'[req'[h].job] = "running"

LEMMA RequestMoves ==
  ASSUME TypeInv, GivenFit, Next, NEW h \in Handler
  PROVE  SameClaim(h)
<1>t. /\ \A g \in Handler : req[g].at \in {"pick", "lock"} => req[g].call = "poll"
      /\ req \in [Handler -> Request] /\ Free.at = "free"
      /\ job \in [Job -> {"none", "queued"} \cup Active \cup Ended]
  BY Types DEF TypeInv, Free, GivenFit
<1>0. ASSUME req'[h] = req[h] PROVE SameClaim(h)
  BY <1>0, <1>t DEF SameClaim
<1>1. ASSUME req'[h].at # "lock", req'[h].at = "pick" => req'[h].call = "poll"
      PROVE  SameClaim(h)
  BY <1>1 DEF SameClaim
<1>2. ASSUME NEW g \in Handler, NEW x, req' = [req EXCEPT ![g] = x],
             x.at # "lock", x.at = "pick" => x.call = "poll"
      PROVE  SameClaim(h)
  BY <1>0, <1>1, <1>2, <1>t
<1>3. ASSUME NEW g \in Handler, ServerStep(g) PROVE SameClaim(h)
  <2>1. CASE ReadRunning(g) \/ \E j \in Job : Reclaim(g, j)
    <3>1. req'[g].at = "reclaim" /\ (h # g => req'[h] = req[h])
      BY <1>t, <2>1 DEF ReadRunning, Reclaim, Request
    <3> QED
      BY <1>0, <1>1, <3>1
  <2>2. ASSUME NEW j, Answer(g, j) PROVE SameClaim(h)
    BY <1>t, <1>2, <2>2 DEF Answer
  <2>3. CASE Offer(g)
    <3>1. CASE Goto(g, "pick") /\ req[g].call = "poll"
      <4>1. /\ req'[g].at = "pick" /\ req'[g].call = "poll"
            /\ h # g => req'[h] = req[h]
        BY <1>t, <3>1 DEF Goto, Request
      <4> QED
        BY <1>0, <1>1, <4>1
    <3> QED
      BY <2>2, <2>3, <3>1 DEF Offer
  <2>4. CASE ClaimJob(g)
    <3>1. CASE Pending # {}
      <4>1. PICK j \in Pending : /\ job' = [job EXCEPT ![j] = "running"]
                                 /\ req' = [req EXCEPT ![g].at = "lock", ![g].job = j]
        BY <2>4, <3>1 DEF ClaimJob
      <4>2. j \in Job /\ job'[j] = "running"
        BY <1>t, <4>1 DEF Pending
      <4>3. /\ req'[g].job = j /\ req'[g].call = req[g].call
            /\ h # g => req'[h] = req[h]
        BY <1>t, <4>1 DEF Request
      <4>4. req[g].call = "poll"
        BY <1>t, <2>4 DEF ClaimJob
      <4> QED
        BY <1>0, <4>2, <4>3, <4>4 DEF SameClaim
    <3> QED
      BY <2>2, <2>4, <3>1 DEF ClaimJob
  <2> QED
    BY <1>3, <2>1, <2>2, <2>3, <2>4 DEF ServerStep, LockClaimed
<1>4. ASSUME NEW g \in Handler, NEW call, NEW place \in {"read", "offer", "pick"}, NEW w,
             Received(g, call, place, w), place = "pick" => call = "poll"
      PROVE  SameClaim(h)
  <2> DEFINE x == [at |-> place, call |-> call, waits |-> w, todo |-> {}, job |-> None]
  <2>1. x.at = place /\ x.call = call /\ req' = [req EXCEPT ![g] = x]
    BY <1>4 DEF Received
  <2> HIDE DEF x
  <2> QED
    BY <1>2, <1>4, <2>1
<1>5. ASSUME NEW g \in Handler, TimeOut(g) \/ HandlerDies(g) \/ Resume(g) PROVE SameClaim(h)
  <2>1. CASE TimeOut(g)
    <3>1. req'[h].at = req[h].at /\ req'[h].job = req[h].job /\ req'[h].call = req[h].call
      BY <1>t, <2>1 DEF TimeOut, Request
    <3> QED
      BY <1>t, <3>1 DEF SameClaim
  <2>2. CASE HandlerDies(g)
    BY <1>t, <1>2, <2>2 DEF HandlerDies
  <2>3. CASE Resume(g)
    BY <1>0, <1>4, <2>3 DEF Resume
  <2> QED
    BY <1>5, <2>1, <2>2, <2>3
<1>6. CASE AgentStep
  <2>1. ASSUME NEW g \in Handler, AskAvailable(g) \/ Poll(g) PROVE SameClaim(h)
    BY <1>4, <2>1 DEF AskAvailable, Poll, TypeInv, TypeOK
  <2> QED
    BY <1>0, <1>6, <2>1 DEF AgentStep, ExecuteJob, RenderDone, RenderFails, AfterPause
<1>7. CASE AgentCrash
  <2>1. req'[h].at = req[h].at /\ req'[h].job = req[h].job /\ req'[h].call = req[h].call
    BY <1>t, <1>7 DEF AgentCrash, Request
  <2> QED
    BY <1>t, <2>1 DEF SameClaim
<1>8. CASE Allocator \/ MonitorStep
  BY <1>0, <1>8
  DEF Allocator, LockMachine, Plan, DispatchJob, MonitorStep, TickStarts, ReadJobs, Inspect,
      FailUnclaimed, ReadStalePending, DemoteGhosts, ReleaseMachine
<1> QED
  BY <1>0, <1>3, <1>5, <1>6, <1>7, <1>8
  DEF Next, Connect, NotExecuted, Pause, Leave, Beat, RegisterOutputs, AliveExpires, Cancel,
      BeatExpires

LEMMA GivenStep == ASSUME TypeInv, GivenFit, Next PROVE GivenFit'
<1>1. ASSUME agent'.at \in {"got", "work"} PROVE job'[agent'.job] \in Given
  <2>1. PICK k \in Job : k = agent'.job /\ job[k] \in Given
    BY <1>1, AgentMoves DEF SameJob, GivenFit, TypeInv, AgentFit
  <2> QED
    BY <2>1, JobsGoOn DEF Kept
<1>2. ASSUME NEW h \in Handler, req'[h].at = "lock"
      PROVE  req'[h].job \in Job /\ job'[req'[h].job] \in Given
  <2>1. CASE req[h].at = "lock" /\ req'[h].job = req[h].job
    BY <2>1, JobsGoOn DEF Kept, GivenFit
  <2> QED
    BY <1>2, <2>1, RequestMoves DEF SameClaim, Given
<1> QED
  BY <1>1, <1>2, RequestMoves DEF GivenFit, SameClaim

-----------------------------------------------------------------------------
Waiting == agent.at \in {"offering", "asking"}

LEMMA CallStep ==
  ASSUME TypeInv, OneCall, Next
  PROVE  OneCall'
<1>t. /\ req \in [Handler -> Request] /\ TypeOK /\ Free.at = "free"
      /\ \A h \in Handler : req[h].at # "free" => req[h] # Free
  BY Types DEF TypeInv, Free
<1>q. Quiet' => Quiet
  BY <1>t, StepPaid, NeverQuieter
<1>n. /\ pauses \in Nat /\ strays \in Nat /\ (Quiet <=> pauses = 0 /\ strays = 0)
  BY <1>t, Numbers
<1>s. Stray => ~Quiet'
  BY <1>n DEF Stray, Quiet
<1>0. ASSUME UNCHANGED <<paused, pauses>> \/ (paused' => pauses' > 0),
             UNCHANGED <<req, agent>>
      PROVE  OneCall'
  BY <1>0, <1>q DEF OneCall, Awaits
\* Nobody works on anything, then or now.
<1>1. ASSUME UNCHANGED req, ~Waiting, paused' => pauses' > 0
      PROVE  OneCall'
  BY <1>1, <1>q DEF OneCall, Waiting, Awaits
<1>p. ASSUME UNCHANGED paused PROVE paused' => pauses' > 0
  BY <1>p, <1>t, <1>n, StepPaid, NeverQuieter, Types DEF OneCall, Paid, Fault, Stray, Fine, bounds
<1>2. ASSUME NEW h \in Handler, ServerStep(h) PROVE OneCall'
  <2>1. req[h] # Free
    BY <1>2, <1>t
    DEF ServerStep, ReadRunning, Reclaim, Offer, ClaimJob, LockClaimed
  <2>2. UNCHANGED paused
    BY <1>2 DEF ServerStep, ReadRunning, Reclaim, Offer, ClaimJob, LockClaimed
  <2>3. ASSUME NEW j, Answer(h, j) PROVE OneCall'
    <3>1. \A g \in Handler : req'[g] = IF g = h THEN Free ELSE req[g]
      BY <1>t, <2>3 DEF Answer
    <3>2. Quiet' => \A g \in Handler : req'[g] = Free
      BY <1>q, <2>1, <3>1 DEF OneCall
    <3> QED
      BY <1>p, <2>2, <3>2 DEF OneCall
  <2>4. ASSUME UNCHANGED agent,
               \A g \in Handler : g # h => req'[g] = req[g],
               req'[h].waits = req[h].waits, req'[h].call = req[h].call
        PROVE  OneCall'
    BY <1>p, <1>q, <2>1, <2>2, <2>4 DEF OneCall, Awaits
  <2>5. CASE ReadRunning(h) \/ \E j \in Job : Reclaim(h, j)
    <3>1. /\ UNCHANGED agent
          /\ \A g \in Handler : g # h => req'[g] = req[g]
          /\ req'[h].waits = req[h].waits /\ req'[h].call = req[h].call
      BY <1>t, <2>5 DEF ReadRunning, Reclaim, Request
    <3> QED
      BY <2>4, <3>1
  <2>6. CASE Offer(h)
    <3>1. CASE req[h].call = "poll"
      <4>1. /\ UNCHANGED agent
            /\ \A g \in Handler : g # h => req'[g] = req[g]
            /\ req'[h].waits = req[h].waits /\ req'[h].call = req[h].call
        BY <1>t, <2>6, <3>1 DEF Offer, Goto, Request
      <4> QED
        BY <2>4, <4>1
    <3> QED
      BY <2>3, <2>6, <3>1 DEF Offer
  <2>7. CASE ClaimJob(h)
    <3>1. CASE Pending # {}
      <4>1. /\ UNCHANGED agent
            /\ \A g \in Handler : g # h => req'[g] = req[g]
            /\ req'[h].waits = req[h].waits /\ req'[h].call = req[h].call
        BY <1>t, <2>7, <3>1 DEF ClaimJob, Request
      <4> QED
        BY <2>4, <4>1
    <3> QED
      BY <2>3, <2>7, <3>1 DEF ClaimJob
  <2> QED
    BY <1>2, <2>3, <2>5, <2>6, <2>7 DEF ServerStep, LockClaimed
<1>3. ASSUME NEW h \in Handler, TimeOut(h) \/ HandlerDies(h) PROVE OneCall'
  BY <1>3, <1>p, <1>s DEF TimeOut, HandlerDies, OneCall
<1>4. ASSUME NEW h \in Handler, Resume(h) PROVE OneCall'
  <2>1. paused /\ ~paused' /\ pauses' = pauses
    BY <1>4 DEF Resume, Fine, Fault, bounds
  <2>2. ~Quiet'
    BY <1>n, <1>q, <2>1 DEF OneCall
  <2> QED
    BY <2>1, <2>2 DEF OneCall
<1>5. ASSUME NEW h \in Handler, AskAvailable(h) \/ Poll(h) PROVE OneCall'
  <2>1. PICK call \in {"available", "poll"}, place \in {"read", "offer", "pick"} :
          /\ Received(h, call, place, TRUE)
          /\ agent' = At(IF call = "poll" THEN "asking" ELSE "offering", None)
    <3>1. CASE AskAvailable(h)
      BY <3>1 DEF AskAvailable
    <3>2. CASE Poll(h)
      BY <3>2, <1>t DEF Poll, TypeOK
    <3> QED
      BY <1>5, <3>1, <3>2
  <2>2. agent.at \in {"joined", "after", "idle"} /\ UNCHANGED paused
    BY <1>5 DEF AskAvailable, Poll
  <2>3. /\ req'[h].waits /\ req'[h].call = call
        /\ \A g \in Handler : g # h => req'[g] = req[g]
    BY <2>1, <1>t DEF Received
  <2>4. Quiet' => \A g \in Handler : req[g] = Free
    BY <1>q, <2>2 DEF OneCall, Awaits
  <2>5. Awaits(call)'
    BY <2>1 DEF At, Awaits
  <2> QED
    BY <1>p, <2>2, <2>3, <2>4, <2>5 DEF OneCall, Awaits
<1>6. CASE ExecuteJob \/ NotExecuted \/ RenderDone \/ RenderFails \/ AfterPause \/ Leave
  <2>1. UNCHANGED <<req, paused>> /\ ~Waiting
    BY <1>6 DEF ExecuteJob, NotExecuted, RenderDone, RenderFails, AfterPause, Leave, Waiting
  <2> QED
    BY <1>1, <1>p, <2>1
<1>7. CASE Connect
  <2>1. UNCHANGED req /\ ~Waiting /\ ~paused'
    BY <1>7 DEF Connect, Waiting
  <2> QED
    BY <1>1, <2>1
<1>8. CASE Pause
  <2>1. pauses' > 0 /\ ~Quiet'
    BY <1>8, <1>n DEF Pause, Quiet
  <2> QED
    BY <2>1 DEF OneCall
<1>9. CASE AgentCrash
  <2>1. UNCHANGED paused /\ (UNCHANGED req \/ ~Quiet')
    BY <1>9, <1>s DEF AgentCrash
  <2>2. ASSUME UNCHANGED req, Quiet', NEW h \in Handler PROVE req[h] = Free
    <3>1. ~req'[h].waits
      BY <1>9, <1>t DEF AgentCrash, Request
    <3> QED
      BY <1>q, <2>2, <3>1 DEF OneCall
  <2> QED
    BY <1>p, <2>1, <2>2 DEF OneCall
<1>10. CASE Allocator \/ MonitorStep
  BY <1>0, <1>p, <1>10
  DEF Allocator, LockMachine, Plan, DispatchJob, MonitorStep, TickStarts, ReadJobs, Inspect,
      FailUnclaimed, ReadStalePending, DemoteGhosts, ReleaseMachine
<1>11. CASE Beat \/ RegisterOutputs \/ AliveExpires \/ \E j \in Job : Cancel(j) \/ BeatExpires(j)
  BY <1>0, <1>p, <1>11 DEF Beat, RegisterOutputs, AliveExpires, Cancel, BeatExpires
<1> QED
  BY <1>2, <1>3, <1>4, <1>5, <1>6, <1>7, <1>8, <1>9, <1>10, <1>11 DEF Next, AgentStep

LEMMA SignStep ==
  ASSUME TypeInv, GivenFit, OneCall, SignOfLife, Next
  PROVE  SignOfLife'
<1> DEFINE Signs == /\ agent'.at \in {"idle", "asking", "got"} => alive'
                    /\ agent'.at = "work" /\ job'[agent'.job] \in Active
                         => alive' \/ agent'.job \in beats'
<1> SUFFICES ASSUME Quiet', faults' = 0 PROVE Signs
  BY DEF SignOfLife
<1>t. /\ TypeOK /\ agent \in AgentState
      /\ Active \cap Ended = {} /\ Active \cap Given = {"running"}
  BY Types DEF TypeInv, Active, Ended, Given
<1>n. /\ pauses \in Nat /\ strays \in Nat /\ faults \in Nat /\ pauses = 0 /\ strays = 0
      /\ faults = 0 /\ Quiet
  BY <1>t, StepPaid, NeverQuieter, Numbers
<1>f. ~paused /\ ~Stray /\ ~Fault /\ pauses' = pauses
  BY <1>n, StepPaid DEF OneCall, Stray, Fault, Quiet, Paid, Fine, bounds
<1>s. /\ agent.at \in {"idle", "asking", "got"} => alive
      /\ agent.at = "work" /\ job[agent.job] \in Active => alive \/ agent.job \in beats
  BY <1>n DEF SignOfLife
<1>g. agent.at \in {"got", "work"} => agent.job \in Job /\ job[agent.job] \in Given
  BY DEF GivenFit, TypeInv, AgentFit
\* A claimed job at work now was at work before.
<1>j. ASSUME NEW k \in Job, job[k] \in Given, job'[k] \in Active PROVE job[k] \in Active
  <2>1. job[k] \notin Ended
    BY <1>t, <1>j, JobsGoOn DEF Kept
  <2> QED
    BY <1>j, <2>1 DEF Given, Active
<1> HIDE DEF Signs
<1>0. ASSUME agent'.at = agent.at, agent'.job = agent.job, beats \subseteq beats', alive => alive'
      PROVE  Signs
  BY <1>0, <1>g, <1>j, <1>s DEF Signs
<1>1. ASSUME agent'.at \notin {"idle", "asking", "got", "work"} PROVE Signs
  BY <1>1 DEF Signs
<1>2. ASSUME alive' PROVE Signs
  BY <1>2 DEF Signs
<1>3. ASSUME NEW h \in Handler, ServerStep(h) PROVE Signs
  <2>1. CASE ReadRunning(h) \/ \E j \in Job : Reclaim(h, j)
    BY <1>0, <2>1 DEF ReadRunning, Reclaim
  <2>2. CASE Offer(h)
    BY <1>0, <1>2, <2>2 DEF Offer
  <2>3. CASE ClaimJob(h) \/ LockClaimed(h)
    <3>1. req[h] # Free /\ req[h].call = "poll"
      BY <2>3 DEF ClaimJob, LockClaimed, Free, GivenFit
    <3>2. alive
      BY <1>n, <1>s, <3>1 DEF OneCall, Awaits
    <3> QED
      BY <1>2, <2>3, <3>2 DEF ClaimJob, LockClaimed
  <2> QED
    BY <1>3, <2>1, <2>2, <2>3 DEF ServerStep
<1>4. ASSUME NEW h \in Handler, TimeOut(h) \/ HandlerDies(h) \/ Resume(h) PROVE Signs
  BY <1>4, <1>f DEF TimeOut, HandlerDies, Resume
<1>5. CASE AgentStep
  <2>1. ASSUME NEW h \in Handler, AskAvailable(h) \/ Poll(h) PROVE Signs
    <3>1. CASE AskAvailable(h)
      <4>1. agent'.at = "offering"
        BY <3>1 DEF AskAvailable, At
      <4> QED
        BY <1>1, <4>1
    <3>2. CASE Poll(h)
      BY <1>2, <3>2 DEF Poll
    <3> QED
      BY <2>1, <3>1, <3>2
  <2>2. CASE ExecuteJob
    BY <1>2, <1>s, <2>2 DEF ExecuteJob
  <2>3. CASE RenderDone \/ RenderFails
    BY <1>1, <2>3 DEF RenderDone, RenderFails, At
  <2>4. CASE AfterPause
    BY <1>f, <2>4 DEF AfterPause
  <2> QED
    BY <1>5, <2>1, <2>2, <2>3, <2>4 DEF AgentStep
<1>6. CASE Connect \/ Leave \/ AgentCrash
  BY <1>1, <1>6 DEF Connect, Leave, AgentCrash, At
<1>7. CASE NotExecuted
  BY <1>2, <1>s, <1>7 DEF NotExecuted
<1>8. CASE Pause
  BY <1>f, <1>n, <1>8 DEF Pause
<1>9. CASE AliveExpires
  <2>1. /\ ~(agent.at \in {"idle", "asking"} /\ ~paused)
        /\ ~(agent.at = "got" \/ (agent.at = "work" /\ agent.job \notin beats))
        /\ UNCHANGED <<agent, beats>>
    BY <1>9, <1>f DEF AliveExpires
  <2> QED
    BY <1>f, <2>1 DEF Signs
<1>10. ASSUME NEW j \in Job, BeatExpires(j) PROVE Signs
  <2>1. /\ ~(agent.at = "work" /\ agent.job = j /\ job[j] \in Active)
        /\ beats' = beats \ {j} /\ UNCHANGED <<job, alive, agent>>
    BY <1>10, <1>f DEF BeatExpires
  <2> QED
    BY <1>s, <2>1 DEF Signs
<1>11. ASSUME NEW j \in Job, Cancel(j) PROVE Signs
  BY <1>0, <1>11 DEF Cancel
<1>12. CASE Allocator \/ MonitorStep \/ Beat \/ RegisterOutputs
  BY <1>0, <1>12
  DEF Allocator, LockMachine, Plan, DispatchJob, MonitorStep, TickStarts, ReadJobs, Inspect,
      FailUnclaimed, ReadStalePending, DemoteGhosts, ReleaseMachine, Beat, RegisterOutputs
<1> QED
  BY <1>3, <1>4, <1>5, <1>6, <1>7, <1>8, <1>9, <1>10, <1>11, <1>12 DEF Next

LEMMA CauseInit == Init => CauseInv
<1> SUFFICES ASSUME Init PROVE CauseInv
  OBVIOUS
<1>1. /\ agent.at = "off" /\ ~paused /\ \A h \in Handler : req[h] = Free
  BY DEF Init, At
<1>2. Free.at = "free"
  BY DEF Free
<1> QED
  BY <1>1, <1>2, InitType DEF CauseInv, GivenFit, OneCall, SignOfLife

LEMMA CauseStep == CauseInv /\ [Next]_vars => CauseInv'
<1>1. CauseInv /\ UNCHANGED vars => CauseInv'
  BY TypeStep
  DEF CauseInv, GivenFit, OneCall, SignOfLife, Quiet, Awaits, vars
<1> QED
  BY <1>1, TypeStep, GivenStep, CallStep, SignStep DEF CauseInv

LEMMA CauseAlways == Spec => []CauseInv
  BY CauseInit, CauseStep, PTL DEF Spec

(* Who can fail a job that its agent holds: the agent, the monitor, or a   *)
(* handler that still reclaims for an earlier request of the agent.        *)
FailsIt(j) ==
  \/ agent' # agent
  \/ tick.at = "sweep"
  \/ tick.at = "inspect" /\ ~tick.alive /\ j \notin beats
  \/ \E h \in Handler : req[h].at = "reclaim"

LEMMA HeldFailed ==
  ASSUME CauseInv, Next, NEW j \in Job, job[j] = "running", job'[j] = "failed", faults' = 0
  PROVE  FailsIt(j)
<1>t. /\ job \in [Job -> {"none", "queued"} \cup Active \cup Ended] /\ faults \in Nat
      /\ agent \in AgentState
  BY Types DEF CauseInv, TypeInv
<1>f. ~Fault
  BY <1>t DEF Fault
<1>0. ~(UNCHANGED job)
  OBVIOUS
<1>1. CASE Allocator \/ Connect \/ Beat \/ RegisterOutputs \/ Pause \/ Leave \/ AgentCrash \/ AliveExpires
  BY <1>0, <1>1, <1>t
  DEF Allocator, LockMachine, Plan, DispatchJob, Connect, Beat, RegisterOutputs, Pause, Leave,
      AgentCrash, AliveExpires
<1>2. ASSUME NEW h \in Handler, ServerStep(h) PROVE FailsIt(j)
  <2>1. ~ClaimJob(h)
    BY <1>0, <1>t DEF ClaimJob
  <2> QED
    BY <1>0, <1>2, <2>1 DEF ServerStep, ReadRunning, Reclaim, Offer, LockClaimed, FailsIt
<1>3. ASSUME NEW h \in Handler, TimeOut(h) \/ HandlerDies(h) \/ Resume(h) PROVE FailsIt(j)
  BY <1>0, <1>3 DEF TimeOut, HandlerDies, Resume
<1>4. CASE AgentStep
  <2>1. CASE RenderFails
    BY <2>1 DEF RenderFails, At, FailsIt
  <2> QED
    BY <1>0, <1>4, <2>1 DEF AgentStep, AskAvailable, Poll, ExecuteJob, RenderDone, AfterPause
<1>5. CASE NotExecuted
  BY <1>5 DEF NotExecuted, At, FailsIt
<1>6. ASSUME NEW k \in Job, Cancel(k) \/ BeatExpires(k) PROVE FailsIt(j)
  BY <1>0, <1>6, <1>t DEF Cancel, BeatExpires
<1>7. CASE MonitorStep
  <2>1. ASSUME NEW k \in Job, Inspect(k) PROVE FailsIt(j)
    <3>1. k = j /\ Offline(k) /\ tick.at = "inspect"
      BY <1>f, <1>t, <2>1 DEF Inspect, Route, Passed
    <3> QED
      BY <3>1 DEF Offline, FailsIt
  <2> QED
    BY <1>0, <1>7, <2>1
    DEF MonitorStep, TickStarts, ReadJobs, FailUnclaimed, ReadStalePending, DemoteGhosts,
        ReleaseMachine, FailsIt
<1> QED
  BY <1>1, <1>2, <1>3, <1>4, <1>5, <1>6, <1>7 DEF Next

(* The server takes no running job from an agent that holds it but for one *)
(* of the known races: CommunityMachine's KilledForCause, what the two     *)
(* liveness signals of community_fleet_monitor.py are for.                 *)
THEOREM AgentKeepsItsJob == Spec => KilledForCause
<1> DEFINE Fails(j) == Held(j) /\ job[j] = "running" /\ job'[j] = "failed" /\ faults' = 0
           Cause == \/ agent' # agent
                    \/ tick.at = "sweep"
                    \/ tick.at = "inspect" /\ alive /\ ~tick.alive
                    \/ pauses + strays > 0
<1>1. ASSUME CauseInv, Next, NEW j \in Job, Fails(j), pauses + strays = 0 PROVE Cause
  <2>1. FailsIt(j)
    BY <1>1, HeldFailed
  <2>2. TypeOK /\ faults \in Nat /\ Paid
    BY <1>1, StepPaid, Numbers DEF CauseInv, TypeInv
  <2>3. faults = 0 /\ Quiet
    BY <1>1, <2>2, NeverQuieter DEF Quiet
  <2>4. agent.at \in {"got", "work"} /\ agent.job = j
    BY <1>1 DEF Held
  <2>5. alive \/ j \in beats
    BY <1>1, <2>3, <2>4 DEF CauseInv, SignOfLife, Active
  <2>6. \A h \in Handler : req[h] = Free
    BY <1>1, <2>3, <2>4 DEF CauseInv, OneCall, Awaits
  <2>7. \A h \in Handler : req[h].at # "reclaim"
    BY <2>6 DEF Free
  <2> QED
    BY <2>1, <2>5, <2>7 DEF FailsIt
<1>2. CauseInv => pauses + strays = 0 \/ pauses + strays > 0
  BY Numbers DEF CauseInv, TypeInv
<1>3. CauseInv /\ [Next]_vars => [\A j \in Job : Fails(j) => Cause]_vars
  BY <1>1, <1>2
<1> QED
  BY CauseAlways, <1>3, PTL DEF Spec, KilledForCause

=============================================================================
