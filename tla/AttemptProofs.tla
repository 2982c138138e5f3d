---------------------------- MODULE AttemptProofs ----------------------------
(***************************************************************************)
(* The attempts at a chunk, for every value of the constants: each is      *)
(* dispatched once, there are max_retries + 1 of them at most, and one     *)
(* runs at a time; and, with no user at work, that RenderLifecycle         *)
(* implements ChunkPromise.                                                *)
(*                                                                         *)
(* The first three are not inductive.  They hold because the right to the  *)
(* next dispatch of a chunk is in one place only: a row of                 *)
(* pending_allocation_queue, a row of dispatch_queue, the claim of a job,  *)
(* or the handler that has released that claim.  Steps pass it on or lose  *)
(* it; a crash between the INSERT of one row and the DELETE of another, a  *)
(* single-job cancel and a manual retry can make a second one.             *)
(*                                                                         *)
(* For the refinement three facts more: attempts are numbered without      *)
(* gaps, a row on a queue is ahead of every attempt dispatched, and a row  *)
(* is deleted only when its chunks are on dispatch_queue or in a teardown. *)
(***************************************************************************)
EXTENDS RenderLifecycleProofs, FiniteSetTheorems

\* The tick's rows and the points at which the daemon works on them.
TickPC == {"batch", "owner", "enqueue"}

TickFit ==
  /\ \A r, s \in pendingQ \cup tick.batch \cup {tick.row} : r.id = s.id => r = s
  /\ tick.row \notin tick.batch
  /\ th[Daemon].pc \notin TickPC => tick = NoTick
  /\ th[Daemon].pc = "batch" => tick.row = NoRow /\ tick.plan = {} /\ tick.chunk = NoChunk
  /\ th[Daemon].pc = "owner" => tick.row # NoRow /\ tick.chunk = NoChunk
  /\ th[Daemon].pc = "enqueue" => tick.row # NoRow /\ tick.chunk \notin tick.plan

\* What the step of a handler is to the queue of rows and to the tick.
StepsAside(p) ==
  /\ th[p].pc \notin TickPC /\ th'[p].pc \notin TickPC
  /\ UNCHANGED <<tick, crashes>>
  /\ \/ pendingQ' \subseteq pendingQ
     \/ /\ th[p].pc = "park"
        /\ \E n \in Nat : /\ Park({MyChunk(p)}, n)
                          /\ th[p].op # "retry" => n = job[th[p].job].attempt + 1

LEMMA StepAside ==
  ASSUME Shape, NEW p \in Thread, Step(p)
  PROVE  StepsAside(p)
<1>t. th \in [Thread -> Local] /\ th[p] \in Local
  BY DEF Shape, TypeOK
<1>0. ASSUME NEW l \in PC \ TickPC, Goto(p, l) PROVE th'[p].pc \notin TickPC
  BY <1>0, <1>t DEF Goto, Local
<1>r. ASSUME Return(p) PROVE th'[p].pc \notin TickPC
  BY <1>r, <1>t DEF Return, Idle, TickPC
<1>1. CASE LoadJobAndGroup(p) \/ ComputeRemaining(p) \/ ReleaseLedger(p) \/ MarkCancelled(p)
           \/ ReleaseUnconditional(p) \/ DrainDispatch(p) \/ FlipGroupPending(p)
           \/ RefuseIfActiveSibling(p) \/ RefuseIfNoRemaining(p)
  <2>1. \/ Return(p)
        \/ \E l \in {"rGroup", "markFailed", "remaining", "park", "markDone", "unclaim", "load",
                     "dPending", "mLatest", "mFlip"} : Goto(p, l)
    BY <1>1 DEF LoadJobAndGroup, ComputeRemaining, ReleaseLedger, MarkCancelled,
                ReleaseUnconditional, DrainDispatch, AfterRetry, FlipGroupPending,
                RefuseIfActiveSibling, RefuseIfNoRemaining
  <2>2. th'[p].pc \notin TickPC
    BY <2>1, <1>0, <1>r DEF PC, TickPC
  <2> QED
    BY <1>1, <2>2 DEF LoadJobAndGroup, ComputeRemaining, ReleaseLedger, MarkCancelled,
                      ReleaseUnconditional, DrainDispatch, FlipGroupPending,
                      RefuseIfActiveSibling, RefuseIfNoRemaining, db, StepsAside, TickPC
<1>2. CASE ParkRetry(p) \/ ParkManualRetry(p)
  <2>1. Return(p) \/ Goto(p, "rGroup") \/ Goto(p, "markFailed")
    BY <1>2 DEF ParkRetry, ParkManualRetry, AfterRetry
  <2>2. th'[p].pc \notin TickPC
    BY <2>1, <1>0, <1>r DEF PC, TickPC
  <2>3. job[th[p].job].attempt + 1 \in Nat
    BY <1>2, MyJob DEF ParkRetry, ParkManualRetry, JobPC
  <2> QED
    BY <1>2, <2>2, <2>3 DEF ParkRetry, ParkManualRetry, StepsAside, TickPC
<1>3. CASE MarkFailed(p) \/ MarkDone(p)
  BY <1>3, <1>t DEF MarkFailed, MarkDone, Idle, StepsAside, TickPC
<1>4. CASE WriteReported(p) \/ WriteGroup(p) \/ ReadGroup(p)
  <2>1. CASE WriteReported(p)
    BY <2>1, <1>t DEF WriteReported, Idle, StepsAside, TickPC
  <2>2. CASE WriteGroup(p)
    BY <2>2, <1>t DEF WriteGroup, Idle, StepsAside, TickPC
  <2>3. CASE ReadGroup(p)
    BY <2>3, <1>t DEF ReadGroup, Idle, StepsAside, TickPC, db
  <2> QED
    BY <1>4, <2>1, <2>2, <2>3
<1>5. CASE ReadActiveJobs(p) \/ ReadJobs(p) \/ ReadFrames(p)
  BY <1>5, <1>t DEF ReadActiveJobs, ReadJobs, ReadFrames, Local, StepsAside, TickPC, db
<1>6. CASE ReleaseIfOwner(p) \/ MarkNextCancelled(p)
  BY <1>6, <1>t DEF ReleaseIfOwner, MarkNextCancelled, Goto, Local, StepsAside, TickPC
<1>7. CASE ResolveLatestSibling(p)
  BY <1>7, <1>t DEF ResolveLatestSibling, Return, Idle, Local, StepsAside, TickPC, db
<1>8. CASE ReadPending(p) \/ ReadDispatch(p)
  <2>1. ASSUME NEW q \in BOOLEAN, Conclude(p, q) PROVE th'[p].pc \notin TickPC
    BY <2>1, <1>t DEF Conclude, Idle, TickPC
  <2>2. Goto(p, "rDispatch") \/ \E q \in BOOLEAN : Conclude(p, q)
    BY <1>8 DEF ReadPending, ReadDispatch
  <2>3. th'[p].pc \notin TickPC
    BY <2>1, <2>2, <1>0 DEF PC, TickPC
  <2> QED
    BY <1>8, <2>3 DEF ReadPending, ReadDispatch, StepsAside, TickPC, db
<1>9. CASE CheckTerminal(p) \/ DrainPending(p) \/ ReleaseAll(p)
  <2>1. Return(p) \/ Goto(p, "dDispatch") \/ Goto(p, "gUnclaim")
    BY <1>9 DEF CheckTerminal, DrainPending, ReleaseAll, AfterDrain
  <2>2. th'[p].pc \notin TickPC
    BY <2>1, <1>0, <1>r DEF PC, TickPC
  <2> QED
    BY <1>9, <2>2 DEF CheckTerminal, DrainPending, ReleaseAll, StepsAside, TickPC, db
<1> QED
  BY <1>1, <1>2, <1>3, <1>4, <1>5, <1>6, <1>7, <1>8, <1>9 DEF Step

\* A parked row has an id that no row alive has.
LEMMA ParkedRow ==
  ASSUME Shape, NEW C \in SUBSET Chunk, NEW n \in Nat, Park(C, n)
  PROVE  \E r \in Row :
           /\ pendingQ' = pendingQ \cup {r} /\ r.chunks = C /\ r.attempt = n
           /\ \A s \in pendingQ \cup tick.batch \cup {tick.row} : s.id # r.id
<1>1. PICK i \in RowId :
        /\ pendingQ' = pendingQ \cup {[id |-> i, chunks |-> C, attempt |-> n]}
        /\ i \notin RowIds(pendingQ \cup tick.batch \cup {tick.row})
  BY DEF Park, LeastFree
<1> DEFINE r == [id |-> i, chunks |-> C, attempt |-> n]
<1>2. r \in Row /\ r.chunks = C /\ r.attempt = n /\ r.id = i
  BY DEF Row
<1>3. \A s \in pendingQ \cup tick.batch \cup {tick.row} : s.id # i
  BY <1>1 DEF RowIds
<1> HIDE DEF r
<1>4. pendingQ' = pendingQ \cup {r}
  BY <1>1 DEF r
<1> QED
  BY <1>2, <1>3, <1>4

LEMMA TickInit == Init => TickFit
<1> SUFFICES ASSUME Init PROVE TickFit
  OBVIOUS
<1>1. /\ tick = NoTick /\ th[Daemon].pc = "idle"
      /\ pendingQ = {[id |-> 1, chunks |-> Chunk, attempt |-> 0]}
  BY DEF Init, Idle, Thread
<1> QED
  BY <1>1 DEF TickFit, NoTick, NoRow, TickPC

LEMMA TickStep ==
  ASSUME Shape, \A p \in Thread : OpFit(p), TickFit, [Next]_vars
  PROVE  TickFit'
<1>t. /\ th \in [Thread -> Local] /\ Daemon \in Thread /\ th[Daemon] \in Local
      /\ tick \in [batch : SUBSET Row, row : Row \cup {NoRow}, plan : SUBSET Chunk,
                   chunk : Chunk \cup {NoChunk}]
      /\ pendingQ \subseteq Row /\ NoRow \notin Row
  BY DEF Shape, TypeOK, Thread, NoRow, Row, RowId
<1>1. ASSUME tick' = tick, pendingQ' \subseteq pendingQ,
             \/ th'[Daemon].pc = th[Daemon].pc
             \/ th[Daemon].pc \notin TickPC /\ th'[Daemon].pc \notin TickPC
      PROVE  TickFit'
  BY <1>1 DEF TickFit, TickPC
<1>2. ASSUME NEW p \in Thread, Step(p) PROVE TickFit'
  <2>1. Others(p) /\ StepsAside(p)
    BY <1>2, StepAside, StepOp
  <2>2. \/ th'[Daemon].pc = th[Daemon].pc
        \/ th[Daemon].pc \notin TickPC /\ th'[Daemon].pc \notin TickPC
    BY <2>1, <1>t DEF Others, StepsAside
  <2>3. CASE pendingQ' \subseteq pendingQ
    BY <1>1, <2>1, <2>2, <2>3 DEF StepsAside
  <2>4. ASSUME NEW n \in Nat, Park({MyChunk(p)}, n), th[p].pc = "park" PROVE TickFit'
    <3>1. PICK r \in Row : /\ pendingQ' = pendingQ \cup {r}
                           /\ \A s \in pendingQ \cup tick.batch \cup {tick.row} : s.id # r.id
      BY <2>4, ParkedRow, MyJob DEF JobPC
    <3>2. tick' = tick
      BY <2>1 DEF StepsAside
    <3> QED
      BY <2>2, <3>1, <3>2 DEF TickFit, TickPC
  <2> QED
    BY <2>1, <2>3, <2>4 DEF StepsAside
<1>3. ASSUME NEW p \in Handler, \/ \E j \in JobId : Signal(p, j)
                                \/ GroupSignal(p)
      PROVE  TickFit'
  <2>1. p # Daemon /\ Others(p)
    BY <1>3, SignalOp, ConstantsOK
  <2>2. UNCHANGED <<tick, pendingQ>>
    BY <1>3 DEF Signal, GroupSignal, BeginFailure, BeginSuccess, BeginCancel, BeginRetry,
                BeginReport, BeginPromote, BeginCancelGroup, BeginAudit, db
  <2> QED
    BY <1>1, <1>t, <2>1, <2>2 DEF Others
<1>4. CASE DispatchPhase
  <2>1. UNCHANGED <<tick, pendingQ>>
    BY <1>4 DEF DispatchPhase, Dequeue, GuardTerminalGroup, ClaimOrReplace, CreateJob, Launch,
                LoseDispatch, db
  <2>2. th[Daemon].pc \notin TickPC /\ th'[Daemon].pc \notin TickPC
    <3>1. ASSUME \/ Return(Daemon) \/ Goto(Daemon, "claim") \/ Goto(Daemon, "create")
                 \/ Goto(Daemon, "launch")
          PROVE  th'[Daemon].pc \notin TickPC
      BY <1>t, <3>1 DEF Return, Goto, Idle, Local, TickPC
    <3>2. CASE GuardTerminalGroup \/ ClaimOrReplace \/ CreateJob \/ LoseDispatch
      BY <3>1, <3>2 DEF GuardTerminalGroup, ClaimOrReplace, CreateJob, LoseDispatch, TickPC
    <3>3. ASSUME NEW j \in JobId, Dequeue(j)
          PROVE  th[Daemon].pc = "idle" /\ th'[Daemon].pc = "qGroup"
      BY <1>t, <3>3 DEF Dequeue, Idle
    <3>4. CASE Launch
      <4>1. th[Daemon].pc = "launch" /\ (Return(Daemon) \/ th'[Daemon].pc = "cas")
        BY <1>t, <3>4 DEF Launch, Local
      <4> QED
        BY <3>1, <4>1 DEF TickPC
    <3> QED
      BY <1>4, <3>2, <3>3, <3>4 DEF DispatchPhase, TickPC
  <2> QED
    BY <1>1, <2>1, <2>2
<1>5. CASE ListAll
  <2>1. th[Daemon].pc = "idle" /\ th'[Daemon].pc = "batch"
    BY <1>5, <1>t DEF ListAll, Idle
  <2>2. pendingQ' = pendingQ /\ tick' = [NoTick EXCEPT !.batch = pendingQ]
    BY <1>5 DEF ListAll, db
  <2>3. tick'.batch = pendingQ /\ tick'.row = NoRow /\ tick'.plan = {} /\ tick'.chunk = NoChunk
    BY <2>2 DEF NoTick
  <2> QED
    BY <1>t, <2>1, <2>2, <2>3 DEF TickFit, TickPC, Row, RowId, NoRow
<1>6. ASSUME NEW r \in tick.batch, PlanRow(r) PROVE TickFit'
  <2>1. /\ th[Daemon].pc = "batch" /\ th'[Daemon].pc = "owner" /\ pendingQ' = pendingQ
        /\ tick'.batch = tick.batch \ {r} /\ tick'.row = r /\ tick'.chunk = tick.chunk
    BY <1>6, <1>t DEF PlanRow, Goto, Local, db
  <2> QED
    BY <1>t, <2>1 DEF TickFit, TickPC
<1>7. ASSUME NEW r \in tick.batch, SkipRow(r) PROVE TickFit'
  <2>1. /\ th' = th /\ pendingQ' = pendingQ /\ tick'.batch = tick.batch \ {r}
        /\ tick'.row = tick.row /\ tick'.chunk = tick.chunk /\ tick'.plan = tick.plan
        /\ th[Daemon].pc = "batch"
    BY <1>7, <1>t DEF SkipRow, db
  <2> QED
    BY <1>t, <2>1 DEF TickFit, TickPC
<1>8. ASSUME pendingQ' = pendingQ, tick' = NoTick, th'[Daemon].pc = "idle" PROVE TickFit'
  <2>1. tick'.batch = {} /\ tick'.row = NoRow
    BY <1>8 DEF NoTick
  <2>2. NoRow.id = 0 /\ \A r \in pendingQ : r.id # 0
    BY <1>t DEF NoRow, Row, RowId
  <2> QED
    BY <1>8, <2>1, <2>2 DEF TickFit, TickPC
<1>14. CASE EndBatch
  BY <1>8, <1>14, <1>t DEF EndBatch, Return, Idle, db
<1>9. ASSUME NEW c \in Chunk, CheckOwner(c) PROVE TickFit'
  <2>1. /\ pendingQ' = pendingQ /\ th[Daemon].pc = "owner"
        /\ tick'.batch = tick.batch /\ tick'.row = tick.row /\ tick'.plan = tick.plan \ {c}
        /\ \/ th' = th /\ tick'.chunk = tick.chunk
           \/ th'[Daemon].pc = "enqueue" /\ tick'.chunk = c
    <3>1. ASSUME Goto(Daemon, "enqueue") PROVE th'[Daemon].pc = "enqueue"
      BY <1>t, <3>1 DEF Goto, Local
    <3> QED
      BY <1>9, <1>t, <3>1 DEF CheckOwner, db
  <2> QED
    BY <1>t, <2>1 DEF TickFit, TickPC
<1>10. CASE Enqueue
  <2>1. /\ pendingQ' = pendingQ /\ th[Daemon].pc = "enqueue" /\ th'[Daemon].pc = "owner"
        /\ tick'.batch = tick.batch /\ tick'.row = tick.row /\ tick'.chunk = NoChunk
    BY <1>10, <1>t DEF Enqueue, Goto, Local
  <2> QED
    BY <1>t, <2>1 DEF TickFit, TickPC
<1>11. CASE DeleteRow
  <2>1. /\ pendingQ' \subseteq pendingQ /\ th[Daemon].pc = "owner" /\ th'[Daemon].pc = "batch"
        /\ tick'.batch = tick.batch /\ tick'.row = NoRow /\ tick'.plan = {}
        /\ tick'.chunk = tick.chunk
    BY <1>11, <1>t DEF DeleteRow, Goto, Local
  <2>2. NoRow.id = 0 /\ \A r \in pendingQ \cup tick.batch : r.id # 0 /\ r # NoRow
    BY <1>t DEF NoRow, Row, RowId
  <2>3. tick.chunk = NoChunk
    BY <2>1 DEF TickFit
  <2> QED
    BY <2>1, <2>2, <2>3 DEF TickFit, TickPC
<1>12. CASE Crash
  BY <1>8, <1>12, <1>t DEF Crash, Idle
<1>13. ASSUME UNCHANGED <<th, tick, pendingQ>> PROVE TickFit'
  BY <1>13 DEF TickFit
<1> QED
  BY <1>2, <1>3, <1>4, <1>5, <1>6, <1>7, <1>8, <1>9, <1>10, <1>11, <1>12, <1>13, <1>14
  DEF Next, PendingPhase, Upload, vars

-----------------------------------------------------------------------------
(* Who has the right to the next dispatch of a chunk, and which attempt    *)
(* that dispatch is.  A row that the tick is at work on stands for the     *)
(* chunks still to be enqueued only.                                       *)
Rows == pendingQ \cup tick.batch \cup ({tick.row} \ {NoRow})
StandsFor(r) == IF r = tick.row THEN tick.plan \cup {tick.chunk} ELSE r.chunks

DecidePC == {"load", "remaining", "park"}

Holder == [kind : {"row", "queue", "owner", "handler"}, who : Row \cup JobId \cup Thread,
           chunk : Chunk, attempt : Nat]

RowHolders ==
  {h \in Holder : /\ h.kind = "row" /\ h.who \in Rows /\ h.chunk \in StandsFor(h.who)
                  /\ h.attempt = h.who.attempt}

QueueHolders ==
  {h \in Holder : /\ h.kind = "queue" /\ h.who \in JobId /\ Unlaunched(h.who)
                  /\ h.chunk = job[h.who].chunk /\ h.attempt = job[h.who].attempt}

OwnerHolders ==
  {h \in Holder : /\ h.kind = "owner" /\ h.who \in JobId /\ ledger[h.chunk] = h.who
                  /\ h.attempt = job[h.who].attempt}

HandlerHolders ==
  {h \in Holder : /\ h.kind = "handler" /\ h.who \in Thread /\ th[h.who].pc \in DecidePC
                  /\ h.chunk = MyChunk(h.who) /\ h.attempt = job[th[h.who].job].attempt + 1}

Holders == RowHolders \cup QueueHolders \cup OwnerHolders \cup HandlerHolders

\* The dispatches made: from the claim on.
Begun == {j \in JobId : InTable(j) \/ (InHand(j) /\ ~Unlaunched(j))}

OneHolder == \A h, g \in Holders : h.chunk = g.chunk => h = g

NextAttempt ==
  \A h \in Holders, i \in Begun :
    job[i].chunk = h.chunk /\ ~(h.kind = "owner" /\ h.who = i) => job[i].attempt < h.attempt

Capped ==
  /\ \A h \in Holders : h.kind # "handler" => h.attempt <= MaxRetries
  /\ \A i \in Begun : job[i].attempt <= MaxRetries

BegunOnce ==
  \A i, j \in Begun :
    job[i].chunk = job[j].chunk /\ job[i].attempt = job[j].attempt => i = j

HolderInv == OneHolder /\ NextAttempt /\ Capped /\ BegunOnce

\* A retry is only parked under the cap.
Decided == \A p \in Thread : th[p].pc = "park" => job[th[p].job].attempt + 1 <= MaxRetries

SameBegun ==
  /\ Begun' \subseteq Begun
  /\ \A j \in Begun' : job'[j].chunk = job[j].chunk /\ job'[j].attempt = job[j].attempt

\* Where a new right comes from.  An owner's goes to the handler that has just
\* released the claim.
Handed ==
  \A g \in Holders' \ Holders : \E h \in Holders :
    /\ h.chunk = g.chunk
    /\ h.kind = "owner" => \E p \in Thread : th'[p].pc = "load" /\ th'[p].job = h.who

HolderMoved == HolderInv' /\ Handed

\* Rights are lost ...
LEMMA HolderKept ==
  ASSUME HolderInv, Holders' \subseteq Holders, SameBegun
  PROVE  HolderMoved
<1>1. OneHolder'
  BY DEF HolderInv, OneHolder
<1>2. NextAttempt'
  BY DEF HolderInv, NextAttempt, SameBegun
<1>3. Capped'
  BY DEF HolderInv, Capped, SameBegun
<1>4. BegunOnce'
  BY DEF HolderInv, BegunOnce, SameBegun
<1>5. Handed
  BY DEF Handed
<1> QED
  BY <1>1, <1>2, <1>3, <1>4, <1>5 DEF HolderInv, HolderMoved

\* ... or passed on.
LEMMA HolderPassed ==
  ASSUME Shape, HolderInv, SameBegun, NEW h \in Holders, NEW g \in Holder,
         g.chunk = h.chunk, g.kind # "owner",
         \/ g.attempt = h.attempt /\ h.kind # "owner"
         \/ /\ h.kind = "owner" /\ h.attempt = job[h.who].attempt /\ g.attempt = h.attempt + 1
            /\ \E p \in Thread : th'[p].pc = "load" /\ th'[p].job = h.who,
         g.kind # "handler" => g.attempt <= MaxRetries,
         Holders' \subseteq (Holders \ {h}) \cup {g}
  PROVE  HolderMoved
<1>h. h \in Holder /\ \A j \in Begun : job[j].attempt \in Nat
  BY DEF Holders, RowHolders, QueueHolders, OwnerHolders, HandlerHolders, Begun, Shape, TypeOK, Job
<1>1. OneHolder'
  BY DEF HolderInv, OneHolder
<1>2. NextAttempt'
  <2> SUFFICES ASSUME NEW k \in Holders', NEW i \in Begun', job'[i].chunk = k.chunk,
                      ~(k.kind = "owner" /\ k.who = i)
               PROVE  job'[i].attempt < k.attempt
    BY DEF NextAttempt
  <2>1. i \in Begun /\ job[i].chunk = k.chunk /\ job'[i].attempt = job[i].attempt
    BY DEF SameBegun
  <2>2. CASE k \in Holders
    BY <2>1, <2>2 DEF HolderInv, NextAttempt
  <2>3. CASE k = g /\ ~(h.kind = "owner" /\ h.who = i)
    <3>1. job[i].attempt < h.attempt
      BY <2>1, <2>3 DEF HolderInv, NextAttempt
    <3> QED
      BY <1>h, <2>1, <2>3, <3>1 DEF Holder
  <2>4. CASE k = g /\ h.kind = "owner" /\ h.who = i
    BY <1>h, <2>1, <2>4 DEF Holder
  <2> QED
    BY <2>2, <2>3, <2>4
<1>3. Capped'
  BY DEF HolderInv, Capped, SameBegun
<1>4. BegunOnce'
  BY DEF HolderInv, BegunOnce, SameBegun
<1>5. Handed
  BY DEF Handed
<1> QED
  BY <1>1, <1>2, <1>3, <1>4, <1>5 DEF HolderInv, HolderMoved

-----------------------------------------------------------------------------
\* Each kind of right under the steps that leave it alone.
LEMMA RowsKept ==
  ASSUME tick' = tick, pendingQ' \subseteq pendingQ
  PROVE  RowHolders' \subseteq RowHolders
  BY DEF RowHolders, Rows, StandsFor, Holder

LEMMA QueueKept ==
  ASSUME Calm
  PROVE  QueueHolders' \subseteq QueueHolders
<1> SUFFICES ASSUME NEW h \in QueueHolders' PROVE h \in QueueHolders
  OBVIOUS
<1> DEFINE j == h.who
<1>1. /\ h \in Holder /\ h.kind = "queue" /\ j \in JobId
      /\ h.chunk = job'[j].chunk /\ h.attempt = job'[j].attempt
      /\ job'[j] = job[j]
      /\ \/ job'[j].status = "queued"
         \/ job'[j].status = "inhand" /\ th'[Daemon].pc \in {"qGroup", "claim"}
  BY DEF QueueHolders, Holder, Unlaunched, Calm, NoneQueued, Waiting
<1>2. Unlaunched(j)
  BY <1>1 DEF Unlaunched, Calm, DaemonCalm, HandPC
<1> QED
  BY <1>1, <1>2 DEF QueueHolders

\* A job that is in the table or owns its chunk stays the attempt it is.
JobsKept ==
  \A j \in JobId : InTable(j) \/ Owner(j) =>
    job'[j].chunk = job[j].chunk /\ job'[j].attempt = job[j].attempt

LEMMA TableJobsKept ==
  ASSUME OwnerFit, SameTable
  PROVE  JobsKept
  BY DEF OwnerFit, SameTable, JobsKept, Owner, InTable, JobState, NoJob, JobId

LEMMA OwnersKept ==
  ASSUME Shape, Releases, JobsKept
  PROVE  OwnerHolders' \subseteq OwnerHolders
<1> SUFFICES ASSUME NEW h \in OwnerHolders' PROVE h \in OwnerHolders
  OBVIOUS
<1>1. /\ h \in Holder /\ h.kind = "owner" /\ h.who \in JobId
      /\ ledger'[h.chunk] = h.who /\ h.attempt = job'[h.who].attempt
  BY DEF OwnerHolders, Holder
<1>2. ledger[h.chunk] = h.who
  BY <1>1 DEF Releases, Holder, JobId, NoJob
<1>3. job'[h.who].attempt = job[h.who].attempt
  BY <1>1, <1>2 DEF JobsKept, Owner, Holder
<1> QED
  BY <1>1, <1>2, <1>3 DEF OwnerHolders

LEMMA HandlersKept ==
  ASSUME Shape, JobsKept, NEW p \in Thread, Others(p),
         th'[p].pc \in DecidePC => th[p].pc \in DecidePC /\ th'[p].job = th[p].job
  PROVE  HandlerHolders' \subseteq HandlerHolders
<1> SUFFICES ASSUME NEW h \in HandlerHolders' PROVE h \in HandlerHolders
  OBVIOUS
<1>1. /\ h \in Holder /\ h.kind = "handler" /\ h.who \in Thread /\ th'[h.who].pc \in DecidePC
      /\ h.chunk = job'[th'[h.who].job].chunk /\ h.attempt = job'[th'[h.who].job].attempt + 1
  BY DEF HandlerHolders, Holder, MyChunk
<1>2. th[h.who].pc \in DecidePC /\ th'[h.who].job = th[h.who].job
  BY <1>1 DEF Others
<1>3. PICK j \in JobId : j = th[h.who].job /\ InTable(j)
  BY <1>1, <1>2, MyJob DEF DecidePC, JobPC
<1>4. job'[j].chunk = job[j].chunk /\ job'[j].attempt = job[j].attempt
  BY <1>3 DEF JobsKept
<1> QED
  BY <1>1, <1>2, <1>3, <1>4 DEF HandlerHolders, MyChunk

LEMMA BegunKept ==
  ASSUME Calm, SameTable
  PROVE  SameBegun
<1> SUFFICES ASSUME NEW j \in Begun'
             PROVE  /\ j \in Begun /\ job'[j].chunk = job[j].chunk
                    /\ job'[j].attempt = job[j].attempt
  BY DEF SameBegun
<1>1. j \in JobId
  BY DEF Begun
<1>2. CASE job'[j].status \in JobState
  BY <1>1, <1>2 DEF SameTable, InTable, JobState, Unused, Begun
<1>3. CASE job'[j].status = "inhand"
  <2>1. job'[j] = job[j]
    BY <1>1, <1>3 DEF Calm, NoneQueued, Waiting
  <2>2. th'[Daemon].pc \notin {"qGroup", "claim"}
    BY <1>3 DEF Begun, Unlaunched, InTable, JobState
  <2>3. ~Unlaunched(j)
    BY <1>3, <2>1, <2>2 DEF Calm, DaemonCalm, HandPC, Unlaunched
  <2> QED
    BY <1>1, <1>3, <2>1, <2>3 DEF Begun, InHand
<1> QED
  BY <1>2, <1>3 DEF Begun, InTable, InHand

-----------------------------------------------------------------------------
\* No user starts a second line of attempts.
NoRestart == \A p \in Handler : Does[p] \cap {"cancel", "retry"} = {}

\* A thread comes to decide on the next attempt by the release of its claim.
LEMMA DecideStep ==
  ASSUME Shape, NEW p \in Thread, OpFit(p), NoRestart, Step(p), th'[p].pc \in DecidePC
  PROVE  /\ th'[p].job = th[p].job
         /\ \/ LoadJobAndGroup(p) /\ th'[p].pc = "remaining"
            \/ ComputeRemaining(p) /\ job[th[p].job].attempt + 1 <= MaxRetries
            \/ ReleaseIfOwner(p) /\ ledger[MyChunk(p)] = th[p].job /\ th'[p].pc = "load"
<1>t. th \in [Thread -> Local] /\ th[p] \in Local
  BY DEF Shape, TypeOK
<1>o. th[p].op \notin {"cancel", "retry"}
  BY DEF OpFit, OpsOf, NoRestart, Thread
<1>0. ASSUME NEW l, Goto(p, l) PROVE th'[p].pc = l /\ th'[p].job = th[p].job
  BY <1>0, <1>t DEF Goto, Local
<1>r. ~Return(p)
  BY <1>t DEF Return, Idle, DecidePC
<1>q. ASSUME NEW q \in BOOLEAN, Conclude(p, q) PROVE FALSE
  BY <1>q, <1>t DEF Conclude, Idle, DecidePC
<1>1. CASE LoadJobAndGroup(p)
  BY <1>1, <1>0 DEF LoadJobAndGroup, AfterRetry, DecidePC
<1>2. CASE ComputeRemaining(p)
  <2>1. job[th[p].job].attempt + 1 \in Int /\ MaxRetries \in Int
    BY <1>2, MyJob, ConstantsOK DEF ComputeRemaining, JobPC
  <2>2. \/ Goto(p, "rGroup") \/ Goto(p, "markFailed")
        \/ ~(job[th[p].job].attempt + 1 > MaxRetries) /\ Goto(p, "park")
    BY <1>2 DEF ComputeRemaining, AfterRetry
  <2> QED
    BY <1>2, <1>0, <2>1, <2>2 DEF DecidePC
<1>3. CASE ReleaseIfOwner(p)
  <2>1. CASE ledger[MyChunk(p)] = th[p].job /\ Goto(p, "load")
    BY <1>3, <1>0, <2>1
  <2>2. CASE th' = [th EXCEPT ![p].pc = "markFailed", ![p].op = "stale"]
    BY <1>t, <2>2 DEF Local, DecidePC
  <2> QED
    BY <1>3, <2>1, <2>2 DEF ReleaseIfOwner
<1>4. CASE \/ ParkRetry(p) \/ ReleaseLedger(p) \/ MarkCancelled(p) \/ DrainDispatch(p)
           \/ RefuseIfActiveSibling(p) \/ RefuseIfNoRemaining(p) \/ CheckTerminal(p)
           \/ DrainPending(p) \/ ReleaseAll(p) \/ ParkManualRetry(p)
  <2>1. \E l \in {"rGroup", "markFailed", "markDone", "unclaim", "dPending", "mLatest", "mFlip",
                  "dDispatch", "gUnclaim"} : Goto(p, l)
    BY <1>4, <1>r DEF ParkRetry, ReleaseLedger, MarkCancelled, DrainDispatch, AfterRetry,
                      RefuseIfActiveSibling, RefuseIfNoRemaining, CheckTerminal, DrainPending,
                      AfterDrain, ReleaseAll, ParkManualRetry
  <2> QED
    BY <1>0, <2>1 DEF DecidePC
<1>5. CASE ReleaseUnconditional(p) \/ FlipGroupPending(p) \/ ResolveLatestSibling(p)
  BY <1>5, <1>o DEF ReleaseUnconditional, FlipGroupPending, ResolveLatestSibling, OpFit
<1>6. CASE MarkFailed(p) \/ MarkDone(p) \/ WriteReported(p)
  <2>1. th'[p].pc \in {"dGroup", "rGroup", "idle"}
    BY <1>6, <1>t DEF MarkFailed, MarkDone, WriteReported, Idle
  <2> QED
    BY <2>1 DEF DecidePC
<1>7. CASE WriteGroup(p) \/ ReadGroup(p)
  BY <1>7, <1>t DEF WriteGroup, ReadGroup, Idle, DecidePC
<1>8. CASE ReadActiveJobs(p) \/ ReadJobs(p) \/ ReadFrames(p)
  BY <1>8, <1>t DEF ReadActiveJobs, ReadJobs, ReadFrames, Local, DecidePC
<1>9. CASE MarkNextCancelled(p)
  BY <1>9, <1>t, <1>0 DEF MarkNextCancelled, Local, DecidePC
<1>10. CASE ReadPending(p) \/ ReadDispatch(p)
  <2>1. Goto(p, "rDispatch") \/ \E q \in BOOLEAN : Conclude(p, q)
    BY <1>10 DEF ReadPending, ReadDispatch
  <2> QED
    BY <2>1, <1>0, <1>q DEF DecidePC
<1> QED
  BY <1>1, <1>2, <1>3, <1>4, <1>5, <1>6, <1>7, <1>8, <1>9, <1>10 DEF Step

-----------------------------------------------------------------------------
LEMMA HolderInit == Init => HolderInv /\ Decided
<1> SUFFICES ASSUME Init PROVE HolderInv /\ Decided
  OBVIOUS
<1> DEFINE r == [id |-> 1, chunks |-> Chunk, attempt |-> 0]
<1>1. /\ \A j \in JobId : job[j].status = "unused"
      /\ \A c \in Chunk : ledger[c] = NoJob
      /\ \A p \in Thread : th[p].pc = "idle"
  BY DEF Init, Unused, Idle
<1>2. Rows = {r} /\ StandsFor(r) = Chunk
  <2>1. tick.batch = {} /\ tick.row = NoRow /\ pendingQ = {r}
    BY DEF Init, NoTick
  <2>2. r # NoRow
    BY DEF NoRow
  <2> QED
    BY <2>1, <2>2 DEF Rows, StandsFor
<1>3. Begun = {}
  BY <1>1 DEF Begun, InTable, InHand, JobState
<1>4. Holders \subseteq RowHolders
  BY <1>1 DEF Holders, QueueHolders, OwnerHolders, HandlerHolders, Unlaunched, DecidePC, Holder,
              NoJob, JobId
<1>5. \A h \in Holders : h \in Holder /\ h.kind = "row" /\ h.who = r /\ h.attempt = 0
  BY <1>2, <1>4 DEF RowHolders
<1>6. OneHolder
  BY <1>5 DEF OneHolder, Holder
<1>7. NextAttempt /\ Capped /\ BegunOnce
  BY <1>3, <1>5, ConstantsOK DEF NextAttempt, Capped, BegunOnce
<1>8. Decided
  BY <1>1 DEF Decided
<1> QED
  BY <1>6, <1>7, <1>8 DEF HolderInv

LEMMA StepHolder ==
  ASSUME Shape, OwnerFit, NEW p \in Thread, OpFit(p), NoRestart, HolderInv, Decided, Step(p)
  PROVE  HolderMoved /\ Decided'
<1>0. Calm /\ Releases /\ SameTable /\ StepsAside(p) /\ Others(p) /\ SameBegun /\ JobsKept
  BY StepCalm, StepTable, StepAside, StepOp, BegunKept, TableJobsKept DEF Calm
<1>1. QueueHolders' \subseteq QueueHolders /\ OwnerHolders' \subseteq OwnerHolders
  BY <1>0, QueueKept, OwnersKept
<1>d. ASSUME th'[p].pc = "park" => /\ th'[p].job = th[p].job
                                   /\ job[th[p].job].attempt + 1 <= MaxRetries
      PROVE  Decided'
  <2>2. SUFFICES ASSUME NEW q \in Thread, th'[q].pc = "park"
                 PROVE  job'[th'[q].job].attempt + 1 <= MaxRetries
    BY DEF Decided
  <2>1. PICK j \in JobId : j = th[q].job /\ th'[q].job = j /\ InTable(j)
                           /\ job[j].attempt + 1 <= MaxRetries
    <3>1. CASE q = p
      <4>1. th[p].pc \in JobPC
        BY <2>2, <3>1, DecideStep
        DEF DecidePC, JobPC, LoadJobAndGroup, ComputeRemaining, ReleaseIfOwner
      <4> QED
        BY <1>d, <2>2, <3>1, <4>1, MyJob
    <3>2. CASE q # p
      <4>1. th'[q] = th[q] /\ th[q].pc = "park"
        BY <1>0, <2>2, <3>2 DEF Others
      <4> QED
        BY <4>1, MyJob DEF Decided, JobPC
    <3> QED
      BY <3>1, <3>2
  <2> QED
    BY <1>0, <2>1 DEF JobsKept
<1>2. CASE th[p].pc = "park"
  <2> DEFINE c == MyChunk(p)
             a == job[th[p].job].attempt + 1
             h == [kind |-> "handler", who |-> p, chunk |-> c, attempt |-> a]
  <2>1. c \in Chunk /\ a \in Nat /\ a <= MaxRetries
    BY <1>2, MyJob DEF JobPC, Decided
  <2>2. h \in Holder /\ h \in HandlerHolders
    BY <1>2, <2>1 DEF Holder, HandlerHolders, DecidePC
  <2>3. th'[p].pc \notin DecidePC
    BY <1>2, DecideStep DEF LoadJobAndGroup, ComputeRemaining, ReleaseIfOwner
  <2>4. HandlerHolders' \subseteq HandlerHolders \ {h}
    <3>1. h \notin HandlerHolders'
      BY <2>3 DEF HandlerHolders
    <3> QED
      BY <1>0, <2>3, <3>1, HandlersKept
  <2> HIDE DEF h
  <2>5. ASSUME pendingQ' \subseteq pendingQ PROVE HolderMoved
    <3>1. Holders' \subseteq Holders
      BY <1>0, <1>1, <2>4, <2>5, RowsKept DEF Holders, StepsAside
    <3> QED
      BY <1>0, <3>1, HolderKept
  <2>6. ASSUME Park({c}, a) PROVE HolderMoved
    <3>1. PICK r \in Row :
            /\ pendingQ' = pendingQ \cup {r} /\ r.chunks = {c} /\ r.attempt = a
            /\ \A s \in pendingQ \cup tick.batch \cup {tick.row} : s.id # r.id
      BY <2>1, <2>6, ParkedRow
    <3> DEFINE g == [kind |-> "row", who |-> r, chunk |-> c, attempt |-> a]
    <3>2. g \in Holder
      BY <2>1 DEF Holder
    <3>3. RowHolders' \subseteq RowHolders \cup {g}
      <4> SUFFICES ASSUME NEW k \in RowHolders' PROVE k \in RowHolders \/ k = g
        OBVIOUS
      <4>1. /\ k \in Holder /\ k.kind = "row" /\ k.attempt = k.who.attempt
            /\ k.who \in Rows \cup {r}
            /\ k.chunk \in StandsFor(k.who)
        BY <1>0, <3>1 DEF RowHolders, Rows, StandsFor, StepsAside, Holder
      <4>2. CASE k.who \in Rows
        BY <4>1, <4>2 DEF RowHolders
      <4>3. CASE k.who = r
        BY <3>1, <3>2, <4>1, <4>3 DEF StandsFor, Holder
      <4> QED
        BY <4>1, <4>2, <4>3
    <3>4. g.kind = "row" /\ g.chunk = h.chunk /\ g.attempt = h.attempt /\ h.kind = "handler"
      BY DEF h
    <3>5. h \in Holders /\ h \notin RowHolders \cup QueueHolders \cup OwnerHolders
      BY <2>2, <3>4 DEF Holders, RowHolders, QueueHolders, OwnerHolders
    <3> HIDE DEF g
    <3>6. Holders' \subseteq (Holders \ {h}) \cup {g}
      BY <1>1, <2>4, <3>3, <3>5 DEF Holders
    <3>7. g.attempt <= MaxRetries
      BY <2>1 DEF g
    <3> QED
      BY <1>0, <3>2, <3>4, <3>5, <3>6, <3>7, HolderPassed
  <2>7. HolderMoved
    <3>1. th[p].op # "retry"
      BY DEF OpFit, OpsOf, NoRestart, Thread
    <3>2. CASE ~(pendingQ' \subseteq pendingQ)
      <4>1. PICK n \in Nat : Park({MyChunk(p)}, n) /\ n = a
        BY <1>0, <3>1, <3>2 DEF StepsAside
      <4> QED
        BY <2>6, <4>1 DEF Park
    <3> QED
      BY <2>5, <3>2
  <2> QED
    BY <1>d, <2>3, <2>7 DEF DecidePC
<1>3. CASE th[p].pc # "park" /\ (th'[p].pc \in DecidePC => th[p].pc \in DecidePC)
  <2>1. th'[p].pc \in DecidePC => th'[p].job = th[p].job
    BY DecideStep
  <2>2. HandlerHolders' \subseteq HandlerHolders
    BY <1>0, <1>3, <2>1, HandlersKept
  <2>3. Holders' \subseteq Holders
    BY <1>0, <1>1, <1>3, <2>2, RowsKept DEF Holders, StepsAside
  <2>4. th'[p].pc = "park" => /\ th'[p].job = th[p].job
                            /\ job[th[p].job].attempt + 1 <= MaxRetries
    BY <2>1, DecideStep DEF DecidePC, ReleaseIfOwner, LoadJobAndGroup
  <2>5. HolderMoved
    BY <1>0, <2>3, HolderKept
  <2> QED
    BY <1>d, <2>4, <2>5
<1>4. CASE th'[p].pc \in DecidePC /\ th[p].pc \notin DecidePC
  <2> DEFINE j == th[p].job
             c == MyChunk(p)
             a == job[j].attempt
             h == [kind |-> "owner", who |-> j, chunk |-> c, attempt |-> a]
             g == [kind |-> "handler", who |-> p, chunk |-> c, attempt |-> a + 1]
  <2>1. ReleaseIfOwner(p) /\ ledger[c] = j /\ th'[p].pc = "load" /\ th'[p].job = j
    BY <1>4, DecideStep DEF LoadJobAndGroup, ComputeRemaining, DecidePC
  <2>2. c \in Chunk /\ j \in JobId /\ a \in Nat
    BY <2>1, MyJob DEF ReleaseIfOwner, JobPC
  <2>3. ledger' = [ledger EXCEPT ![c] = NoJob] /\ UNCHANGED <<job, pendingQ, tick>>
    BY <2>1 DEF ReleaseIfOwner
  <2>4. h \in Holder /\ g \in Holder /\ h \in OwnerHolders
    BY <2>1, <2>2 DEF Holder, OwnerHolders
  <2>5. OwnerHolders' \subseteq OwnerHolders \ {h}
    <3>1. ledger'[c] # j
      BY <2>2, <2>3 DEF Shape, TypeOK, NoJob, JobId
    <3>2. h \notin OwnerHolders'
      BY <3>1 DEF OwnerHolders
    <3> QED
      BY <1>1, <3>2
  <2>6. HandlerHolders' \subseteq HandlerHolders \cup {g}
    <3> SUFFICES ASSUME NEW k \in HandlerHolders' PROVE k \in HandlerHolders \/ k = g
      OBVIOUS
    <3>1. /\ k \in Holder /\ k.kind = "handler" /\ k.who \in Thread /\ th'[k.who].pc \in DecidePC
          /\ k.chunk = job[th'[k.who].job].chunk /\ k.attempt = job[th'[k.who].job].attempt + 1
      BY <2>3 DEF HandlerHolders, MyChunk, Holder
    <3>2. CASE k.who = p
      BY <2>1, <2>4, <3>1, <3>2 DEF Holder, MyChunk
    <3>3. CASE k.who # p
      BY <1>0, <3>1, <3>3 DEF Others, HandlerHolders, MyChunk
    <3> QED
      BY <3>2, <3>3
  <2>7. RowHolders' \subseteq RowHolders
    BY <2>3, RowsKept
  <2>8. /\ g.kind = "handler" /\ g.chunk = h.chunk /\ g.attempt = h.attempt + 1
        /\ h.kind = "owner" /\ h.attempt = job[h.who].attempt
    OBVIOUS
  <2> HIDE DEF h, g
  <2>9. h \in Holders /\ h \notin RowHolders \cup QueueHolders \cup HandlerHolders
    BY <2>4, <2>8 DEF Holders, RowHolders, QueueHolders, HandlerHolders
  <2>10. Holders' \subseteq (Holders \ {h}) \cup {g}
    BY <1>1, <2>5, <2>6, <2>7, <2>9 DEF Holders
  <2>12. h.who = j
    BY DEF h
  <2>11. HolderMoved
    BY <1>0, <2>1, <2>4, <2>8, <2>9, <2>10, <2>12, HolderPassed
  <2> QED
    BY <1>d, <2>1, <2>11
<1> QED
  BY <1>2, <1>3, <1>4

LEMMA DecidedKept ==
  ASSUME Shape, Decided, JobsKept, NEW p \in Thread, Others(p), th'[p].pc # "park"
  PROVE  Decided'
<1>1. SUFFICES ASSUME NEW q \in Thread, th'[q].pc = "park"
               PROVE  job'[th'[q].job].attempt + 1 <= MaxRetries
  BY DEF Decided
<1>2. th'[q] = th[q] /\ th[q].pc = "park"
  BY <1>1 DEF Others
<1>3. th[q].job \in JobId /\ InTable(th[q].job)
  BY <1>2, MyJob DEF JobPC
<1> QED
  BY <1>2, <1>3 DEF Decided, JobsKept

LEMMA SignalHolder ==
  ASSUME Shape, OwnerFit, NEW p \in Handler, HolderInv, Decided,
         (\E j \in JobId : Signal(p, j)) \/ GroupSignal(p)
  PROVE  HolderMoved /\ Decided'
<1>1. UNCHANGED <<job, ledger, pendingQ, tick>> /\ Calm
  <2>1. UNCHANGED <<job, ledger, pendingQ, tick>>
    BY DEF Signal, GroupSignal, BeginFailure, BeginSuccess, BeginCancel, BeginRetry,
           BeginReport, BeginPromote, BeginCancelGroup, BeginAudit, db
  <2> QED
    BY <2>1, SignalCalm, GroupSignalCalm
<1>2. Others(p) /\ th'[p].pc \notin DecidePC /\ p \in Thread
  BY SignalOp DEF DecidePC, Thread
<1>3. SameTable /\ JobsKept /\ Releases /\ SameBegun
  BY <1>1, SignalTable, TableJobsKept, BegunKept DEF Calm
<1>4. Holders' \subseteq Holders
  <2>1. RowHolders' \subseteq RowHolders
    BY <1>1, RowsKept
  <2>2. QueueHolders' \subseteq QueueHolders /\ OwnerHolders' \subseteq OwnerHolders
    BY <1>1, <1>3, QueueKept, OwnersKept
  <2>3. HandlerHolders' \subseteq HandlerHolders
    BY <1>2, <1>3, HandlersKept
  <2> QED
    BY <2>1, <2>2, <2>3 DEF Holders
<1>5. HolderMoved
  BY <1>3, <1>4, HolderKept
<1>6. Decided'
  BY <1>2, <1>3, DecidedKept DEF DecidePC
<1> QED
  BY <1>5, <1>6

\* The daemon at work on anything but a dequeued row.
LEMMA HandsFree ==
  ASSUME Shape, DispatchInv, th[Daemon].pc \notin HandPC, UNCHANGED job
  PROVE  QueueHolders' \subseteq QueueHolders /\ SameBegun /\ JobsKept
<1>1. \A j \in JobId : job[j].status # "inhand"
  BY DEF DispatchInv, HeldByDaemon, InHand
<1>2. QueueHolders' \subseteq QueueHolders
  BY <1>1 DEF QueueHolders, Unlaunched, Holder
<1>3. SameBegun
  BY <1>1 DEF SameBegun, Begun, InTable, InHand
<1> QED
  BY <1>2, <1>3 DEF JobsKept

\* The claim: from the queue to the owner.
LEMMA ClaimHolder ==
  ASSUME Shape, DispatchInv, OpFit(Daemon), HolderInv, Decided, ClaimOrReplace,
         NEW j \in JobId, j = th[Daemon].job
  PROVE  /\ HolderMoved /\ Decided'
         /\ Begun' \subseteq Begun \cup {j} /\ UNCHANGED job
         /\ \E h \in Holders : h.kind = "queue" /\ h.chunk = job[j].chunk
         /\ \A k \in Holders' : k.chunk = job[j].chunk => k.kind = "owner" /\ k.who = j
<1>t. /\ th \in [Thread -> Local] /\ Daemon \in Thread /\ th[Daemon] \in Local
      /\ job \in [JobId -> Job] /\ ledger \in [Chunk -> JobId \cup {NoJob}] /\ NoJob \notin JobId
  BY DEF Shape, TypeOK, Thread, NoJob, JobId
<1>o. Others(Daemon)
  BY DaemonOp DEF DispatchPhase
<1>1. /\ j = th[Daemon].job /\ InHand(j) /\ job[j].chunk \in Chunk /\ job[j].attempt \in Nat
      /\ ledger' = [ledger EXCEPT ![job[j].chunk] = j]
  BY <1>t, HandJob DEF ClaimOrReplace, HandPC, MyChunk, Job
<1> DEFINE c == job[j].chunk
           a == job[j].attempt
           h == [kind |-> "queue", who |-> j, chunk |-> c, attempt |-> a]
           g == [kind |-> "owner", who |-> j, chunk |-> c, attempt |-> a]
<1>2. /\ UNCHANGED <<job, pendingQ, tick>> /\ th[Daemon].pc = "claim"
      /\ th'[Daemon].pc = "create"
  BY <1>t DEF ClaimOrReplace, Goto, Local
<1>3. \A k \in JobId : job[k].status = "inhand" => k = j
  BY <1>1, <1>2 DEF DispatchInv, HeldByDaemon, InHand
<1>4. h \in Holder /\ g \in Holder /\ h \in QueueHolders
  BY <1>1, <1>2 DEF Holder, QueueHolders, Unlaunched, InHand
<1>5. RowHolders' \subseteq RowHolders
  BY <1>2, RowsKept
<1>6. JobsKept
  BY <1>2 DEF JobsKept
<1>7. HandlerHolders' \subseteq HandlerHolders
  BY <1>o, <1>t, <1>2, <1>6, HandlersKept DEF DecidePC
<1>8. QueueHolders' \subseteq QueueHolders \ {h}
  BY <1>1, <1>2, <1>3 DEF QueueHolders, Unlaunched, Holder, InHand
<1>9. OwnerHolders' \subseteq OwnerHolders \cup {g}
  <2> SUFFICES ASSUME NEW k \in OwnerHolders', k \notin OwnerHolders PROVE k = g
    OBVIOUS
  <2>1. /\ k \in Holder /\ k.kind = "owner" /\ k.who \in JobId
        /\ ledger'[k.chunk] = k.who /\ k.attempt = job[k.who].attempt
    BY <1>2 DEF OwnerHolders, Holder
  <2>2. k.chunk = c /\ k.who = j
    BY <1>t, <1>1, <2>1 DEF OwnerHolders, Holder
  <2> QED
    BY <1>4, <2>1, <2>2 DEF Holder
<1>10. /\ h.kind = "queue" /\ h.chunk = c /\ h.attempt = a
       /\ g.kind = "owner" /\ g.chunk = c /\ g.attempt = a /\ g.who = j
  OBVIOUS
<1> HIDE DEF h, g
<1>11. h \in Holders /\ h \notin RowHolders \cup OwnerHolders \cup HandlerHolders
  BY <1>4, <1>10 DEF Holders, RowHolders, OwnerHolders, HandlerHolders
<1>12. Holders' \subseteq (Holders \ {h}) \cup {g}
  BY <1>5, <1>7, <1>8, <1>9, <1>11 DEF Holders
<1>13. Begun' \subseteq Begun \cup {j}
  BY <1>2, <1>3 DEF Begun, InTable, InHand, Unlaunched
<1>14. \A i \in Begun : job[i].chunk = c => job[i].attempt < a
  BY <1>10, <1>11 DEF HolderInv, NextAttempt
<1>15. OneHolder'
  BY <1>10, <1>11, <1>12 DEF HolderInv, OneHolder
<1>16. NextAttempt'
  <2> SUFFICES ASSUME NEW k \in Holders', NEW i \in Begun', job[i].chunk = k.chunk,
                      ~(k.kind = "owner" /\ k.who = i)
               PROVE  job[i].attempt < k.attempt
    BY <1>2 DEF NextAttempt
  <2>1. CASE k = g
    BY <1>10, <1>13, <1>14, <2>1
  <2>2. CASE k \in Holders \ {h}
    BY <1>10, <1>11, <1>13, <2>2 DEF HolderInv, NextAttempt, OneHolder
  <2> QED
    BY <1>12, <2>1, <2>2
<1>17. Capped'
  <2>1. a <= MaxRetries
    BY <1>10, <1>11 DEF HolderInv, Capped
  <2> QED
    BY <1>2, <1>10, <1>12, <1>13, <2>1 DEF HolderInv, Capped
<1>18. BegunOnce'
  BY <1>1, <1>2, <1>13, <1>14 DEF HolderInv, BegunOnce
<1>19. Decided'
  BY <1>o, <1>t, <1>2, <1>6, DecidedKept
<1>20. Handed
  BY <1>10, <1>11, <1>12 DEF Handed
<1>21. \A k \in Holders' : k.chunk = c => k.kind = "owner" /\ k.who = j
  BY <1>10, <1>11, <1>12 DEF HolderInv, OneHolder
<1> QED
  BY <1>10, <1>11, <1>15, <1>16, <1>17, <1>18, <1>19, <1>20, <1>21, <1>2, <1>13 DEF HolderInv,
     HolderMoved

LEMMA DispatchHolder ==
  ASSUME Shape, DispatchInv, OwnerFit, OpFit(Daemon), HolderInv, Decided, DispatchPhase
  PROVE  HolderMoved /\ Decided' /\ (SameBegun \/ ClaimOrReplace)
<1>t. /\ th \in [Thread -> Local] /\ Daemon \in Thread /\ th[Daemon] \in Local
      /\ job \in [JobId -> Job] /\ ledger \in [Chunk -> JobId \cup {NoJob}] /\ NoJob \notin JobId
  BY DEF Shape, TypeOK, Thread, NoJob, JobId
<1>o. Others(Daemon)
  BY DaemonOp
<1>k. ASSUME UNCHANGED <<ledger, pendingQ, tick>>, JobsKept, SameBegun,
             QueueHolders' \subseteq QueueHolders, th'[Daemon].pc \notin DecidePC
      PROVE  HolderMoved /\ Decided' /\ SameBegun
  <2>1. RowHolders' \subseteq RowHolders
    BY <1>k, RowsKept
  <2>2. OwnerHolders' \subseteq OwnerHolders
    BY <1>k, OwnersKept, SameLedger
  <2>3. HandlerHolders' \subseteq HandlerHolders
    BY <1>k, <1>o, <1>t, HandlersKept
  <2>4. Holders' \subseteq Holders
    BY <1>k, <2>1, <2>2, <2>3 DEF Holders
  <2>5. HolderMoved
    BY <1>k, <2>4, HolderKept
  <2>6. Decided'
    BY <1>k, <1>o, <1>t, DecidedKept DEF DecidePC
  <2> QED
    BY <1>k, <2>5, <2>6
<1>h. ASSUME NEW j \in JobId, th[Daemon].pc \in HandPC, j = th[Daemon].job
      PROVE  InHand(j) /\ \A k \in JobId : job[k].status = "inhand" => k = j
  BY <1>h, HandJob DEF DispatchInv, HeldByDaemon, InHand
<1>1. ASSUME NEW j \in JobId, Dequeue(j) PROVE HolderMoved /\ Decided' /\ SameBegun
  <2>1. /\ UNCHANGED <<ledger, pendingQ, tick>> /\ job[j].status = "queued"
        /\ th[Daemon].pc = "idle" /\ th'[Daemon].pc = "qGroup" /\ SetStatus(j, "inhand")
    BY <1>1, <1>t DEF Dequeue, Idle
  <2>2. \A k \in JobId : job[k].status # "inhand"
    BY <2>1 DEF DispatchInv, HeldByDaemon, InHand, HandPC
  <2>3. \A k \in JobId : /\ job'[k].chunk = job[k].chunk /\ job'[k].attempt = job[k].attempt
                         /\ job'[k].status = IF k = j THEN "inhand" ELSE job[k].status
    BY <1>t, <2>1 DEF SetStatus, Job
  <2>4. JobsKept
    BY <2>3 DEF JobsKept
  <2>5. SameBegun
    BY <2>1, <2>2, <2>3 DEF SameBegun, Begun, InTable, InHand, Unlaunched, JobState
  <2>6. QueueHolders' \subseteq QueueHolders
    BY <2>1, <2>2, <2>3 DEF QueueHolders, Unlaunched, Holder
  <2> QED
    BY <1>k, <2>1, <2>4, <2>5, <2>6 DEF DecidePC
<1>2. CASE GuardTerminalGroup
  <2>1. PICK j \in JobId : j = th[Daemon].job /\ InHand(j)
    BY <1>2, HandJob DEF GuardTerminalGroup, HandPC
  <2>2. \A k \in JobId : job[k].status = "inhand" => k = j
    BY <1>2, <1>h, <2>1 DEF GuardTerminalGroup, HandPC
  <2>3. /\ UNCHANGED <<ledger, pendingQ, tick>> /\ th[Daemon].pc = "qGroup"
        /\ \/ UNCHANGED job /\ th'[Daemon].pc = "claim"
           \/ job' = [job EXCEPT ![j] = Unused] /\ th'[Daemon].pc = "idle"
    BY <1>2, <1>t, <2>1 DEF GuardTerminalGroup, Goto, Return, Idle, Local
  <2>4. CASE UNCHANGED job /\ th'[Daemon].pc = "claim"
    <3>1. JobsKept /\ SameBegun
      BY <2>3, <2>4 DEF JobsKept, SameBegun, Begun, InTable, InHand, Unlaunched
    <3>2. QueueHolders' \subseteq QueueHolders
      BY <2>3, <2>4 DEF QueueHolders, Unlaunched, Holder
    <3> QED
      BY <1>k, <2>3, <2>4, <3>1, <3>2 DEF DecidePC
  <2>5. CASE job' = [job EXCEPT ![j] = Unused] /\ th'[Daemon].pc = "idle"
    <3>1. ~Owner(j)
      BY <2>1, <2>3, HandUnclaimed DEF Owner
    <3>2. \A k \in JobId : k # j => job'[k] = job[k]
      BY <1>t, <2>5
    <3>3. job'[j].status = "unused"
      BY <1>t, <2>5 DEF Unused
    <3>4. JobsKept
      BY <2>1, <3>1, <3>2 DEF JobsKept, InTable, InHand, JobState
    <3>5. SameBegun
      BY <2>2, <2>3, <3>2, <3>3 DEF SameBegun, Begun, InTable, InHand, Unlaunched, JobState
    <3>6. QueueHolders' \subseteq QueueHolders
      BY <2>5, <3>2, <3>3 DEF QueueHolders, Unlaunched, Holder
    <3> QED
      BY <1>k, <2>3, <2>5, <3>4, <3>5, <3>6 DEF DecidePC
  <2> QED
    BY <2>3, <2>4, <2>5
<1>3. CASE ClaimOrReplace
  <2>1. th[Daemon].job \in JobId
    BY <1>3, HandJob DEF ClaimOrReplace, HandPC
  <2> QED
    BY <1>3, <2>1, ClaimHolder
<1>4. CASE CreateJob \/ LoseDispatch
  <2>1. PICK j \in JobId : j = th[Daemon].job /\ InHand(j)
    BY <1>4, HandJob DEF CreateJob, LoseDispatch, HandPC
  <2>2. \A k \in JobId : job[k].status = "inhand" => k = j
    BY <1>4, <1>h, <2>1 DEF CreateJob, LoseDispatch, HandPC
  <2>3. /\ UNCHANGED <<ledger, pendingQ, tick>>
        /\ \/ /\ SetStatus(j, "pending") /\ th[Daemon].pc = "create" /\ Goto(Daemon, "launch")
           \/ SetStatus(j, "lost") /\ Return(Daemon)
    BY <1>4, <2>1 DEF CreateJob, LoseDispatch
  <2>4. /\ \A k \in JobId : job'[k].chunk = job[k].chunk /\ job'[k].attempt = job[k].attempt
        /\ \A k \in JobId : k # j => job'[k] = job[k]
        /\ \/ job'[j].status = "pending" /\ th[Daemon].pc = "create"
           \/ job'[j].status = "lost"
    BY <1>t, <2>3 DEF SetStatus, Job
  <2>5. JobsKept
    BY <2>4 DEF JobsKept
  <2>6. SameBegun
    BY <2>1, <2>2, <2>4 DEF SameBegun, Begun, InTable, InHand, Unlaunched, JobState
  <2>7. QueueHolders' \subseteq QueueHolders
    BY <2>2, <2>4 DEF QueueHolders, Unlaunched, Holder
  <2>8. th'[Daemon].pc \notin DecidePC
    BY <1>t, <2>3 DEF Goto, Return, Idle, Local, DecidePC
  <2> QED
    BY <1>k, <2>3, <2>5, <2>6, <2>7, <2>8
<1>5. CASE Launch
  <2>1. /\ UNCHANGED <<job, ledger, pendingQ, tick>> /\ th[Daemon].pc = "launch"
        /\ th'[Daemon].pc \in {"idle", "cas"}
    BY <1>5, <1>t DEF Launch, db, Return, Idle, Local
  <2> QED
    BY <1>k, <2>1, HandsFree DEF HandPC, DecidePC
<1> QED
  BY <1>1, <1>2, <1>3, <1>4, <1>5 DEF DispatchPhase

LEMMA RowsFewer ==
  ASSUME Rows' \subseteq Rows,
         \A r \in Rows', c \in Chunk : c \in StandsFor(r)' => c \in StandsFor(r)
  PROVE  RowHolders' \subseteq RowHolders
  BY DEF RowHolders, StandsFor, Holder

LEMMA PendingHolder ==
  ASSUME Shape, DispatchInv, OwnerFit, OpFit(Daemon), TickFit, HolderInv, Decided, PendingPhase
  PROVE  HolderMoved /\ Decided' /\ SameBegun
<1>t. /\ th \in [Thread -> Local] /\ Daemon \in Thread /\ th[Daemon] \in Local
      /\ job \in [JobId -> Job] /\ ledger \in [Chunk -> JobId \cup {NoJob}]
      /\ tick \in [batch : SUBSET Row, row : Row \cup {NoRow}, plan : SUBSET Chunk,
                   chunk : Chunk \cup {NoChunk}]
      /\ pendingQ \subseteq Row /\ NoRow \notin Row /\ NoChunk \notin Chunk
  BY ConstantsOK DEF Shape, TypeOK, Thread, NoRow, Row, RowId
<1>o. Others(Daemon)
  BY DaemonOp
<1>u. UNCHANGED ledger /\ th[Daemon].pc \notin HandPC /\ th'[Daemon].pc \notin DecidePC
  <2>1. ASSUME NEW l \in {"owner", "enqueue", "batch"}, Goto(Daemon, l)
        PROVE  th'[Daemon].pc \notin DecidePC
    BY <1>t, <2>1 DEF Goto, Local, DecidePC
  <2>2. CASE ListAll
    BY <1>t, <2>2 DEF ListAll, Idle, db, HandPC, DecidePC
  <2>3. CASE EndBatch
    BY <1>t, <2>3 DEF EndBatch, Return, Idle, db, HandPC, DecidePC
  <2>4. CASE DeleteRow \/ Enqueue \/ \E r \in tick.batch : PlanRow(r)
    BY <2>1, <2>4 DEF DeleteRow, Enqueue, PlanRow, db, HandPC
  <2>5. CASE \E r \in tick.batch : SkipRow(r)
    BY <2>5 DEF SkipRow, db, HandPC, DecidePC
  <2>6. CASE \E c \in Chunk : CheckOwner(c)
    BY <2>1, <2>6 DEF CheckOwner, db, HandPC, DecidePC
  <2> QED
    BY <2>2, <2>3, <2>4, <2>5, <2>6 DEF PendingPhase
<1>k. ASSUME UNCHANGED job, RowHolders' \subseteq RowHolders
      PROVE  HolderMoved /\ Decided' /\ SameBegun
  <2>1. QueueHolders' \subseteq QueueHolders /\ SameBegun /\ JobsKept
    BY <1>k, <1>u, HandsFree
  <2>2. OwnerHolders' \subseteq OwnerHolders
    BY <1>u, <2>1, OwnersKept, SameLedger
  <2>3. HandlerHolders' \subseteq HandlerHolders
    BY <1>o, <1>t, <1>u, <2>1, HandlersKept
  <2>4. Holders' \subseteq Holders
    BY <1>k, <2>1, <2>2, <2>3 DEF Holders
  <2>5. HolderMoved
    BY <2>1, <2>4, HolderKept
  <2>6. Decided'
    BY <1>o, <1>t, <1>u, <2>1, DecidedKept DEF DecidePC
  <2> QED
    BY <2>1, <2>5, <2>6
<1>1. CASE ListAll
  <2>1. /\ pendingQ' = pendingQ /\ job' = job /\ th[Daemon].pc = "idle"
        /\ tick'.batch = pendingQ /\ tick'.row = NoRow
    BY <1>1, <1>t DEF ListAll, db, NoTick, Idle
  <2>2. tick.batch = {} /\ tick.row = NoRow
    BY <2>1 DEF TickFit, TickPC, NoTick
  <2> QED
    BY <1>k, <1>t, <2>1, <2>2, RowsFewer DEF Rows, StandsFor
<1>2. CASE EndBatch
  <2>1. /\ pendingQ' = pendingQ /\ job' = job /\ th[Daemon].pc = "batch" /\ tick.batch = {}
        /\ tick'.batch = {} /\ tick'.row = NoRow
    BY <1>2, <1>t DEF EndBatch, db, NoTick
  <2>2. tick.row = NoRow
    BY <2>1 DEF TickFit
  <2> QED
    BY <1>k, <1>t, <2>1, <2>2, RowsFewer DEF Rows, StandsFor
<1>3. CASE DeleteRow
  <2>1. /\ job' = job /\ th[Daemon].pc = "owner" /\ tick'.batch = tick.batch
        /\ pendingQ' = {r \in pendingQ : r.id # tick.row.id} /\ tick'.row = NoRow
    BY <1>3, <1>t DEF DeleteRow
  <2>2. tick.row \notin tick.batch
    BY DEF TickFit
  <2>3. Rows' \subseteq Rows \ {tick.row} /\ NoRow \notin Rows'
    BY <1>t, <2>1, <2>2 DEF Rows
  <2> QED
    BY <1>k, <2>1, <2>3, RowsFewer DEF StandsFor
<1>4. ASSUME NEW r \in tick.batch, PlanRow(r) PROVE HolderMoved /\ Decided' /\ SameBegun
  <2>1. /\ job' = job /\ pendingQ' = pendingQ /\ th[Daemon].pc = "batch" /\ r \in Row
        /\ tick'.batch = tick.batch \ {r} /\ tick'.row = r /\ tick'.plan = r.chunks
        /\ tick'.chunk = tick.chunk
    BY <1>4, <1>t DEF PlanRow, db
  <2>2. tick.row = NoRow /\ tick.chunk = NoChunk
    BY <2>1 DEF TickFit
  <2>3. Rows' \subseteq Rows
    BY <2>1, <2>2 DEF Rows
  <2>4. \A s \in Rows', c \in Chunk : c \in StandsFor(s)' => c \in StandsFor(s)
    <3>1. NoRow \notin Rows'
      BY <1>t, <2>1, <2>2 DEF Rows
    <3> QED
      BY <1>t, <2>1, <2>2, <3>1 DEF StandsFor
  <2> QED
    BY <1>k, <2>1, <2>3, <2>4, RowsFewer
<1>5. ASSUME NEW r \in tick.batch, SkipRow(r) PROVE HolderMoved /\ Decided' /\ SameBegun
  <2>1. /\ job' = job /\ pendingQ' = pendingQ /\ tick'.batch = tick.batch \ {r}
        /\ tick'.row = tick.row /\ tick'.plan = tick.plan /\ tick'.chunk = tick.chunk
    BY <1>5, <1>t DEF SkipRow, db
  <2> QED
    BY <1>k, <2>1, RowsFewer DEF Rows, StandsFor
<1>6. ASSUME NEW c \in Chunk, CheckOwner(c) PROVE HolderMoved /\ Decided' /\ SameBegun
  <2>1. /\ job' = job /\ pendingQ' = pendingQ /\ tick'.batch = tick.batch /\ c \in tick.plan
        /\ tick'.row = tick.row /\ tick'.plan = tick.plan \ {c}
        /\ tick'.chunk \in {tick.chunk, c}
    BY <1>6, <1>t DEF CheckOwner, db
  <2> QED
    BY <1>k, <2>1, RowsFewer DEF Rows, StandsFor
<1>7. CASE Enqueue
  <2>1. /\ pendingQ' = pendingQ /\ th[Daemon].pc = "enqueue" /\ th'[Daemon].pc = "owner"
        /\ tick'.batch = tick.batch /\ tick'.row = tick.row /\ tick'.plan = tick.plan
        /\ tick'.chunk = NoChunk
    BY <1>7, <1>t DEF Enqueue, Goto, Local
  <2>2. RowHolders' \subseteq RowHolders
    BY <1>t, <2>1, RowsFewer DEF Rows, StandsFor
  <2>3. CASE UNCHANGED job
    BY <1>k, <2>2, <2>3
  <2>4. ASSUME NEW j \in JobId, job[j] = Unused,
               job' = [job EXCEPT ![j] = [chunk |-> tick.chunk, attempt |-> tick.row.attempt,
                                          status |-> "queued"]]
        PROVE  HolderMoved /\ Decided' /\ SameBegun
    <3> DEFINE c == tick.chunk
               a == tick.row.attempt
               h == [kind |-> "row", who |-> tick.row, chunk |-> c, attempt |-> a]
               g == [kind |-> "queue", who |-> j, chunk |-> c, attempt |-> a]
    <3>1. /\ tick.row \in Row /\ c \in Chunk /\ c \notin tick.plan /\ a \in Nat
      BY <1>t, <2>1 DEF TickFit, Shape, Fit, Row
    <3>2. h \in Holder /\ g \in Holder /\ h \in RowHolders
      BY <1>t, <3>1 DEF Holder, RowHolders, Rows, StandsFor
    <3>3. /\ job'[j].status = "queued" /\ job'[j].chunk = c /\ job'[j].attempt = a
          /\ job[j].status = "unused" /\ \A k \in JobId : k # j => job'[k] = job[k]
      BY <1>t, <2>4 DEF Unused
    <3>4. \A k \in JobId : job[k].status # "inhand"
      BY <1>u DEF DispatchInv, HeldByDaemon, InHand
    <3>5. RowHolders' \subseteq RowHolders \ {h}
      <4>1. h \notin RowHolders'
        BY <1>t, <2>1, <3>1 DEF RowHolders, StandsFor
      <4> QED
        BY <2>2, <4>1
    <3>6. QueueHolders' \subseteq QueueHolders \cup {g}
      <4> SUFFICES ASSUME NEW k \in QueueHolders', k \notin QueueHolders PROVE k = g
        OBVIOUS
      <4>1. /\ k \in Holder /\ k.kind = "queue" /\ k.who \in JobId
            /\ k.chunk = job'[k.who].chunk /\ k.attempt = job'[k.who].attempt
            /\ k.who = j
        BY <3>3, <3>4 DEF QueueHolders, Unlaunched, Holder
      <4> QED
        BY <3>2, <3>3, <4>1 DEF Holder
    <3>7. JobsKept
      BY <3>3 DEF JobsKept, InTable, Owner, OwnerFit, JobState, NoJob, JobId
    <3>8. SameBegun
      BY <3>3, <3>4 DEF SameBegun, Begun, InTable, InHand, JobState
    <3>9. OwnerHolders' \subseteq OwnerHolders
      BY <1>u, <3>7, OwnersKept, SameLedger
    <3>10. HandlerHolders' \subseteq HandlerHolders
      BY <1>o, <1>t, <1>u, <3>7, HandlersKept
    <3>11. /\ h.kind = "row" /\ h.chunk = g.chunk /\ h.attempt = g.attempt /\ g.kind = "queue"
      OBVIOUS
    <3> HIDE DEF h, g
    <3>12. h \in Holders /\ h \notin QueueHolders \cup OwnerHolders \cup HandlerHolders
      BY <3>2, <3>11 DEF Holders, QueueHolders, OwnerHolders, HandlerHolders
    <3>13. Holders' \subseteq (Holders \ {h}) \cup {g}
      BY <3>5, <3>6, <3>9, <3>10, <3>12 DEF Holders
    <3>14. g.attempt <= MaxRetries
      BY <3>11, <3>12 DEF HolderInv, Capped
    <3>15. HolderMoved
      BY <3>2, <3>8, <3>11, <3>12, <3>13, <3>14, HolderPassed
    <3>16. Decided'
      BY <1>o, <1>t, <1>u, <3>7, DecidedKept DEF DecidePC
    <3> QED
      BY <3>8, <3>15, <3>16
  <2> QED
    BY <1>7, <2>3, <2>4 DEF Enqueue, LeastFree
<1> QED
  BY <1>1, <1>2, <1>3, <1>4, <1>5, <1>6, <1>7 DEF PendingPhase

-----------------------------------------------------------------------------
AttemptInv == crashes = 0 => HolderInv /\ Decided

LEMMA NoCrash ==
  ASSUME Shape, [Next]_vars, ~Crash
  PROVE  crashes' = crashes
<1>1. ASSUME NEW p \in Thread, Step(p) PROVE crashes' = crashes
  BY <1>1, StepAside DEF StepsAside
<1>2. ASSUME (\E p \in Handler, j \in JobId : Signal(p, j)) \/ (\E p \in Handler : GroupSignal(p))
      PROVE  crashes' = crashes
  BY <1>2 DEF Signal, GroupSignal, BeginFailure, BeginSuccess, BeginCancel, BeginRetry,
              BeginReport, BeginPromote, BeginCancelGroup, BeginAudit
<1>3. ASSUME DispatchPhase \/ PendingPhase PROVE crashes' = crashes
  BY <1>3 DEF DispatchPhase, Dequeue, GuardTerminalGroup, ClaimOrReplace, CreateJob, Launch,
              LoseDispatch, PendingPhase, ListAll, EndBatch, DeleteRow, Enqueue, PlanRow, SkipRow,
              CheckOwner
<1> QED
  BY <1>1, <1>2, <1>3 DEF Next, Upload, vars

LEMMA AttemptStep ==
  ASSUME Shape, DispatchInv, OwnerFit, \A p \in Thread : OpFit(p), TickFit, NoRestart, AttemptInv,
         [Next]_vars
  PROVE  AttemptInv'
<1>1. SUFFICES ASSUME crashes' = 0 PROVE HolderInv' /\ Decided'
  BY DEF AttemptInv
<1>2. ~Crash
  BY <1>1 DEF Crash, Shape, TypeOK
<1>3. HolderInv /\ Decided
  BY <1>1, <1>2, NoCrash DEF AttemptInv
<1>4. ASSUME NEW p \in Thread, Step(p) PROVE HolderInv' /\ Decided'
  BY <1>3, <1>4, StepHolder DEF HolderMoved
<1>5. ASSUME NEW p \in Handler, (\E j \in JobId : Signal(p, j)) \/ GroupSignal(p)
      PROVE  HolderInv' /\ Decided'
  BY <1>3, <1>5, SignalHolder DEF HolderMoved
<1>6. CASE DispatchPhase
  BY <1>3, <1>6, DispatchHolder DEF Thread, HolderMoved
<1>7. CASE PendingPhase
  BY <1>3, <1>7, PendingHolder DEF Thread, HolderMoved
<1>8. ASSUME UNCHANGED <<job, ledger, pendingQ, tick, th>> PROVE HolderInv' /\ Decided'
  <2>1. Holders' = Holders /\ Begun' = Begun
    BY <1>8 DEF Holders, RowHolders, QueueHolders, OwnerHolders, HandlerHolders, Holder, Rows,
      StandsFor, Begun, Unlaunched, InTable, InHand, MyChunk
  <2>2. HolderInv'
    BY <1>3, <1>8, <2>1 DEF HolderInv, OneHolder, NextAttempt, Capped, BegunOnce
  <2> QED BY <1>3, <1>8, <2>2 DEF Decided
<1> QED
  BY <1>2, <1>4, <1>5, <1>6, <1>7, <1>8 DEF Next, Upload, vars

LEMMA AttemptAlways ==
  ASSUME NoRestart
  PROVE  Spec => [](Shape /\ DispatchInv /\ OwnerFit /\ AttemptInv)
<1> DEFINE Inv == AttemptInv /\ TickFit /\ \A p \in Thread : OpFit(p)
<1>1. Init => Inv
  BY HolderInit, TickInit, OpInit DEF AttemptInv
<1>2. Shape /\ DispatchInv /\ OwnerFit /\ Inv /\ [Next]_vars => Inv'
  BY AttemptStep, TickStep, OpStep
<1> QED
  BY <1>1, <1>2, OwnerFitAlways, PTL DEF Spec

(* Until the process first dies, and unless a user cancels single jobs or  *)
(* retries chunks, an attempt at a chunk is dispatched once, whatever the  *)
(* monitors, workers and sweeps say of its jobs, however often and at      *)
(* whatever moment: release_if_owner lets one failure decide, and every    *)
(* later step hands that one decision on.                                  *)
THEOREM DispatchedOnce ==
  ASSUME NoRestart
  PROVE  Spec => [](crashes = 0 => AttemptDispatchedOnce)
<1>1. AttemptInv => (crashes = 0 => AttemptDispatchedOnce)
  BY DEF AttemptInv, HolderInv, BegunOnce, Begun, AttemptDispatchedOnce
<1> QED
  BY <1>1, AttemptAlways, PTL

\* Jobs told apart by their attempts, none above n, are n + 1 at most.
LEMMA FewAttempts ==
  ASSUME NEW S \in SUBSET JobId, NEW n \in Nat,
         \A j \in S : job[j].attempt \in 0..n,
         \A j, k \in S : job[j].attempt = job[k].attempt => j = k
  PROVE  Cardinality(S) <= n + 1
<1> DEFINE f == [j \in S |-> job[j].attempt]
<1>1. f \in Injection(S, 0..n)
  BY DEF Injection, IsInjective
<1>2. IsFiniteSet(0..n) /\ Cardinality(0..n) = n + 1
  BY FS_Interval
<1> HIDE DEF f
<1> QED
  BY <1>1, <1>2, FS_Injection

(* Under the same conditions a chunk costs max_retries + 1 dispatches at   *)
(* most: the cap is checked once per attempt, on the attempt it is about.  *)
THEOREM WithinBudget ==
  ASSUME NoRestart
  PROVE  Spec => [](crashes = 0 => RetryBudget)
<1>1. Shape /\ AttemptInv => (crashes = 0 => RetryBudget)
  <2> SUFFICES ASSUME Shape, HolderInv, NEW c \in Chunk
               PROVE  Cardinality(Siblings(c)) <= MaxRetries + 1
    BY DEF AttemptInv, RetryBudget
  <2>1. \A j \in Siblings(c) : j \in Begun /\ job[j].chunk = c /\ job[j].attempt \in Nat
    BY DEF Siblings, Begun, Shape, TypeOK, Job
  <2>2. \A j \in Siblings(c) : job[j].attempt \in 0..MaxRetries
    BY <2>1, ConstantsOK DEF HolderInv, Capped
  <2>3. \A j, k \in Siblings(c) : job[j].attempt = job[k].attempt => j = k
    BY <2>1 DEF HolderInv, BegunOnce
  <2>4. Siblings(c) \in SUBSET JobId
    BY DEF Siblings
  <2> QED
    BY <2>2, <2>3, <2>4, FewAttempts, ConstantsOK
<1> QED
  BY <1>1, AttemptAlways, PTL

-----------------------------------------------------------------------------
(* A job runs loose while no thread is at work on how it ends.  A chunk    *)
(* has one loose job at most, which owns it or has been overtaken by a     *)
(* release; and as long as it is loose nobody else has a right to the next *)
(* dispatch.                                                               *)
SettlePC == DecidePC \cup {"cas", "markFailed", "release", "markDone"}
Settled  == {th[p].job : p \in {q \in Thread : th[q].pc \in SettlePC}}
Busy     == {j \in JobId : Active(j) \/ InHand(j)}
Loose    == (Begun \cap Busy) \ Settled

RunnerInv ==
  /\ \A i \in Loose, h \in Holders : h.chunk = job[i].chunk => h.kind = "owner" /\ h.who = i
  /\ \A i, j \in Loose : job[i].chunk = job[j].chunk => i = j

\* No worker or monitor revives a job it has not looked at for a while.
NoReport == \A p \in Handler : Does[p] \cap {"report", "reportDone", "promote"} = {}

LEMMA LoadSettles ==
  ASSUME NEW p \in Thread, th'[p].pc = "load"
  PROVE  th'[p].job \in Settled'
  BY DEF Settled, SettlePC, DecidePC

LEMMA RunnerKept ==
  ASSUME RunnerInv, Handed, SameBegun, Begun \cap Busy' \subseteq Busy,
         Settled \cap Busy' \subseteq Settled'
  PROVE  RunnerInv'
<1>1. Loose' \subseteq Loose /\ \A j \in Loose' : job'[j].chunk = job[j].chunk
  BY DEF Loose, SameBegun
<1>2. ASSUME NEW i \in Loose', NEW g \in Holders', g.chunk = job[i].chunk
      PROVE  g.kind = "owner" /\ g.who = i
  <2>1. CASE g \in Holders
    BY <1>1, <1>2, <2>1 DEF RunnerInv
  <2>2. CASE g \notin Holders
    <3>1. PICK h \in Holders :
            /\ h.chunk = g.chunk
            /\ h.kind = "owner" => \E p \in Thread : th'[p].pc = "load" /\ th'[p].job = h.who
      BY <2>2 DEF Handed
    <3>2. h.kind = "owner" /\ h.who = i
      BY <1>1, <1>2, <3>1 DEF RunnerInv
    <3>3. i \in Settled'
      BY <3>1, <3>2, LoadSettles
    <3> QED
      BY <3>3 DEF Loose
  <2> QED
    BY <2>1, <2>2
<1> QED
  BY <1>1, <1>2 DEF RunnerInv

\* How the step of a handler ends jobs.
LEMMA SettleStep ==
  ASSUME Shape, NEW p \in Thread, OpFit(p), Step(p), NoRestart, NoReport
  PROVE  Begun \cap Busy' \subseteq Busy /\ Settled \cap Busy' \subseteq Settled'
<1>t. th \in [Thread -> Local] /\ th[p] \in Local /\ job \in [JobId -> Job] /\ Others(p)
  BY StepOp DEF Shape, TypeOK
<1>o. th[p].op \notin {"cancel", "retry", "report", "reportDone", "promote"}
  BY DEF OpFit, OpsOf, NoRestart, NoReport, Thread
<1>1. \A j \in JobId : job'[j].status \in {job[j].status, "failed", "done", "cancelled", "unused"}
  <2>1. CASE UNCHANGED job
    BY <2>1
  <2>2. ASSUME NEW j, NEW s \in {"failed", "done", "cancelled"}, SetStatus(j, s)
        PROVE  \A k \in JobId :
                 job'[k].status \in {job[k].status, "failed", "done", "cancelled", "unused"}
    BY <1>t, <2>2 DEF SetStatus, Job
  <2>3. CASE DrainDispatch(p)
    BY <1>t, <2>3 DEF DrainDispatch, Unused
  <2> QED
    BY <1>o, <2>1, <2>2, <2>3
    DEF Step, db, OpFit, ReleaseIfOwner, LoadJobAndGroup, ComputeRemaining, ParkRetry, MarkFailed,
        ReleaseLedger, MarkDone, MarkCancelled, ReleaseUnconditional, ReadActiveJobs,
        MarkNextCancelled, ReleaseAll, RefuseIfActiveSibling, ResolveLatestSibling,
        RefuseIfNoRemaining, FlipGroupPending, ParkManualRetry, WriteReported, ReadGroup, ReadJobs,
        ReadFrames, ReadPending, ReadDispatch, WriteGroup, CheckTerminal, DrainPending
<1>2. Busy' \subseteq Busy
  BY <1>1 DEF Busy, Active, InHand, ActiveJob
<1>3. ASSUME th[p].pc \in SettlePC
      PROVE  \/ th'[p].pc \in SettlePC /\ th'[p].job = th[p].job
             \/ th[p].job \notin Busy'
  <2>1. ASSUME NEW l, Goto(p, l) PROVE th'[p].pc = l /\ th'[p].job = th[p].job
    BY <1>t, <2>1 DEF Goto, Local
  <2>2. CASE \/ LoadJobAndGroup(p) \/ ComputeRemaining(p) \/ ParkRetry(p) \/ ReleaseLedger(p)
    <3>1. \E l \in {"remaining", "park", "markFailed", "markDone"} : Goto(p, l)
      BY <1>o, <2>2 DEF LoadJobAndGroup, ComputeRemaining, ParkRetry, ReleaseLedger, AfterRetry
    <3> QED
      BY <2>1, <3>1 DEF SettlePC, DecidePC
  <2>3. CASE ReleaseIfOwner(p)
    <3>1. CASE Goto(p, "load")
      BY <2>1, <3>1 DEF SettlePC, DecidePC
    <3>2. CASE th' = [th EXCEPT ![p].pc = "markFailed", ![p].op = "stale"]
      BY <1>t, <3>2 DEF SettlePC, Local
    <3> QED
      BY <2>3, <3>1, <3>2 DEF ReleaseIfOwner
  <2>4. CASE MarkFailed(p) \/ MarkDone(p)
    <3>1. th[p].job \in JobId
      BY <2>4, MyJob DEF MarkFailed, MarkDone, JobPC
    <3>2. job'[th[p].job].status \in {"failed", "done"}
      BY <1>t, <2>4, <3>1 DEF MarkFailed, MarkDone, SetStatus, Job
    <3> QED
      BY <3>2 DEF Busy, Active, InHand, ActiveJob
  <2> QED
    BY <1>3, <1>o, <2>2, <2>3, <2>4
    DEF Step, SettlePC, DecidePC, MarkCancelled, ReleaseUnconditional, ReadActiveJobs,
        MarkNextCancelled, ReleaseAll, RefuseIfActiveSibling, ResolveLatestSibling,
        RefuseIfNoRemaining, FlipGroupPending, ParkManualRetry, WriteReported, ReadGroup, ReadJobs,
        ReadFrames, ReadPending, ReadDispatch, WriteGroup, CheckTerminal, DrainDispatch,
        DrainPending
<1>4. Settled \cap Busy' \subseteq Settled'
  BY <1>t, <1>3 DEF Settled, Others
<1> QED
  BY <1>2, <1>4

LEMMA IdleSettled ==
  ASSUME NEW p \in Thread, Others(p), th[p].pc \notin SettlePC
  PROVE  Settled \subseteq Settled'
  BY DEF Settled, Others

\* The daemon leaves the jobs table alone.
LEMMA DaemonTable ==
  ASSUME Shape, DispatchPhase \/ PendingPhase
  PROVE  \A k \in JobId : InTable(k) => job'[k] = job[k]
<1>t. job \in [JobId -> Job]
  BY DEF Shape, TypeOK
<1>1. ASSUME NEW j \in JobId, ~InTable(j), NEW v, job' = [job EXCEPT ![j] = v]
      PROVE  \A k \in JobId : InTable(k) => job'[k] = job[k]
  BY <1>t, <1>1
<1>2. ASSUME NEW j \in JobId, Dequeue(j)
      PROVE  \A k \in JobId : InTable(k) => job'[k] = job[k]
  BY <1>1, <1>2 DEF Dequeue, SetStatus, InTable, JobState
<1>3. CASE GuardTerminalGroup \/ CreateJob \/ LoseDispatch
  <2>1. th[Daemon].job \in JobId /\ ~InTable(th[Daemon].job)
    BY <1>3, HandJob
    DEF GuardTerminalGroup, CreateJob, LoseDispatch, HandPC, InHand, InTable, JobState
  <2>2. UNCHANGED job \/ \E v : job' = [job EXCEPT ![th[Daemon].job] = v]
    BY <1>3 DEF GuardTerminalGroup, CreateJob, LoseDispatch, SetStatus
  <2> QED
    BY <1>1, <2>1, <2>2
<1>4. CASE Enqueue
  <2>1. UNCHANGED job \/ \E j \in JobId : /\ job[j] = Unused
                                         /\ \E v : job' = [job EXCEPT ![j] = v]
    BY <1>4 DEF Enqueue, LeastFree
  <2> QED
    BY <1>1, <2>1 DEF Unused, InTable, JobState
<1>5. CASE UNCHANGED job
  BY <1>5
<1> QED
  BY <1>2, <1>3, <1>4, <1>5 DEF DispatchPhase, PendingPhase, ClaimOrReplace, Launch, ListAll,
                                EndBatch, DeleteRow, PlanRow, SkipRow, CheckOwner, db

\* Where the dispatch phase takes the daemon.
LEMMA DispatchAt ==
  ASSUME Shape, DispatchPhase
  PROVE  /\ UNCHANGED <<pendingQ, frames, tick>>
         /\ th[Daemon].pc \in {"idle", "qGroup", "claim", "create", "launch"}
         /\ th'[Daemon].pc \in {"idle", "qGroup", "claim", "create", "launch", "cas"}
         /\ th'[Daemon].pc = "create" => ClaimOrReplace
<1>t. th \in [Thread -> Local] /\ Daemon \in Thread /\ th[Daemon] \in Local
  BY DEF Shape, TypeOK, Thread
<1>1. /\ UNCHANGED <<pendingQ, frames, tick>>
      /\ th[Daemon].pc \in {"idle", "qGroup", "claim", "create", "launch"}
  <2>1. ASSUME NEW j \in JobId, Dequeue(j)
        PROVE  UNCHANGED <<pendingQ, frames, tick>> /\ th[Daemon].pc = "idle"
    BY <2>1 DEF Dequeue, Idle
  <2>2. CASE GuardTerminalGroup \/ ClaimOrReplace \/ CreateJob \/ Launch \/ LoseDispatch
    BY <2>2 DEF GuardTerminalGroup, ClaimOrReplace, CreateJob, Launch, LoseDispatch, db
  <2> QED
    BY <2>1, <2>2 DEF DispatchPhase
<1>2. ASSUME NEW l, Goto(Daemon, l) PROVE th'[Daemon].pc = l
  BY <1>2, <1>t DEF Goto, Local
<1>3. /\ th'[Daemon].pc \in {"idle", "qGroup", "claim", "create", "launch", "cas"}
      /\ th'[Daemon].pc = "create" => ClaimOrReplace
  <2>1. ASSUME Return(Daemon) PROVE th'[Daemon].pc = "idle"
    BY <1>t, <2>1 DEF Return, Idle
  <2>2. CASE \E j \in JobId : Dequeue(j)
    BY <1>t, <2>2 DEF Dequeue, Idle
  <2>3. CASE Launch
    BY <1>t, <2>1, <2>3 DEF Launch, Local
  <2> QED
    BY <1>2, <2>1, <2>2, <2>3 DEF DispatchPhase, GuardTerminalGroup, ClaimOrReplace, CreateJob,
                                 LoseDispatch
<1> QED
  BY <1>1, <1>3

\* Where the pending phase takes the daemon.
LEMMA PendingAt ==
  ASSUME Shape, PendingPhase
  PROVE  /\ UNCHANGED <<ledger, frames>>
         /\ th[Daemon].pc \in {"idle", "batch", "owner", "enqueue"}
         /\ th'[Daemon].pc \in {"idle", "batch", "owner", "enqueue"}
<1>t. /\ th \in [Thread -> Local] /\ Daemon \in Thread /\ th[Daemon] \in Local
  BY DEF Shape, TypeOK, Thread
<1>1. ASSUME NEW l, Goto(Daemon, l) PROVE th'[Daemon].pc = l
  BY <1>1, <1>t DEF Goto, Local
<1>2. CASE ListAll
  BY <1>t, <1>2 DEF ListAll, Idle, db
<1>3. CASE EndBatch
  BY <1>t, <1>3 DEF EndBatch, Return, Idle, db
<1>4. CASE DeleteRow \/ Enqueue \/ (\E r \in tick.batch : PlanRow(r) \/ SkipRow(r))
  BY <1>1, <1>4 DEF DeleteRow, Enqueue, PlanRow, SkipRow, db
<1>5. CASE \E c \in Chunk : CheckOwner(c)
  BY <1>1, <1>5 DEF CheckOwner, db
<1> QED
  BY <1>2, <1>3, <1>4, <1>5 DEF PendingPhase

\* The daemon brings no job of the table back to work, and settles none.
LEMMA DaemonRunner ==
  ASSUME Shape, DispatchInv, OpFit(Daemon), DispatchPhase \/ PendingPhase
  PROVE  Begun \cap Busy' \subseteq Busy /\ Settled \subseteq Settled'
<1>1. Settled \subseteq Settled'
  <2>1. th[Daemon].pc \notin SettlePC
    BY DispatchAt, PendingAt DEF SettlePC, DecidePC
  <2>2. Others(Daemon) /\ Daemon \in Thread
    BY DaemonOp DEF Thread
  <2> QED
    BY <2>1, <2>2, IdleSettled
<1>2. \A k \in JobId : InTable(k) => job'[k] = job[k]
  BY DaemonTable
<1> QED
  BY <1>1, <1>2 DEF Begun, Busy, InTable, InHand, Active

\* The job just claimed is the chunk's only one at work.
LEMMA ClaimRunner ==
  ASSUME Shape, DispatchInv, OpFit(Daemon), HolderInv, Decided, RunnerInv, ClaimOrReplace
  PROVE  RunnerInv'
<1>1. PICK j \in JobId : j = th[Daemon].job
  BY HandJob DEF ClaimOrReplace, HandPC
<1>2. /\ HolderMoved /\ Begun' \subseteq Begun \cup {j} /\ UNCHANGED job
      /\ \E h \in Holders : h.kind = "queue" /\ h.chunk = job[j].chunk
      /\ \A k \in Holders' : k.chunk = job[j].chunk => k.kind = "owner" /\ k.who = j
  BY <1>1, ClaimHolder
<1>3. Settled \subseteq Settled'
  BY DaemonRunner DEF DispatchPhase
<1>4. /\ Loose' \subseteq Loose \cup {j}
      /\ \A i \in Loose : job[i].chunk # job[j].chunk
  BY <1>2, <1>3 DEF Loose, Busy, Active, InHand, RunnerInv
<1>5. ASSUME NEW i \in Loose', NEW g \in Holders', g.chunk = job[i].chunk
      PROVE  g.kind = "owner" /\ g.who = i
  <2>1. CASE i = j
    BY <1>2, <1>5, <2>1
  <2>2. CASE i \in Loose /\ g \in Holders
    BY <1>5, <2>2 DEF RunnerInv
  <2>3. CASE i \in Loose /\ g \notin Holders
    <3>1. PICK h \in Holders :
            /\ h.chunk = g.chunk
            /\ h.kind = "owner" => \E p \in Thread : th'[p].pc = "load" /\ th'[p].job = h.who
      BY <1>2, <2>3 DEF HolderMoved, Handed
    <3>2. h.kind = "owner" /\ h.who = i
      BY <1>5, <2>3, <3>1 DEF RunnerInv
    <3>3. i \in Settled'
      BY <3>1, <3>2, LoadSettles
    <3> QED
      BY <3>3 DEF Loose
  <2> QED
    BY <1>4, <2>1, <2>2, <2>3
<1> QED
  BY <1>2, <1>4, <1>5 DEF RunnerInv

LEMMA RunnerStep ==
  ASSUME Shape, DispatchInv, OwnerFit, \A p \in Thread : OpFit(p), TickFit, NoRestart, NoReport,
         HolderInv, Decided, RunnerInv, [Next]_vars, ~Crash
  PROVE  RunnerInv'
<1>1. ASSUME NEW p \in Thread, Step(p) PROVE RunnerInv'
  <2>1. SameBegun
    BY <1>1, StepCalm, StepTable, BegunKept
  <2>2. Handed
    BY <1>1, StepHolder DEF HolderMoved
  <2> QED
    BY <1>1, <2>1, <2>2, SettleStep, RunnerKept
<1>2. ASSUME UNCHANGED job, Settled \subseteq Settled', SameBegun, Handed PROVE RunnerInv'
  <2>1. Busy' = Busy
    BY <1>2 DEF Busy, Active, InHand
  <2> QED
    BY <1>2, <2>1, RunnerKept
<1>3. ASSUME NEW p \in Handler, (\E j \in JobId : Signal(p, j)) \/ GroupSignal(p)
      PROVE  RunnerInv'
  <2>1. UNCHANGED job
    BY <1>3 DEF Signal, GroupSignal, BeginFailure, BeginSuccess, BeginCancel, BeginRetry,
                BeginReport, BeginPromote, BeginCancelGroup, BeginAudit, db
  <2>2. Calm
    BY <1>3, SignalCalm, GroupSignalCalm
  <2>3. SameBegun
    BY <2>1, <2>2, SignalTable, BegunKept
  <2>4. th[p].pc \notin SettlePC
    <3>1. th[p] = Idle
      <4>1. CASE GroupSignal(p)
        BY <4>1 DEF GroupSignal, BeginCancelGroup, BeginAudit, Begin
      <4>2. CASE \E j \in JobId : Signal(p, j)
        BY <4>2 DEF Signal, BeginFailure, BeginSuccess, BeginCancel, BeginRetry, BeginReport,
                    BeginPromote, Begin
      <4> QED
        BY <1>3, <4>1, <4>2
    <3> QED
      BY <3>1 DEF Idle, SettlePC, DecidePC
  <2>5. Settled \subseteq Settled'
    BY <1>3, <2>4, SignalOp, IdleSettled DEF Thread
  <2>6. Handed
    BY <1>3, SignalHolder DEF HolderMoved
  <2> QED
    BY <1>2, <2>1, <2>3, <2>5, <2>6
<1>4. CASE ClaimOrReplace
  BY <1>4, ClaimRunner DEF Thread
<1>5. CASE (DispatchPhase \/ PendingPhase) /\ ~ClaimOrReplace
  <2>1. HolderMoved /\ SameBegun
    BY <1>5, DispatchHolder, PendingHolder DEF Thread
  <2>2. Begun \cap Busy' \subseteq Busy /\ Settled \subseteq Settled'
    BY <1>5, DaemonRunner DEF Thread
  <2> QED
    BY <2>1, <2>2, RunnerKept DEF HolderMoved
<1>6. ASSUME UNCHANGED <<job, ledger, pendingQ, tick, th>> PROVE RunnerInv'
  BY <1>6
  DEF RunnerInv, Loose, Busy, Settled, Active, Holders, RowHolders, QueueHolders, OwnerHolders,
      HandlerHolders, Holder, Rows, StandsFor, Begun, Unlaunched, InTable, InHand, MyChunk
<1> QED
  BY <1>1, <1>3, <1>4, <1>5, <1>6 DEF Next, Upload, vars

(* Until the process first dies, with no single-job cancel, no manual      *)
(* retry, and no status written by a worker or a promotion, a chunk has    *)
(* one active job at most whenever no handler is at work: a machine is     *)
(* never paid for a chunk another one is rendering.                        *)
THEOREM OneRunner ==
  ASSUME NoRestart, NoReport
  PROVE  Spec => [](crashes = 0 => OneRunnerPerChunk)
<1> DEFINE Inv == /\ AttemptInv /\ TickFit /\ \A p \in Thread : OpFit(p)
                  /\ crashes = 0 => RunnerInv
<1>1. Init => Inv
  <2>1. Init => RunnerInv
    BY DEF Init, Unused, RunnerInv, Loose, Begun, InTable, InHand, JobState
  <2> QED
    BY <2>1, HolderInit, TickInit, OpInit DEF AttemptInv
<1>2. Shape /\ DispatchInv /\ OwnerFit /\ Inv /\ [Next]_vars => Inv'
  <2> SUFFICES ASSUME Shape, DispatchInv, OwnerFit, Inv, [Next]_vars PROVE Inv'
    OBVIOUS
  <2>1. AttemptInv' /\ TickFit' /\ (\A p \in Thread : OpFit(p))'
    BY AttemptStep, TickStep, OpStep
  <2>2. ASSUME crashes' = 0 PROVE RunnerInv'
    <3>1. ~Crash
      BY <2>2 DEF Crash, Shape, TypeOK
    <3> QED
      BY <2>2, <3>1, NoCrash, RunnerStep DEF AttemptInv
  <2> QED
    BY <2>1, <2>2
<1>3. Shape /\ Inv => (crashes = 0 => OneRunnerPerChunk)
  <2> SUFFICES ASSUME RunnerInv, Quiet, NEW j \in JobId, NEW k \in JobId,
                      Active(j), Active(k), job[j].chunk = job[k].chunk
               PROVE  j = k
    BY DEF OneRunnerPerChunk
  <2>1. Settled = {}
    BY DEF Settled, Quiet, Idle, SettlePC, DecidePC
  <2>2. j \in Loose /\ k \in Loose
    BY <2>1 DEF Loose, Begun, Busy, Active, InTable, ActiveJob, JobState
  <2> QED
    BY <2>2 DEF RunnerInv
<1> QED
  BY <1>1, <1>2, <1>3, OwnerFitAlways, PTL DEF Spec

-----------------------------------------------------------------------------
(***************************************************************************)
(* The system left to itself: monitors, workers and sweeps.  What is left  *)
(* out does more to a chunk than one step of ChunkPromise: a user can      *)
(* cancel or revive it at any point of its life, a status done written by  *)
(* the worker leaves the claim with a job that is over, and a process that *)
(* dies or a dispatch that raises can lose the row in hand.                *)
(***************************************************************************)
Undisturbed ==
  /\ \A p \in Handler : Does[p] \subseteq {"failure", "success", "report", "promote", "audit"}
  /\ MaxCrashes = 0 /\ ~DispatchRaises

LEMMA UndisturbedOps ==
  ASSUME Undisturbed
  PROVE  NoRestart /\ \A p \in Handler : "reportDone" \notin Does[p]
  BY DEF Undisturbed, NoRestart

PlainStep(p) ==
  \/ ReleaseIfOwner(p) \/ LoadJobAndGroup(p) \/ ComputeRemaining(p) \/ ParkRetry(p)
  \/ MarkFailed(p) \/ ReleaseLedger(p) \/ MarkDone(p) \/ WriteReported(p)
  \/ ReadGroup(p) \/ ReadJobs(p) \/ ReadFrames(p) \/ ReadPending(p) \/ ReadDispatch(p)
  \/ WriteGroup(p) \/ CheckTerminal(p) \/ DrainDispatch(p) \/ DrainPending(p)

LEMMA PlainSteps ==
  ASSUME Shape, NEW p \in Thread, OpFit(p), Undisturbed, Step(p)
  PROVE  /\ PlainStep(p)
         /\ th[p].op \in {"none", "stale", "dispatch", "plan", "failure", "success", "report",
                          "promote", "audit"}
<1>1. th[p].op \in {"none", "stale", "dispatch", "plan", "failure", "success", "report",
                    "promote", "audit"}
  BY DEF OpFit, OpsOf, Undisturbed, Thread
<1> QED
  BY <1>1 DEF OpFit, Step, PlainStep, MarkCancelled, ReleaseUnconditional, ReadActiveJobs,
              MarkNextCancelled, ReleaseAll, RefuseIfActiveSibling, ResolveLatestSibling,
              RefuseIfNoRemaining, FlipGroupPending, ParkManualRetry

-----------------------------------------------------------------------------
(* A chunk's attempts are numbered without gaps: an attempt is parked by   *)
(* the one before it, which has a row in the jobs table by then.           *)
Chain(c, a) == \A m \in 0..(a - 1) : \E k \in Siblings(c) : job[k].attempt = m

AllRows == pendingQ \cup tick.batch \cup {tick.row}

RowsChained ==
  \A r \in Row, c \in Chunk : r \in AllRows /\ c \in r.chunks => Chain(c, r.attempt)

JobsChained ==
  \A j \in JobId, c \in Chunk, a \in Nat :
    job[j].status # "unused" /\ job[j].chunk = c /\ job[j].attempt = a => Chain(c, a)

\* The tick works on chunks of its row.
PlanFit == tick.plan \subseteq tick.row.chunks /\ tick.chunk \in tick.row.chunks \cup {NoChunk}

ChainInv == RowsChained /\ JobsChained /\ PlanFit

TableGrows ==
  \A j \in JobId : InTable(j) => /\ InTable(j)'
                                 /\ job'[j].chunk = job[j].chunk
                                 /\ job'[j].attempt = job[j].attempt

JobsCarried ==
  \A j \in JobId : job'[j].status # "unused" =>
    /\ job[j].status # "unused"
    /\ job'[j].chunk = job[j].chunk /\ job'[j].attempt = job[j].attempt

LEMMA TableCarried ==
  ASSUME SameTable
  PROVE  TableGrows /\ JobsCarried
  BY DEF SameTable, TableGrows, JobsCarried, InTable, JobState, Unused

LEMMA ChainGrows ==
  ASSUME TableGrows, NEW c \in Chunk, NEW a \in Nat, Chain(c, a)
  PROVE  Chain(c, a)'
<1> SUFFICES ASSUME NEW m \in 0..(a - 1) PROVE \E k \in Siblings(c)' : job'[k].attempt = m
  BY DEF Chain
<1>1. PICK k \in Siblings(c) : job[k].attempt = m
  BY DEF Chain
<1> QED
  BY <1>1 DEF TableGrows, Siblings, InTable

LEMMA ChainKept ==
  ASSUME Shape, ChainInv, TableGrows, JobsCarried, PlanFit',
         \A r \in Row : r \in AllRows' => r \in AllRows
  PROVE  ChainInv'
<1>1. RowsChained'
  <2> SUFFICES ASSUME NEW r \in Row, NEW c \in Chunk, r \in AllRows', c \in r.chunks
               PROVE  Chain(c, r.attempt)'
    BY DEF RowsChained
  <2>1. Chain(c, r.attempt) /\ r.attempt \in Nat
    BY DEF ChainInv, RowsChained, Row
  <2> QED
    BY <2>1, ChainGrows
<1>2. JobsChained'
  <2> SUFFICES ASSUME NEW j \in JobId, NEW c \in Chunk, NEW a \in Nat,
                      job'[j].status # "unused", job'[j].chunk = c, job'[j].attempt = a
               PROVE  Chain(c, a)'
    BY DEF JobsChained
  <2>1. Chain(c, a)
    BY DEF JobsCarried, ChainInv, JobsChained
  <2> QED
    BY <2>1, ChainGrows
<1> QED
  BY <1>1, <1>2 DEF ChainInv

LEMMA ChainInit == Init => ChainInv
<1> SUFFICES ASSUME Init PROVE ChainInv
  OBVIOUS
<1> DEFINE r == [id |-> 1, chunks |-> Chunk, attempt |-> 0]
<1>1. AllRows = {r, NoRow} /\ tick.plan = {} /\ tick.chunk = NoChunk
  BY DEF Init, AllRows, NoTick
<1>2. \A s \in AllRows : s.attempt = 0
  BY <1>1 DEF NoRow
<1>3. \A c \in Chunk : Chain(c, 0)
  BY DEF Chain
<1> QED
  BY <1>1, <1>2, <1>3 DEF Init, ChainInv, RowsChained, JobsChained, PlanFit, Unused

LEMMA ChainStep ==
  ASSUME Shape, TickFit, \A p \in Thread : OpFit(p), NoRestart, ChainInv, [Next]_vars
  PROVE  ChainInv'
<1>t. /\ th \in [Thread -> Local] /\ Daemon \in Thread /\ th[Daemon] \in Local
      /\ tick \in [batch : SUBSET Row, row : Row \cup {NoRow}, plan : SUBSET Chunk,
                   chunk : Chunk \cup {NoChunk}]
      /\ pendingQ \subseteq Row /\ NoRow \notin Row /\ NoChunk \notin Chunk
      /\ job \in [JobId -> Job]
  BY ConstantsOK DEF Shape, TypeOK, Thread, NoRow, Row, RowId
<1>1. ASSUME NEW p \in Thread, Step(p) PROVE ChainInv'
  <2>1. StepsAside(p) /\ TableGrows /\ JobsCarried /\ PlanFit' /\ tick' = tick
    BY <1>1, StepAside, StepTable, TableCarried DEF StepsAside, ChainInv, PlanFit
  <2>2. CASE pendingQ' \subseteq pendingQ
    BY <2>1, <2>2, ChainKept DEF AllRows
  <2>3. ASSUME NEW n \in Nat, Park({MyChunk(p)}, n), th[p].pc = "park",
               th[p].op # "retry" => n = job[th[p].job].attempt + 1
        PROVE  ChainInv'
    <3>1. PICK i \in JobId : i = th[p].job /\ InTable(i) /\ job[i].attempt \in Nat
                             /\ job[i].chunk \in Chunk
      BY <2>3, MyJob DEF JobPC, MyChunk
    <3>2. PICK r \in Row : pendingQ' = pendingQ \cup {r} /\ r.chunks = {job[i].chunk}
                           /\ r.attempt = n
      BY <2>3, <3>1, ParkedRow DEF MyChunk
    <3>3. n = job[i].attempt + 1
      BY <2>3, <3>1 DEF OpFit, OpsOf, NoRestart, Thread
    <3>4. PICK c \in Chunk, a \in Nat : c = job[i].chunk /\ a = job[i].attempt
      BY <3>1
    <3>5. Chain(c, a) /\ i \in Siblings(c)
      BY <3>1, <3>4 DEF ChainInv, JobsChained, InTable, JobState, Siblings
    <3>6. Chain(c, n)
      BY <3>3, <3>4, <3>5 DEF Chain
    <3>7. ASSUME NEW s \in Row, NEW d \in Chunk, s \in AllRows', d \in s.chunks
          PROVE  Chain(d, s.attempt)'
      <4>1. s \in AllRows \/ s = r
        BY <2>1, <3>2, <3>7 DEF AllRows
      <4>2. Chain(d, s.attempt) /\ s.attempt \in Nat
        BY <3>2, <3>4, <3>6, <3>7, <4>1 DEF ChainInv, RowsChained, Row
      <4> QED
        BY <2>1, <4>2, ChainGrows
    <3>8. RowsChained'
      BY <3>7 DEF RowsChained
    <3>9. ASSUME NEW j \in JobId, NEW d \in Chunk, NEW b \in Nat,
                 job'[j].status # "unused", job'[j].chunk = d, job'[j].attempt = b
          PROVE  Chain(d, b)'
      <4>1. Chain(d, b)
        BY <2>1, <3>9 DEF JobsCarried, ChainInv, JobsChained
      <4> QED
        BY <2>1, <4>1, ChainGrows
    <3>10. JobsChained'
      BY <3>9 DEF JobsChained
    <3> QED
      BY <2>1, <3>8, <3>10 DEF ChainInv
  <2> QED
    BY <2>1, <2>2, <2>3 DEF StepsAside
<1>2. ASSUME UNCHANGED <<job, pendingQ, tick>> PROVE ChainInv'
  <2>1. TableGrows /\ JobsCarried /\ PlanFit'
    BY <1>2 DEF TableGrows, JobsCarried, InTable, PlanFit, ChainInv
  <2> QED
    BY <1>2, <2>1, ChainKept DEF AllRows
<1>3. ASSUME NEW p \in Handler, (\E j \in JobId : Signal(p, j)) \/ GroupSignal(p)
      PROVE  ChainInv'
  BY <1>2, <1>3 DEF Signal, GroupSignal, BeginFailure, BeginSuccess, BeginCancel, BeginRetry,
                    BeginReport, BeginPromote, BeginCancelGroup, BeginAudit, db
<1>d. ASSUME DispatchPhase \/ PendingPhase PROVE TableGrows
  BY <1>d, DaemonTable DEF TableGrows, InTable
<1>4. CASE DispatchPhase
  <2>1. UNCHANGED <<tick, pendingQ>>
    BY <1>4 DEF DispatchPhase, Dequeue, GuardTerminalGroup, ClaimOrReplace, CreateJob, Launch,
                LoseDispatch, db
  <2>2. JobsCarried
    <3>1. ASSUME NEW j \in JobId, job[j].status # "unused",
                 \/ job' = [job EXCEPT ![j] = Unused]
                 \/ \E s \in JobStatus : SetStatus(j, s)
          PROVE  JobsCarried
      BY <1>t, <3>1 DEF JobsCarried, SetStatus, Unused, Job
    <3>2. CASE \E j \in JobId : Dequeue(j)
      BY <3>1, <3>2 DEF Dequeue, JobStatus
    <3>3. CASE UNCHANGED job
      BY <3>3 DEF JobsCarried
    <3>4. CASE GuardTerminalGroup \/ CreateJob \/ LoseDispatch
      <4>1. th[Daemon].job \in JobId /\ job[th[Daemon].job].status # "unused"
        BY <3>4, HandJob DEF GuardTerminalGroup, CreateJob, LoseDispatch, HandPC, InHand
      <4>2. \/ UNCHANGED job
            \/ job' = [job EXCEPT ![th[Daemon].job] = Unused]
            \/ \E s \in JobStatus : SetStatus(th[Daemon].job, s)
        BY <3>4 DEF GuardTerminalGroup, CreateJob, LoseDispatch, JobStatus, JobState
      <4> QED
        BY <3>1, <3>3, <4>1, <4>2
    <3> QED
      BY <1>4, <3>2, <3>3, <3>4 DEF DispatchPhase, ClaimOrReplace, Launch, db
  <2>3. PlanFit'
    BY <2>1 DEF ChainInv, PlanFit
  <2> QED
    BY <1>4, <1>d, <2>1, <2>2, <2>3, ChainKept DEF AllRows
<1>5. ASSUME PendingPhase, UNCHANGED job, PlanFit', pendingQ' \subseteq pendingQ,
             tick'.batch \subseteq AllRows, tick'.row \in AllRows \cup {NoRow}
      PROVE  ChainInv'
  <2>1. JobsCarried
    BY <1>5 DEF JobsCarried
  <2> QED
    BY <1>5, <1>d, <1>t, <2>1, ChainKept DEF AllRows
<1>6. CASE PendingPhase /\ UNCHANGED job
  <2>1. ASSUME tick'.row = NoRow, tick'.plan = {}, tick'.chunk = NoChunk PROVE PlanFit'
    BY <2>1 DEF PlanFit
  <2>2. CASE ListAll
    <3>1. /\ tick'.batch = pendingQ /\ tick'.row = NoRow /\ tick'.plan = {}
          /\ tick'.chunk = NoChunk /\ pendingQ' = pendingQ
      BY <2>2 DEF ListAll, NoTick, db
    <3> QED
      BY <1>5, <1>6, <2>1, <3>1 DEF AllRows
  <2>3. CASE EndBatch
    <3>1. /\ tick'.batch = {} /\ tick'.row = NoRow /\ tick'.plan = {}
          /\ tick'.chunk = NoChunk /\ pendingQ' = pendingQ
      BY <2>3 DEF EndBatch, NoTick, db
    <3> QED
      BY <1>5, <1>6, <2>1, <3>1
  <2>4. CASE DeleteRow
    <3>1. /\ tick'.batch = tick.batch /\ tick'.row = NoRow /\ tick'.plan = {}
          /\ tick'.chunk = tick.chunk /\ pendingQ' \subseteq pendingQ /\ th[Daemon].pc = "owner"
      BY <1>t, <2>4 DEF DeleteRow
    <3>2. tick.chunk = NoChunk
      BY <3>1 DEF TickFit
    <3> QED
      BY <1>5, <1>6, <2>1, <3>1, <3>2 DEF AllRows
  <2>5. ASSUME NEW r \in tick.batch, PlanRow(r) PROVE ChainInv'
    <3>1. /\ tick'.batch \subseteq tick.batch /\ tick'.row = r /\ tick'.plan = r.chunks
          /\ tick'.chunk = tick.chunk /\ pendingQ' = pendingQ /\ th[Daemon].pc = "batch"
      BY <1>t, <2>5 DEF PlanRow, db
    <3>2. PlanFit'
      BY <3>1 DEF PlanFit, TickFit
    <3> QED
      BY <1>5, <1>6, <3>1, <3>2 DEF AllRows
  <2>6. ASSUME NEW r \in tick.batch, SkipRow(r) PROVE ChainInv'
    <3>1. /\ tick'.batch \subseteq tick.batch /\ tick'.row = tick.row /\ tick'.plan = tick.plan
          /\ tick'.chunk = tick.chunk /\ pendingQ' = pendingQ
      BY <1>t, <2>6 DEF SkipRow, db
    <3>2. PlanFit'
      BY <3>1 DEF PlanFit, ChainInv
    <3> QED
      BY <1>5, <1>6, <3>1, <3>2 DEF AllRows
  <2>7. ASSUME NEW c \in Chunk, CheckOwner(c) PROVE ChainInv'
    <3>1. /\ tick'.batch = tick.batch /\ tick'.row = tick.row /\ tick'.plan = tick.plan \ {c}
          /\ tick'.chunk \in {tick.chunk, c} /\ c \in tick.plan /\ pendingQ' = pendingQ
      BY <1>t, <2>7 DEF CheckOwner, db
    <3>2. PlanFit'
      BY <3>1 DEF PlanFit, ChainInv
    <3> QED
      BY <1>5, <1>6, <3>1, <3>2 DEF AllRows
  <2>8. CASE Enqueue
    <3>1. /\ tick'.batch = tick.batch /\ tick'.row = tick.row /\ tick'.plan = tick.plan
          /\ tick'.chunk = NoChunk /\ pendingQ' = pendingQ
      BY <1>t, <2>8 DEF Enqueue
    <3>2. PlanFit'
      BY <3>1 DEF PlanFit, ChainInv
    <3> QED
      BY <1>5, <1>6, <3>1, <3>2 DEF AllRows
  <2> QED
    BY <1>6, <2>2, <2>3, <2>4, <2>5, <2>6, <2>7, <2>8 DEF PendingPhase
<1>7. ASSUME NEW j \in JobId, Enqueue, job[j] = Unused,
             job' = [job EXCEPT ![j] = [chunk |-> tick.chunk, attempt |-> tick.row.attempt,
                                        status |-> "queued"]]
      PROVE  ChainInv'
  <2>1. /\ tick'.batch = tick.batch /\ tick'.row = tick.row /\ tick'.plan = tick.plan
        /\ tick'.chunk = NoChunk /\ pendingQ' = pendingQ /\ th[Daemon].pc = "enqueue"
    BY <1>t, <1>7 DEF Enqueue
  <2>2. TableGrows
    BY <1>7, <1>d DEF PendingPhase
  <2>3. /\ tick.chunk \in Chunk /\ tick.row \in Row /\ tick.chunk \in tick.row.chunks
    BY <1>t, <2>1 DEF Shape, Fit, TickFit, ChainInv, PlanFit
  <2>4. PICK c \in Chunk, a \in Nat : c = tick.chunk /\ a = tick.row.attempt
    BY <2>3 DEF Row
  <2>5. Chain(c, a)
    BY <2>3, <2>4 DEF ChainInv, RowsChained, AllRows
  <2>6. ASSUME NEW s \in Row, NEW d \in Chunk, s \in AllRows', d \in s.chunks
        PROVE  Chain(d, s.attempt)'
    <3>1. Chain(d, s.attempt) /\ s.attempt \in Nat
      BY <2>1, <2>6 DEF ChainInv, RowsChained, AllRows, Row
    <3> QED
      BY <2>2, <3>1, ChainGrows
  <2>7. RowsChained'
    BY <2>6 DEF RowsChained
  <2>8. ASSUME NEW k \in JobId, NEW d \in Chunk, NEW b \in Nat,
               job'[k].status # "unused", job'[k].chunk = d, job'[k].attempt = b
        PROVE  Chain(d, b)'
    <3>1. CASE k = j
      BY <1>t, <1>7, <2>2, <2>4, <2>5, <2>8, <3>1, ChainGrows
    <3>2. CASE k # j
      <4>1. Chain(d, b)
        BY <1>t, <1>7, <2>8, <3>2 DEF ChainInv, JobsChained
      <4> QED
        BY <2>2, <4>1, ChainGrows
    <3> QED
      BY <3>1, <3>2
  <2>9. JobsChained'
    BY <2>8 DEF JobsChained
  <2>10. PlanFit'
    BY <2>1 DEF PlanFit, ChainInv
  <2> QED
    BY <2>7, <2>9, <2>10 DEF ChainInv
<1>8. CASE PendingPhase
  <2>1. CASE Enqueue
    BY <1>6, <1>7, <1>8, <2>1 DEF Enqueue, LeastFree
  <2>2. CASE UNCHANGED job
    BY <1>6, <1>8, <2>2
  <2> QED
    BY <1>8, <2>1, <2>2 DEF PendingPhase, ListAll, EndBatch, DeleteRow, PlanRow, SkipRow,
                            CheckOwner, db
<1>9. CASE Crash
  <2>1. TableGrows /\ JobsCarried
    BY <1>9, <1>t DEF Crash, TableGrows, JobsCarried, InTable, JobState, Job
  <2>2. pendingQ' = pendingQ /\ tick'.batch = {} /\ tick'.row = NoRow /\ PlanFit'
    BY <1>9 DEF Crash, NoTick, PlanFit
  <2> QED
    BY <1>t, <2>1, <2>2, ChainKept DEF AllRows
<1> QED
  BY <1>1, <1>2, <1>3, <1>4, <1>8, <1>9 DEF Next, Upload, vars
-----------------------------------------------------------------------------
(* The queue's rows run ahead of the dispatches made: a row still there,   *)
(* be it for chunks the tick has promoted, is for an attempt not begun.    *)
Ahead(r, c) ==
  /\ r.attempt <= MaxRetries
  /\ \A i \in Begun : job[i].chunk = c => job[i].attempt < r.attempt

RowsAhead == \A r \in Row, c \in Chunk : r \in pendingQ /\ c \in r.chunks => Ahead(r, c)

\* A row at work is deleted only when its chunks are on dispatch_queue, unless
\* somebody is draining both queues.
Draining == \E p \in Thread : th[p].pc = "dPending"
Promoted ==
  \A c \in Chunk :
    tick.row \in pendingQ /\ c \in tick.row.chunks /\ c \notin tick.plan /\ c # tick.chunk
    => Queued(c) \/ Draining

\* The job about to be created owns its chunk, or the chunk is rendered; and a
\* success is only ever of a rendered chunk.
ClaimHolds ==
  \A c \in Chunk : th[Daemon].pc = "create" /\ MyChunk(Daemon) = c =>
    c \in frames \/ ledger[c] = th[Daemon].job
DoneRendered ==
  \A p \in Thread, c \in Chunk :
    th[p].pc \in {"release", "markDone"} /\ MyChunk(p) = c => c \in frames

PromiseInv == RowsAhead /\ Promoted /\ ClaimHolds /\ DoneRendered

\* A row is ahead for as long as it stands for the chunk.
LEMMA AheadNew ==
  ASSUME Shape', HolderInv', NEW r \in Row, NEW c \in Chunk, r \in pendingQ', c \in r.chunks,
         r # tick'.row \/ c \in tick'.plan
  PROVE  Ahead(r, c)'
<1> DEFINE h == [kind |-> "row", who |-> r, chunk |-> c, attempt |-> r.attempt]
<1>1. h \in Holder /\ h.kind = "row" /\ h.chunk = c /\ h.attempt = r.attempt /\ h.who = r
  BY DEF Holder, Row
<1>2. r \in Rows' /\ c \in StandsFor(r)'
  BY DEF Rows, StandsFor
<1> HIDE DEF h
<1>3. h \in Holders'
  BY <1>1, <1>2 DEF Holders, RowHolders
<1> QED
  BY <1>1, <1>3 DEF HolderInv, Capped, NextAttempt, Ahead

\* With one right to the next dispatch the owner check finds no owner.
LEMMA NoOwnerFound ==
  ASSUME Shape, TickFit, HolderInv, NEW c \in Chunk, CheckOwner(c)
  PROVE  ledger[c] = NoJob
<1> SUFFICES ASSUME ledger[c] # NoJob PROVE FALSE
  OBVIOUS
<1>1. PICK j \in JobId : j = ledger[c] /\ job[j].attempt \in Nat
  BY DEF Shape, TypeOK, Job
<1>2. tick.row \in Row /\ c \in tick.plan /\ tick.row.attempt \in Nat
  BY DEF CheckOwner, TickFit, Shape, TypeOK, Row
<1> DEFINE h == [kind |-> "row", who |-> tick.row, chunk |-> c, attempt |-> tick.row.attempt]
           g == [kind |-> "owner", who |-> j, chunk |-> c, attempt |-> job[j].attempt]
<1>3. h \in RowHolders
  BY <1>2 DEF RowHolders, Holder, Rows, StandsFor, NoRow, Row, RowId
<1>4. g \in OwnerHolders
  BY <1>1 DEF OwnerHolders, Holder
<1>5. h.chunk = g.chunk /\ h.kind # g.kind
  OBVIOUS
<1> HIDE DEF h, g
<1> QED
  BY <1>3, <1>4, <1>5 DEF HolderInv, OneHolder, Holders

LEMMA PromiseInit == Init => PromiseInv
<1> SUFFICES ASSUME Init PROVE PromiseInv
  OBVIOUS
<1>1. RowsAhead
  BY ConstantsOK DEF Init, RowsAhead, Ahead, Begun, InTable, InHand, Unused, JobState
<1>2. Promoted
  BY DEF Init, Promoted, NoTick, NoRow, Row, RowId
<1>3. ClaimHolds /\ DoneRendered
  BY DEF Init, ClaimHolds, DoneRendered, Idle, Thread
<1> QED
  BY <1>1, <1>2, <1>3 DEF PromiseInv

\* No dispatch begins, and a row at work stays the row at work.
LEMMA AheadKept ==
  ASSUME Shape', RowsAhead, HolderInv', SameBegun,
         \A r \in Row : r = tick'.row /\ r \in pendingQ' =>
           tick'.plan = r.chunks \/ r \in pendingQ
  PROVE  RowsAhead'
<1> SUFFICES ASSUME NEW r \in Row, NEW c \in Chunk, r \in pendingQ', c \in r.chunks
             PROVE  Ahead(r, c)'
  BY DEF RowsAhead
<1>1. CASE r # tick'.row \/ c \in tick'.plan
  BY <1>1, AheadNew
<1>2. CASE r \in pendingQ
  BY <1>2 DEF RowsAhead, Ahead, SameBegun
<1> QED
  BY <1>1, <1>2

\* What a step does to the queued rows, and to the claims.
LEMMA PlainQueue ==
  ASSUME Shape, NEW p \in Thread, PlainStep(p), ~DrainDispatch(p)
  PROVE  \A j \in JobId : ~InTable(j) => job'[j] = job[j]
<1>1. ASSUME NEW j \in JobId, InTable(j), NEW s, SetStatus(j, s)
      PROVE  \A k \in JobId : ~InTable(k) => job'[k] = job[k]
  BY <1>1 DEF SetStatus, Shape, TypeOK
<1>2. CASE MarkFailed(p) \/ MarkDone(p) \/ WriteReported(p)
  <2>1. th[p].pc \in JobPC /\ \E s : SetStatus(th[p].job, s)
    BY <1>2 DEF MarkFailed, MarkDone, WriteReported, JobPC
  <2> QED
    BY <1>1, <2>1, MyJob
<1> QED
  BY <1>2 DEF PlainStep, ReleaseIfOwner, LoadJobAndGroup, ComputeRemaining, ParkRetry,
              ReleaseLedger, ReadGroup, ReadJobs, ReadFrames, ReadPending, ReadDispatch,
              WriteGroup, CheckTerminal, DrainPending, db

LEMMA PlainLedger ==
  ASSUME Shape, NEW p \in Thread, PlainStep(p)
  PROVE  /\ UNCHANGED frames
         /\ \/ UNCHANGED ledger
            \/ /\ ledger' = [ledger EXCEPT ![MyChunk(p)] = NoJob]
               /\ \/ ReleaseLedger(p)
                  \/ ReleaseIfOwner(p) /\ ledger[MyChunk(p)] = th[p].job /\ Goto(p, "load")
<1>1. CASE ReleaseIfOwner(p) \/ ReleaseLedger(p)
  BY <1>1 DEF ReleaseIfOwner, ReleaseLedger
<1>2. CASE ~(ReleaseIfOwner(p) \/ ReleaseLedger(p))
  BY <1>2 DEF PlainStep, LoadJobAndGroup, ComputeRemaining, ParkRetry, MarkFailed, MarkDone,
              WriteReported, ReadGroup, ReadJobs, ReadFrames, ReadPending, ReadDispatch,
              WriteGroup, CheckTerminal, DrainDispatch, DrainPending, db
<1> QED
  BY <1>1, <1>2

\* A thread comes to mark a job done by the release before it.
LEMMA DoneStep ==
  ASSUME Shape, NEW p \in Thread, PlainStep(p), th'[p].pc \in {"release", "markDone"}
  PROVE  th[p].pc = "release" /\ th'[p].job = th[p].job
<1>t. th \in [Thread -> Local] /\ th[p] \in Local
  BY DEF Shape, TypeOK
<1>0. ASSUME NEW l, Goto(p, l) PROVE th'[p].pc = l /\ th'[p].job = th[p].job
  BY <1>0, <1>t DEF Goto, Local
<1>r. ~Return(p)
  BY <1>t DEF Return, Idle
<1>q. ASSUME NEW q \in BOOLEAN, Conclude(p, q) PROVE FALSE
  BY <1>q, <1>t DEF Conclude, Idle
<1>1. CASE ReleaseIfOwner(p)
  BY <1>0, <1>1, <1>t DEF ReleaseIfOwner, Local
<1>2. CASE \/ LoadJobAndGroup(p) \/ ComputeRemaining(p) \/ ParkRetry(p) \/ CheckTerminal(p)
           \/ DrainDispatch(p) \/ DrainPending(p)
  <2>1. \E l \in {"rGroup", "markFailed", "remaining", "park", "dDispatch", "dPending",
                  "gUnclaim"} : Goto(p, l)
    BY <1>2, <1>r DEF LoadJobAndGroup, ComputeRemaining, ParkRetry, CheckTerminal,
                      DrainDispatch, DrainPending, AfterRetry, AfterDrain
  <2> QED
    BY <1>0, <2>1
<1>3. CASE ReleaseLedger(p)
  BY <1>0, <1>3 DEF ReleaseLedger
<1>4. CASE MarkFailed(p) \/ MarkDone(p) \/ WriteReported(p)
  <2>1. th'[p].pc \in {"dGroup", "rGroup", "idle"}
    BY <1>4, <1>t DEF MarkFailed, MarkDone, WriteReported, Idle
  <2> QED
    BY <2>1
<1>5. CASE ReadGroup(p) \/ WriteGroup(p)
  BY <1>5, <1>t DEF ReadGroup, WriteGroup, Idle
<1>6. CASE ReadJobs(p) \/ ReadFrames(p)
  BY <1>6, <1>t DEF ReadJobs, ReadFrames, Local
<1>7. CASE ReadPending(p) \/ ReadDispatch(p)
  <2>1. Goto(p, "rDispatch") \/ \E q \in BOOLEAN : Conclude(p, q)
    BY <1>7 DEF ReadPending, ReadDispatch
  <2> QED
    BY <1>0, <1>q, <2>1
<1> QED
  BY <1>1, <1>2, <1>3, <1>4, <1>5, <1>6, <1>7 DEF PlainStep

LEMMA PromiseHandler ==
  ASSUME Shape, Shape', OwnerFit, NEW p \in Thread, OpFit(p), Undisturbed, TickFit,
         HolderInv', SameBegun, PromiseInv, Step(p)
  PROVE  PromiseInv'
<1>t. /\ th \in [Thread -> Local] /\ Daemon \in Thread /\ th[p] \in Local
      /\ pendingQ \subseteq Row /\ NoRow \notin Row
      /\ ledger \in [Chunk -> JobId \cup {NoJob}]
  BY DEF Shape, TypeOK, Thread, NoRow, Row, RowId
<1>1. PlainStep(p) /\ Others(p) /\ StepsAside(p) /\ Calm /\ SameTable /\ tick' = tick
  BY PlainSteps, StepOp, StepAside, StepCalm, StepTable DEF StepsAside
<1>2. /\ UNCHANGED frames
      /\ \/ UNCHANGED ledger
         \/ /\ ledger' = [ledger EXCEPT ![MyChunk(p)] = NoJob]
            /\ \/ ReleaseLedger(p)
               \/ ReleaseIfOwner(p) /\ ledger[MyChunk(p)] = th[p].job /\ Goto(p, "load")
  BY <1>1, PlainLedger
<1>3. ASSUME tick.row \in Row, tick.row \in pendingQ' PROVE tick.row \in pendingQ
  <2>1. CASE pendingQ' \subseteq pendingQ
    BY <1>3, <2>1
  <2>2. ASSUME NEW n \in Nat, Park({MyChunk(p)}, n), th[p].pc = "park"
        PROVE  tick.row \in pendingQ
    <3>1. PICK r \in Row : /\ pendingQ' = pendingQ \cup {r}
                           /\ \A s \in pendingQ \cup tick.batch \cup {tick.row} : s.id # r.id
      BY <2>2, ParkedRow, MyJob DEF JobPC
    <3> QED
      BY <1>3, <3>1
  <2> QED
    BY <1>1, <2>1, <2>2 DEF StepsAside
<1>4. RowsAhead'
  BY <1>1, <1>3, AheadKept DEF PromiseInv
<1>5. Promoted'
  <2> SUFFICES ASSUME NEW c \in Chunk, tick.row \in pendingQ', c \in tick.row.chunks,
                      c \notin tick.plan, c # tick.chunk
               PROVE  Queued(c)' \/ Draining'
    BY <1>1 DEF Promoted
  <2>1. tick.row \in pendingQ
    BY <1>3 DEF Shape, TypeOK
  <2>2. CASE DrainDispatch(p)
    <3>1. th'[p].pc = "dPending"
      BY <1>t, <2>2 DEF DrainDispatch, Goto, Local
    <3> QED
      BY <3>1 DEF Draining
  <2>3. CASE Queued(c) /\ ~DrainDispatch(p)
    BY <1>1, <2>3, PlainQueue DEF Queued, InTable, JobState
  <2>4. CASE Draining
    <3>1. PICK q \in Thread : th[q].pc = "dPending"
      BY <2>4 DEF Draining
    <3>2. CASE q # p
      BY <1>1, <3>1, <3>2 DEF Others, Draining
    <3>3. CASE q = p
      <4>1. DrainPending(p)
        BY <1>1, <3>1, <3>3 DEF PlainStep, ReleaseIfOwner, LoadJobAndGroup, ComputeRemaining,
           ParkRetry, MarkFailed, ReleaseLedger, MarkDone, WriteReported, ReadGroup, ReadJobs,
           ReadFrames, ReadPending, ReadDispatch, WriteGroup, CheckTerminal, DrainDispatch
      <4> QED
        BY <4>1 DEF DrainPending
    <3> QED
      BY <3>2, <3>3
  <2> QED
    BY <2>1, <2>2, <2>3, <2>4 DEF PromiseInv, Promoted
<1>6. ClaimHolds'
  <2> SUFFICES ASSUME NEW c \in Chunk, th'[Daemon].pc = "create", MyChunk(Daemon)' = c
               PROVE  c \in frames' \/ ledger'[c] = th'[Daemon].job
    BY DEF ClaimHolds
  <2>1. th'[Daemon] = th[Daemon] /\ th[Daemon].pc = "create"
    BY <1>1 DEF Calm, DaemonCalm, HandPC
  <2>2. PICK j \in JobId : j = th[Daemon].job /\ InHand(j)
    BY <2>1, HandJob DEF HandPC
  <2>3. job'[j] = job[j] /\ MyChunk(Daemon) = c
    BY <1>1, <2>1, <2>2 DEF SameTable, InHand, InTable, JobState, MyChunk
  <2>4. c \in frames \/ ledger[c] = j
    BY <2>1, <2>2, <2>3 DEF PromiseInv, ClaimHolds
  <2>5. ASSUME ReleaseLedger(p), ledger' = [ledger EXCEPT ![MyChunk(p)] = NoJob]
        PROVE  c \in frames \/ ledger'[c] = j
    <3>1. MyChunk(p) \in frames
      BY <2>5, MyJob DEF ReleaseLedger, JobPC, PromiseInv, DoneRendered
    <3> QED
      BY <1>t, <2>4, <2>5, <3>1
  <2>6. ASSUME ReleaseIfOwner(p), ledger[MyChunk(p)] = th[p].job,
               ledger' = [ledger EXCEPT ![MyChunk(p)] = NoJob]
        PROVE  c \in frames \/ ledger'[c] = j
    <3>1. th[p].job # j
      BY <2>2, <2>6, MyJob DEF ReleaseIfOwner, JobPC, InTable, InHand, JobState
    <3> QED
      BY <1>t, <2>4, <2>6, <3>1
  <2> QED
    BY <1>2, <2>1, <2>2, <2>4, <2>5, <2>6
<1>7. DoneRendered'
  <2> SUFFICES ASSUME NEW q \in Thread, NEW c \in Chunk, th'[q].pc \in {"release", "markDone"},
                      MyChunk(q)' = c
               PROVE  c \in frames
    BY <1>2 DEF DoneRendered
  <2>1. th[q].pc \in {"release", "markDone"} /\ th'[q].job = th[q].job
    BY <1>1, DoneStep DEF Others
  <2>2. MyChunk(q) = c
    <3>1. PICK j \in JobId : j = th[q].job /\ InTable(j)
      BY <2>1, MyJob DEF JobPC
    <3>2. job'[j].chunk = job[j].chunk
      BY <1>1, <3>1 DEF SameTable, InTable, JobState
    <3> QED
      BY <2>1, <3>1, <3>2 DEF MyChunk
  <2> QED
    BY <2>1, <2>2 DEF PromiseInv, DoneRendered
<1> QED
  BY <1>4, <1>5, <1>6, <1>7 DEF PromiseInv

LEMMA PromiseSignal ==
  ASSUME Shape, Shape', NEW p \in Handler, TickFit, HolderInv', SameBegun, PromiseInv,
         (\E j \in JobId : Signal(p, j)) \/ GroupSignal(p)
  PROVE  PromiseInv'
<1>1. /\ UNCHANGED <<job, ledger, pendingQ, frames, tick>>
      /\ Others(p) /\ p \in Thread /\ p # Daemon
  BY SignalOp, ConstantsOK
  DEF Signal, GroupSignal, BeginFailure, BeginSuccess, BeginCancel, BeginRetry, BeginReport,
      BeginPromote, BeginCancelGroup, BeginAudit, db, Thread
<1>2. th[p] = Idle
  BY DEF Signal, GroupSignal, BeginFailure, BeginSuccess, BeginCancel, BeginRetry, BeginReport,
         BeginPromote, BeginCancelGroup, BeginAudit, Begin
<1>3. RowsAhead'
  BY <1>1, AheadKept DEF PromiseInv
<1>4. Promoted'
  <2>1. Draining => Draining'
    BY <1>1, <1>2 DEF Draining, Others, Idle
  <2>2. \A c \in Chunk : Queued(c)' <=> Queued(c)
    BY <1>1 DEF Queued
  <2> QED
    BY <1>1, <2>1, <2>2 DEF PromiseInv, Promoted
<1>5. ClaimHolds'
  BY <1>1 DEF PromiseInv, ClaimHolds, MyChunk, Others, Thread
<1>6. DoneRendered'
  <2> SUFFICES ASSUME NEW q \in Thread, NEW c \in Chunk, th'[q].pc \in {"release", "markDone"},
                      MyChunk(q)' = c
               PROVE  c \in frames
    BY <1>1 DEF DoneRendered
  <2>1. CASE q # p
    BY <1>1, <2>1 DEF Others, MyChunk, PromiseInv, DoneRendered
  <2>2. CASE q = p
    <3>1. PICK j \in JobId : BeginSuccess(p, j)
      <4>t. th \in [Thread -> Local]
        BY DEF Shape, TypeOK
      <4>1. ASSUME NEW l, NEW o, NEW j, Begin(p, l, o, j) PROVE l \in {"release", "markDone"}
        BY <1>1, <2>2, <4>1, <4>t DEF Begin, Idle
      <4>2. ASSUME NEW j \in JobId, BeginRetry(p, j) PROVE FALSE
        BY <1>1, <2>2, <4>2, <4>t DEF BeginRetry, Idle
      <4> QED
        BY <4>1, <4>2 DEF Signal, GroupSignal, BeginFailure, BeginCancel, BeginReport,
                          BeginPromote, BeginCancelGroup, BeginAudit
    <3>2. th'[p].job = j /\ job[j].chunk \in frames
      BY <1>1, <3>1 DEF BeginSuccess, Begin, Idle, Shape, TypeOK
    <3> QED
      BY <1>1, <2>2, <3>2 DEF MyChunk
  <2> QED
    BY <2>1, <2>2
<1> QED
  BY <1>3, <1>4, <1>5, <1>6 DEF PromiseInv

LEMMA PromiseUpload ==
  ASSUME Shape, Shape', HolderInv', SameBegun, PromiseInv,
         UNCHANGED <<job, ledger, pendingQ, th, tick>>, frames \subseteq frames'
  PROVE  PromiseInv'
<1>1. RowsAhead'
  BY AheadKept DEF PromiseInv
<1>2. Promoted'
  BY DEF PromiseInv, Promoted, Draining, Queued
<1>3. ClaimHolds' /\ DoneRendered'
  BY DEF PromiseInv, ClaimHolds, DoneRendered, MyChunk
<1> QED
  BY <1>1, <1>2, <1>3 DEF PromiseInv

\* The daemon is at no point at which a handler is.
LEMMA DoneByHandler ==
  ASSUME Shape, PromiseInv, Others(Daemon), TableGrows, UNCHANGED frames,
         th'[Daemon].pc \notin {"release", "markDone"}
  PROVE  DoneRendered'
<1> SUFFICES ASSUME NEW q \in Thread, NEW c \in Chunk, th'[q].pc \in {"release", "markDone"},
                    MyChunk(q)' = c
             PROVE  c \in frames
  BY DEF DoneRendered
<1>1. th'[q] = th[q] /\ q # Daemon
  BY DEF Others
<1>2. PICK j \in JobId : j = th[q].job /\ InTable(j)
  BY <1>1, MyJob DEF JobPC
<1>3. MyChunk(q) = c
  BY <1>1, <1>2 DEF TableGrows, MyChunk
<1> QED
  BY <1>1, <1>3 DEF PromiseInv, DoneRendered

LEMMA PromiseDispatch ==
  ASSUME Shape, Shape', DispatchInv, TickFit, OpFit(Daemon), HolderInv', SameBegun \/ ClaimOrReplace,
         PromiseInv, DispatchPhase
  PROVE  PromiseInv'
<1>t. /\ th \in [Thread -> Local] /\ Daemon \in Thread /\ th[Daemon] \in Local
      /\ ledger \in [Chunk -> JobId \cup {NoJob}]
      /\ pendingQ \subseteq Row /\ NoRow \notin Row
  BY DEF Shape, TypeOK, Thread, NoRow, Row, RowId
<1>1. /\ UNCHANGED <<pendingQ, frames, tick>>
      /\ th[Daemon].pc \in {"idle", "qGroup", "claim", "create", "launch"}
  BY DispatchAt
<1>2. tick.row = NoRow
  BY <1>1 DEF TickFit, TickPC, NoTick
<1>3. RowsAhead'
  <2> SUFFICES ASSUME NEW r \in Row, NEW c \in Chunk, r \in pendingQ', c \in r.chunks
               PROVE  Ahead(r, c)'
    BY DEF RowsAhead
  <2> QED
    BY <1>1, <1>2, <1>t, AheadNew
<1>4. Promoted'
  BY <1>1, <1>2, <1>t DEF Promoted
<1>5. ASSUME NEW l, Goto(Daemon, l) PROVE th'[Daemon].job = th[Daemon].job
  BY <1>5, <1>t DEF Goto, Local
<1>6. /\ th'[Daemon].pc \in {"idle", "qGroup", "claim", "create", "launch", "cas"}
      /\ th'[Daemon].pc = "create" => ClaimOrReplace
  BY DispatchAt
<1>7. ClaimHolds'
  <2> SUFFICES ASSUME NEW c \in Chunk, ClaimOrReplace, MyChunk(Daemon)' = c
               PROVE  ledger'[c] = th'[Daemon].job
    BY <1>6 DEF ClaimHolds
  <2>1. /\ ledger' = [ledger EXCEPT ![MyChunk(Daemon)] = th[Daemon].job]
        /\ th'[Daemon].job = th[Daemon].job /\ UNCHANGED job
    BY <1>5 DEF ClaimOrReplace
  <2>2. MyChunk(Daemon) = c
    BY <2>1 DEF MyChunk
  <2> QED
    BY <1>t, <2>1, <2>2
<1>8. DoneRendered'
  BY <1>1, <1>6, DaemonOp, DaemonTable, DoneByHandler DEF TableGrows, InTable
<1> QED
  BY <1>3, <1>4, <1>7, <1>8 DEF PromiseInv

LEMMA PromisePending ==
  ASSUME Shape, Shape', TickFit, OpFit(Daemon), HolderInv, HolderInv', SameBegun, PromiseInv,
         PendingPhase
  PROVE  PromiseInv'
<1>t. /\ th \in [Thread -> Local] /\ Daemon \in Thread /\ th[Daemon] \in Local
      /\ tick \in [batch : SUBSET Row, row : Row \cup {NoRow}, plan : SUBSET Chunk,
                   chunk : Chunk \cup {NoChunk}]
      /\ pendingQ \subseteq Row /\ NoRow \notin Row /\ NoChunk \notin Chunk
      /\ job \in [JobId -> Job]
  BY ConstantsOK DEF Shape, TypeOK, Thread, NoRow, Row, RowId
<1>1. /\ UNCHANGED <<ledger, frames>>
      /\ th[Daemon].pc \in {"idle", "batch", "owner", "enqueue"}
      /\ th'[Daemon].pc \in {"idle", "batch", "owner", "enqueue"}
  BY PendingAt
<1>o. Others(Daemon)
  BY DaemonOp
<1>2. Draining => Draining'
  BY <1>1, <1>o DEF Draining, Others
<1>3. ClaimHolds'
  BY <1>1 DEF ClaimHolds
<1>4. DoneRendered'
  BY <1>1, <1>o, DaemonTable, DoneByHandler DEF TableGrows, InTable
<1>5. ASSUME tick'.row = NoRow, pendingQ' \subseteq pendingQ PROVE RowsAhead' /\ Promoted'
  <2>1. RowsAhead'
    BY <1>5, <1>t, AheadKept DEF PromiseInv
  <2>2. Promoted'
    BY <1>5, <1>t DEF Promoted
  <2> QED
    BY <2>1, <2>2
<1>6. CASE ListAll \/ EndBatch
  <2>1. tick'.row = NoRow /\ pendingQ' = pendingQ
    BY <1>6 DEF ListAll, EndBatch, NoTick, db
  <2> QED
    BY <1>3, <1>4, <1>5, <2>1 DEF PromiseInv
<1>7. CASE DeleteRow
  <2>1. tick'.row = NoRow /\ pendingQ' \subseteq pendingQ
    BY <1>7, <1>t DEF DeleteRow
  <2> QED
    BY <1>3, <1>4, <1>5, <2>1 DEF PromiseInv
<1>8. ASSUME NEW r \in tick.batch, PlanRow(r) PROVE RowsAhead' /\ Promoted'
  <2>1. tick'.row = r /\ tick'.plan = r.chunks /\ pendingQ' = pendingQ
    BY <1>8, <1>t DEF PlanRow, db
  <2>2. RowsAhead'
    BY <2>1, AheadKept DEF PromiseInv
  <2>3. Promoted'
    BY <2>1 DEF Promoted
  <2> QED
    BY <2>2, <2>3
<1>9. ASSUME NEW r \in tick.batch, SkipRow(r) PROVE RowsAhead' /\ Promoted'
  <2>1. tick'.row = tick.row /\ pendingQ' = pendingQ /\ th[Daemon].pc = "batch"
    BY <1>9, <1>t DEF SkipRow, db
  <2>2. tick.row = NoRow
    BY <2>1 DEF TickFit
  <2> QED
    BY <1>5, <2>1, <2>2
<1>10. ASSUME NEW c \in Chunk, CheckOwner(c) PROVE RowsAhead' /\ Promoted'
  <2>1. /\ tick'.row = tick.row /\ pendingQ' = pendingQ /\ th[Daemon].pc = "owner"
        /\ tick'.plan = tick.plan \ {c} /\ tick'.chunk = c /\ UNCHANGED job
    BY <1>10, <1>t, NoOwnerFound DEF CheckOwner, db
  <2>2. RowsAhead'
    BY <2>1, AheadKept DEF PromiseInv
  <2>3. tick.chunk = NoChunk
    BY <2>1 DEF TickFit
  <2>4. \A d \in Chunk : Queued(d)' <=> Queued(d)
    BY <2>1 DEF Queued
  <2>5. Promoted'
    BY <1>2, <1>t, <2>1, <2>3, <2>4 DEF Promoted, PromiseInv
  <2> QED
    BY <2>2, <2>5
<1>11. CASE Enqueue
  <2>1. /\ tick'.row = tick.row /\ pendingQ' = pendingQ /\ th[Daemon].pc = "enqueue"
        /\ tick'.plan = tick.plan /\ tick'.chunk = NoChunk
    BY <1>11, <1>t DEF Enqueue
  <2>2. RowsAhead'
    BY <2>1, AheadKept DEF PromiseInv
  <2>3. PICK c \in Chunk : c = tick.chunk
    BY <1>t, <2>1 DEF Shape, Fit
  <2>4. Queued(c)' /\ \A d \in Chunk : Queued(d) => Queued(d)'
    <3>1. CASE Queued(c) /\ UNCHANGED job
      BY <3>1 DEF Queued
    <3>2. ASSUME NEW j \in JobId, job[j] = Unused,
                 job' = [job EXCEPT ![j] = [chunk |-> c, attempt |-> tick.row.attempt,
                                            status |-> "queued"]]
          PROVE  Queued(c)' /\ \A d \in Chunk : Queued(d) => Queued(d)'
      <4>1. job'[j].status = "queued" /\ job'[j].chunk = c
        BY <1>t, <3>2
      <4>2. \A k \in JobId : job[k].status = "queued" => job'[k] = job[k]
        BY <1>t, <3>2 DEF Unused
      <4> QED
        BY <4>1, <4>2 DEF Queued
    <3> QED
      BY <1>11, <2>3, <3>1, <3>2 DEF Enqueue, LeastFree
  <2>5. Promoted'
    BY <1>2, <2>1, <2>3, <2>4 DEF Promoted, PromiseInv
  <2> QED
    BY <1>3, <1>4, <2>2, <2>5 DEF PromiseInv
<1> QED
  BY <1>3, <1>4, <1>6, <1>7, <1>8, <1>9, <1>10, <1>11 DEF PendingPhase, PromiseInv

-----------------------------------------------------------------------------
\* The parts of PhaseOf.
WaitingPC == {"unclaim", "load", "remaining", "park"}

OnDispatch(c) == \E j \in JobId : job[j].chunk = c /\ job[j].status \in {"queued", "inhand"}
Parked(c)     == \E r \in pendingQ : c \in r.chunks
Deciding(c)   == \E p \in Thread : th[p].pc \in WaitingPC /\ MyChunk(p) = c
Owned(c)      == \E j \in JobId : Active(j) /\ job[j].chunk = c /\ ledger[c] = j

LEMMA AwaitedIs ==
  ASSUME NEW c \in Chunk
  PROVE  /\ Awaited(c) <=> OnDispatch(c) \/ Parked(c) \/ Deciding(c)
         /\ Awaited(c)' <=> OnDispatch(c)' \/ Parked(c)' \/ Deciding(c)'
  BY DEF Awaited, OnDispatch, Parked, Deciding, WaitingPC

LEMMA PhaseIs ==
  ASSUME NEW c \in Chunk
  PROVE  /\ PhaseOf(c) = IF c \in frames THEN "rendered" ELSE IF Owned(c) THEN "running"
                         ELSE IF Awaited(c) THEN "waiting"
                         ELSE IF LastAttempt(c) THEN "spent" ELSE "dropped"
         /\ PhaseOf(c)' = IF c \in frames' THEN "rendered" ELSE IF Owned(c)' THEN "running"
                          ELSE IF Awaited(c)' THEN "waiting"
                          ELSE IF LastAttempt(c)' THEN "spent" ELSE "dropped"
<1>1. /\ Owned(c) <=> \E j \in JobId : Active(j) /\ job[j].chunk = c /\ ledger[c] = j
      /\ Owned(c)' <=> (\E j \in JobId : Active(j) /\ job[j].chunk = c /\ ledger[c] = j)'
  BY DEF Owned
<1> QED
  BY <1>1 DEF PhaseOf

LEMMA PhaseSame ==
  ASSUME NEW c \in Chunk, c \in frames' <=> c \in frames, Owned(c)' <=> Owned(c),
         Awaited(c)' <=> Awaited(c), LastAttempt(c)' <=> LastAttempt(c)
  PROVE  PhaseOf(c)' = PhaseOf(c)
  BY PhaseIs

LEMMA PhaseLost ==
  ASSUME NEW c \in Chunk, c \in frames' <=> c \in frames, Owned(c)' <=> Owned(c),
         Awaited(c)' => Awaited(c), LastAttempt(c)' <=> LastAttempt(c)
  PROVE  \/ PhaseOf(c)' = PhaseOf(c)
         \/ /\ PhaseOf(c) = "waiting" /\ ~Awaited(c)'
            /\ \/ LastAttempt(c) /\ PhaseOf(c)' = "spent"
               \/ ~LastAttempt(c) /\ PhaseOf(c)' = "dropped"
  BY PhaseIs

\* The steps of ChunkPromise, chunk by chunk.
SameLaunches == \A c \in Chunk : Siblings(c)' = Siblings(c)
ElseSame(c)  == \A d \in Chunk \ {c} : PhaseOf(d)' = PhaseOf(d)

LEMMA PromiseStays ==
  ASSUME SameLaunches, \A c \in Chunk : PhaseOf(c)' = PhaseOf(c)
  PROVE  Promise!Next
  BY DEF SameLaunches, Promise!Next

LEMMA PromiseMoves ==
  ASSUME SameLaunches, NEW c \in Chunk, ElseSame(c),
         \/ PhaseOf(c) = "running" /\ PhaseOf(c)' = "waiting"
         \/ PhaseOf(c) = "dropped" /\ PhaseOf(c)' = "waiting"
         \/ /\ PhaseOf(c) \in {"running", "waiting"} /\ PhaseOf(c)' = "spent"
            /\ Cardinality(Siblings(c)) = MaxRetries + 1
         \/ /\ PhaseOf(c) # "rendered" /\ PhaseOf(c)' = "rendered"
            /\ Cardinality(Siblings(c)) > 0
  PROVE  Promise!Next
<1> DEFINE phase == [d \in Chunk |-> PhaseOf(d)]
           launches == [d \in Chunk |-> Cardinality(Siblings(d))]
<1>1. launches' = launches
  BY DEF SameLaunches
<1>2. phase' = [phase EXCEPT ![c] = PhaseOf(c)']
  BY DEF ElseSame
<1>3. PhaseOf(c) \in Promise!Phase
  BY DEF PhaseOf, Promise!Phase
<1>4. Promise!Fail(c) \/ Promise!Resume(c) \/ Promise!GiveUp(c) \/ Promise!Render(c)
  BY <1>1, <1>2, <1>3 DEF Promise!Fail, Promise!Resume, Promise!GiveUp, Promise!Render,
     Promise!Move
<1> QED
  BY <1>4 DEF Promise!Next

LEMMA PromiseLaunches ==
  ASSUME NEW c \in Chunk, ElseSame(c), \A d \in Chunk \ {c} : Siblings(d)' = Siblings(d),
         Cardinality(Siblings(c)) < MaxRetries + 1,
         Cardinality(Siblings(c)') = Cardinality(Siblings(c)) + 1,
         \/ PhaseOf(c) = "waiting" /\ PhaseOf(c)' = "running"
         \/ PhaseOf(c) = "rendered" /\ PhaseOf(c)' = "rendered"
  PROVE  Promise!Next
<1> DEFINE phase == [d \in Chunk |-> PhaseOf(d)]
           launches == [d \in Chunk |-> Cardinality(Siblings(d))]
<1>1. launches' = [launches EXCEPT ![c] = @ + 1]
  OBVIOUS
<1>2. phase' = [phase EXCEPT ![c] = PhaseOf(c)']
  BY DEF ElseSame
<1>3. PhaseOf(c)' = PhaseOf(c) => phase' = phase
  BY DEF ElseSame
<1>4. Promise!Launch(c)
  BY <1>1, <1>2, <1>3 DEF Promise!Launch, Promise!Move
<1> QED
  BY <1>4 DEF Promise!Next

LEMMA PromiseDrops ==
  ASSUME SameLaunches, \E p \in Thread : Dropping(p),
         \A c \in Chunk : \/ PhaseOf(c)' = PhaseOf(c)
                          \/ PhaseOf(c) = "waiting" /\ PhaseOf(c)' = "dropped"
  PROVE  Promise!Next
<1> DEFINE phase == [d \in Chunk |-> PhaseOf(d)]
           launches == [d \in Chunk |-> Cardinality(Siblings(d))]
           S == {d \in Chunk : PhaseOf(d) = "waiting" /\ PhaseOf(d)' = "dropped"}
<1>1. launches' = launches
  BY DEF SameLaunches
<1>2. S \in SUBSET {d \in Chunk : phase[d] \in {"waiting", "running"}}
  OBVIOUS
<1>3. phase' = [d \in Chunk |-> IF d \in S THEN "dropped" ELSE phase[d]]
  OBVIOUS
<1>4. Promise!Drop
  BY <1>1, <1>2, <1>3 DEF Promise!Drop
<1> QED
  BY <1>4 DEF Promise!Next

-----------------------------------------------------------------------------
\* What steps leave of the parts.
LEMMA TableSame ==
  ASSUME SameTable
  PROVE  SameLaunches /\ \A c \in Chunk : LastAttempt(c)' <=> LastAttempt(c)
<1>1. \A j \in JobId : /\ InTable(j)' <=> InTable(j)
                       /\ InTable(j) => /\ job'[j].chunk = job[j].chunk
                                        /\ job'[j].attempt = job[j].attempt
  BY DEF SameTable, InTable, JobState, Unused
<1>2. ASSUME NEW c \in Chunk PROVE Siblings(c)' = Siblings(c)
  BY <1>1 DEF Siblings
<1>3. ASSUME NEW c \in Chunk PROVE LastAttempt(c)' <=> LastAttempt(c)
  BY <1>1, <1>2 DEF LastAttempt, Siblings
<1> QED
  BY <1>2, <1>3 DEF SameLaunches

LEMMA DecidingLess ==
  ASSUME Shape, NEW p \in Thread, Others(p), TableGrows,
         th'[p].pc \in WaitingPC => th[p].pc \in WaitingPC /\ th'[p].job = th[p].job,
         NEW c \in Chunk
  PROVE  /\ Deciding(c)' => Deciding(c)
         /\ Deciding(c) => \/ Deciding(c)'
                           \/ th[p].pc \in WaitingPC /\ th'[p].pc \notin WaitingPC
                              /\ MyChunk(p) = c
<1>1. ASSUME NEW q \in Thread, th[q].pc \in WaitingPC
      PROVE  \E j \in JobId : j = th[q].job /\ InTable(j) /\ job'[j].chunk = job[j].chunk
  BY <1>1, MyJob DEF WaitingPC, JobPC, TableGrows
<1>2. ASSUME NEW q \in Thread, th'[q].pc \in WaitingPC, MyChunk(q)' = c PROVE Deciding(c)
  <2>1. th[q].pc \in WaitingPC /\ th'[q].job = th[q].job
    BY <1>2 DEF Others
  <2>2. MyChunk(q) = c
    BY <1>1, <1>2, <2>1 DEF MyChunk
  <2> QED
    BY <2>1, <2>2 DEF Deciding
<1>3. ASSUME NEW q \in Thread, th[q].pc \in WaitingPC, MyChunk(q) = c,
             q = p => th'[q].pc \in WaitingPC
      PROVE  Deciding(c)'
  <2>1. th'[q].pc \in WaitingPC /\ th'[q].job = th[q].job
    BY <1>3 DEF Others
  <2>2. MyChunk(q)' = c
    BY <1>1, <1>3, <2>1 DEF MyChunk
  <2> QED
    BY <2>1, <2>2 DEF Deciding
<1>4. Deciding(c)' => Deciding(c)
  BY <1>2 DEF Deciding
<1>5. ASSUME Deciding(c), ~Deciding(c)'
      PROVE  th[p].pc \in WaitingPC /\ th'[p].pc \notin WaitingPC /\ MyChunk(p) = c
  BY <1>3, <1>5 DEF Deciding
<1> QED
  BY <1>4, <1>5

\* A queued row, and the one in hand before its claim, is ahead as well.
LEMMA QueuedAhead ==
  ASSUME Shape, HolderInv, NEW j \in JobId, Unlaunched(j), NEW c \in Chunk, job[j].chunk = c
  PROVE  ~LastAttempt(c)
<1> DEFINE a == job[j].attempt
           h == [kind |-> "queue", who |-> j, chunk |-> c, attempt |-> a]
<1>1. a \in Nat
  BY DEF Shape, TypeOK, Job
<1>2. h \in QueueHolders /\ h.kind = "queue" /\ h.chunk = c /\ h.attempt = a
  BY <1>1 DEF QueueHolders, Holder
<1> HIDE DEF h
<1>3. a <= MaxRetries /\ \A i \in Begun : job[i].chunk = c => job[i].attempt < a
  BY <1>2 DEF HolderInv, Capped, NextAttempt, Holders
<1>4. \A i \in Siblings(c) : i \in Begun /\ job[i].chunk = c /\ job[i].attempt \in Nat
  BY DEF Siblings, Begun, Shape, TypeOK, Job
<1> QED
  BY <1>1, <1>3, <1>4, ConstantsOK DEF LastAttempt

LEMMA RowAheadLast ==
  ASSUME Shape, NEW r \in Row, NEW c \in Chunk, Ahead(r, c)
  PROVE  ~LastAttempt(c)
<1>1. \A i \in Siblings(c) : i \in Begun /\ job[i].chunk = c /\ job[i].attempt \in Nat
  BY DEF Siblings, Begun, Shape, TypeOK, Job
<1> QED
  BY <1>1, ConstantsOK DEF LastAttempt, Ahead, Row

LEMMA SiblingsFinite ==
  ASSUME NEW c \in Chunk
  PROVE  IsFiniteSet(Siblings(c))
<1>1. Siblings(c) \subseteq 1..MaxJobs /\ IsFiniteSet(1..MaxJobs)
  BY FS_Interval, ConstantsOK DEF Siblings, JobId
<1> QED
  BY <1>1, FS_Subset

\* A chunk whose last attempt has been dispatched has cost its whole budget.
LEMMA BudgetSpent ==
  ASSUME Shape, HolderInv, ChainInv, NEW c \in Chunk, LastAttempt(c)
  PROVE  Cardinality(Siblings(c)) = MaxRetries + 1
<1>1. \A j \in Siblings(c) : /\ j \in JobId /\ j \in Begun /\ InTable(j) /\ job[j].chunk = c
                             /\ job[j].attempt \in Nat
  BY DEF Siblings, Begun, Shape, TypeOK, Job
<1>2. \A j \in Siblings(c) : job[j].attempt \in 0..MaxRetries
  BY <1>1, ConstantsOK DEF HolderInv, Capped
<1>3. PICK j \in Siblings(c) : job[j].attempt = MaxRetries
  BY <1>2, ConstantsOK DEF LastAttempt
<1>4. Chain(c, MaxRetries)
  <2>1. job[j].status # "unused" /\ job[j].chunk = c /\ j \in JobId
    BY <1>1 DEF InTable, JobState
  <2> QED
    BY <1>3, <2>1, ConstantsOK DEF ChainInv, JobsChained
<1>5. \A m \in 0..MaxRetries : \E k \in Siblings(c) : job[k].attempt = m
  BY <1>3, <1>4, ConstantsOK DEF Chain
<1> DEFINE f == [k \in Siblings(c) |-> job[k].attempt]
<1>6. f \in Bijection(Siblings(c), 0..MaxRetries)
  <2>1. \A k, l \in Siblings(c) : job[k].attempt = job[l].attempt => k = l
    BY <1>1 DEF HolderInv, BegunOnce
  <2> QED
    BY <1>2, <1>5, <2>1 DEF Bijection, Injection, Surjection, IsInjective
<1>7. IsFiniteSet(0..MaxRetries) /\ Cardinality(0..MaxRetries) = MaxRetries + 1
  BY FS_Interval, ConstantsOK
<1>8. IsFiniteSet(Siblings(c))
  BY SiblingsFinite
<1> HIDE DEF f
<1> QED
  BY <1>6, <1>7, <1>8, FS_Bijection DEF ExistsBijection

-----------------------------------------------------------------------------
\* A thread moves, to or from no point at which a chunk waits for it.
LEMMA SilentMaps ==
  ASSUME Shape, NEW p \in Thread, Others(p), UNCHANGED <<job, ledger, pendingQ, frames>>,
         th'[p].pc \in WaitingPC => th[p].pc \in WaitingPC /\ th'[p].job = th[p].job,
         th[p].pc \in WaitingPC => th'[p].pc \in WaitingPC
  PROVE  Promise!Next
<1>1. SameTable /\ TableGrows
  BY SignalTable, TableCarried
<1>2. ASSUME NEW c \in Chunk PROVE PhaseOf(c)' = PhaseOf(c)
  <2>1. Deciding(c)' <=> Deciding(c)
    BY <1>1, DecidingLess
  <2>2. Awaited(c)' <=> Awaited(c)
    BY <2>1, AwaitedIs DEF OnDispatch, Parked
  <2>3. Owned(c)' <=> Owned(c)
    BY DEF Owned, Active
  <2> QED
    BY <1>1, <2>2, <2>3, TableSame, PhaseSame
<1> QED
  BY <1>1, <1>2, TableSame, PromiseStays

\* A failure ends without parking a retry.
LEMMA LeaveMaps ==
  ASSUME Shape, HolderInv, ChainInv, NEW p \in Thread, Others(p),
         UNCHANGED <<job, ledger, pendingQ, frames>>,
         th[p].pc \in WaitingPC, th'[p].pc \notin WaitingPC,
         NEW c \in Chunk, MyChunk(p) = c, Dropping(p) \/ LastAttempt(c) \/ c \in frames
  PROVE  Promise!Next
<1>1. SameTable /\ TableGrows
  BY SignalTable, TableCarried
<1>2. ASSUME NEW d \in Chunk
      PROVE  /\ Owned(d)' <=> Owned(d)
             /\ LastAttempt(d)' <=> LastAttempt(d)
             /\ Awaited(d)' => Awaited(d)
             /\ d # c => (Awaited(d)' <=> Awaited(d))
  <2>1. (Deciding(d)' => Deciding(d)) /\ (d # c => (Deciding(d) => Deciding(d)'))
    BY <1>1, DecidingLess
  <2> QED
    BY <1>1, <2>1, AwaitedIs, TableSame DEF OnDispatch, Parked, Owned, Active
<1>3. ElseSame(c)
  BY <1>2, PhaseSame DEF ElseSame
<1>4. \/ PhaseOf(c)' = PhaseOf(c)
      \/ PhaseOf(c) = "waiting" /\ LastAttempt(c) /\ PhaseOf(c)' = "spent"
      \/ PhaseOf(c) = "waiting" /\ ~LastAttempt(c) /\ PhaseOf(c)' = "dropped"
  BY <1>2, PhaseLost
<1>5. CASE PhaseOf(c)' = PhaseOf(c)
  BY <1>1, <1>3, <1>5, TableSame, PromiseStays DEF ElseSame
<1>6. CASE PhaseOf(c) = "waiting" /\ LastAttempt(c) /\ PhaseOf(c)' = "spent"
  BY <1>1, <1>3, <1>6, TableSame, BudgetSpent, PromiseMoves
<1>7. CASE PhaseOf(c) = "waiting" /\ ~LastAttempt(c) /\ PhaseOf(c)' = "dropped"
  <2>1. c \notin frames
    BY <1>7, PhaseIs
  <2> QED
    BY <1>1, <1>3, <1>7, <2>1, TableSame, PromiseDrops DEF ElseSame
<1> QED
  BY <1>4, <1>5, <1>6, <1>7

\* A job of the table changes its status.
LEMMA StatusMaps ==
  ASSUME Shape, NEW p \in Thread, Others(p), UNCHANGED <<ledger, pendingQ, frames>>,
         th[p].pc \notin WaitingPC, th'[p].pc \notin WaitingPC,
         NEW j \in JobId, InTable(j), NEW s \in JobState, SetStatus(j, s),
         NEW c \in Chunk, job[j].chunk = c,
         \/ ledger[c] # j
         \/ Active(j) /\ s \in ActiveJob
         \/ c \in frames
  PROVE  Promise!Next
<1>1. SameTable /\ TableGrows
  BY StatusTable, TableCarried
<1>2. /\ \A k \in JobId : job'[k].chunk = job[k].chunk
      /\ \A k \in JobId : k # j => job'[k] = job[k]
      /\ job'[j].status = s
  BY DEF SetStatus, Shape, TypeOK, Job
<1>3. ASSUME NEW d \in Chunk PROVE PhaseOf(d)' = PhaseOf(d)
  <2>1. Deciding(d)' <=> Deciding(d)
    BY <1>1, DecidingLess
  <2>2. OnDispatch(d)' <=> OnDispatch(d)
    <3>1. \A k \in JobId : job'[k].status \in {"queued", "inhand"}
                           <=> job[k].status \in {"queued", "inhand"}
      BY <1>2 DEF InTable, JobState
    <3> QED
      BY <1>2, <3>1 DEF OnDispatch
  <2>3. Awaited(d)' <=> Awaited(d)
    BY <2>1, <2>2, AwaitedIs DEF Parked
  <2>4. CASE d = c /\ c \in frames
    BY <2>4, PhaseIs
  <2>5. CASE ~(d = c /\ c \in frames)
    <3>1. Owned(d)' <=> Owned(d)
      BY <1>2, <2>5 DEF Owned, Active, ActiveJob
    <3> QED
      BY <1>1, <2>3, <3>1, TableSame, PhaseSame
  <2> QED
    BY <2>4, <2>5
<1> QED
  BY <1>1, <1>3, TableSame, PromiseStays

\* A claim is released.
LEMMA ReleaseMaps ==
  ASSUME Shape, NEW p \in Thread, Others(p), UNCHANGED <<job, pendingQ, frames>>,
         NEW c \in Chunk, MyChunk(p) = c, ledger' = [ledger EXCEPT ![c] = NoJob],
         th[p].pc \notin WaitingPC, th'[p].job = th[p].job,
         \/ c \in frames /\ th'[p].pc \notin WaitingPC
         \/ Owned(c) /\ th'[p].pc \in WaitingPC
  PROVE  Promise!Next
<1>1. SameTable /\ TableGrows
  BY SignalTable, TableCarried
<1>2. ledger \in [Chunk -> JobId \cup {NoJob}] /\ NoJob \notin JobId
  BY DEF Shape, TypeOK, NoJob, JobId
<1>3. MyChunk(p)' = c
  BY DEF MyChunk
<1>4. ASSUME NEW d \in Chunk, d # c PROVE PhaseOf(d)' = PhaseOf(d)
  <2>1. Deciding(d)' <=> Deciding(d)
    <3>1. \A q \in Thread : q # p => /\ th'[q] = th[q] /\ MyChunk(q)' = MyChunk(q)
      BY DEF Others, MyChunk
    <3> QED
      BY <1>3, <1>4, <3>1 DEF Deciding
  <2>2. Awaited(d)' <=> Awaited(d)
    BY <2>1, AwaitedIs DEF OnDispatch, Parked
  <2>3. Owned(d)' <=> Owned(d)
    BY <1>2, <1>4 DEF Owned, Active
  <2> QED
    BY <1>1, <2>2, <2>3, TableSame, PhaseSame
<1>5. CASE c \in frames
  <2>1. PhaseOf(c)' = PhaseOf(c)
    BY <1>5, PhaseIs
  <2> QED
    BY <1>1, <1>4, <2>1, TableSame, PromiseStays
<1>6. CASE c \notin frames
  <2>1. PhaseOf(c) = "running"
    BY <1>6, PhaseIs
  <2>2. ~Owned(c)' /\ Deciding(c)'
    BY <1>2, <1>3, <1>6 DEF Owned, Deciding
  <2>3. PhaseOf(c)' = "waiting"
    BY <1>6, <2>2, AwaitedIs, PhaseIs
  <2> QED
    BY <1>1, <1>4, <2>1, <2>3, TableSame, PromiseMoves DEF ElseSame
<1> QED
  BY <1>5, <1>6

\* Rows of the queues go.
LEMMA DrainMaps ==
  ASSUME Shape, NEW p \in Thread, Others(p), UNCHANGED <<ledger, frames>>,
         TableGrows, SameLaunches, \A c \in Chunk : LastAttempt(c)' <=> LastAttempt(c),
         th[p].pc \notin WaitingPC, th'[p].pc \notin WaitingPC, \E q \in Thread : Dropping(q),
         \A j \in JobId : Owner(j) => job'[j] = job[j],
         \A c \in Chunk : /\ OnDispatch(c)' => OnDispatch(c)
                          /\ Parked(c)' => Parked(c)
                          /\ \/ Awaited(c)'
                             \/ ~LastAttempt(c)
                             \/ ~Awaited(c)
  PROVE  Promise!Next
<1>2. ASSUME NEW c \in Chunk
      PROVE  \/ PhaseOf(c)' = PhaseOf(c)
             \/ PhaseOf(c) = "waiting" /\ PhaseOf(c)' = "dropped"
  <2>1. Deciding(c)' => Deciding(c)
    BY DecidingLess
  <2>2. Awaited(c)' => Awaited(c)
    BY <2>1, AwaitedIs
  <2>3. Owned(c)' <=> Owned(c)
    BY DEF Owned, Owner, Active
  <2>4. LastAttempt(c)' <=> LastAttempt(c)
    OBVIOUS
  <2>5. CASE Awaited(c)' <=> Awaited(c)
    BY <2>3, <2>4, <2>5, PhaseSame
  <2>6. CASE ~LastAttempt(c)
    BY <2>2, <2>3, <2>4, <2>6, PhaseLost
  <2> QED
    BY <2>2, <2>5, <2>6
<1> QED
  BY <1>2, PromiseDrops

-----------------------------------------------------------------------------
\* The steps of the code, one by one.
LEMMA OwnerActive ==
  ASSUME Shape, \A p \in Thread : OpFit(p), Undisturbed, LedgerInv, crashes = 0,
         NEW c \in Chunk, NEW j \in JobId, ledger[c] = j, InTable(j)
  PROVE  Active(j)
<1>1. Accounted(j)
  BY DEF LedgerInv, OwnerLive, Owner
<1>2. \A p \in Thread : ~TearsDown(p, j)
  <2> SUFFICES ASSUME NEW p \in Thread, TearsDown(p, j) PROVE FALSE
    OBVIOUS
  <2>1. th[p].op \in {"cancel", "cancelGroup"}
    BY DEF TearsDown, OpFit
  <2> QED
    BY <2>1 DEF OpFit, OpsOf, Undisturbed, Thread
<1> QED
  BY <1>1, <1>2 DEF Accounted, Live, Active, InTable, JobState, ActiveJob

LEMMA HandlerMaps ==
  ASSUME Shape, DispatchInv, OwnerFit, \A p \in Thread : OpFit(p), Undisturbed, LedgerInv,
         crashes = 0, TickFit, HolderInv, ChainInv, PromiseInv, NEW p \in Thread, Step(p)
  PROVE  Promise!Next
<1>t. /\ th \in [Thread -> Local] /\ th[p] \in Local /\ group \in GroupState
      /\ pendingQ \subseteq Row
  BY DEF Shape, TypeOK
<1>1. /\ PlainStep(p) /\ Others(p) /\ SameTable
      /\ th[p].op \notin {"cancel", "cancelGroup", "retry", "reportDone"}
  BY PlainSteps, StepOp, StepTable
<1>0. ASSUME NEW l, Goto(p, l) PROVE th'[p].pc = l /\ th'[p].job = th[p].job
  BY <1>0, <1>t DEF Goto, Local
<1>j. ASSUME th[p].pc \in JobPC
      PROVE  th[p].job \in JobId /\ InTable(th[p].job) /\ MyChunk(p) \in Chunk
  BY <1>j, MyJob
<1>2. CASE ReleaseIfOwner(p)
  <2>1. PICK j \in JobId, c \in Chunk : /\ j = th[p].job /\ InTable(j) /\ c = MyChunk(p)
                                        /\ job[j].chunk = c
    BY <1>2, <1>j DEF ReleaseIfOwner, JobPC, MyChunk
  <2>2. th[p].pc = "cas" /\ UNCHANGED <<job, pendingQ, frames>>
    BY <1>2 DEF ReleaseIfOwner
  <2>3. CASE ledger[c] = j /\ ledger' = [ledger EXCEPT ![c] = NoJob] /\ Goto(p, "load")
    <3>1. Owned(c)
      BY <2>1, <2>3, OwnerActive DEF Owned
    <3> QED
      BY <1>0, <1>1, <2>1, <2>2, <2>3, <3>1, ReleaseMaps DEF WaitingPC
  <2>4. CASE /\ th' = [th EXCEPT ![p].pc = "markFailed", ![p].op = "stale"]
             /\ UNCHANGED ledger
    <3>1. th'[p].pc = "markFailed"
      BY <1>t, <2>4 DEF Local
    <3> QED
      BY <1>1, <2>2, <2>4, <3>1, SilentMaps DEF WaitingPC
  <2> QED
    BY <1>2, <2>1, <2>3, <2>4 DEF ReleaseIfOwner
<1>3. CASE LoadJobAndGroup(p)
  <2>1. th[p].pc = "load" /\ UNCHANGED <<job, ledger, pendingQ, frames>>
    BY <1>3 DEF LoadJobAndGroup, db
  <2>2. CASE Goto(p, "remaining")
    BY <1>0, <1>1, <2>1, <2>2, SilentMaps DEF WaitingPC
  <2>3. CASE group \in {"cancelled", "done"} /\ Goto(p, "markFailed")
    <3>1. Dropping(p) /\ MyChunk(p) \in Chunk
      BY <1>j, <2>1, <2>3 DEF Dropping, JobPC
    <3> QED
      BY <1>0, <1>1, <2>1, <2>3, <3>1, LeaveMaps DEF WaitingPC
  <2> QED
    BY <1>1, <1>3, <2>2, <2>3 DEF LoadJobAndGroup, AfterRetry
<1>4. CASE ComputeRemaining(p)
  <2>1. th[p].pc = "remaining" /\ UNCHANGED <<job, ledger, pendingQ, frames>>
    BY <1>4 DEF ComputeRemaining, db
  <2>2. PICK j \in JobId, c \in Chunk : /\ j = th[p].job /\ InTable(j) /\ c = MyChunk(p)
                                        /\ job[j].chunk = c /\ job[j].attempt \in Nat
    BY <2>1, MyJob DEF JobPC, MyChunk
  <2>3. CASE Goto(p, "park")
    BY <1>0, <1>1, <2>1, <2>3, SilentMaps DEF WaitingPC
  <2>4. CASE Goto(p, "markFailed") /\ (c \in frames \/ job[j].attempt + 1 > MaxRetries)
    <3>1. j \in Siblings(c)
      BY <2>2 DEF Siblings
    <3>2. c \in frames \/ LastAttempt(c)
      BY <2>2, <2>4, <3>1, ConstantsOK DEF LastAttempt
    <3> QED
      BY <1>0, <1>1, <2>1, <2>2, <2>4, <3>2, LeaveMaps DEF WaitingPC
  <2> QED
    BY <1>1, <1>4, <2>2, <2>3, <2>4 DEF ComputeRemaining, AfterRetry
<1>5. CASE ParkRetry(p)
  <2>1. /\ th[p].pc = "park" /\ UNCHANGED <<job, ledger, frames>>
        /\ Park({MyChunk(p)}, job[th[p].job].attempt + 1) /\ Goto(p, "markFailed")
    BY <1>1, <1>5 DEF ParkRetry, AfterRetry
  <2>2. PICK c \in Chunk : c = MyChunk(p)
    BY <1>j, <2>1 DEF JobPC
  <2>3. PICK r \in Row : pendingQ' = pendingQ \cup {r} /\ r.chunks = {c}
    BY <2>1, <2>2, MyJob, ParkedRow DEF JobPC
  <2>4. th'[p].pc = "markFailed"
    BY <1>0, <2>1
  <2>5. ASSUME NEW d \in Chunk PROVE PhaseOf(d)' = PhaseOf(d)
    <3>1. /\ Deciding(d)' => Deciding(d)
          /\ d # c => (Deciding(d) => Deciding(d)')
      BY <1>1, <2>1, <2>2, <2>4, TableCarried, DecidingLess DEF WaitingPC
    <3>2. CASE d = c
      <4>1. Parked(c)' /\ Deciding(c)
        BY <2>1, <2>2, <2>3 DEF Parked, Deciding, WaitingPC
      <4>2. Awaited(d)' <=> Awaited(d)
        BY <3>2, <4>1, AwaitedIs
      <4> QED
        BY <1>1, <2>1, <4>2, TableSame, PhaseSame DEF Owned, Active
    <3>3. CASE d # c
      <4>1. Parked(d)' <=> Parked(d)
        BY <2>3, <3>3 DEF Parked
      <4>2. Awaited(d)' <=> Awaited(d)
        BY <2>1, <3>1, <3>3, <4>1, AwaitedIs DEF OnDispatch
      <4> QED
        BY <1>1, <2>1, <4>2, TableSame, PhaseSame DEF Owned, Active
    <3> QED
      BY <3>2, <3>3
  <2> QED
    BY <1>1, <2>5, TableSame, PromiseStays
<1>6. CASE MarkFailed(p) \/ MarkDone(p) \/ WriteReported(p)
  <2>1. /\ th[p].pc \in JobPC /\ th[p].pc \notin WaitingPC /\ UNCHANGED <<ledger, pendingQ, frames>>
        /\ \/ th[p].pc = "markFailed" /\ SetStatus(th[p].job, "failed")
           \/ th[p].pc = "markDone" /\ SetStatus(th[p].job, "done")
           \/ th[p].pc = "report" /\ SetStatus(th[p].job, "running")
    BY <1>1, <1>6 DEF MarkFailed, MarkDone, WriteReported, JobPC, WaitingPC
  <2>2. PICK j \in JobId, c \in Chunk : /\ j = th[p].job /\ InTable(j) /\ c = MyChunk(p)
                                        /\ job[j].chunk = c
    BY <1>j, <2>1 DEF MyChunk
  <2>3. th'[p].pc \in {"dGroup", "rGroup", "idle"}
    BY <1>6, <1>t DEF MarkFailed, MarkDone, WriteReported, Idle
  <2>4. CASE th[p].pc = "markFailed" /\ SetStatus(j, "failed")
    <3>1. ledger[c] # j
      BY <2>2, <2>4 DEF LedgerInv, Disowned, PastRelease
    <3> QED
      BY <1>1, <2>1, <2>2, <2>3, <2>4, <3>1, StatusMaps DEF WaitingPC, JobState
  <2>5. CASE th[p].pc = "markDone" /\ SetStatus(j, "done")
    <3>1. c \in frames
      BY <2>2, <2>5 DEF PromiseInv, DoneRendered
    <3> QED
      BY <1>1, <2>1, <2>2, <2>3, <2>5, <3>1, StatusMaps DEF WaitingPC, JobState
  <2>6. CASE th[p].pc = "report" /\ SetStatus(j, "running")
    <3>1. ledger[c] # j \/ Active(j)
      BY <2>2, OwnerActive
    <3> QED
      BY <1>1, <2>1, <2>2, <2>3, <2>6, <3>1, StatusMaps DEF WaitingPC, JobState, ActiveJob
  <2> QED
    BY <2>1, <2>2, <2>4, <2>5, <2>6
<1>7. CASE ReleaseLedger(p)
  <2>1. /\ th[p].pc = "release" /\ UNCHANGED <<job, pendingQ, frames>> /\ Goto(p, "markDone")
        /\ ledger' = [ledger EXCEPT ![MyChunk(p)] = NoJob]
    BY <1>7 DEF ReleaseLedger
  <2>2. PICK c \in Chunk : c = MyChunk(p)
    BY <1>j, <2>1 DEF JobPC
  <2>3. c \in frames
    BY <2>1, <2>2 DEF PromiseInv, DoneRendered
  <2>4. /\ th'[p].job = th[p].job
        /\ th[p].pc \notin WaitingPC /\ th'[p].pc \notin WaitingPC
    BY <1>0, <2>1 DEF WaitingPC
  <2>5. ledger' = [ledger EXCEPT ![c] = NoJob] /\ UNCHANGED <<job, pendingQ, frames>>
    BY <2>1, <2>2
  <2>6. c \in frames /\ MyChunk(p) = c
    BY <2>2, <2>3
  <2> QED
    BY <1>1, <2>4, <2>5, <2>6, ReleaseMaps
<1>8. CASE \/ ReadGroup(p) \/ ReadJobs(p) \/ ReadFrames(p) \/ ReadPending(p) \/ ReadDispatch(p)
           \/ WriteGroup(p) \/ CheckTerminal(p)
  <2>1. /\ UNCHANGED <<job, ledger, pendingQ, frames>>
        /\ th[p].pc \in {"rGroup", "rJobs", "rFrames", "rPending", "rDispatch", "rWrite", "dGroup"}
    BY <1>8 DEF ReadGroup, ReadJobs, ReadFrames, ReadPending, ReadDispatch, WriteGroup,
                CheckTerminal, db
  <2>2. th'[p].pc \notin WaitingPC
    <3>1. CASE ReadGroup(p) \/ WriteGroup(p)
      BY <1>t, <3>1 DEF ReadGroup, WriteGroup, Idle, WaitingPC
    <3>2. CASE ReadJobs(p) \/ ReadFrames(p)
      BY <1>t, <3>2 DEF ReadJobs, ReadFrames, Local, WaitingPC
    <3>3. ASSUME NEW q \in BOOLEAN, Conclude(p, q) PROVE th'[p].pc \notin WaitingPC
      BY <1>t, <3>3 DEF Conclude, Idle, WaitingPC
    <3>4. CASE ReadPending(p) \/ ReadDispatch(p)
      <4>1. Goto(p, "rDispatch") \/ \E q \in BOOLEAN : Conclude(p, q)
        BY <3>4 DEF ReadPending, ReadDispatch
      <4> QED
        BY <1>0, <3>3, <4>1 DEF WaitingPC
    <3>5. CASE CheckTerminal(p)
      <4>1. Goto(p, "dDispatch") \/ Return(p)
        BY <1>1, <3>5 DEF CheckTerminal, AfterDrain
      <4> QED
        BY <1>0, <1>t, <4>1 DEF WaitingPC, Return, Idle
    <3> QED
      BY <1>8, <3>1, <3>2, <3>4, <3>5
  <2>3. th[p].pc \notin WaitingPC
    BY <2>1 DEF WaitingPC
  <2> QED
    BY <1>1, <2>1, <2>2, <2>3, SilentMaps
<1>9. CASE DrainDispatch(p)
  <2>1. /\ th[p].pc = "dDispatch" /\ th'[p].pc = "dPending"
        /\ UNCHANGED <<ledger, pendingQ, frames>>
    BY <1>0, <1>9 DEF DrainDispatch
  <2>2. \A j \in JobId : job'[j] = IF job[j].status = "queued" THEN Unused ELSE job[j]
    BY <1>9 DEF DrainDispatch
  <2>3. \A j \in JobId : Owner(j) => job'[j] = job[j]
    BY <2>2 DEF Owner, OwnerFit, NoJob, JobId
  <2>4. ASSUME NEW c \in Chunk
        PROVE  /\ OnDispatch(c)' => OnDispatch(c)
               /\ Parked(c)' => Parked(c)
               /\ Awaited(c)' \/ ~LastAttempt(c) \/ ~Awaited(c)
    <3>1. (OnDispatch(c)' => OnDispatch(c)) /\ (Parked(c)' <=> Parked(c))
      BY <2>1, <2>2 DEF OnDispatch, Parked, Unused
    <3>2. Deciding(c) => Deciding(c)'
      BY <1>1, <2>1, TableCarried, DecidingLess DEF WaitingPC
    <3>3. CASE OnDispatch(c) /\ ~OnDispatch(c)'
      <4>1. PICK j \in JobId : job[j].status = "queued" /\ job[j].chunk = c
        BY <2>2, <3>3 DEF OnDispatch
      <4> QED
        BY <3>1, <4>1, QueuedAhead DEF Unlaunched
    <3> QED
      BY <3>1, <3>2, <3>3, AwaitedIs
  <2>5. Dropping(p)
    BY <2>1 DEF Dropping
  <2>6. th[p].pc \notin WaitingPC /\ th'[p].pc \notin WaitingPC
    BY <2>1 DEF WaitingPC
  <2> QED
    BY <1>1, <2>1, <2>3, <2>4, <2>5, <2>6, TableSame, TableCarried, DrainMaps
<1>10. CASE DrainPending(p)
  <2>1. /\ th[p].pc = "dPending" /\ pendingQ' = {} /\ UNCHANGED <<job, ledger, frames>>
        /\ th'[p].pc = "idle"
    BY <1>1, <1>10, <1>t DEF DrainPending, AfterDrain, Return, Idle
  <2>2. \A j \in JobId : Owner(j) => job'[j] = job[j]
    BY <2>1
  <2>3. ASSUME NEW c \in Chunk
        PROVE  /\ OnDispatch(c)' => OnDispatch(c)
               /\ Parked(c)' => Parked(c)
               /\ Awaited(c)' \/ ~LastAttempt(c) \/ ~Awaited(c)
    <3>1. (OnDispatch(c)' <=> OnDispatch(c)) /\ ~Parked(c)'
      BY <2>1 DEF OnDispatch, Parked
    <3>2. Deciding(c) => Deciding(c)'
      BY <1>1, <2>1, TableCarried, DecidingLess DEF WaitingPC
    <3>3. CASE Parked(c)
      <4>1. PICK r \in Row : r \in pendingQ /\ c \in r.chunks
        BY <1>t, <3>3 DEF Parked
      <4> QED
        BY <3>1, <4>1, RowAheadLast DEF PromiseInv, RowsAhead
    <3> QED
      BY <3>1, <3>2, <3>3, AwaitedIs
  <2>4. Dropping(p)
    BY <2>1 DEF Dropping
  <2>5. th[p].pc \notin WaitingPC /\ th'[p].pc \notin WaitingPC
    BY <2>1 DEF WaitingPC
  <2> QED
    BY <1>1, <2>1, <2>2, <2>3, <2>4, <2>5, TableSame, TableCarried, DrainMaps
<1> QED
  BY <1>1, <1>2, <1>3, <1>4, <1>5, <1>6, <1>7, <1>8, <1>9, <1>10 DEF PlainStep

LEMMA SignalMaps ==
  ASSUME Shape, NEW p \in Handler, (\E j \in JobId : Signal(p, j)) \/ GroupSignal(p)
  PROVE  Promise!Next
<1>1. th[p] = Idle /\ UNCHANGED <<job, ledger, pendingQ, frames>>
  BY DEF Signal, GroupSignal, BeginFailure, BeginSuccess, BeginCancel, BeginRetry, BeginReport,
         BeginPromote, BeginCancelGroup, BeginAudit, Begin, db
<1>2. /\ Others(p) /\ p \in Thread
      /\ th'[p].pc \in {"cas", "release", "markCancelled", "mLedger", "report", "gJobs", "rGroup"}
  BY SignalOp DEF Thread
<1>3. th[p].pc \notin WaitingPC /\ th'[p].pc \notin WaitingPC
  BY <1>1, <1>2 DEF Idle, WaitingPC
<1> QED
  BY <1>1, <1>2, <1>3, SilentMaps

LEMMA UploadMaps ==
  ASSUME Shape, NEW j \in JobId, Upload(j)
  PROVE  Promise!Next
<1>1. PICK c \in Chunk : job[j].chunk = c
  BY DEF Shape, JobShape, Upload, InTable, JobState
<1>2. frames' = frames \cup {c} /\ UNCHANGED <<job, ledger, pendingQ, th>>
  BY <1>1 DEF Upload
<1>3. SameLaunches /\ \A d \in Chunk : LastAttempt(d)' <=> LastAttempt(d)
  BY <1>2, SignalTable, TableSame
<1>4. ASSUME NEW d \in Chunk, d # c \/ c \in frames PROVE PhaseOf(d)' = PhaseOf(d)
  <2>1. Awaited(d)' <=> Awaited(d)
    BY <1>2 DEF Awaited, MyChunk
  <2>2. Owned(d)' <=> Owned(d)
    BY <1>2 DEF Owned, Active
  <2> QED
    BY <1>2, <1>3, <1>4, <2>1, <2>2, PhaseSame
<1>5. CASE c \in frames
  BY <1>3, <1>4, <1>5, PromiseStays
<1>6. CASE c \notin frames
  <2>1. PhaseOf(c) # "rendered" /\ PhaseOf(c)' = "rendered"
    BY <1>2, <1>6, PhaseIs
  <2>2. Cardinality(Siblings(c)) > 0
    <3>1. j \in Siblings(c)
      BY <1>1 DEF Upload, Siblings
    <3> QED
      BY <3>1, SiblingsFinite, FS_EmptySet, FS_CardinalityType
  <2> QED
    BY <1>3, <1>4, <2>1, <2>2, PromiseMoves DEF ElseSame
<1> QED
  BY <1>5, <1>6

\* The daemon changes no row of the jobs table; it may add one.
LEMMA TableStays ==
  ASSUME Shape, DispatchPhase \/ PendingPhase, \A j \in JobId : InTable(j)' => InTable(j)
  PROVE  SameLaunches /\ TableGrows /\ \A c \in Chunk : LastAttempt(c)' <=> LastAttempt(c)
<1>1. \A j \in JobId : InTable(j) => InTable(j)' /\ job'[j] = job[j]
  BY DaemonTable DEF InTable
<1>2. ASSUME NEW c \in Chunk PROVE Siblings(c)' = Siblings(c)
  BY <1>1 DEF Siblings
<1>3. ASSUME NEW c \in Chunk PROVE LastAttempt(c)' <=> LastAttempt(c)
  BY <1>1, <1>2 DEF LastAttempt, Siblings
<1> QED
  BY <1>1, <1>2, <1>3 DEF SameLaunches, TableGrows

LEMMA DequeueMaps ==
  ASSUME Shape, OpFit(Daemon), NEW j \in JobId, Dequeue(j)
  PROVE  Promise!Next
<1>1. /\ job \in [JobId -> Job] /\ job[j].status = "queued" /\ th[Daemon] = Idle
      /\ th'[Daemon].pc = "qGroup" /\ UNCHANGED <<ledger, pendingQ, frames>>
      /\ job' = [job EXCEPT ![j].status = "inhand"] /\ Daemon \in Thread
  BY DEF Shape, TypeOK, Dequeue, SetStatus, Thread
<1>2. /\ \A k \in JobId : k # j => job'[k] = job[k]
      /\ job'[j].status = "inhand" /\ job'[j].chunk = job[j].chunk
  BY <1>1 DEF Job
<1>3. SameLaunches /\ TableGrows /\ \A c \in Chunk : LastAttempt(c)' <=> LastAttempt(c)
  BY <1>2, TableStays DEF InTable, JobState, DispatchPhase
<1>4. Others(Daemon)
  BY DaemonOp DEF DispatchPhase
<1>5. ASSUME NEW c \in Chunk PROVE PhaseOf(c)' = PhaseOf(c)
  <2>1. OnDispatch(c)' <=> OnDispatch(c)
    BY <1>1, <1>2 DEF OnDispatch
  <2>2. Deciding(c)' <=> Deciding(c)
    BY <1>1, <1>3, <1>4, DecidingLess DEF Idle, WaitingPC
  <2>3. Awaited(c)' <=> Awaited(c)
    BY <1>1, <2>1, <2>2, AwaitedIs DEF Parked
  <2>4. Owned(c)' <=> Owned(c)
    BY <1>1, <1>2 DEF Owned, Active, ActiveJob
  <2> QED
    BY <1>1, <1>3, <2>3, <2>4, PhaseSame
<1> QED
  BY <1>3, <1>5, PromiseStays

LEMMA GuardMaps ==
  ASSUME Shape, DispatchInv, OwnerFit, OpFit(Daemon), HolderInv, GuardTerminalGroup
  PROVE  Promise!Next
<1>1. /\ job \in [JobId -> Job] /\ th \in [Thread -> Local] /\ group \in GroupState
      /\ Daemon \in Thread /\ th[Daemon].pc = "qGroup" /\ UNCHANGED <<ledger, pendingQ, frames>>
      /\ Others(Daemon) /\ th'[Daemon].pc \notin WaitingPC
  <2>1. DispatchPhase
    BY DEF DispatchPhase
  <2> QED
    BY <2>1, DispatchAt, DaemonOp DEF Shape, TypeOK, Thread, GuardTerminalGroup, WaitingPC
<1>2. PICK j \in JobId, c \in Chunk : j = th[Daemon].job /\ InHand(j) /\ job[j].chunk = c
  BY <1>1, HandJob DEF HandPC, MyChunk
<1>3. CASE group \in ActiveGroup
  <2>1. UNCHANGED job
    BY <1>3 DEF GuardTerminalGroup
  <2> QED
    BY <1>1, <2>1, SilentMaps DEF WaitingPC
<1>4. CASE group \notin ActiveGroup
  <2>1. job' = [job EXCEPT ![j] = Unused]
    BY <1>2, <1>4 DEF GuardTerminalGroup
  <2>2. \A k \in JobId : /\ k # j => job'[k] = job[k]
                         /\ k = j => job'[k] = Unused
    BY <1>1, <2>1
  <2>3. SameLaunches /\ TableGrows /\ \A d \in Chunk : LastAttempt(d)' <=> LastAttempt(d)
    BY <2>2, TableStays DEF InTable, JobState, DispatchPhase, Unused
  <2>4. Dropping(Daemon)
    BY <1>1, <1>4 DEF Dropping, GroupState, ActiveGroup, TerminalGroup
  <2>5. \A k \in JobId : Owner(k) => job'[k] = job[k]
    BY <1>1, <1>2, <2>2, HandUnclaimed DEF Owner
  <2>6. ASSUME NEW d \in Chunk
        PROVE  /\ OnDispatch(d)' => OnDispatch(d)
               /\ Parked(d)' => Parked(d)
               /\ Awaited(d)' \/ ~LastAttempt(d) \/ ~Awaited(d)
    <3>1. (OnDispatch(d)' => OnDispatch(d)) /\ (Parked(d)' <=> Parked(d))
      BY <1>1, <2>2 DEF OnDispatch, Parked, Unused
    <3>2. Deciding(d) => Deciding(d)'
      BY <1>1, <2>3, DecidingLess DEF WaitingPC
    <3>3. CASE d = c
      <4>1. Unlaunched(j)
        BY <1>1, <1>2 DEF Unlaunched, InHand
      <4> QED
        BY <1>2, <3>1, <3>3, <4>1, QueuedAhead
    <3>4. CASE d # c
      <4>1. OnDispatch(d) => OnDispatch(d)'
        BY <1>2, <2>2, <3>4 DEF OnDispatch
      <4> QED
        BY <3>1, <3>2, <4>1, AwaitedIs
    <3> QED
      BY <3>3, <3>4
  <2> QED
    BY <1>1, <2>3, <2>4, <2>5, <2>6, DrainMaps DEF WaitingPC
<1> QED
  BY <1>3, <1>4

LEMMA ClaimMaps ==
  ASSUME Shape, DispatchInv, OpFit(Daemon), ClaimOrReplace
  PROVE  Promise!Next
<1>1. /\ ledger \in [Chunk -> JobId \cup {NoJob}] /\ NoJob \notin JobId
      /\ Daemon \in Thread /\ th[Daemon].pc = "claim" /\ UNCHANGED <<job, pendingQ, frames>>
      /\ Others(Daemon) /\ th'[Daemon].pc \notin WaitingPC
  <2>1. DispatchPhase
    BY DEF DispatchPhase
  <2> QED
    BY <2>1, DispatchAt, DaemonOp
    DEF Shape, TypeOK, Thread, ClaimOrReplace, WaitingPC, NoJob, JobId
<1>2. PICK j \in JobId, c \in Chunk : /\ j = th[Daemon].job /\ InHand(j)
                                      /\ job[j].chunk = c /\ MyChunk(Daemon) = c
  BY <1>1, HandJob DEF HandPC, MyChunk
<1>3. ledger[c] = NoJob
  BY <1>1, <1>2 DEF DispatchInv, FreeUntilClaimed, Unlaunched, InHand
<1>4. ledger' = [ledger EXCEPT ![c] = j]
  BY <1>2 DEF ClaimOrReplace
<1>5. ~Active(j)
  BY <1>2 DEF InHand, Active, ActiveJob
<1>6. SameTable /\ TableGrows
  BY <1>1, SignalTable, TableCarried
<1>7. ASSUME NEW d \in Chunk PROVE PhaseOf(d)' = PhaseOf(d)
  <2>1. Deciding(d)' <=> Deciding(d)
    BY <1>1, <1>6, DecidingLess DEF WaitingPC
  <2>2. Awaited(d)' <=> Awaited(d)
    BY <1>1, <2>1, AwaitedIs DEF OnDispatch, Parked
  <2>3. Owned(d)' <=> Owned(d)
    BY <1>1, <1>3, <1>4, <1>5 DEF Owned, Active
  <2> QED
    BY <1>1, <1>6, <2>2, <2>3, TableSame, PhaseSame
<1> QED
  BY <1>6, <1>7, TableSame, PromiseStays

\* One more job of a chunk is within its budget.
LEMMA LaunchInBudget ==
  ASSUME Shape, HolderInv, NEW c \in Chunk, NEW j \in Begun, job[j].chunk = c,
         j \notin Siblings(c)
  PROVE  /\ Cardinality(Siblings(c) \cup {j}) = Cardinality(Siblings(c)) + 1
         /\ Cardinality(Siblings(c)) < MaxRetries + 1
<1> DEFINE S == Siblings(c) \cup {j}
<1>1. S \in SUBSET JobId /\ \A k \in S : k \in Begun /\ job[k].chunk = c /\ job[k].attempt \in Nat
  BY DEF Siblings, Begun, Shape, TypeOK, Job
<1>2. \A k \in S : job[k].attempt \in 0..MaxRetries
  BY <1>1, ConstantsOK DEF HolderInv, Capped
<1>3. \A k, l \in S : job[k].attempt = job[l].attempt => k = l
  BY <1>1 DEF HolderInv, BegunOnce
<1>4. Cardinality(S) = Cardinality(Siblings(c)) + 1 /\ Cardinality(Siblings(c)) \in Nat
  BY SiblingsFinite, FS_AddElement, FS_CardinalityType
<1>5. MaxRetries \in Nat
  BY ConstantsOK
<1> HIDE DEF S
<1>6. Cardinality(S) <= MaxRetries + 1
  BY <1>1, <1>2, <1>3, <1>5, FewAttempts
<1> QED
  BY <1>4, <1>5, <1>6 DEF S

LEMMA CreateMaps ==
  ASSUME Shape, OpFit(Daemon), HolderInv, PromiseInv, CreateJob
  PROVE  Promise!Next
<1>1. /\ job \in [JobId -> Job] /\ Daemon \in Thread /\ th[Daemon].pc = "create"
      /\ UNCHANGED <<ledger, pendingQ, frames>>
      /\ Others(Daemon) /\ th'[Daemon].pc \notin WaitingPC
  <2>1. DispatchPhase
    BY DEF DispatchPhase
  <2> QED
    BY <2>1, DispatchAt, DaemonOp DEF Shape, TypeOK, Thread, CreateJob, WaitingPC
<1>2. PICK j \in JobId, c \in Chunk : /\ j = th[Daemon].job /\ InHand(j)
                                      /\ job[j].chunk = c /\ MyChunk(Daemon) = c
  BY <1>1, HandJob DEF HandPC, MyChunk
<1>3. /\ \A k \in JobId : k # j => job'[k] = job[k]
      /\ job'[j].status = "pending" /\ job'[j].chunk = c /\ job'[j].attempt = job[j].attempt
  BY <1>1, <1>2 DEF CreateJob, SetStatus, Job
<1>4. j \in Begun
  BY <1>1, <1>2 DEF Begun, Unlaunched, InHand
<1>5. ~InTable(j) /\ ~Active(j) /\ InTable(j)' /\ Active(j)'
  BY <1>2, <1>3 DEF InHand, InTable, JobState, Active, ActiveJob
<1>6. Siblings(c)' = Siblings(c) \cup {j} /\ j \notin Siblings(c)
  BY <1>3, <1>2, <1>5 DEF Siblings, InTable
<1>7. ASSUME NEW d \in Chunk, d # c PROVE Siblings(d)' = Siblings(d)
  BY <1>2, <1>3, <1>7 DEF Siblings, InTable
<1>8. TableGrows
  BY <1>3, <1>5 DEF TableGrows, InTable
<1>9. ASSUME NEW d \in Chunk, d # c PROVE PhaseOf(d)' = PhaseOf(d)
  <2>1. LastAttempt(d)' <=> LastAttempt(d)
    BY <1>3, <1>7, <1>9, <1>5 DEF LastAttempt, Siblings
  <2>2. OnDispatch(d)' <=> OnDispatch(d)
    BY <1>2, <1>3, <1>9 DEF OnDispatch
  <2>3. Deciding(d)' <=> Deciding(d)
    BY <1>1, <1>8, DecidingLess DEF WaitingPC
  <2>4. Awaited(d)' <=> Awaited(d)
    BY <1>1, <2>2, <2>3, AwaitedIs DEF Parked
  <2>5. Owned(d)' <=> Owned(d)
    BY <1>1, <1>2, <1>3, <1>9 DEF Owned, Active
  <2> QED
    BY <1>1, <2>1, <2>4, <2>5, PhaseSame
<1>10. ElseSame(c) /\ \A d \in Chunk \ {c} : Siblings(d)' = Siblings(d)
  BY <1>7, <1>9 DEF ElseSame
<1>11. /\ Cardinality(Siblings(c)') = Cardinality(Siblings(c)) + 1
       /\ Cardinality(Siblings(c)) < MaxRetries + 1
  BY <1>2, <1>4, <1>6, LaunchInBudget
<1>12. CASE c \in frames
  <2>1. PhaseOf(c) = "rendered" /\ PhaseOf(c)' = "rendered"
    BY <1>1, <1>12, PhaseIs
  <2> QED
    BY <1>10, <1>11, <2>1, PromiseLaunches
<1>13. CASE c \notin frames
  <2>1. ledger[c] = j
    BY <1>1, <1>2, <1>13 DEF PromiseInv, ClaimHolds
  <2>2. ~Owned(c) /\ OnDispatch(c) /\ Owned(c)'
    BY <1>1, <1>2, <1>3, <1>5, <2>1 DEF Owned, OnDispatch, InHand
  <2>3. PhaseOf(c) = "waiting" /\ PhaseOf(c)' = "running"
    BY <1>1, <1>13, <2>2, AwaitedIs, PhaseIs
  <2> QED
    BY <1>10, <1>11, <2>3, PromiseLaunches
<1> QED
  BY <1>12, <1>13

LEMMA DispatchMaps ==
  ASSUME Shape, DispatchInv, OwnerFit, OpFit(Daemon), Undisturbed, HolderInv, PromiseInv,
         DispatchPhase
  PROVE  Promise!Next
<1>1. CASE \E j \in JobId : Dequeue(j)
  BY <1>1, DequeueMaps
<1>2. CASE Launch
  <2>1. th[Daemon].pc = "launch" /\ UNCHANGED <<job, ledger, pendingQ, frames>>
    BY <1>2 DEF Launch, db
  <2>2. Daemon \in Thread /\ Others(Daemon)
    BY DaemonOp DEF Thread
  <2>3. th[Daemon].pc \notin WaitingPC /\ th'[Daemon].pc \notin WaitingPC
    BY <2>1, DispatchAt DEF WaitingPC
  <2> QED
    BY <2>1, <2>2, <2>3, SilentMaps
<1>3. ~LoseDispatch
  BY DEF LoseDispatch, Undisturbed
<1> QED
  BY <1>1, <1>2, <1>3, GuardMaps, ClaimMaps, CreateMaps DEF DispatchPhase

-----------------------------------------------------------------------------
\* A row that stands for a chunk is ahead of the chunk's jobs.
LEMMA StandingAhead ==
  ASSUME Shape, HolderInv, NEW r \in Row, NEW c \in Chunk, r \in Rows, c \in StandsFor(r)
  PROVE  Ahead(r, c)
<1> DEFINE h == [kind |-> "row", who |-> r, chunk |-> c, attempt |-> r.attempt]
<1>1. h \in Holder /\ h.kind = "row" /\ h.chunk = c /\ h.attempt = r.attempt /\ h.who = r
  BY DEF Holder, Row
<1> HIDE DEF h
<1>2. h \in Holders
  BY <1>1 DEF Holders, RowHolders
<1> QED
  BY <1>1, <1>2 DEF HolderInv, Capped, NextAttempt, Ahead

LEMMA EnqueueMaps ==
  ASSUME Shape, DispatchInv, OpFit(Daemon), TickFit, HolderInv, Enqueue
  PROVE  Promise!Next
<1>1. /\ job \in [JobId -> Job] /\ Daemon \in Thread /\ th[Daemon].pc = "enqueue"
      /\ UNCHANGED <<ledger, pendingQ, frames>> /\ Others(Daemon)
      /\ th[Daemon].pc \notin WaitingPC /\ th'[Daemon].pc \notin WaitingPC
      /\ tick.row \in Row \cup {NoRow} /\ NoJob \notin JobId
  <2>1. PendingPhase
    BY DEF PendingPhase
  <2> QED
    BY <2>1, PendingAt, DaemonOp DEF Shape, TypeOK, Thread, Enqueue, WaitingPC, NoJob, JobId
<1>2. PICK c \in Chunk : c = tick.chunk /\ ledger[c] = NoJob
  BY <1>1 DEF Shape, Fit, DispatchInv, FreeToEnqueue
<1>3. CASE UNCHANGED job
  BY <1>1, <1>3, SilentMaps
<1>4. ASSUME NEW j \in JobId, job[j] = Unused, NEW a,
             job' = [job EXCEPT ![j] = [chunk |-> c, attempt |-> a, status |-> "queued"]]
      PROVE  Promise!Next
  <2>1. /\ \A k \in JobId : k # j => job'[k] = job[k]
        /\ job'[j].status = "queued" /\ job'[j].chunk = c
        /\ job[j].status = "unused" /\ job[j].chunk = NoChunk
    BY <1>1, <1>4 DEF Unused
  <2>2. SameLaunches /\ TableGrows /\ \A d \in Chunk : LastAttempt(d)' <=> LastAttempt(d)
    BY <2>1, TableStays DEF InTable, JobState, PendingPhase
  <2>3. ASSUME NEW d \in Chunk PROVE Owned(d)' <=> Owned(d)
    BY <1>1, <2>1, <2>3 DEF Owned, Active, ActiveJob
  <2>4. ASSUME NEW d \in Chunk PROVE Deciding(d)' <=> Deciding(d)
    BY <1>1, <2>2, <2>4, DecidingLess
  <2>5. ASSUME NEW d \in Chunk, d # c PROVE PhaseOf(d)' = PhaseOf(d)
    <3>1. OnDispatch(d)' <=> OnDispatch(d)
      BY <2>1, <2>5 DEF OnDispatch
    <3>2. Awaited(d)' <=> Awaited(d)
      BY <1>1, <2>4, <3>1, AwaitedIs DEF Parked
    <3> QED
      BY <1>1, <2>2, <2>3, <3>2, PhaseSame
  <2>6. /\ ~Owned(c) /\ ~Owned(c)' /\ Awaited(c)'
    <3>1. OnDispatch(c)'
      BY <2>1 DEF OnDispatch
    <3> QED
      BY <1>1, <1>2, <2>3, <3>1, AwaitedIs DEF Owned
  <2>7. ~LastAttempt(c)
    <3>1. tick.row \in Row /\ tick.row \in Rows /\ c \in StandsFor(tick.row)
      BY <1>1, <1>2 DEF TickFit, Rows, StandsFor
    <3> QED
      BY <3>1, StandingAhead, RowAheadLast
  <2>8. \/ PhaseOf(c)' = PhaseOf(c)
        \/ PhaseOf(c) = "dropped" /\ PhaseOf(c)' = "waiting"
    BY <1>1, <2>6, <2>7, PhaseIs
  <2>9. CASE PhaseOf(c)' = PhaseOf(c)
    BY <2>2, <2>5, <2>9, PromiseStays
  <2>10. CASE PhaseOf(c) = "dropped" /\ PhaseOf(c)' = "waiting"
    BY <2>2, <2>5, <2>10, PromiseMoves DEF ElseSame
  <2> QED
    BY <2>8, <2>9, <2>10
<1> QED
  BY <1>2, <1>3, <1>4 DEF Enqueue, LeastFree

LEMMA DeleteMaps ==
  ASSUME Shape, OwnerFit, OpFit(Daemon), TickFit, PromiseInv, DeleteRow
  PROVE  Promise!Next
<1>1. /\ Daemon \in Thread /\ th[Daemon].pc = "owner" /\ pendingQ \subseteq Row
      /\ UNCHANGED <<job, ledger, frames>> /\ Others(Daemon) /\ NoChunk \notin Chunk
      /\ th[Daemon].pc \notin WaitingPC /\ th'[Daemon].pc \notin WaitingPC
  <2>1. PendingPhase
    BY DEF PendingPhase
  <2> QED
    BY <2>1, PendingAt, DaemonOp, ConstantsOK DEF Shape, TypeOK, Thread, DeleteRow, WaitingPC
<1>2. SameTable /\ TableGrows
  BY <1>1, SignalTable, TableCarried
<1>3. pendingQ' = pendingQ \ {tick.row}
  BY DEF DeleteRow, TickFit
<1>4. ASSUME NEW c \in Chunk
      PROVE  /\ OnDispatch(c)' <=> OnDispatch(c)
             /\ Deciding(c)' <=> Deciding(c)
             /\ Parked(c)' => Parked(c)
             /\ Parked(c) => \/ Parked(c)'
                             \/ tick.row \in pendingQ /\ c \in tick.row.chunks
  BY <1>1, <1>2, <1>3, DecidingLess DEF OnDispatch, Parked
<1>5. ASSUME NEW c \in Chunk, tick.row \in pendingQ, c \in tick.row.chunks
      PROVE  ~LastAttempt(c) /\ (Queued(c) \/ Draining)
  <2>1. c \notin tick.plan /\ c # tick.chunk
    BY <1>1 DEF DeleteRow, TickFit
  <2> QED
    BY <1>1, <1>5, <2>1, RowAheadLast DEF PromiseInv, RowsAhead, Promoted
<1>6. CASE Draining
  <2>1. \E q \in Thread : Dropping(q)
    BY <1>6 DEF Draining, Dropping
  <2>2. \A j \in JobId : Owner(j) => job'[j] = job[j]
    BY <1>1
  <2>3. ASSUME NEW c \in Chunk
        PROVE  /\ OnDispatch(c)' => OnDispatch(c)
               /\ Parked(c)' => Parked(c)
               /\ Awaited(c)' \/ ~LastAttempt(c) \/ ~Awaited(c)
    BY <1>4, <1>5, AwaitedIs
  <2> QED
    BY <1>1, <1>2, <2>1, <2>2, <2>3, TableSame, DrainMaps
<1>7. CASE ~Draining
  <2>1. ASSUME NEW c \in Chunk PROVE PhaseOf(c)' = PhaseOf(c)
    <3>1. Queued(c) => OnDispatch(c)
      BY DEF Queued, OnDispatch
    <3>2. Awaited(c)' <=> Awaited(c)
      BY <1>4, <1>5, <1>7, <3>1, AwaitedIs
    <3>3. Owned(c)' <=> Owned(c)
      BY <1>1 DEF Owned, Active
    <3> QED
      BY <1>1, <1>2, <3>2, <3>3, TableSame, PhaseSame
  <2> QED
    BY <1>2, <2>1, TableSame, PromiseStays
<1> QED
  BY <1>6, <1>7

LEMMA PendingMaps ==
  ASSUME Shape, DispatchInv, OwnerFit, OpFit(Daemon), TickFit, HolderInv, PromiseInv,
         PendingPhase
  PROVE  Promise!Next
<1>1. Daemon \in Thread /\ Others(Daemon)
  BY DaemonOp DEF Thread
<1>2. th[Daemon].pc \notin WaitingPC /\ th'[Daemon].pc \notin WaitingPC
  BY PendingAt DEF WaitingPC
<1>3. CASE UNCHANGED <<job, ledger, pendingQ, frames>>
  BY <1>1, <1>2, <1>3, SilentMaps
<1> QED
  BY <1>3, EnqueueMaps, DeleteMaps
  DEF PendingPhase, ListAll, EndBatch, PlanRow, SkipRow, CheckOwner, db

-----------------------------------------------------------------------------
\* All that the proof needs to know of a state.
PromiseFacts ==
  /\ Shape /\ DispatchInv /\ OwnerFit /\ TickFit
  /\ \A p \in Thread : OpFit(p)
  /\ LedgerInv /\ HolderInv /\ Decided
  /\ ChainInv /\ PromiseInv
  /\ crashes = 0

LEMMA FactsInit == Init => PromiseFacts
<1>1. Init => DispatchInv /\ OwnerFit /\ LedgerInv /\ crashes = 0
  BY DispatchInit
  DEF Init, OwnerFit, LedgerInv, OwnerLive, Owner, Disowned, PastRelease, Idle, NoJob, JobId
<1> QED
  BY <1>1, ShapeInit, TickInit, OpInit, HolderInit, ChainInit, PromiseInit DEF PromiseFacts

LEMMA PromiseHolds ==
  ASSUME Undisturbed, PromiseFacts, Shape', HolderInv', crashes' = 0, [Next]_vars
  PROVE  PromiseInv'
<1>f. /\ Shape /\ DispatchInv /\ OwnerFit /\ TickFit /\ (\A p \in Thread : OpFit(p))
      /\ HolderInv /\ Decided /\ PromiseInv /\ crashes = 0 /\ OpFit(Daemon)
  BY DEF PromiseFacts, Thread
<1>1. ASSUME NEW p \in Thread, Step(p) PROVE PromiseInv'
  <2>1. SameBegun
    BY <1>f, <1>1, StepCalm, StepTable, BegunKept
  <2> QED
    BY <1>f, <1>1, <2>1, PromiseHandler
<1>2. ASSUME NEW p \in Handler, (\E j \in JobId : Signal(p, j)) \/ GroupSignal(p)
      PROVE  PromiseInv'
  <2>1. Calm /\ SameTable
    BY <1>f, <1>2, SignalCalm, GroupSignalCalm, SignalTable
    DEF Signal, GroupSignal, BeginFailure, BeginSuccess, BeginCancel, BeginRetry, BeginReport,
        BeginPromote, BeginCancelGroup, BeginAudit, db
  <2>2. SameBegun
    BY <2>1, BegunKept
  <2> QED
    BY <1>f, <1>2, <2>2, PromiseSignal
<1>3. CASE DispatchPhase
  <2>1. SameBegun \/ ClaimOrReplace
    BY <1>f, <1>3, DispatchHolder
  <2> QED
    BY <1>f, <1>3, <2>1, PromiseDispatch
<1>4. CASE PendingPhase
  <2>1. SameBegun
    BY <1>f, <1>4, PendingHolder
  <2> QED
    BY <1>f, <1>4, <2>1, PromisePending
<1>5. ASSUME UNCHANGED <<job, ledger, pendingQ, th, tick>>, frames \subseteq frames'
      PROVE  PromiseInv'
  <2>1. SameBegun
    BY <1>5, IdleCalm, SignalTable, BegunKept
  <2> QED
    BY <1>f, <1>5, <2>1, PromiseUpload
<1>6. ~Crash
  BY <1>f DEF Crash
<1> QED
  BY <1>1, <1>2, <1>3, <1>4, <1>5, <1>6 DEF Next, Upload, vars

LEMMA FactsStep ==
  ASSUME Undisturbed, PromiseFacts, [Next]_vars
  PROVE  PromiseFacts'
<1>1. NoRestart /\ (\A p \in Handler : "reportDone" \notin Does[p]) /\ ~Crash
  <2>1. MaxCrashes = 0
    BY DEF Undisturbed
  <2> QED
    BY <2>1, UndisturbedOps DEF Crash, PromiseFacts
<1>2. Shape' /\ crashes' = 0
  BY <1>1, ShapeStep, NoCrash DEF PromiseFacts
<1>3. DispatchInv' /\ OwnerFit' /\ TickFit' /\ \A p \in Thread : OpFit(p)'
  BY DispatchStep, OwnerFitStep, TickStep, OpStep DEF PromiseFacts
<1>4. LedgerInv' /\ ChainInv'
  BY <1>1, LedgerStep, ChainStep DEF PromiseFacts
<1>5. HolderInv' /\ Decided'
  <2>1. AttemptInv
    BY DEF AttemptInv, PromiseFacts
  <2>2. AttemptInv'
    BY <1>1, <2>1, AttemptStep DEF PromiseFacts
  <2> QED
    BY <1>2, <2>2 DEF AttemptInv
<1>6. PromiseInv'
  BY <1>2, <1>5, PromiseHolds
<1> QED
  BY <1>2, <1>3, <1>4, <1>5, <1>6 DEF PromiseFacts

LEMMA PromiseStart == Init => Promise!Init
<1> SUFFICES ASSUME Init PROVE Promise!Init
  OBVIOUS
<1>1. ASSUME NEW c \in Chunk PROVE PhaseOf(c) = "waiting" /\ Cardinality(Siblings(c)) = 0
  <2>1. Parked(c) /\ ~Owned(c) /\ c \notin frames
    BY DEF Init, Parked, Owned, Active, ActiveJob, Unused
  <2>2. Siblings(c) = {}
    BY DEF Init, Siblings, InTable, JobState, Unused
  <2> QED
    BY <2>1, <2>2, AwaitedIs, PhaseIs, FS_EmptySet
<1>2. \A p \in Thread : ~Dropping(p)
  BY DEF Init, Dropping, Idle
<1> QED
  BY <1>1, <1>2 DEF Promise!Init

LEMMA PromiseStep ==
  ASSUME Undisturbed, PromiseFacts, [Next]_vars
  PROVE  Promise!Next
<1>f. /\ Shape /\ DispatchInv /\ OwnerFit /\ TickFit /\ (\A p \in Thread : OpFit(p))
      /\ LedgerInv /\ HolderInv /\ ChainInv /\ PromiseInv /\ crashes = 0 /\ OpFit(Daemon)
  BY DEF PromiseFacts, Thread
<1>1. ASSUME NEW p \in Thread, Step(p) PROVE Promise!Next
  BY <1>f, <1>1, HandlerMaps
<1>2. ASSUME NEW p \in Handler, (\E j \in JobId : Signal(p, j)) \/ GroupSignal(p)
      PROVE  Promise!Next
  BY <1>f, <1>2, SignalMaps
<1>3. CASE DispatchPhase \/ PendingPhase
  BY <1>f, <1>3, DispatchMaps, PendingMaps
<1>4. ASSUME NEW j \in JobId, Upload(j) PROVE Promise!Next
  BY <1>f, <1>4, UploadMaps
<1>5. CASE UNCHANGED vars
  <2>1. UNCHANGED <<job, ledger, pendingQ, frames, th>>
    BY <1>5 DEF vars
  <2>2. Others(Daemon) /\ Daemon \in Thread
    BY <2>1 DEF Others, Thread
  <2> QED
    BY <1>f, <2>1, <2>2, SilentMaps
<1>6. ~Crash
  BY <1>f DEF Crash, Undisturbed
<1> QED
  BY <1>1, <1>2, <1>3, <1>4, <1>5, <1>6 DEF Next

(* Left to its monitors, workers and sweeps, with no user, no dispatch     *)
(* that raises and no dying process, the code does to a chunk only what    *)
(* ChunkPromise allows, in any interleaving of any number of threads: it   *)
(* leaves the queues only to run, to be given up with its whole budget     *)
(* spent or to be dropped by a teardown, and once rendered it stays so.    *)
THEOREM PromiseImplemented ==
  ASSUME Undisturbed
  PROVE  Spec => PromiseKept
<1>1. PromiseFacts /\ [Next]_vars => [Promise!Next]_(Promise!vars)
  BY PromiseStep
<1>2. PromiseFacts /\ [Next]_vars => PromiseFacts'
  BY FactsStep
<1> QED
  BY <1>1, <1>2, FactsInit, PromiseStart, PTL DEF Spec, PromiseKept, Promise!Spec

=============================================================================
