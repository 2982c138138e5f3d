----------------------- MODULE RenderLifecycleProofs -----------------------
(***************************************************************************)
(* Proofs about RenderLifecycle, for every value of its constants.         *)
(***************************************************************************)
EXTENDS RenderLifecycle, TLAPS

\* The program points at which a thread works on a job of the jobs table, at
\* which the daemon has a dequeued row in hand, and the daemon's own ones.
JobPC    == {"cas", "load", "remaining", "park", "markFailed", "release",
             "markDone", "markCancelled", "unclaim", "mLedger", "mLatest",
             "mRemaining", "mFlip", "report", "launch"}
HandPC   == {"qGroup", "claim", "create"}
DaemonPC == HandPC \cup {"launch", "batch", "owner", "enqueue"}

InHand(j) == job[j].status = "inhand"

JobShape == \A j \in JobId : job[j].status # "unused" => job[j].chunk \in Chunk

\* What a thread's locals say of the tables.
Fit(p) ==
  /\ th[p].pc \in JobPC => th[p].job \in JobId /\ InTable(th[p].job)
  /\ \A j \in th[p].todo : InTable(j)
  /\ th[p].pc = "rWrite" => th[p].saw \in GroupState
  /\ th[p].pc \in DaemonPC => p = Daemon
  /\ th[p].pc \in HandPC => th[p].job \in JobId /\ InHand(th[p].job)
  /\ th[p].pc = "enqueue" => tick.chunk \in Chunk

Shape == TypeOK /\ JobShape /\ \A p \in Thread : Fit(p)

\* What a step leaves of the jobs, and of the threads other than p.
TableKept == \A j \in JobId : InTable(j) => InTable(j)'
HandKept  == \A j \in JobId : InHand(j) => InHand(j)'
Others(p) == \A q \in Thread \ {p} : th'[q] = th[q]

-----------------------------------------------------------------------------
LEMMA OneMoves ==
  ASSUME Shape, NEW p \in Thread, TypeOK', JobShape', Fit(p)', Others(p),
         TableKept,
         p # Daemon => HandKept /\ tick' = tick
  PROVE  Shape'
<1>1. SUFFICES ASSUME NEW q \in Thread \ {p} PROVE Fit(q)'
  BY DEF Shape
<1>2. th[q] \in Local /\ Fit(q) /\ th'[q] = th[q]
  BY DEF Shape, TypeOK, Others
<1>3. CASE q = Daemon
  BY <1>1, <1>2, <1>3 DEF Fit, Local, TableKept, HandKept
<1>4. CASE q # Daemon
  BY <1>2, <1>4 DEF Fit, Local, TableKept, DaemonPC
<1> QED
  BY <1>3, <1>4

LEMMA StatusSet ==
  ASSUME Shape, NEW j \in JobId, InTable(j), NEW s \in JobState, SetStatus(j, s)
  PROVE  job' \in [JobId -> Job] /\ JobShape' /\ TableKept /\ HandKept
  BY DEF Shape, TypeOK, JobShape, TableKept, HandKept, InTable, InHand,
         SetStatus, Job, JobStatus, JobState

LEMMA VerdictType ==
  ASSUME NEW g \in GroupState \cup {"none"}, NEW view \in SUBSET JobState,
         NEW rend \in Rendered, NEW q \in BOOLEAN
  PROVE  LET v == ComputeGroupStatus(g, view, rend, q)
         IN v.persist => v.status \in GroupState
  BY DEF ComputeGroupStatus, FromTerminal, FromActive, Persist, Hold, GroupState

\* th[p] moves and p's locals still fit the tables.
Moved(p) == th' \in [Thread -> Local] /\ Others(p) /\ Fit(p)'

LEMMA OnlyLocals ==
  ASSUME Shape, NEW p \in Thread, TypeOK', Moved(p), UNCHANGED <<job, tick>>
  PROVE  Shape'
<1>1. JobShape' /\ TableKept /\ HandKept
  BY DEF Shape, JobShape, TableKept, HandKept, InTable, InHand
<1> QED
  BY <1>1, OneMoves DEF Moved

LEMMA SameJobs ==
  ASSUME UNCHANGED job
  PROVE  TableKept /\ HandKept
  BY DEF TableKept, HandKept, InTable, InHand

LEMMA IdleAt ==
  ASSUME NEW l \in PC
  PROVE  LET r == [Idle EXCEPT !.pc = l]
         IN r \in Local /\ r.pc = l /\ r.todo = {}
  BY DEF Idle, Local, PC, NoJob, Rendered

\* A thread goes on with its locals ...
LEMMA GotoMoves ==
  ASSUME Shape, NEW p \in Thread, NEW l \in PC \ (DaemonPC \cup {"rWrite"}),
         l \in JobPC => th[p].pc \in JobPC,
         Goto(p, l), TableKept
  PROVE  Moved(p)
<1>1. th[p] \in Local /\ Fit(p) /\ th \in [Thread -> Local]
  BY DEF Shape, TypeOK
<1>2. th' \in [Thread -> Local] /\ Others(p) /\ th'[p] = [th[p] EXCEPT !.pc = l]
  BY <1>1 DEF Goto, Local, Others
<1>3. Fit(p)'
  BY <1>1, <1>2 DEF Fit, Local, TableKept, DaemonPC
<1> QED
  BY <1>2, <1>3 DEF Moved

\* ... or with new ones, no job of its own among them.
LEMMA ResetMoves ==
  ASSUME Shape, NEW p \in Thread, NEW r \in Local,
         \A j \in r.todo : InTable(j)',
         r.pc \notin JobPC \cup DaemonPC,
         r.pc = "rWrite" => r.saw \in GroupState,
         th' = [th EXCEPT ![p] = r]
  PROVE  Moved(p)
<1>1. th \in [Thread -> Local]
  BY DEF Shape, TypeOK
<1>2. th' \in [Thread -> Local] /\ Others(p) /\ th'[p] = r
  BY <1>1 DEF Others
<1>3. Fit(p)'
  BY <1>2 DEF Fit, DaemonPC
<1> QED
  BY <1>2, <1>3 DEF Moved

LEMMA AtMoves ==
  ASSUME Shape, NEW p \in Thread,
         NEW l \in PC \ (JobPC \cup DaemonPC \cup {"rWrite"}),
         th' = [th EXCEPT ![p] = [Idle EXCEPT !.pc = l]]
  PROVE  Moved(p)
<1> DEFINE r == [Idle EXCEPT !.pc = l]
<1>1. r \in Local /\ r.pc = l /\ r.todo = {}
  BY IdleAt
<1>2. th' = [th EXCEPT ![p] = r]
  OBVIOUS
<1> HIDE DEF r
<1> QED
  BY <1>1, <1>2, ResetMoves

LEMMA ReturnMoves ==
  ASSUME Shape, NEW p \in Thread, Return(p)
  PROVE  Moved(p)
<1>1. "idle" \in PC \ (JobPC \cup DaemonPC \cup {"rWrite"})
  BY DEF PC, JobPC, DaemonPC, HandPC
<1>2. Idle = [Idle EXCEPT !.pc = "idle"]
  BY DEF Idle
<1> QED
  BY <1>1, <1>2, AtMoves DEF Return

\* The job of a thread at work is in the jobs table.
LEMMA MyJob ==
  ASSUME Shape, NEW p \in Thread, th[p].pc \in JobPC
  PROVE  /\ th[p].job \in JobId /\ InTable(th[p].job)
         /\ MyChunk(p) \in Chunk /\ job[th[p].job].attempt \in Nat
  BY DEF Shape, TypeOK, JobShape, Fit, MyChunk, InTable, Job, JobState

LEMMA Parks ==
  ASSUME Shape, NEW C \in SUBSET Chunk, NEW n \in Nat, Park(C, n)
  PROVE  pendingQ' \subseteq Row
  BY DEF Shape, TypeOK, Park, LeastFree, Row

LEMMA ConcludeMoves ==
  ASSUME Shape, NEW p \in Thread, NEW q \in BOOLEAN, Conclude(p, q)
  PROVE  Moved(p)
<1> DEFINE v == ComputeGroupStatus(th[p].saw, th[p].view, th[p].rend, q)
<1>1. th[p] \in Local
  BY DEF Shape, TypeOK
<1>2. v.persist => v.status \in GroupState
  BY <1>1, VerdictType DEF Local
<1>3. CASE v.persist
  <2> DEFINE r == [Idle EXCEPT !.pc = "rWrite", !.saw = v.status]
  <2>1. r \in Local /\ r.pc = "rWrite" /\ r.saw \in GroupState /\ r.todo = {}
    BY <1>2, <1>3 DEF Idle, Local, PC, NoJob, Rendered
  <2>2. th' = [th EXCEPT ![p] = r]
    BY <1>3 DEF Conclude
  <2> HIDE DEF r
  <2> QED
    BY <2>1, <2>2, ResetMoves DEF JobPC, DaemonPC, HandPC
<1>4. CASE ~v.persist
  BY <1>4, AtMoves DEF Conclude, PC, JobPC, DaemonPC, HandPC
<1> QED
  BY <1>3, <1>4

LEMMA ShapeInit == Init => Shape
  BY ConstantsOK
  DEF Init, Shape, TypeOK, JobShape, Fit, JobId, NoJob, Job, JobStatus, JobState,
      GroupState, Unused, Row, RowId, NoRow, NoTick, Rendered, PC, Local, Idle,
      Thread, JobPC, HandPC, DaemonPC

-----------------------------------------------------------------------------
\* The steps of the handlers' pipelines.
LEMMA StepShape ==
  ASSUME Shape, NEW p \in Thread, Step(p)
  PROVE  Shape'
<1>1. CASE ReleaseIfOwner(p)
  <2>1. UNCHANGED <<job, tick>> /\ th[p].pc = "cas" /\ TableKept
    BY <1>1, SameJobs DEF ReleaseIfOwner
  <2>2. ASSUME Goto(p, "load") PROVE Moved(p)
    BY <2>1, <2>2, GotoMoves DEF PC, JobPC, DaemonPC, HandPC
  <2> DEFINE r == [th[p] EXCEPT !.pc = "markFailed", !.op = "stale"]
  <2>3. ASSUME th' = [th EXCEPT ![p].pc = "markFailed", ![p].op = "stale"]
        PROVE  Moved(p)
    <3>1. th[p] \in Local /\ Fit(p) /\ th \in [Thread -> Local]
      BY DEF Shape, TypeOK
    <3>2. r \in Local /\ r.pc = "markFailed" /\ r.job = th[p].job /\ r.todo = th[p].todo
      BY <3>1 DEF Local, PC
    <3>3. th' = [th EXCEPT ![p] = r]
      BY <2>3, <3>1 DEF Local
    <3> HIDE DEF r
    <3>4. th' \in [Thread -> Local] /\ Others(p) /\ th'[p] = r
      BY <3>1, <3>2, <3>3 DEF Others
    <3>5. Fit(p)'
      BY <2>1, <3>1, <3>2, <3>4 DEF Fit, Local, TableKept, JobPC, DaemonPC, HandPC
    <3> QED
      BY <3>4, <3>5 DEF Moved
  <2>4. Moved(p)
    BY <1>1, <2>2, <2>3 DEF ReleaseIfOwner
  <2>5. TypeOK'
    BY <1>1, <2>4 DEF ReleaseIfOwner, Moved, Shape, TypeOK, NoJob
  <2> QED
    BY <2>1, <2>4, <2>5, OnlyLocals
<1>2. CASE LoadJobAndGroup(p)
  <2>1. Moved(p)
    BY <1>2, SameJobs, GotoMoves DEF LoadJobAndGroup, AfterRetry, db, PC, JobPC, DaemonPC, HandPC
  <2>2. TypeOK' /\ UNCHANGED <<job, tick>>
    BY <1>2, <2>1 DEF LoadJobAndGroup, Moved, Shape, TypeOK, db
  <2> QED
    BY <2>1, <2>2, OnlyLocals
<1>3. CASE ComputeRemaining(p)
  <2>1. Moved(p)
    BY <1>3, SameJobs, GotoMoves DEF ComputeRemaining, AfterRetry, db, PC, JobPC, DaemonPC, HandPC
  <2>2. TypeOK' /\ UNCHANGED <<job, tick>>
    BY <1>3, <2>1 DEF ComputeRemaining, Moved, Shape, TypeOK, db
  <2> QED
    BY <2>1, <2>2, OnlyLocals
<1>4. CASE ParkRetry(p)
  <2>1. Moved(p)
    BY <1>4, SameJobs, GotoMoves DEF ParkRetry, AfterRetry, PC, JobPC, DaemonPC, HandPC
  <2>2. pendingQ' \subseteq Row
    BY <1>4, MyJob, Parks DEF ParkRetry, JobPC
  <2>3. TypeOK' /\ UNCHANGED <<job, tick>>
    BY <1>4, <2>1, <2>2 DEF ParkRetry, Moved, Shape, TypeOK
  <2> QED
    BY <2>1, <2>3, OnlyLocals
<1>5. CASE MarkFailed(p)
  <2>1. job' \in [JobId -> Job] /\ JobShape' /\ TableKept /\ HandKept
    BY <1>5, MyJob, StatusSet DEF MarkFailed, JobPC, JobState
  <2> DEFINE l == IF th[p].op = "stale" THEN "dGroup" ELSE "rGroup"
  <2>2. Moved(p)
    <3>1. l \in PC \ (JobPC \cup DaemonPC \cup {"rWrite"})
      BY DEF PC, JobPC, DaemonPC, HandPC
    <3>2. th' = [th EXCEPT ![p] = [Idle EXCEPT !.pc = l]]
      BY <1>5 DEF MarkFailed
    <3> HIDE DEF l
    <3> QED
      BY <3>1, <3>2, AtMoves
  <2>3. TypeOK' /\ tick' = tick
    BY <1>5, <2>1, <2>2 DEF MarkFailed, Moved, Shape, TypeOK
  <2> QED
    BY <2>1, <2>2, <2>3, OneMoves DEF Moved
<1>6. CASE ReleaseLedger(p)
  <2>1. Moved(p)
    BY <1>6, SameJobs, GotoMoves DEF ReleaseLedger, PC, JobPC, DaemonPC, HandPC
  <2>2. TypeOK' /\ UNCHANGED <<job, tick>>
    BY <1>6, <2>1 DEF ReleaseLedger, Moved, Shape, TypeOK, NoJob
  <2> QED
    BY <2>1, <2>2, OnlyLocals
<1>7. CASE MarkDone(p)
  <2>1. job' \in [JobId -> Job] /\ JobShape' /\ TableKept /\ HandKept
    BY <1>7, MyJob, StatusSet DEF MarkDone, JobPC, JobState
  <2>2. Moved(p)
    BY <1>7, <2>1, AtMoves DEF MarkDone, PC, JobPC, DaemonPC, HandPC
  <2>3. TypeOK' /\ tick' = tick
    BY <1>7, <2>1, <2>2 DEF MarkDone, Moved, Shape, TypeOK
  <2> QED
    BY <2>1, <2>2, <2>3, OneMoves DEF Moved
<1>8. CASE MarkCancelled(p)
  <2>1. job' \in [JobId -> Job] /\ JobShape' /\ TableKept /\ HandKept
    BY <1>8, MyJob, StatusSet DEF MarkCancelled, JobPC, JobState
  <2>2. Moved(p)
    BY <1>8, <2>1, GotoMoves DEF MarkCancelled, PC, JobPC, DaemonPC, HandPC
  <2>3. TypeOK' /\ tick' = tick
    BY <1>8, <2>1, <2>2 DEF MarkCancelled, Moved, Shape, TypeOK
  <2> QED
    BY <2>1, <2>2, <2>3, OneMoves DEF Moved
<1>9. CASE ReleaseUnconditional(p)
  <2>1. Moved(p)
    BY <1>9, SameJobs, GotoMoves DEF ReleaseUnconditional, PC, JobPC, DaemonPC, HandPC
  <2>2. TypeOK' /\ UNCHANGED <<job, tick>>
    BY <1>9, <2>1 DEF ReleaseUnconditional, Moved, Shape, TypeOK, NoJob
  <2> QED
    BY <2>1, <2>2, OnlyLocals
<1>10. CASE ReadActiveJobs(p)
  <2> DEFINE r == [th[p] EXCEPT !.pc = "gMark", !.todo = {j \in JobId : Active(j)}]
  <2>1. th[p] \in Local /\ Fit(p) /\ th \in [Thread -> Local]
    BY DEF Shape, TypeOK
  <2>2. {j \in JobId : Active(j)} \in SUBSET JobId
    OBVIOUS
  <2>3. r \in Local /\ r.pc = "gMark"
    BY <2>1, <2>2 DEF Local, PC
  <2>4. \A j \in r.todo : InTable(j)'
    BY <1>10 DEF ReadActiveJobs, db, Active, ActiveJob, InTable, JobState
  <2>5. th' = [th EXCEPT ![p] = r]
    BY <1>10, <2>1 DEF ReadActiveJobs, Local
  <2> HIDE DEF r
  <2>6. Moved(p)
    BY <2>3, <2>4, <2>5, ResetMoves DEF JobPC, DaemonPC, HandPC
  <2>7. TypeOK' /\ UNCHANGED <<job, tick>>
    BY <1>10, <2>6 DEF ReadActiveJobs, db, Moved, Shape, TypeOK
  <2> QED
    BY <2>6, <2>7, OnlyLocals
<1>11. CASE MarkNextCancelled(p)
  <2>1. CASE th[p].todo = {}
    <3>1. Moved(p) /\ UNCHANGED <<job, tick>>
      BY <1>11, <2>1, SameJobs, GotoMoves DEF MarkNextCancelled, PC, JobPC, DaemonPC, HandPC
    <3>2. TypeOK'
      BY <1>11, <3>1 DEF MarkNextCancelled, Moved, Shape, TypeOK
    <3> QED
      BY <3>1, <3>2, OnlyLocals
  <2>2. ASSUME NEW j \in th[p].todo, SetStatus(j, "cancelled"),
               th' = [th EXCEPT ![p].todo = @ \ {j}]
        PROVE  Shape'
    <3> DEFINE r == [th[p] EXCEPT !.todo = @ \ {j}]
    <3>1. th[p] \in Local /\ Fit(p)
      BY DEF Shape, TypeOK
    <3>2. job' \in [JobId -> Job] /\ JobShape' /\ TableKept /\ HandKept
      BY <2>2, <3>1, StatusSet DEF Fit, Local, JobState
    <3>3. r \in Local /\ r.pc = "gMark" /\ \A k \in r.todo : InTable(k)'
      BY <1>11, <3>1, <3>2 DEF MarkNextCancelled, Local, Fit, TableKept
    <3>4. th' = [th EXCEPT ![p] = r]
      BY <2>2 DEF Shape, TypeOK, Local
    <3> HIDE DEF r
    <3>5. Moved(p)
      BY <3>3, <3>4, ResetMoves DEF JobPC, DaemonPC, HandPC
    <3>6. TypeOK' /\ tick' = tick
      BY <1>11, <3>2, <3>5 DEF MarkNextCancelled, Moved, Shape, TypeOK
    <3> QED
      BY <3>2, <3>5, <3>6, OneMoves DEF Moved
  <2> QED
    BY <1>11, <2>1, <2>2 DEF MarkNextCancelled
<1>12. CASE ReleaseAll(p)
  <2>1. Moved(p)
    BY <1>12, ReturnMoves DEF ReleaseAll
  <2>2. TypeOK' /\ UNCHANGED <<job, tick>>
    BY <1>12, <2>1 DEF ReleaseAll, Moved, Shape, TypeOK, NoJob
  <2> QED
    BY <2>1, <2>2, OnlyLocals
<1>13. CASE RefuseIfActiveSibling(p)
  <2>1. Moved(p)
    BY <1>13, SameJobs, GotoMoves, ReturnMoves DEF RefuseIfActiveSibling, db, PC, JobPC, DaemonPC, HandPC
  <2>2. TypeOK' /\ UNCHANGED <<job, tick>>
    BY <1>13, <2>1 DEF RefuseIfActiveSibling, Moved, Shape, TypeOK, db
  <2> QED
    BY <2>1, <2>2, OnlyLocals
<1>14. CASE ResolveLatestSibling(p)
  <2>1. UNCHANGED <<job, tick>> /\ TableKept
    BY <1>14, SameJobs DEF ResolveLatestSibling, db
  <2>2. PICK j \in Siblings(MyChunk(p)) :
          \/ th' = [th EXCEPT ![p].pc = "mRemaining", ![p].job = j]
          \/ Return(p)
    BY <1>14 DEF ResolveLatestSibling
  <2>3. ASSUME Return(p) PROVE Moved(p)
    BY <2>3, ReturnMoves
  <2> DEFINE r == [th[p] EXCEPT !.pc = "mRemaining", !.job = j]
  <2>4. ASSUME th' = [th EXCEPT ![p].pc = "mRemaining", ![p].job = j]
        PROVE  Moved(p)
    <3>1. th[p] \in Local /\ Fit(p) /\ th \in [Thread -> Local]
      BY DEF Shape, TypeOK
    <3>2. j \in JobId /\ InTable(j)
      BY <2>2 DEF Siblings
    <3>3. r \in Local /\ r.pc = "mRemaining" /\ r.job = j /\ r.todo = th[p].todo
      BY <3>1, <3>2 DEF Local, PC
    <3>4. th' = [th EXCEPT ![p] = r]
      BY <2>4, <3>1 DEF Local
    <3> HIDE DEF r
    <3>5. th' \in [Thread -> Local] /\ Others(p) /\ th'[p] = r
      BY <3>1, <3>3, <3>4 DEF Others
    <3>6. Fit(p)'
      BY <2>1, <3>1, <3>2, <3>3, <3>5 DEF Fit, Local, TableKept, DaemonPC, HandPC
    <3> QED
      BY <3>5, <3>6 DEF Moved
  <2>5. Moved(p)
    BY <2>2, <2>3, <2>4
  <2>6. TypeOK'
    BY <1>14, <2>5 DEF ResolveLatestSibling, db, Moved, Shape, TypeOK
  <2> QED
    BY <2>1, <2>5, <2>6, OnlyLocals
<1>15. CASE RefuseIfNoRemaining(p)
  <2>1. Moved(p)
    BY <1>15, SameJobs, GotoMoves, ReturnMoves DEF RefuseIfNoRemaining, db, PC, JobPC, DaemonPC, HandPC
  <2>2. TypeOK' /\ UNCHANGED <<job, tick>>
    BY <1>15, <2>1 DEF RefuseIfNoRemaining, Moved, Shape, TypeOK, db
  <2> QED
    BY <2>1, <2>2, OnlyLocals
<1>16. CASE FlipGroupPending(p)
  <2>1. Moved(p)
    BY <1>16, SameJobs, GotoMoves DEF FlipGroupPending, PC, JobPC, DaemonPC, HandPC
  <2>2. TypeOK' /\ UNCHANGED <<job, tick>>
    BY <1>16, <2>1 DEF FlipGroupPending, Moved, Shape, TypeOK, GroupState
  <2> QED
    BY <2>1, <2>2, OnlyLocals
<1>17. CASE ParkManualRetry(p)
  <2>1. Moved(p)
    BY <1>17, ReturnMoves DEF ParkManualRetry
  <2>2. pendingQ' \subseteq Row
    BY <1>17, MyJob, Parks DEF ParkManualRetry, JobPC
  <2>3. TypeOK' /\ UNCHANGED <<job, tick>>
    BY <1>17, <2>1, <2>2 DEF ParkManualRetry, Moved, Shape, TypeOK
  <2> QED
    BY <2>1, <2>3, OnlyLocals
<1>18. CASE WriteReported(p)
  <2>1. job' \in [JobId -> Job] /\ JobShape' /\ TableKept /\ HandKept
    BY <1>18, MyJob, StatusSet DEF WriteReported, JobPC, JobState
  <2>2. ASSUME th[p].op = "promote" PROVE Moved(p)
    BY <1>18, <2>2, AtMoves DEF WriteReported, PC, JobPC, DaemonPC, HandPC
  <2>3. ASSUME th[p].op # "promote" PROVE Moved(p)
    BY <1>18, <2>3, ReturnMoves DEF WriteReported, Return
  <2>4. TypeOK' /\ tick' = tick
    BY <1>18, <2>1, <2>2, <2>3 DEF WriteReported, Moved, Shape, TypeOK
  <2> QED
    BY <2>1, <2>2, <2>3, <2>4, OneMoves DEF Moved
<1>19. CASE ReadGroup(p)
  <2> DEFINE r == [Idle EXCEPT !.pc = "rJobs", !.saw = group]
  <2>1. r \in Local /\ r.pc = "rJobs" /\ \A j \in r.todo : InTable(j)'
    BY <1>19 DEF ReadGroup, db, Shape, TypeOK, Fit, Local, PC, InTable, Idle, NoJob, Rendered
  <2>2. th' = [th EXCEPT ![p] = r]
    BY <1>19 DEF ReadGroup, Shape, TypeOK, Local
  <2> HIDE DEF r
  <2>3. Moved(p)
    BY <2>1, <2>2, ResetMoves DEF JobPC, DaemonPC, HandPC
  <2>4. TypeOK' /\ UNCHANGED <<job, tick>>
    BY <1>19, <2>3 DEF ReadGroup, db, Moved, Shape, TypeOK
  <2> QED
    BY <2>3, <2>4, OnlyLocals
<1>20. CASE ReadJobs(p)
  <2> DEFINE r == [th[p] EXCEPT !.pc = "rFrames",
                    !.view = {job[j].status : j \in {k \in JobId : InTable(k)}}]
  <2>1. th[p] \in Local /\ Fit(p) /\ th \in [Thread -> Local]
    BY DEF Shape, TypeOK
  <2>2. {job[j].status : j \in {k \in JobId : InTable(k)}} \in SUBSET JobState
    BY DEF InTable
  <2>3. r \in Local /\ r.pc = "rFrames"
    BY <2>1, <2>2 DEF Local, PC
  <2>4. \A j \in r.todo : InTable(j)'
    BY <1>20, <2>1 DEF ReadJobs, db, Fit, InTable
  <2>5. th' = [th EXCEPT ![p] = r]
    BY <1>20, <2>1 DEF ReadJobs, Local
  <2> HIDE DEF r
  <2>6. Moved(p)
    BY <2>3, <2>4, <2>5, ResetMoves DEF JobPC, DaemonPC, HandPC
  <2>7. TypeOK' /\ UNCHANGED <<job, tick>>
    BY <1>20, <2>6 DEF ReadJobs, db, Moved, Shape, TypeOK
  <2> QED
    BY <2>6, <2>7, OnlyLocals
<1>21. CASE ReadFrames(p)
  <2> DEFINE e == IF frames = {} THEN "none"
                  ELSE IF frames = Chunk THEN "all" ELSE "some"
             r == [th[p] EXCEPT !.pc = "rPending",
                    !.rend = e]
  <2>1. th[p] \in Local /\ Fit(p) /\ th \in [Thread -> Local]
    BY DEF Shape, TypeOK
  <2>2. e \in Rendered /\ "rPending" \in PC
    BY DEF Rendered, PC
  <2>3. r \in Local /\ r.pc = "rPending"
    BY <2>1, <2>2 DEF Local
  <2>4. \A j \in r.todo : InTable(j)'
    BY <1>21, <2>1 DEF ReadFrames, db, Fit, InTable
  <2>5. th' = [th EXCEPT ![p] = r]
    BY <1>21, <2>1 DEF ReadFrames, Local
  <2> HIDE DEF r
  <2>6. Moved(p)
    BY <2>3, <2>4, <2>5, ResetMoves DEF JobPC, DaemonPC, HandPC
  <2>7. TypeOK' /\ UNCHANGED <<job, tick>>
    BY <1>21, <2>6 DEF ReadFrames, db, Moved, Shape, TypeOK
  <2> QED
    BY <2>6, <2>7, OnlyLocals
<1>22. CASE ReadPending(p)
  <2>1. Moved(p)
    BY <1>22, SameJobs, GotoMoves, ConcludeMoves DEF ReadPending, db, PC, JobPC, DaemonPC, HandPC
  <2>2. TypeOK' /\ UNCHANGED <<job, tick>>
    BY <1>22, <2>1 DEF ReadPending, Moved, Shape, TypeOK, db
  <2> QED
    BY <2>1, <2>2, OnlyLocals
<1>23. CASE ReadDispatch(p)
  <2>1. Moved(p)
    BY <1>23, ConcludeMoves DEF ReadDispatch, db
  <2>2. TypeOK' /\ UNCHANGED <<job, tick>>
    BY <1>23, <2>1 DEF ReadDispatch, Moved, Shape, TypeOK, db
  <2> QED
    BY <2>1, <2>2, OnlyLocals
<1>24. CASE WriteGroup(p)
  <2>1. Moved(p)
    BY <1>24, AtMoves DEF WriteGroup, PC, JobPC, DaemonPC, HandPC
  <2>2. TypeOK' /\ UNCHANGED <<job, tick>>
    BY <1>24, <2>1 DEF WriteGroup, Moved, Shape, TypeOK, Fit
  <2> QED
    BY <2>1, <2>2, OnlyLocals
<1>25. CASE CheckTerminal(p)
  <2>1. Moved(p)
    BY <1>25, SameJobs, GotoMoves, ReturnMoves DEF CheckTerminal, AfterDrain, db, PC, JobPC, DaemonPC, HandPC
  <2>2. TypeOK' /\ UNCHANGED <<job, tick>>
    BY <1>25, <2>1 DEF CheckTerminal, Moved, Shape, TypeOK, db
  <2> QED
    BY <2>1, <2>2, OnlyLocals
<1>26. CASE DrainDispatch(p)
  <2>1. job' \in [JobId -> Job] /\ JobShape' /\ TableKept /\ HandKept
    BY <1>26 DEF DrainDispatch, Shape, TypeOK, JobShape, TableKept, HandKept, InTable,
          InHand, Unused, Job, JobStatus, JobState
  <2>2. Moved(p)
    BY <1>26, <2>1, GotoMoves DEF DrainDispatch, PC, JobPC, DaemonPC, HandPC
  <2>3. TypeOK' /\ tick' = tick
    BY <1>26, <2>1, <2>2 DEF DrainDispatch, Moved, Shape, TypeOK
  <2> QED
    BY <2>1, <2>2, <2>3, OneMoves DEF Moved
<1>27. CASE DrainPending(p)
  <2>1. Moved(p)
    BY <1>27, SameJobs, GotoMoves, ReturnMoves DEF DrainPending, AfterDrain, PC, JobPC, DaemonPC, HandPC
  <2>2. TypeOK' /\ UNCHANGED <<job, tick>>
    BY <1>27, <2>1 DEF DrainPending, Moved, Shape, TypeOK
  <2> QED
    BY <2>1, <2>2, OnlyLocals
<1> QED
  BY <1>1, <1>2, <1>3, <1>4, <1>5, <1>6, <1>7, <1>8, <1>9, <1>10, <1>11,
     <1>12, <1>13, <1>14, <1>15, <1>16, <1>17, <1>18, <1>19, <1>20, <1>21,
     <1>22, <1>23, <1>24, <1>25, <1>26, <1>27 DEF Step

\* The start of a handler, at a signal about a job.
LEMMA StartMoves ==
  ASSUME Shape, NEW p \in Thread, NEW r \in Local,
         r.pc \in JobPC \ {"launch"}, InTable(r.job)', r.job \in JobId, r.todo = {},
         th' = [th EXCEPT ![p] = r]
  PROVE  Moved(p)
<1>1. th \in [Thread -> Local]
  BY DEF Shape, TypeOK
<1>2. th' \in [Thread -> Local] /\ Others(p) /\ th'[p] = r
  BY <1>1 DEF Others
<1>3. Fit(p)'
  BY <1>2 DEF Fit, JobPC, HandPC, DaemonPC
<1> QED
  BY <1>2, <1>3 DEF Moved

LEMMA BeginMoves ==
  ASSUME Shape, NEW p \in Handler, NEW l \in JobPC \ {"launch"}, NEW o \in Op,
         NEW j \in JobId, InTable(j), Begin(p, l, o, j), UNCHANGED job
  PROVE  Moved(p)
<1> DEFINE r == [Idle EXCEPT !.pc = l, !.op = o, !.job = j]
<1>0. l \in PC /\ "none" \in Rendered
  BY DEF PC, JobPC, Rendered
<1>1. r \in Local /\ r.pc = l /\ r.job = j /\ r.todo = {}
  BY <1>0 DEF Idle, Local
<1>2. th' = [th EXCEPT ![p] = r]
  BY DEF Begin
<1>3. InTable(r.job)'
  BY <1>1 DEF InTable
<1> HIDE DEF r
<1> QED
  BY <1>1, <1>2, <1>3, StartMoves DEF Thread

LEMMA Unchanged ==
  ASSUME Shape, NEW p \in Thread, Moved(p), UNCHANGED <<db, tick, crashes>>
  PROVE  Shape'
<1>1. TypeOK'
  BY DEF Shape, TypeOK, db, Moved
<1> QED
  BY <1>1, OnlyLocals DEF db

LEMMA SignalShape ==
  ASSUME Shape, NEW p \in Handler, NEW j \in JobId, Signal(p, j)
  PROVE  Shape'
<1> p \in Thread
  BY DEF Thread
<1>1. CASE BeginFailure(p, j)
  <2>1. Begin(p, "cas", "failure", j) /\ UNCHANGED <<db, tick, crashes>> /\ InTable(j)
    BY <1>1 DEF BeginFailure, Active, ActiveJob, InTable, JobState
  <2>2. Moved(p)
    BY <2>1, BeginMoves DEF db, JobPC, Op
  <2> QED
    BY <2>1, <2>2, Unchanged
<1>2. CASE BeginSuccess(p, j)
  <2>1. Begin(p, "release", "success", j) /\ UNCHANGED <<db, tick, crashes>> /\ InTable(j)
    BY <1>2 DEF BeginSuccess, Active, ActiveJob, InTable, JobState
  <2>2. Moved(p)
    BY <2>1, BeginMoves DEF db, JobPC, Op
  <2> QED
    BY <2>1, <2>2, Unchanged
<1>3. CASE BeginCancel(p, j)
  <2>1. Begin(p, "markCancelled", "cancel", j) /\ UNCHANGED <<db, tick, crashes>> /\ InTable(j)
    BY <1>3 DEF BeginCancel, Active, ActiveJob, InTable, JobState
  <2>2. Moved(p)
    BY <2>1, BeginMoves DEF db, JobPC, Op
  <2> QED
    BY <2>1, <2>2, Unchanged
<1>4. CASE BeginRetry(p, j)
  <2> DEFINE r == [Idle EXCEPT !.pc = "mLedger", !.op = "retry", !.job = j, !.saw = group]
  <2>1. th' = [th EXCEPT ![p] = r] /\ UNCHANGED <<db, tick, crashes>> /\ InTable(j)
    BY <1>4 DEF BeginRetry
  <2>2. r \in Local /\ r.pc = "mLedger" /\ r.job = j /\ r.todo = {}
    BY DEF Shape, TypeOK, Idle, Local, PC, Op, Rendered
  <2> HIDE DEF r
  <2>3. InTable(j)'
    BY <2>1 DEF InTable, db
  <2>4. Moved(p)
    BY <2>1, <2>2, <2>3, StartMoves DEF JobPC
  <2> QED
    BY <2>1, <2>4, Unchanged
<1>5. CASE BeginReport(p, j)
  <2>1. UNCHANGED <<db, tick, crashes>> /\ InTable(j)
    BY <1>5 DEF BeginReport, Active, ActiveJob, InTable, JobState
  <2>2. PICK o \in {"report", "reportDone"} : Begin(p, "report", o, j)
    BY <1>5 DEF BeginReport
  <2>3. Moved(p)
    BY <2>1, <2>2, BeginMoves DEF db, JobPC, Op
  <2> QED
    BY <2>1, <2>3, Unchanged
<1>6. CASE BeginPromote(p, j)
  <2>1. Begin(p, "report", "promote", j) /\ UNCHANGED <<db, tick, crashes>> /\ InTable(j)
    BY <1>6 DEF BeginPromote, InTable, JobState
  <2>2. Moved(p)
    BY <2>1, BeginMoves DEF db, JobPC, Op
  <2> QED
    BY <2>1, <2>2, Unchanged
<1> QED
  BY <1>1, <1>2, <1>3, <1>4, <1>5, <1>6 DEF Signal

LEMMA GroupSignalShape ==
  ASSUME Shape, NEW p \in Handler, GroupSignal(p)
  PROVE  Shape'
<1> p \in Thread
  BY DEF Thread
<1>1. ASSUME NEW l \in {"gJobs", "rGroup"}, NEW o \in Op, Begin(p, l, o, NoJob)
      PROVE  Moved(p)
  <2> DEFINE r == [Idle EXCEPT !.pc = l, !.op = o, !.job = NoJob]
  <2>1. r \in Local /\ r.pc = l /\ r.todo = {}
    BY DEF Idle, Local, PC, Rendered
  <2>2. th' = [th EXCEPT ![p] = r]
    BY <1>1 DEF Begin
  <2> HIDE DEF r
  <2> QED
    BY <2>1, <2>2, ResetMoves DEF JobPC, DaemonPC, HandPC
<1>2. CASE BeginCancelGroup(p)
  <2>1. Moved(p)
    BY <1>1, <1>2 DEF BeginCancelGroup, Op
  <2>2. TypeOK' /\ UNCHANGED <<job, tick>>
    BY <1>2, <2>1 DEF BeginCancelGroup, Moved, Shape, TypeOK, GroupState
  <2> QED
    BY <2>1, <2>2, OnlyLocals
<1>3. CASE BeginAudit(p)
  <2>1. Moved(p)
    BY <1>1, <1>3 DEF BeginAudit, Op
  <2> QED
    BY <1>3, <2>1, Unchanged DEF BeginAudit
<1> QED
  BY <1>2, <1>3 DEF GroupSignal

LEMMA UploadShape ==
  ASSUME Shape, NEW j \in JobId, Upload(j)
  PROVE  Shape'
<1>1. job[j].chunk \in Chunk
  BY DEF Upload, Shape, JobShape, InTable, JobState
<1>2. TypeOK' /\ UNCHANGED <<job, tick, th>>
  BY <1>1 DEF Upload, Shape, TypeOK
<1>3. JobShape' /\ \A p \in Thread : Fit(p)'
  BY <1>2 DEF Shape, JobShape, Fit, InTable, InHand
<1> QED
  BY <1>2, <1>3 DEF Shape

-----------------------------------------------------------------------------
\* The daemon's steps.  Its record becomes r, at a point where it may be.
LEMMA DaemonMoves ==
  ASSUME Shape, NEW r \in Local,
         r.pc # "rWrite",
         r.pc \in JobPC => r.job \in JobId /\ job'[r.job].status \in JobState,
         r.pc \in HandPC => r.job \in JobId /\ job'[r.job].status = "inhand",
         r.pc = "enqueue" => tick'.chunk \in Chunk,
         \A j \in r.todo : InTable(j)',
         th' = [th EXCEPT ![Daemon] = r]
  PROVE  Moved(Daemon)
<1>1. Daemon \in Thread /\ th \in [Thread -> Local]
  BY DEF Shape, TypeOK, Thread
<1>2. th' \in [Thread -> Local] /\ Others(Daemon) /\ th'[Daemon] = r
  BY <1>1 DEF Others
<1>3. Fit(Daemon)'
  BY <1>2 DEF Fit, InTable, InHand
<1> QED
  BY <1>2, <1>3 DEF Moved

LEMMA DaemonStepShape ==
  ASSUME Shape, TypeOK', JobShape', TableKept, Moved(Daemon)
  PROVE  Shape'
BY OneMoves DEF Moved, Thread

\* The daemon's row leaves its hand.
LEMMA HandSet ==
  ASSUME Shape, NEW v \in Job, th[Daemon].pc \in HandPC,
         v.status # "unused" => v.chunk \in Chunk,
         job' = [job EXCEPT ![th[Daemon].job] = v]
  PROVE  job' \in [JobId -> Job] /\ JobShape' /\ TableKept
<1>1. th[Daemon].job \in JobId /\ ~InTable(th[Daemon].job)
  BY DEF Shape, Fit, InHand, InTable, JobState, Thread
<1> QED
  BY <1>1 DEF Shape, TypeOK, JobShape, TableKept, InTable

LEMMA HandJob ==
  ASSUME Shape, th[Daemon].pc \in HandPC
  PROVE  /\ th[Daemon].job \in JobId /\ InHand(th[Daemon].job)
         /\ MyChunk(Daemon) \in Chunk /\ job[th[Daemon].job] \in Job
  BY DEF Shape, TypeOK, JobShape, Fit, InHand, MyChunk, Thread

LEMMA DispatchShape ==
  ASSUME Shape, DispatchPhase
  PROVE  Shape'
<1>d. Daemon \in Thread /\ th[Daemon] \in Local /\ Fit(Daemon) /\ th \in [Thread -> Local]
  BY DEF Shape, TypeOK, Thread
<1>1. ASSUME NEW j \in JobId, Dequeue(j) PROVE Shape'
  <2> DEFINE r == [Idle EXCEPT !.pc = "qGroup", !.op = "dispatch", !.job = j]
  <2>1. r \in Local /\ r.pc = "qGroup" /\ r.job = j /\ r.todo = {}
    BY DEF Idle, Local, PC, Rendered
  <2>2. th' = [th EXCEPT ![Daemon] = r]
    BY <1>1 DEF Dequeue
  <2> HIDE DEF r
  <2>3. job' \in [JobId -> Job] /\ JobShape' /\ TableKept /\ InHand(j)'
    BY <1>1 DEF Dequeue, SetStatus, Shape, TypeOK, JobShape, TableKept, InTable, InHand,
                Job, JobStatus, JobState
  <2>4. Moved(Daemon)
    BY <2>1, <2>2, <2>3, DaemonMoves DEF JobPC, InHand
  <2>5. TypeOK'
    BY <1>1, <2>3, <2>4 DEF Dequeue, Moved, Shape, TypeOK
  <2> QED
    BY <2>3, <2>4, <2>5, DaemonStepShape
<1>2. CASE GuardTerminalGroup
  <2>1. CASE group \in ActiveGroup
    <3> DEFINE r == [th[Daemon] EXCEPT !.pc = "claim"]
    <3>1. r \in Local /\ r.pc = "claim" /\ r.job = th[Daemon].job /\ r.todo = th[Daemon].todo
      BY <1>d DEF Local, PC
    <3>2. th' = [th EXCEPT ![Daemon] = r] /\ UNCHANGED <<job, tick>>
      BY <1>2, <1>d, <2>1 DEF GuardTerminalGroup, Goto, Local
    <3> HIDE DEF r
    <3>3. r.job \in JobId /\ job'[r.job].status = "inhand" /\ \A j \in r.todo : InTable(j)'
      BY <1>2, <1>d, <3>1, <3>2 DEF GuardTerminalGroup, Fit, HandPC, InHand, InTable
    <3>4. Moved(Daemon)
      BY <3>1, <3>2, <3>3, DaemonMoves DEF JobPC
    <3>5. TypeOK'
      BY <1>2, <3>2, <3>4 DEF GuardTerminalGroup, Moved, Shape, TypeOK
    <3> QED
      BY <1>d, <3>2, <3>4, <3>5, OnlyLocals
  <2>2. CASE group \notin ActiveGroup
    <3>1. Return(Daemon) /\ job' = [job EXCEPT ![th[Daemon].job] = Unused]
      BY <1>2, <2>2 DEF GuardTerminalGroup
    <3>2. Unused \in Job /\ Unused.status = "unused"
      BY DEF Unused, Job, JobStatus
    <3>3. job' \in [JobId -> Job] /\ JobShape' /\ TableKept
      BY <1>2, <3>1, <3>2, HandSet DEF GuardTerminalGroup, HandPC
    <3>4. Moved(Daemon)
      BY <1>d, <3>1, ReturnMoves
    <3>5. TypeOK'
      BY <1>2, <3>3, <3>4 DEF GuardTerminalGroup, Moved, Shape, TypeOK
    <3> QED
      BY <3>3, <3>4, <3>5, DaemonStepShape
  <2> QED
    BY <2>1, <2>2
<1>3. CASE ClaimOrReplace
  <2> DEFINE r == [th[Daemon] EXCEPT !.pc = "create"]
  <2>1. r \in Local /\ r.pc = "create" /\ r.job = th[Daemon].job /\ r.todo = th[Daemon].todo
    BY <1>d DEF Local, PC
  <2>2. th' = [th EXCEPT ![Daemon] = r] /\ UNCHANGED <<job, tick>>
    BY <1>3, <1>d DEF ClaimOrReplace, Goto, Local
  <2> HIDE DEF r
  <2>3. r.job \in JobId /\ job'[r.job].status = "inhand" /\ \A j \in r.todo : InTable(j)'
    BY <1>3, <1>d, <2>1, <2>2 DEF ClaimOrReplace, Fit, HandPC, InHand, InTable
  <2>4. Moved(Daemon)
    BY <2>1, <2>2, <2>3, DaemonMoves DEF JobPC
  <2>5. TypeOK'
    BY <1>3, <2>2, <2>4, HandJob DEF ClaimOrReplace, HandPC, Moved, Shape, TypeOK
  <2> QED
    BY <1>d, <2>2, <2>4, <2>5, OnlyLocals
<1>4. CASE CreateJob
  <2> DEFINE r == [th[Daemon] EXCEPT !.pc = "launch"]
             v == [job[th[Daemon].job] EXCEPT !.status = "pending"]
  <2>1. r \in Local /\ r.pc = "launch" /\ r.job = th[Daemon].job /\ r.todo = th[Daemon].todo
    BY <1>d DEF Local, PC
  <2>2. th' = [th EXCEPT ![Daemon] = r]
    BY <1>4, <1>d DEF CreateJob, Goto, Local
  <2>3. th[Daemon].job \in JobId /\ MyChunk(Daemon) \in Chunk /\ job[th[Daemon].job] \in Job
    BY <1>4, HandJob DEF CreateJob, HandPC
  <2>4. v \in Job /\ v.chunk \in Chunk
    BY <2>3 DEF Job, JobStatus, JobState, MyChunk
  <2>5. job' = [job EXCEPT ![th[Daemon].job] = v]
    BY <1>4 DEF CreateJob, SetStatus
  <2>6. job'[r.job].status \in JobState /\ r.job \in JobId
    BY <2>1, <2>3, <2>5 DEF Shape, TypeOK, Job, JobState
  <2> HIDE DEF r, v
  <2>7. job' \in [JobId -> Job] /\ JobShape' /\ TableKept
    BY <1>4, <2>4, <2>5, HandSet DEF CreateJob, HandPC
  <2>8. \A j \in r.todo : InTable(j)'
    BY <1>d, <2>1, <2>7 DEF Fit, Local, TableKept
  <2>9. Moved(Daemon)
    BY <2>1, <2>2, <2>6, <2>8, DaemonMoves DEF HandPC
  <2>10. TypeOK'
    BY <1>4, <2>7, <2>9 DEF CreateJob, Moved, Shape, TypeOK
  <2> QED
    BY <2>7, <2>9, <2>10, DaemonStepShape
<1>5. CASE Launch
  <2>1. UNCHANGED <<db, tick, crashes>> /\ UNCHANGED job /\ th[Daemon].pc = "launch"
    BY <1>5 DEF Launch, db
  <2>2. ASSUME Return(Daemon) PROVE Moved(Daemon)
    BY <1>d, <2>2, ReturnMoves
  <2>3. ASSUME th' = [th EXCEPT ![Daemon].pc = "cas", ![Daemon].op = "failure"]
        PROVE  Moved(Daemon)
    <3> DEFINE r == [th[Daemon] EXCEPT !.pc = "cas", !.op = "failure"]
    <3>0. "cas" \in PC /\ "failure" \in Op
      BY DEF PC, Op
    <3>1. r \in Local /\ r.pc = "cas" /\ r.job = th[Daemon].job /\ r.todo = th[Daemon].todo
      BY <1>d, <3>0 DEF Local
    <3>2. th' = [th EXCEPT ![Daemon] = r]
      BY <1>d, <2>3 DEF Local
    <3> HIDE DEF r
    <3>3. r.job \in JobId /\ job'[r.job].status \in JobState /\ \A j \in r.todo : InTable(j)'
      BY <1>d, <2>1, <3>1 DEF Fit, JobPC, InTable
    <3> QED
      BY <3>1, <3>2, <3>3, DaemonMoves DEF HandPC
  <2>4. Moved(Daemon)
    BY <1>5, <2>2, <2>3 DEF Launch
  <2> QED
    BY <1>d, <2>1, <2>4, Unchanged
<1>6. CASE LoseDispatch
  <2> DEFINE v == [job[th[Daemon].job] EXCEPT !.status = "lost"]
  <2>1. th[Daemon].job \in JobId /\ MyChunk(Daemon) \in Chunk /\ job[th[Daemon].job] \in Job
    BY <1>6, HandJob DEF LoseDispatch, HandPC
  <2>2. v \in Job /\ v.chunk \in Chunk
    BY <2>1 DEF Job, JobStatus, MyChunk
  <2>3. job' = [job EXCEPT ![th[Daemon].job] = v]
    BY <1>6 DEF LoseDispatch, SetStatus
  <2> HIDE DEF v
  <2>4. job' \in [JobId -> Job] /\ JobShape' /\ TableKept
    BY <1>6, <2>2, <2>3, HandSet DEF LoseDispatch, HandPC
  <2>5. Moved(Daemon)
    BY <1>6, <1>d, ReturnMoves DEF LoseDispatch
  <2>6. TypeOK'
    BY <1>6, <2>4, <2>5 DEF LoseDispatch, Moved, Shape, TypeOK
  <2> QED
    BY <2>4, <2>5, <2>6, DaemonStepShape
<1> QED
  BY <1>1, <1>2, <1>3, <1>4, <1>5, <1>6 DEF DispatchPhase

\* The pending phase moves the daemon among its own points without a job.
LEMMA TickMoves ==
  ASSUME Shape, NEW l \in {"batch", "owner", "enqueue"},
         l = "enqueue" => tick'.chunk \in Chunk,
         Goto(Daemon, l), TableKept
  PROVE  Moved(Daemon)
<1> DEFINE r == [th[Daemon] EXCEPT !.pc = l]
<1>1. th[Daemon] \in Local /\ Fit(Daemon) /\ th \in [Thread -> Local]
  BY DEF Shape, TypeOK, Thread
<1>2. r \in Local /\ r.pc = l /\ r.todo = th[Daemon].todo
  BY <1>1 DEF Local, PC
<1>3. th' = [th EXCEPT ![Daemon] = r]
  BY <1>1 DEF Goto, Local
<1> HIDE DEF r
<1>4. \A j \in r.todo : InTable(j)'
  BY <1>1, <1>2 DEF Fit, Local, TableKept
<1> QED
  BY <1>2, <1>3, <1>4, DaemonMoves DEF JobPC, HandPC

LEMMA TickShape ==
  ASSUME Shape, TypeOK', UNCHANGED job, Moved(Daemon)
  PROVE  Shape'
<1>1. JobShape'
  BY DEF Shape, JobShape
<1> QED
  BY <1>1, SameJobs, DaemonStepShape

LEMMA PendingShape ==
  ASSUME Shape, PendingPhase
  PROVE  Shape'
<1>d. Daemon \in Thread /\ th[Daemon] \in Local /\ Fit(Daemon) /\ th \in [Thread -> Local]
  BY DEF Shape, TypeOK, Thread
<1>1. CASE ListAll
  <2> DEFINE r == [Idle EXCEPT !.pc = "batch", !.op = "plan"]
  <2>1. r \in Local /\ r.pc = "batch" /\ r.todo = {}
    BY DEF Idle, Local, PC, NoJob, Rendered
  <2>2. th' = [th EXCEPT ![Daemon] = r]
    BY <1>1 DEF ListAll
  <2> HIDE DEF r
  <2>3. Moved(Daemon)
    BY <2>1, <2>2, DaemonMoves DEF JobPC, HandPC
  <2>4. TypeOK' /\ UNCHANGED job
    BY <1>1, <2>3 DEF ListAll, db, Moved, Shape, TypeOK, NoTick
  <2> QED
    BY <2>3, <2>4, TickShape
<1>2. CASE EndBatch
  <2>1. Moved(Daemon)
    BY <1>d, <1>2, ReturnMoves DEF EndBatch
  <2>2. TypeOK' /\ UNCHANGED job
    BY <1>2, <2>1 DEF EndBatch, db, Moved, Shape, TypeOK, NoTick
  <2> QED
    BY <2>1, <2>2, TickShape
<1>3. CASE DeleteRow
  <2>1. Moved(Daemon)
    BY <1>3, SameJobs, TickMoves DEF DeleteRow
  <2>2. TypeOK' /\ UNCHANGED job
    BY <1>3, <2>1 DEF DeleteRow, Moved, Shape, TypeOK
  <2> QED
    BY <2>1, <2>2, TickShape
<1>4. CASE Enqueue
  <2>1. tick.chunk \in Chunk /\ tick.row.attempt \in Nat
    BY <1>4, <1>d DEF Enqueue, Fit, Shape, TypeOK, Row, NoRow
  <2>2. \/ UNCHANGED job
        \/ \E j \in JobId : /\ job[j] = Unused
                            /\ job' = [job EXCEPT ![j] = [chunk |-> tick.chunk,
                                         attempt |-> tick.row.attempt, status |-> "queued"]]
    BY <1>4 DEF Enqueue, LeastFree
  <2>3. job' \in [JobId -> Job] /\ JobShape' /\ TableKept
    <3>1. CASE UNCHANGED job
      BY <3>1, SameJobs DEF Shape, TypeOK, JobShape
    <3>2. ASSUME NEW j \in JobId, NEW v, job[j] = Unused, job' = [job EXCEPT ![j] = v],
                 v = [chunk |-> tick.chunk, attempt |-> tick.row.attempt, status |-> "queued"]
          PROVE  job' \in [JobId -> Job] /\ JobShape' /\ TableKept
      <4>1. v \in Job /\ v.chunk \in Chunk
        BY <2>1, <3>2 DEF Job, JobStatus
      <4>2. ~InTable(j)
        BY <3>2 DEF InTable, Unused, JobState
      <4> QED
        BY <3>2, <4>1, <4>2 DEF Shape, TypeOK, JobShape, TableKept, InTable
    <3> QED
      BY <2>2, <3>1, <3>2
  <2>4. Moved(Daemon)
    BY <1>4, <2>3, TickMoves DEF Enqueue
  <2>5. TypeOK'
    BY <1>4, <2>3, <2>4 DEF Enqueue, Moved, Shape, TypeOK
  <2> QED
    BY <2>3, <2>4, <2>5, DaemonStepShape
<1>5. ASSUME NEW r \in tick.batch, PlanRow(r) PROVE Shape'
  <2>1. Moved(Daemon)
    BY <1>5, SameJobs, TickMoves DEF PlanRow, db
  <2>2. TypeOK' /\ UNCHANGED job
    BY <1>5, <2>1 DEF PlanRow, db, Moved, Shape, TypeOK, Row
  <2> QED
    BY <2>1, <2>2, TickShape
<1>6. ASSUME NEW r \in tick.batch, SkipRow(r) PROVE Shape'
  <2>1. TypeOK' /\ UNCHANGED <<job, th>> /\ th[Daemon].pc = "batch"
    BY <1>6 DEF SkipRow, db, Shape, TypeOK
  <2>2. Fit(Daemon)'
    BY <1>d, <2>1 DEF Fit, InTable, InHand
  <2>3. Moved(Daemon)
    BY <1>d, <2>1, <2>2 DEF Moved, Others
  <2> QED
    BY <2>1, <2>3, TickShape
<1>7. ASSUME NEW c \in Chunk, CheckOwner(c) PROVE Shape'
  <2>1. UNCHANGED job /\ th[Daemon].pc = "owner"
    BY <1>7 DEF CheckOwner, db
  <2>2. ASSUME UNCHANGED th PROVE Moved(Daemon)
    <3>1. Fit(Daemon)'
      BY <1>d, <2>1, <2>2 DEF Fit, InTable, InHand
    <3> QED
      BY <1>d, <2>2, <3>1 DEF Moved, Others
  <2>3. ASSUME tick' = [tick EXCEPT !.plan = @ \ {c}, !.chunk = c], Goto(Daemon, "enqueue")
        PROVE  Moved(Daemon)
    <3>1. tick'.chunk = c
      BY <2>3 DEF Shape, TypeOK
    <3> QED
      BY <2>1, <2>3, <3>1, SameJobs, TickMoves
  <2>4. Moved(Daemon)
    BY <1>7, <2>2, <2>3 DEF CheckOwner
  <2>5. TypeOK'
    <3> DEFINE Tick == [batch : SUBSET Row, row : Row \cup {NoRow}, plan : SUBSET Chunk,
                        chunk : Chunk \cup {NoChunk}]
    <3>1. tick \in Tick
      BY DEF Shape, TypeOK
    <3>2. \/ tick' = [tick EXCEPT !.plan = @ \ {c}]
          \/ tick' = [tick EXCEPT !.plan = @ \ {c}, !.chunk = c]
      BY <1>7 DEF CheckOwner
    <3>3. tick' \in Tick
      BY <3>1, <3>2
    <3> HIDE DEF Tick
    <3>4. UNCHANGED db /\ UNCHANGED crashes
      BY <1>7 DEF CheckOwner
    <3> QED
      BY <2>4, <3>3, <3>4 DEF Tick, db, Moved, Shape, TypeOK
  <2> QED
    BY <2>1, <2>4, <2>5, TickShape
<1> QED
  BY <1>1, <1>2, <1>3, <1>4, <1>5, <1>6, <1>7 DEF PendingPhase

LEMMA CrashShape ==
  ASSUME Shape, Crash
  PROVE  Shape'
<1>1. Idle \in Local /\ Idle.pc = "idle" /\ Idle.todo = {}
  BY DEF Idle, Local, PC, NoJob, Rendered
<1>2. th' \in [Thread -> Local] /\ \A p \in Thread : th'[p] = Idle
  BY <1>1 DEF Crash
<1>3. job' \in [JobId -> Job] /\ JobShape'
  BY DEF Crash, Shape, TypeOK, JobShape, Job, JobStatus
<1>4. TypeOK'
  BY <1>2, <1>3 DEF Crash, Shape, TypeOK, NoTick
<1>5. \A p \in Thread : Fit(p)'
  BY <1>1, <1>2 DEF Fit, JobPC, HandPC, DaemonPC
<1> QED
  BY <1>3, <1>4, <1>5 DEF Shape

LEMMA ShapeStep == Shape /\ [Next]_vars => Shape'
<1> SUFFICES ASSUME Shape, [Next]_vars PROVE Shape'
  OBVIOUS
<1>1. ASSUME NEW p \in Handler, NEW j \in JobId, Signal(p, j) PROVE Shape'
  BY <1>1, SignalShape
<1>2. ASSUME NEW p \in Handler, GroupSignal(p) PROVE Shape'
  BY <1>2, GroupSignalShape
<1>3. ASSUME NEW p \in Thread, Step(p) PROVE Shape'
  BY <1>3, StepShape
<1>4. ASSUME NEW j \in JobId, Upload(j) PROVE Shape'
  BY <1>4, UploadShape
<1>5. CASE DispatchPhase
  BY <1>5, DispatchShape
<1>6. CASE PendingPhase
  BY <1>6, PendingShape
<1>7. CASE Crash
  BY <1>7, CrashShape
<1>8. CASE UNCHANGED vars
  BY <1>8 DEF vars, Shape, TypeOK, JobShape, Fit, InTable, InHand
<1> QED
  BY <1>1, <1>2, <1>3, <1>4, <1>5, <1>6, <1>7, <1>8 DEF Next

LEMMA ShapeAlways == Spec => []Shape
  BY ShapeInit, ShapeStep, PTL DEF Spec

(* Every table, queue and thread record keeps its type in every execution  *)
(* of the lifecycle, whatever the number of chunks, threads and restarts.  *)
THEOREM TypeCorrect == Spec => []TypeOK
<1>1. Shape => TypeOK
  BY DEF Shape
<1> QED
  BY <1>1, ShapeAlways, PTL

-----------------------------------------------------------------------------
(* The claim on a chunk, for every value of the constants: no chunk is on  *)
(* its way to a machine twice, and claim_or_replace never replaces.        *)
(*                                                                         *)
(* OneDispatchPerChunk is not inductive.  It needs two facts about the     *)
(* daemon, the only thread that moves a row from one queue to the next: a  *)
(* dequeued row is the one in its record, and between the owner check and  *)
(* the INSERT nobody else can claim the chunk.                             *)
(*                                                                         *)
(* LedgerNamesLiveJob is not inductive either.  It needs what a handler    *)
(* past its release, and one that is tearing down, still is to the claims. *)
Waiting(j) == job[j].status \in {"queued", "inhand"}

HeldByDaemon ==
  \A j \in JobId : InHand(j) => th[Daemon].pc \in HandPC /\ th[Daemon].job = j

FreeToEnqueue == th[Daemon].pc = "enqueue" => ledger[tick.chunk] = NoJob

FreeUntilClaimed ==
  \A j \in JobId : Unlaunched(j) => ledger[job[j].chunk] = NoJob

OneWaiting ==
  \A j, k \in JobId :
    Waiting(j) /\ Waiting(k) /\ job[j].chunk = job[k].chunk => j = k

DispatchInv == HeldByDaemon /\ FreeToEnqueue /\ FreeUntilClaimed /\ OneWaiting

LEMMA DispatchInvSuffices == DispatchInv => OneDispatchPerChunk
  BY DEF DispatchInv, FreeUntilClaimed, OneWaiting, Waiting, OneDispatchPerChunk

LEMMA DispatchInit == Init => DispatchInv
  BY DEF Init, DispatchInv, HeldByDaemon, FreeToEnqueue, FreeUntilClaimed, OneWaiting,
         Waiting, Unlaunched, InHand, Unused, Idle, Thread

-----------------------------------------------------------------------------
(* What every step but the daemon's does: claims are only released, no row *)
(* comes to a queue or to the daemon's hand, and the daemon is not brought *)
(* to one of the points the invariant speaks of, nor taken from its row.   *)
Releases   == \A c \in Chunk : ledger'[c] \in {NoJob, ledger[c]}
NoneQueued == \A j \in JobId : Waiting(j)' => job'[j] = job[j]
DaemonCalm == \/ th'[Daemon] = th[Daemon]
              \/ /\ th[Daemon].pc \notin HandPC
                 /\ th'[Daemon].pc \notin HandPC \cup {"enqueue"}
Calm == Releases /\ NoneQueued /\ DaemonCalm /\ tick' = tick

LEMMA CalmKeeps ==
  ASSUME Shape, DispatchInv, Calm
  PROVE  DispatchInv'
<1>1. HeldByDaemon'
  BY DEF DispatchInv, HeldByDaemon, Calm, NoneQueued, DaemonCalm, Waiting, InHand
<1>2. FreeToEnqueue'
  BY DEF DispatchInv, FreeToEnqueue, Calm, Releases, DaemonCalm, Shape, Fit, Thread
<1>3. FreeUntilClaimed'
  <2> SUFFICES ASSUME NEW j \in JobId, Unlaunched(j)' PROVE ledger'[job'[j].chunk] = NoJob
    BY DEF FreeUntilClaimed
  <2>1. Unlaunched(j) /\ job'[j] = job[j]
    BY DEF Calm, NoneQueued, DaemonCalm, Waiting, Unlaunched, HandPC
  <2>2. job[j].chunk \in Chunk
    BY <2>1 DEF Shape, JobShape, Unlaunched
  <2> QED
    BY <2>1, <2>2 DEF DispatchInv, FreeUntilClaimed, Calm, Releases
<1>4. OneWaiting'
  BY DEF DispatchInv, OneWaiting, Calm, NoneQueued, Waiting
<1> QED
  BY <1>1, <1>2, <1>3, <1>4 DEF DispatchInv

\* The three parts of Calm, from what an action does to the variable.
LEMMA SameLedger ==
  ASSUME UNCHANGED ledger
  PROVE  Releases
  BY DEF Releases

LEMMA OneReleased ==
  ASSUME Shape, NEW c \in Chunk, ledger' = [ledger EXCEPT ![c] = NoJob]
  PROVE  Releases
  BY DEF Releases, Shape, TypeOK

LEMMA SameQueued ==
  ASSUME UNCHANGED job
  PROVE  NoneQueued
  BY DEF NoneQueued

LEMMA StatusQueued ==
  ASSUME Shape, NEW j \in JobId, NEW s \in JobState, SetStatus(j, s)
  PROVE  NoneQueued
  BY DEF Shape, TypeOK, Job, NoneQueued, Waiting, SetStatus, JobState

LEMMA HandlerCalm ==
  ASSUME Shape, NEW p \in Handler, NEW r, th' = [th EXCEPT ![p] = r]
  PROVE  DaemonCalm
  BY ConstantsOK DEF Shape, TypeOK, DaemonCalm, Thread

LEMMA ResetCalm ==
  ASSUME Shape, NEW p \in Thread, th[p].pc \notin HandPC, NEW r,
         r.pc \notin HandPC \cup {"enqueue"}, th' = [th EXCEPT ![p] = r]
  PROVE  DaemonCalm
  BY DEF Shape, TypeOK, DaemonCalm

LEMMA GotoCalm ==
  ASSUME Shape, NEW p \in Thread, th[p].pc \notin HandPC, NEW l,
         l \notin HandPC \cup {"enqueue"}, Goto(p, l)
  PROVE  DaemonCalm
  BY DEF Shape, TypeOK, Local, Goto, DaemonCalm

LEMMA ReturnCalm ==
  ASSUME Shape, NEW p \in Thread, th[p].pc \notin HandPC, Return(p)
  PROVE  DaemonCalm
  BY DEF Shape, TypeOK, Return, Idle, HandPC, DaemonCalm

-----------------------------------------------------------------------------
LEMMA StepCalm ==
  ASSUME Shape, NEW p \in Thread, Step(p)
  PROVE  Calm
<1>t. th \in [Thread -> Local] /\ th[p] \in Local /\ Daemon \in Thread
  BY DEF Shape, TypeOK, Thread
<1>1. CASE ReleaseIfOwner(p)
  <2>1. Releases
    BY <1>1, MyJob DEF ReleaseIfOwner, JobPC, Releases, Shape, TypeOK
  <2>2. NoneQueued
    BY <1>1, SameQueued DEF ReleaseIfOwner, db
  <2>3. DaemonCalm
    <3>1. th[p].pc = "cas" /\ (p # Daemon => th'[Daemon] = th[Daemon])
      BY <1>1, <1>t DEF ReleaseIfOwner, Goto, Local
    <3>2. th'[p].pc \in {"load", "markFailed"}
      BY <1>1, <1>t DEF ReleaseIfOwner, Goto, Local
    <3> QED
      BY <3>1, <3>2 DEF DaemonCalm, HandPC
  <2> QED
    BY <1>1, <2>1, <2>2, <2>3 DEF ReleaseIfOwner, Calm
<1>2. CASE LoadJobAndGroup(p)
  <2>1. Releases
    BY <1>2, SameLedger DEF LoadJobAndGroup, db
  <2>2. NoneQueued
    BY <1>2, SameQueued DEF LoadJobAndGroup, db
  <2>3. DaemonCalm
    BY <1>2, GotoCalm DEF LoadJobAndGroup, AfterRetry, HandPC
  <2> QED
    BY <1>2, <2>1, <2>2, <2>3 DEF LoadJobAndGroup, Calm
<1>3. CASE ComputeRemaining(p)
  <2>1. Releases
    BY <1>3, SameLedger DEF ComputeRemaining, db
  <2>2. NoneQueued
    BY <1>3, SameQueued DEF ComputeRemaining, db
  <2>3. DaemonCalm
    BY <1>3, GotoCalm DEF ComputeRemaining, AfterRetry, HandPC
  <2> QED
    BY <1>3, <2>1, <2>2, <2>3 DEF ComputeRemaining, Calm
<1>4. CASE ParkRetry(p)
  <2>1. Releases
    BY <1>4, SameLedger DEF ParkRetry, db
  <2>2. NoneQueued
    BY <1>4, SameQueued DEF ParkRetry, db
  <2>3. DaemonCalm
    BY <1>4, GotoCalm DEF ParkRetry, AfterRetry, HandPC
  <2> QED
    BY <1>4, <2>1, <2>2, <2>3 DEF ParkRetry, Calm
<1>5. CASE MarkFailed(p)
  <2>1. Releases
    BY <1>5, SameLedger DEF MarkFailed, db
  <2>2. NoneQueued
    BY <1>5, MyJob, StatusQueued DEF MarkFailed, JobPC, JobState
  <2>3. DaemonCalm
    BY <1>5, <1>t DEF MarkFailed, Idle, Local, HandPC, DaemonCalm
  <2> QED
    BY <1>5, <2>1, <2>2, <2>3 DEF MarkFailed, Calm
<1>6. CASE ReleaseLedger(p)
  <2>1. Releases
    BY <1>6, MyJob DEF ReleaseLedger, JobPC, Releases, Shape, TypeOK
  <2>2. NoneQueued
    BY <1>6, SameQueued DEF ReleaseLedger, db
  <2>3. DaemonCalm
    BY <1>6, GotoCalm DEF ReleaseLedger, HandPC
  <2> QED
    BY <1>6, <2>1, <2>2, <2>3 DEF ReleaseLedger, Calm
<1>7. CASE MarkDone(p)
  <2>1. Releases
    BY <1>7, SameLedger DEF MarkDone, db
  <2>2. NoneQueued
    BY <1>7, MyJob, StatusQueued DEF MarkDone, JobPC, JobState
  <2>3. DaemonCalm
    BY <1>7, <1>t DEF MarkDone, Idle, Local, HandPC, DaemonCalm
  <2> QED
    BY <1>7, <2>1, <2>2, <2>3 DEF MarkDone, Calm
<1>8. CASE MarkCancelled(p)
  <2>1. Releases
    BY <1>8, SameLedger DEF MarkCancelled, db
  <2>2. NoneQueued
    BY <1>8, MyJob, StatusQueued DEF MarkCancelled, JobPC, JobState
  <2>3. DaemonCalm
    BY <1>8, GotoCalm DEF MarkCancelled, HandPC
  <2> QED
    BY <1>8, <2>1, <2>2, <2>3 DEF MarkCancelled, Calm
<1>9. CASE ReleaseUnconditional(p)
  <2>1. Releases
    BY <1>9, MyJob DEF ReleaseUnconditional, JobPC, Releases, Shape, TypeOK
  <2>2. NoneQueued
    BY <1>9, SameQueued DEF ReleaseUnconditional, db
  <2>3. DaemonCalm
    BY <1>9, GotoCalm DEF ReleaseUnconditional, HandPC
  <2> QED
    BY <1>9, <2>1, <2>2, <2>3 DEF ReleaseUnconditional, Calm
<1>10. CASE ReadActiveJobs(p)
  <2>1. Releases
    BY <1>10, SameLedger DEF ReadActiveJobs, db
  <2>2. NoneQueued
    BY <1>10, SameQueued DEF ReadActiveJobs, db
  <2>3. DaemonCalm
    BY <1>10, <1>t DEF ReadActiveJobs, Idle, Local, HandPC, DaemonCalm
  <2> QED
    BY <1>10, <2>1, <2>2, <2>3 DEF ReadActiveJobs, Calm
<1>11. CASE MarkNextCancelled(p)
  <2>1. Releases
    BY <1>11, SameLedger DEF MarkNextCancelled, db
  <2>2. NoneQueued
    BY <1>11, <1>t, SameQueued, StatusQueued DEF MarkNextCancelled, Local, JobState
  <2>3. DaemonCalm
    <3>1. th[p].pc = "gMark" /\ (p # Daemon => th'[Daemon] = th[Daemon])
      BY <1>11, <1>t DEF MarkNextCancelled, Goto, Local
    <3>2. th'[p].pc \in {"gMark", "dGroup"}
      BY <1>11, <1>t DEF MarkNextCancelled, Goto, Local
    <3> QED
      BY <3>1, <3>2 DEF DaemonCalm, HandPC
  <2> QED
    BY <1>11, <2>1, <2>2, <2>3 DEF MarkNextCancelled, Calm
<1>12. CASE ReleaseAll(p)
  <2>1. Releases
    BY <1>12 DEF ReleaseAll, Releases
  <2>2. NoneQueued
    BY <1>12, SameQueued DEF ReleaseAll, db
  <2>3. DaemonCalm
    BY <1>12, ReturnCalm DEF ReleaseAll, HandPC
  <2> QED
    BY <1>12, <2>1, <2>2, <2>3 DEF ReleaseAll, Calm
<1>13. CASE RefuseIfActiveSibling(p)
  <2>1. Releases
    BY <1>13, SameLedger DEF RefuseIfActiveSibling, db
  <2>2. NoneQueued
    BY <1>13, SameQueued DEF RefuseIfActiveSibling, db
  <2>3. DaemonCalm
    BY <1>13, GotoCalm, ReturnCalm DEF RefuseIfActiveSibling, HandPC
  <2> QED
    BY <1>13, <2>1, <2>2, <2>3 DEF RefuseIfActiveSibling, Calm
<1>14. CASE ResolveLatestSibling(p)
  <2>1. Releases
    BY <1>14, SameLedger DEF ResolveLatestSibling, db
  <2>2. NoneQueued
    BY <1>14, SameQueued DEF ResolveLatestSibling, db
  <2>3. DaemonCalm
    BY <1>14, <1>t DEF ResolveLatestSibling, Return, Idle, Local, HandPC, DaemonCalm
  <2> QED
    BY <1>14, <2>1, <2>2, <2>3 DEF ResolveLatestSibling, Calm
<1>15. CASE RefuseIfNoRemaining(p)
  <2>1. Releases
    BY <1>15, SameLedger DEF RefuseIfNoRemaining, db
  <2>2. NoneQueued
    BY <1>15, SameQueued DEF RefuseIfNoRemaining, db
  <2>3. DaemonCalm
    BY <1>15, GotoCalm, ReturnCalm DEF RefuseIfNoRemaining, HandPC
  <2> QED
    BY <1>15, <2>1, <2>2, <2>3 DEF RefuseIfNoRemaining, Calm
<1>16. CASE FlipGroupPending(p)
  <2>1. Releases
    BY <1>16, SameLedger DEF FlipGroupPending, db
  <2>2. NoneQueued
    BY <1>16, SameQueued DEF FlipGroupPending, db
  <2>3. DaemonCalm
    BY <1>16, GotoCalm DEF FlipGroupPending, HandPC
  <2> QED
    BY <1>16, <2>1, <2>2, <2>3 DEF FlipGroupPending, Calm
<1>17. CASE ParkManualRetry(p)
  <2>1. Releases
    BY <1>17, SameLedger DEF ParkManualRetry, db
  <2>2. NoneQueued
    BY <1>17, SameQueued DEF ParkManualRetry, db
  <2>3. DaemonCalm
    BY <1>17, ReturnCalm DEF ParkManualRetry, HandPC
  <2> QED
    BY <1>17, <2>1, <2>2, <2>3 DEF ParkManualRetry, Calm
<1>18. CASE WriteReported(p)
  <2>1. Releases
    BY <1>18, SameLedger DEF WriteReported, db
  <2>2. NoneQueued
    BY <1>18, MyJob, StatusQueued DEF WriteReported, JobPC, JobState
  <2>3. DaemonCalm
    BY <1>18, <1>t DEF WriteReported, Idle, Local, HandPC, DaemonCalm
  <2> QED
    BY <1>18, <2>1, <2>2, <2>3 DEF WriteReported, Calm
<1>19. CASE ReadGroup(p)
  <2>1. Releases
    BY <1>19, SameLedger DEF ReadGroup, db
  <2>2. NoneQueued
    BY <1>19, SameQueued DEF ReadGroup, db
  <2>3. DaemonCalm
    BY <1>19, <1>t DEF ReadGroup, Idle, Local, HandPC, DaemonCalm
  <2> QED
    BY <1>19, <2>1, <2>2, <2>3 DEF ReadGroup, Calm
<1>20. CASE ReadJobs(p)
  <2>1. Releases
    BY <1>20, SameLedger DEF ReadJobs, db
  <2>2. NoneQueued
    BY <1>20, SameQueued DEF ReadJobs, db
  <2>3. DaemonCalm
    BY <1>20, <1>t DEF ReadJobs, Idle, Local, HandPC, DaemonCalm
  <2> QED
    BY <1>20, <2>1, <2>2, <2>3 DEF ReadJobs, Calm
<1>21. CASE ReadFrames(p)
  <2>1. Releases
    BY <1>21, SameLedger DEF ReadFrames, db
  <2>2. NoneQueued
    BY <1>21, SameQueued DEF ReadFrames, db
  <2>3. DaemonCalm
    BY <1>21, <1>t DEF ReadFrames, Idle, Local, HandPC, DaemonCalm
  <2> QED
    BY <1>21, <2>1, <2>2, <2>3 DEF ReadFrames, Calm
<1>22. CASE ReadPending(p)
  <2>1. Releases
    BY <1>22, SameLedger DEF ReadPending, db
  <2>2. NoneQueued
    BY <1>22, SameQueued DEF ReadPending, db
  <2>3. ASSUME Conclude(p, TRUE) PROVE DaemonCalm
    BY <1>22, <1>t, <2>3 DEF ReadPending, Conclude, Idle, Local, HandPC, DaemonCalm
  <2>4. ASSUME Goto(p, "rDispatch") PROVE DaemonCalm
    BY <1>22, <2>4, GotoCalm DEF ReadPending, HandPC
  <2>5. DaemonCalm
    BY <1>22, <2>3, <2>4 DEF ReadPending
  <2> QED
    BY <1>22, <2>1, <2>2, <2>5 DEF ReadPending, Calm
<1>23. CASE ReadDispatch(p)
  <2>1. Releases
    BY <1>23, SameLedger DEF ReadDispatch, db
  <2>2. NoneQueued
    BY <1>23, SameQueued DEF ReadDispatch, db
  <2>3. DaemonCalm
    BY <1>23, <1>t DEF ReadDispatch, Conclude, Idle, Local, HandPC, DaemonCalm
  <2> QED
    BY <1>23, <2>1, <2>2, <2>3 DEF ReadDispatch, Calm
<1>24. CASE WriteGroup(p)
  <2>1. Releases
    BY <1>24, SameLedger DEF WriteGroup, db
  <2>2. NoneQueued
    BY <1>24, SameQueued DEF WriteGroup, db
  <2>3. DaemonCalm
    BY <1>24, <1>t DEF WriteGroup, Idle, Local, HandPC, DaemonCalm
  <2> QED
    BY <1>24, <2>1, <2>2, <2>3 DEF WriteGroup, Calm
<1>25. CASE CheckTerminal(p)
  <2>1. Releases
    BY <1>25, SameLedger DEF CheckTerminal, db
  <2>2. NoneQueued
    BY <1>25, SameQueued DEF CheckTerminal, db
  <2>3. DaemonCalm
    BY <1>25, GotoCalm, ReturnCalm DEF CheckTerminal, AfterDrain, HandPC
  <2> QED
    BY <1>25, <2>1, <2>2, <2>3 DEF CheckTerminal, Calm
<1>26. CASE DrainDispatch(p)
  <2>1. Releases
    BY <1>26, SameLedger DEF DrainDispatch, db
  <2>2. NoneQueued
    BY <1>26 DEF DrainDispatch, NoneQueued, Waiting, Unused, Shape, TypeOK
  <2>3. DaemonCalm
    BY <1>26, GotoCalm DEF DrainDispatch, HandPC
  <2> QED
    BY <1>26, <2>1, <2>2, <2>3 DEF DrainDispatch, Calm
<1>27. CASE DrainPending(p)
  <2>1. Releases
    BY <1>27, SameLedger DEF DrainPending, db
  <2>2. NoneQueued
    BY <1>27, SameQueued DEF DrainPending, db
  <2>3. DaemonCalm
    BY <1>27, GotoCalm, ReturnCalm DEF DrainPending, AfterDrain, HandPC
  <2> QED
    BY <1>27, <2>1, <2>2, <2>3 DEF DrainPending, Calm
<1> QED
  BY <1>1, <1>2, <1>3, <1>4, <1>5, <1>6, <1>7, <1>8, <1>9, <1>10, <1>11, <1>12, <1>13, <1>14, <1>15, <1>16, <1>17, <1>18, <1>19, <1>20, <1>21, <1>22, <1>23, <1>24, <1>25, <1>26, <1>27 DEF Step

LEMMA SignalCalm ==
  ASSUME Shape, NEW p \in Handler, NEW j \in JobId, Signal(p, j)
  PROVE  Calm
<1>1. UNCHANGED <<db, tick, crashes>> /\ \E r : th' = [th EXCEPT ![p] = r]
  BY DEF Signal, BeginFailure, BeginSuccess, BeginCancel, BeginRetry, BeginReport,
         BeginPromote, Begin
<1> QED
  BY <1>1, SameLedger, SameQueued, HandlerCalm DEF Calm, db

LEMMA GroupSignalCalm ==
  ASSUME Shape, NEW p \in Handler, GroupSignal(p)
  PROVE  Calm
<1>1. UNCHANGED <<job, ledger, tick>> /\ \E r : th' = [th EXCEPT ![p] = r]
  BY DEF GroupSignal, BeginCancelGroup, BeginAudit, Begin, db
<1> QED
  BY <1>1, SameLedger, SameQueued, HandlerCalm DEF Calm

LEMMA IdleCalm ==
  ASSUME UNCHANGED <<job, ledger, tick, th>>
  PROVE  Calm
  BY SameLedger, SameQueued DEF Calm, DaemonCalm

LEMMA CrashKeeps ==
  ASSUME Shape, DispatchInv, Crash
  PROVE  DispatchInv'
<1>1. /\ \A j \in JobId : Waiting(j)' => job'[j] = job[j] /\ job[j].status = "queued"
      /\ ledger' = ledger /\ th'[Daemon].pc = "idle"
  BY DEF Crash, Shape, TypeOK, Job, Waiting, Thread, Idle
<1>2. FreeUntilClaimed'
  BY <1>1 DEF DispatchInv, FreeUntilClaimed, Unlaunched, Waiting
<1>3. OneWaiting'
  BY <1>1 DEF DispatchInv, OneWaiting, Waiting
<1>4. HeldByDaemon'
  BY <1>1 DEF HeldByDaemon, InHand, Waiting
<1>5. FreeToEnqueue'
  BY <1>1 DEF FreeToEnqueue
<1> QED
  BY <1>2, <1>3, <1>4, <1>5 DEF DispatchInv

-----------------------------------------------------------------------------
\* A row leaves the daemon's hand: the daemon is the only one that holds any.
LEMMA HandEmptied ==
  ASSUME Shape, DispatchInv, th[Daemon].pc \in HandPC, NEW v \in Job,
         v.status \notin {"queued", "inhand"},
         job' = [job EXCEPT ![th[Daemon].job] = v],
         th'[Daemon].pc \notin HandPC \cup {"enqueue"},
         UNCHANGED ledger
  PROVE  DispatchInv'
<1>1. th[Daemon].job \in JobId
  BY HandJob
<1>2. \A j \in JobId : Waiting(j)' => job'[j] = job[j] /\ job[j].status = "queued"
  BY <1>1 DEF DispatchInv, HeldByDaemon, Shape, TypeOK, Waiting, InHand
<1>3. HeldByDaemon'
  BY <1>2 DEF HeldByDaemon, InHand, Waiting
<1>4. FreeToEnqueue'
  BY DEF FreeToEnqueue
<1>5. FreeUntilClaimed'
  BY <1>2 DEF DispatchInv, FreeUntilClaimed, Unlaunched, Waiting
<1>6. OneWaiting'
  BY <1>2 DEF DispatchInv, OneWaiting, Waiting
<1> QED
  BY <1>3, <1>4, <1>5, <1>6 DEF DispatchInv

LEMMA DispatchKeeps ==
  ASSUME Shape, DispatchInv, DispatchPhase
  PROVE  DispatchInv'
<1>d. /\ Daemon \in Thread /\ th \in [Thread -> Local] /\ th[Daemon] \in Local
      /\ job \in [JobId -> Job] /\ ledger \in [Chunk -> JobId \cup {NoJob}]
  BY DEF Shape, TypeOK, Thread
<1>1. ASSUME NEW j \in JobId, Dequeue(j) PROVE DispatchInv'
  <2>1. /\ job[j].status = "queued" /\ th[Daemon].pc = "idle" /\ ledger' = ledger
        /\ job' = [job EXCEPT ![j].status = "inhand"]
        /\ th'[Daemon].pc = "qGroup" /\ th'[Daemon].job = j
    BY <1>1, <1>d DEF Dequeue, SetStatus, Idle
  <2>2. \A k \in JobId : ~InHand(k)
    BY <2>1 DEF DispatchInv, HeldByDaemon, HandPC
  <2>3. \A k \in JobId : /\ job'[k].chunk = job[k].chunk
                         /\ Waiting(k)' <=> Waiting(k)
                         /\ InHand(k)' => k = j
                         /\ Unlaunched(k)' => Unlaunched(k)
    BY <1>d, <2>1, <2>2 DEF Job, Waiting, InHand, Unlaunched
  <2> QED
    BY <2>1, <2>3 DEF DispatchInv, HeldByDaemon, HandPC, FreeToEnqueue,
                      FreeUntilClaimed, OneWaiting
<1>2. CASE GuardTerminalGroup
  <2>1. CASE group \in ActiveGroup
    <3>1. /\ UNCHANGED <<job, ledger>> /\ th[Daemon].pc = "qGroup"
          /\ th'[Daemon] = [th[Daemon] EXCEPT !.pc = "claim"]
      BY <1>2, <1>d, <2>1 DEF GuardTerminalGroup, Goto
    <3>2. th'[Daemon].pc = "claim" /\ th'[Daemon].job = th[Daemon].job
      BY <1>d, <3>1 DEF Local
    <3> QED
      BY <3>1, <3>2 DEF DispatchInv, HeldByDaemon, HandPC, FreeToEnqueue,
                        FreeUntilClaimed, OneWaiting, Waiting, InHand, Unlaunched
  <2>2. CASE group \notin ActiveGroup
    <3>1. /\ job' = [job EXCEPT ![th[Daemon].job] = Unused] /\ UNCHANGED ledger
          /\ th[Daemon].pc = "qGroup" /\ th'[Daemon] = Idle
      BY <1>2, <1>d, <2>2 DEF GuardTerminalGroup, Return
    <3>2. Unused \in Job /\ Unused.status = "unused" /\ Idle.pc = "idle"
      BY DEF Unused, Idle, Job, JobStatus
    <3> QED
      BY <3>1, <3>2, HandEmptied DEF HandPC
  <2> QED
    BY <2>1, <2>2
<1>3. CASE ClaimOrReplace
  <2> DEFINE i == th[Daemon].job
             c == MyChunk(Daemon)
  <2>1. /\ th[Daemon].pc = "claim" /\ job' = job
        /\ th'[Daemon] = [th[Daemon] EXCEPT !.pc = "create"]
        /\ ledger' = [ledger EXCEPT ![c] = i]
    BY <1>3, <1>d DEF ClaimOrReplace, Goto
  <2>2. th'[Daemon].pc = "create" /\ th'[Daemon].job = i
    BY <1>d, <2>1 DEF Local
  <2>3. i \in JobId /\ InHand(i) /\ job[i].chunk = c /\ c \in Chunk
    BY <2>1, HandJob DEF HandPC, MyChunk
  <2>4. HeldByDaemon'
    BY <2>1, <2>2 DEF DispatchInv, HeldByDaemon, InHand, HandPC
  <2>5. OneWaiting'
    BY <2>1 DEF DispatchInv, OneWaiting, Waiting
  <2>6. FreeUntilClaimed'
    <3> SUFFICES ASSUME NEW k \in JobId, Unlaunched(k)' PROVE ledger'[job'[k].chunk] = NoJob
      BY DEF FreeUntilClaimed
    <3>1. job[k].status = "queued" /\ job[i].status = "inhand"
      BY <2>1, <2>2, <2>3 DEF Unlaunched, InHand
    <3>2. job[k].chunk # c
      BY <2>3, <3>1 DEF DispatchInv, OneWaiting, Waiting
    <3>3. job[k].chunk \in Chunk /\ ledger[job[k].chunk] = NoJob
      BY <3>1 DEF DispatchInv, FreeUntilClaimed, Unlaunched, Shape, JobShape
    <3> QED
      BY <1>d, <2>1, <3>2, <3>3
  <2>7. FreeToEnqueue'
    BY <2>2 DEF FreeToEnqueue
  <2> QED
    BY <2>4, <2>5, <2>6, <2>7 DEF DispatchInv
<1>4. CASE CreateJob
  <2> DEFINE v == [job[th[Daemon].job] EXCEPT !.status = "pending"]
  <2>1. /\ th[Daemon].pc = "create" /\ UNCHANGED ledger
        /\ job' = [job EXCEPT ![th[Daemon].job] = v]
        /\ th'[Daemon] = [th[Daemon] EXCEPT !.pc = "launch"]
    BY <1>4, <1>d DEF CreateJob, SetStatus, Goto
  <2>2. job[th[Daemon].job] \in Job /\ th'[Daemon].pc = "launch"
    BY <1>d, <2>1, HandJob DEF HandPC, Local
  <2>3. v \in Job /\ v.status = "pending"
    BY <2>2 DEF Job, JobStatus, JobState
  <2> HIDE DEF v
  <2> QED
    BY <2>1, <2>2, <2>3, HandEmptied DEF HandPC
<1>5. CASE Launch
  <2>1. UNCHANGED <<job, ledger, tick>> /\ th[Daemon].pc = "launch"
    BY <1>5 DEF Launch, db
  <2>2. th'[Daemon].pc \in {"idle", "cas"}
    BY <1>5, <1>d DEF Launch, Return, Idle, Local
  <2>3. Calm
    BY <2>1, <2>2, SameLedger, SameQueued DEF Calm, DaemonCalm, HandPC
  <2> QED
    BY <2>3, CalmKeeps
<1>6. CASE LoseDispatch
  <2> DEFINE v == [job[th[Daemon].job] EXCEPT !.status = "lost"]
  <2>1. /\ th[Daemon].pc \in {"claim", "create"} /\ UNCHANGED ledger
        /\ job' = [job EXCEPT ![th[Daemon].job] = v]
        /\ th'[Daemon] = Idle
    BY <1>6, <1>d DEF LoseDispatch, SetStatus, Return
  <2>2. job[th[Daemon].job] \in Job /\ th'[Daemon].pc = "idle"
    BY <1>d, <2>1, HandJob DEF HandPC, Idle
  <2>3. v \in Job /\ v.status = "lost"
    BY <2>2 DEF Job, JobStatus, JobState
  <2> HIDE DEF v
  <2> QED
    BY <2>1, <2>2, <2>3, HandEmptied DEF HandPC
<1> QED
  BY <1>1, <1>2, <1>3, <1>4, <1>5, <1>6 DEF DispatchPhase

LEMMA TickKeeps ==
  ASSUME DispatchInv, UNCHANGED <<job, ledger>>, FreeToEnqueue',
         th[Daemon].pc \notin HandPC
  PROVE  DispatchInv'
<1>1. \A j \in JobId : ~InHand(j) /\ ~InHand(j)' /\ (Waiting(j)' <=> Waiting(j))
  BY DEF DispatchInv, HeldByDaemon, InHand, Waiting
<1>2. \A j \in JobId : Unlaunched(j)' => Unlaunched(j)
  BY <1>1 DEF Unlaunched, InHand
<1> QED
  BY <1>1, <1>2 DEF DispatchInv, HeldByDaemon, FreeUntilClaimed, OneWaiting

LEMMA PendingKeeps ==
  ASSUME Shape, DispatchInv, PendingPhase
  PROVE  DispatchInv'
<1>d. Daemon \in Thread /\ th \in [Thread -> Local] /\ th[Daemon] \in Local
  BY DEF Shape, TypeOK, Thread
<1>1. CASE ListAll
  <2>1. /\ UNCHANGED <<job, ledger>>
        /\ th[Daemon].pc = "idle" /\ th'[Daemon].pc = "batch"
    BY <1>1, <1>d DEF ListAll, db, Idle
  <2> QED
    BY <2>1, TickKeeps DEF HandPC, FreeToEnqueue
<1>2. CASE EndBatch
  <2>1. /\ UNCHANGED <<job, ledger>>
        /\ th[Daemon].pc = "batch" /\ th'[Daemon].pc = "idle"
    BY <1>2, <1>d DEF EndBatch, db, Return, Idle
  <2> QED
    BY <2>1, TickKeeps DEF HandPC, FreeToEnqueue
<1>3. CASE DeleteRow
  <2>1. /\ UNCHANGED <<job, ledger>>
        /\ th[Daemon].pc = "owner" /\ th'[Daemon].pc = "batch"
    BY <1>3, <1>d DEF DeleteRow, Goto, Local
  <2> QED
    BY <2>1, TickKeeps DEF HandPC, FreeToEnqueue
<1>4. CASE Enqueue
  <2>1. /\ UNCHANGED ledger
        /\ th[Daemon].pc = "enqueue" /\ th'[Daemon].pc = "owner"
    BY <1>4, <1>d DEF Enqueue, Goto, Local
  <2>2. ledger[tick.chunk] = NoJob /\ \A j \in JobId : ~InHand(j)
    BY <2>1 DEF DispatchInv, FreeToEnqueue, HeldByDaemon, HandPC
  <2>3. CASE UNCHANGED job
    BY <2>1, <2>3, TickKeeps DEF HandPC, FreeToEnqueue
  <2>4. ASSUME NEW j \in JobId, ~Queued(tick.chunk),
               job' = [job EXCEPT ![j] = [chunk |-> tick.chunk,
                          attempt |-> tick.row.attempt, status |-> "queued"]]
        PROVE  DispatchInv'
    <3>1. /\ job'[j].status = "queued" /\ job'[j].chunk = tick.chunk
          /\ \A k \in JobId : k # j => job'[k] = job[k]
      BY <2>4 DEF Shape, TypeOK
    <3>2. \A k \in JobId : k # j /\ Waiting(k)' =>
            job[k].status = "queued" /\ job[k].chunk # tick.chunk
      BY <2>2, <2>4, <3>1 DEF Waiting, InHand, Queued
    <3>3. OneWaiting'
      BY <3>1, <3>2 DEF DispatchInv, OneWaiting, Waiting
    <3>4. FreeUntilClaimed'
      BY <2>1, <2>2, <3>1, <3>2 DEF DispatchInv, FreeUntilClaimed, Unlaunched, Waiting
    <3>5. HeldByDaemon'
      BY <2>2, <3>1 DEF HeldByDaemon, InHand
    <3>6. FreeToEnqueue'
      BY <2>1 DEF FreeToEnqueue
    <3> QED
      BY <3>3, <3>4, <3>5, <3>6 DEF DispatchInv
  <2> QED
    BY <1>4, <2>3, <2>4 DEF Enqueue, LeastFree
<1>5. ASSUME NEW r \in tick.batch, PlanRow(r) PROVE DispatchInv'
  <2>1. /\ UNCHANGED <<job, ledger>>
        /\ th[Daemon].pc = "batch" /\ th'[Daemon].pc = "owner"
    BY <1>5, <1>d DEF PlanRow, db, Goto, Local
  <2> QED
    BY <2>1, TickKeeps DEF HandPC, FreeToEnqueue
<1>6. ASSUME NEW r \in tick.batch, SkipRow(r) PROVE DispatchInv'
  BY <1>6, TickKeeps DEF SkipRow, db, HandPC, FreeToEnqueue
<1>7. ASSUME NEW c \in Chunk, CheckOwner(c) PROVE DispatchInv'
  <2>1. UNCHANGED <<job, ledger>> /\ th[Daemon].pc = "owner"
    BY <1>7 DEF CheckOwner, db
  <2>2. FreeToEnqueue'
    <3>1. CASE UNCHANGED th
      BY <2>1, <3>1 DEF FreeToEnqueue
    <3>2. CASE ledger[c] = NoJob /\ tick' = [tick EXCEPT !.plan = @ \ {c}, !.chunk = c]
      <4>1. tick'.chunk = c
        BY <3>2 DEF Shape, TypeOK
      <4> QED
        BY <2>1, <3>2, <4>1 DEF FreeToEnqueue
    <3> QED
      BY <1>7, <3>1, <3>2 DEF CheckOwner
  <2> QED
    BY <2>1, <2>2, TickKeeps DEF HandPC
<1> QED
  BY <1>1, <1>2, <1>3, <1>4, <1>5, <1>6, <1>7 DEF PendingPhase

-----------------------------------------------------------------------------
LEMMA DispatchStep == Shape /\ DispatchInv /\ [Next]_vars => DispatchInv'
<1> SUFFICES ASSUME Shape, DispatchInv, [Next]_vars PROVE DispatchInv'
  OBVIOUS
<1>1. ASSUME NEW p \in Handler, NEW j \in JobId, Signal(p, j) PROVE DispatchInv'
  BY <1>1, SignalCalm, CalmKeeps
<1>2. ASSUME NEW p \in Handler, GroupSignal(p) PROVE DispatchInv'
  BY <1>2, GroupSignalCalm, CalmKeeps
<1>3. ASSUME NEW p \in Thread, Step(p) PROVE DispatchInv'
  BY <1>3, StepCalm, CalmKeeps
<1>4. ASSUME NEW j \in JobId, Upload(j) PROVE DispatchInv'
  BY <1>4, IdleCalm, CalmKeeps DEF Upload
<1>5. CASE DispatchPhase
  BY <1>5, DispatchKeeps
<1>6. CASE PendingPhase
  BY <1>6, PendingKeeps
<1>7. CASE Crash
  BY <1>7, CrashKeeps
<1>8. CASE UNCHANGED vars
  BY <1>8, IdleCalm, CalmKeeps DEF vars
<1> QED
  BY <1>1, <1>2, <1>3, <1>4, <1>5, <1>6, <1>7, <1>8 DEF Next

LEMMA DispatchAlways == Spec => [](Shape /\ DispatchInv)
<1>1. Init => Shape /\ DispatchInv
  BY ShapeInit, DispatchInit
<1>2. Shape /\ DispatchInv /\ [Next]_vars => (Shape /\ DispatchInv)'
  BY ShapeStep, DispatchStep
<1> QED
  BY <1>1, <1>2, PTL DEF Spec

(* A chunk is never on its way to two machines: from its dispatch_queue    *)
(* row to the daemon's claim no second row of it waits and no job owns it, *)
(* through any interleaving of handlers and any number of restarts.        *)
THEOREM OneDispatch == Spec => []OneDispatchPerChunk
<1>1. Shape /\ DispatchInv => OneDispatchPerChunk
  BY DispatchInvSuffices
<1> QED
  BY <1>1, DispatchAlways, PTL

\* What one step may do to a claim.
LEMMA ClaimStep ==
  ASSUME Shape, DispatchInv, [Next]_vars, NEW c \in Chunk, ledger[c] # NoJob
  PROVE  ledger'[c] \in {NoJob, ledger[c]}
<1>1. ASSUME NEW p \in Handler, NEW j \in JobId, Signal(p, j) PROVE Releases
  BY <1>1, SignalCalm DEF Calm
<1>2. ASSUME NEW p \in Handler, GroupSignal(p) PROVE Releases
  BY <1>2, GroupSignalCalm DEF Calm
<1>3. ASSUME NEW p \in Thread, Step(p) PROVE Releases
  BY <1>3, StepCalm DEF Calm
<1>4. ASSUME UNCHANGED ledger PROVE Releases
  BY <1>4, SameLedger
<1>5. CASE ClaimOrReplace
  <2>1. /\ th[Daemon].pc = "claim"
        /\ ledger' = [ledger EXCEPT ![MyChunk(Daemon)] = th[Daemon].job]
    BY <1>5 DEF ClaimOrReplace
  <2>2. ledger[MyChunk(Daemon)] = NoJob
    BY <2>1, HandJob
    DEF DispatchInv, FreeUntilClaimed, Unlaunched, InHand, HandPC, MyChunk
  <2>3. MyChunk(Daemon) # c
    BY <2>2
  <2> QED
    BY <2>1, <2>3 DEF Shape, TypeOK
<1>6. ASSUME DispatchPhase, ~ClaimOrReplace PROVE UNCHANGED ledger
  BY <1>6 DEF DispatchPhase, Dequeue, GuardTerminalGroup, CreateJob, Launch, LoseDispatch, db
<1>7. ASSUME PendingPhase PROVE UNCHANGED ledger
  BY <1>7 DEF PendingPhase, ListAll, EndBatch, DeleteRow, Enqueue, PlanRow, SkipRow,
              CheckOwner, db
<1>8. ASSUME ~ClaimOrReplace PROVE Releases
  BY <1>1, <1>2, <1>3, <1>4, <1>6, <1>7, <1>8 DEF Next, Upload, Crash, vars
<1> QED
  BY <1>5, <1>8 DEF Releases

(* claim_or_replace never takes a chunk from a job that owns it: a claim   *)
(* is only ever released.                                                  *)
THEOREM NeverStolen == Spec => NoSteal
<1>1. Shape /\ DispatchInv /\ [Next]_vars
        => [\A c \in Chunk : ledger[c] # NoJob => ledger'[c] \in {NoJob, ledger[c]}]_vars
  BY ClaimStep
<1> QED
  BY <1>1, DispatchAlways, PTL DEF Spec, NoSteal

-----------------------------------------------------------------------------
(* Whom a claim names.  It is a job of the chunk that the daemon has taken *)
(* from the queue; and, short of a crash, one still to be settled.         *)
OwnerFit ==
  \A c \in Chunk : ledger[c] # NoJob =>
    job[ledger[c]].chunk = c /\ job[ledger[c]].status \notin {"unused", "queued"}

\* A handler's step: jobs stay the chunk's and the attempt's they were, in the
\* table or out of it; a drained row is gone.
SameTable ==
  \A j \in JobId :
    IF job[j].status \in {"unused", "queued"}
      THEN job'[j] \in {job[j], Unused}
      ELSE /\ job'[j].chunk = job[j].chunk /\ job'[j].attempt = job[j].attempt
           /\ IF InTable(j) THEN InTable(j)' ELSE job'[j] = job[j]

LEMMA StatusTable ==
  ASSUME Shape, NEW j \in JobId, InTable(j), NEW s \in JobState, SetStatus(j, s)
  PROVE  SameTable
  BY DEF Shape, TypeOK, Job, SameTable, InTable, SetStatus, JobState

LEMMA StepTable ==
  ASSUME Shape, NEW p \in Thread, Step(p)
  PROVE  SameTable
<1>1. ASSUME UNCHANGED job PROVE SameTable
  BY <1>1 DEF SameTable, InTable
<1>2. CASE MarkFailed(p) \/ MarkDone(p) \/ MarkCancelled(p) \/ WriteReported(p)
  <2>1. th[p].pc \in JobPC /\ \E s \in JobState : SetStatus(th[p].job, s)
    BY <1>2 DEF MarkFailed, MarkDone, MarkCancelled, WriteReported, JobPC, JobState
  <2> QED
    BY <2>1, MyJob, StatusTable
<1>3. CASE MarkNextCancelled(p)
  <2>1. CASE \E j \in th[p].todo : SetStatus(j, "cancelled")
    <3>1. PICK j \in th[p].todo : SetStatus(j, "cancelled")
      BY <2>1
    <3>2. j \in JobId /\ InTable(j)
      BY <3>1 DEF Shape, TypeOK, Local, Fit
    <3> QED
      BY <3>1, <3>2, StatusTable DEF JobState
  <2> QED
    BY <1>1, <1>3, <2>1 DEF MarkNextCancelled
<1>4. CASE DrainDispatch(p)
  BY <1>4 DEF DrainDispatch, SameTable, InTable, JobState, Shape, TypeOK
<1> QED
  BY <1>1, <1>2, <1>3, <1>4
  DEF Step, db, ReleaseIfOwner, LoadJobAndGroup, ComputeRemaining, ParkRetry, ReleaseLedger,
      ReleaseUnconditional, ReadActiveJobs, ReleaseAll, RefuseIfActiveSibling,
      ResolveLatestSibling, RefuseIfNoRemaining, FlipGroupPending, ParkManualRetry, ReadGroup,
      ReadJobs, ReadFrames, ReadPending, ReadDispatch, WriteGroup, CheckTerminal, DrainPending

LEMMA SignalTable ==
  ASSUME UNCHANGED job
  PROVE  SameTable
  BY DEF SameTable, InTable

LEMMA OwnerFitCalm ==
  ASSUME Shape, OwnerFit, Releases, SameTable
  PROVE  OwnerFit'
<1> SUFFICES ASSUME NEW c \in Chunk, ledger'[c] # NoJob
             PROVE  /\ job'[ledger'[c]].chunk = c
                    /\ job'[ledger'[c]].status \notin {"unused", "queued"}
  BY DEF OwnerFit
<1>1. ledger'[c] = ledger[c] /\ ledger[c] \in JobId
  BY DEF Releases, Shape, TypeOK
<1> QED
  BY <1>1 DEF OwnerFit, SameTable, InTable, JobState

\* The daemon never drops a row that has been claimed.
LEMMA HandUnclaimed ==
  ASSUME Shape, DispatchInv, OwnerFit, th[Daemon].pc \in {"qGroup", "claim"},
         NEW c \in Chunk
  PROVE  ledger[c] # th[Daemon].job
<1>1. /\ th[Daemon].job \in JobId /\ InHand(th[Daemon].job)
      /\ ledger[job[th[Daemon].job].chunk] = NoJob
  BY HandJob DEF HandPC, DispatchInv, FreeUntilClaimed, Unlaunched, InHand
<1> QED
  BY <1>1 DEF OwnerFit, NoJob, JobId, Shape, TypeOK

LEMMA OwnerFitStep == Shape /\ DispatchInv /\ OwnerFit /\ [Next]_vars => OwnerFit'
<1> SUFFICES ASSUME Shape, DispatchInv, OwnerFit, [Next]_vars PROVE OwnerFit'
  OBVIOUS
<1>d. /\ job \in [JobId -> Job] /\ ledger \in [Chunk -> JobId \cup {NoJob}] /\ NoJob \notin JobId
  BY DEF Shape, TypeOK, NoJob, JobId
<1>1. ASSUME UNCHANGED <<job, ledger>> PROVE OwnerFit'
  BY <1>1 DEF OwnerFit
<1>2. ASSUME NEW p \in Thread, Step(p) PROVE OwnerFit'
  BY <1>2, StepCalm, StepTable, OwnerFitCalm DEF Calm
<1>3. ASSUME NEW j \in JobId, NEW s \in JobStatus \ {"unused", "queued"}, SetStatus(j, s),
             UNCHANGED ledger
      PROVE  OwnerFit'
  BY <1>3, <1>d DEF OwnerFit, SetStatus, Job
<1>4. CASE DispatchPhase
  <2>1. ASSUME NEW j \in JobId, Dequeue(j) PROVE OwnerFit'
    BY <2>1, <1>3 DEF Dequeue, JobStatus
  <2>2. CASE GuardTerminalGroup
    <3>1. \A c \in Chunk : ledger[c] # th[Daemon].job
      BY <2>2, HandUnclaimed DEF GuardTerminalGroup
    <3>2. /\ UNCHANGED ledger
          /\ \/ UNCHANGED job
             \/ job' = [job EXCEPT ![th[Daemon].job] = Unused]
      BY <2>2 DEF GuardTerminalGroup
    <3> QED
      BY <3>1, <3>2, <1>d DEF OwnerFit
  <2>3. CASE ClaimOrReplace
    BY <2>3, <1>d, HandJob DEF ClaimOrReplace, OwnerFit, HandPC, InHand, MyChunk
  <2>4. CASE CreateJob \/ LoseDispatch
    <3>1. th[Daemon].pc \in HandPC /\ UNCHANGED ledger
          /\ \E s \in {"pending", "lost"} : SetStatus(th[Daemon].job, s)
      BY <2>4 DEF CreateJob, LoseDispatch, HandPC
    <3> QED
      BY <3>1, <1>3, HandJob DEF JobStatus, JobState
  <2>5. CASE Launch
    BY <2>5, <1>1 DEF Launch, db
  <2> QED
    BY <1>4, <2>1, <2>2, <2>3, <2>4, <2>5 DEF DispatchPhase
<1>5. CASE PendingPhase
  <2>1. CASE Enqueue
    <3>1. ASSUME NEW j \in JobId, job[j] = Unused, NEW v \in Job, UNCHANGED ledger,
                 job' = [job EXCEPT ![j] = v]
          PROVE  OwnerFit'
      BY <3>1, <1>d DEF OwnerFit, Unused
    <3> QED
      BY <1>1, <2>1, <1>d DEF Enqueue, LeastFree, OwnerFit, Unused
  <2> QED
    BY <1>1, <1>5, <2>1 DEF PendingPhase, ListAll, EndBatch, DeleteRow, PlanRow, SkipRow,
                            CheckOwner, db
<1>6. CASE Crash
  BY <1>6, <1>d DEF Crash, OwnerFit, Job
<1> QED
  BY <1>1, <1>2, <1>4, <1>5, <1>6
  DEF Next, vars, Signal, BeginFailure, BeginSuccess, BeginCancel, BeginRetry, BeginReport,
      BeginPromote, GroupSignal, BeginCancelGroup, BeginAudit, Upload, db

LEMMA OwnerFitAlways == Spec => [](Shape /\ DispatchInv /\ OwnerFit)
<1>1. Init => OwnerFit
  BY DEF Init, OwnerFit
<1> QED
  BY <1>1, OwnerFitStep, DispatchAlways, PTL DEF Spec

-----------------------------------------------------------------------------
\* The entry point a thread is in, where its next steps depend on it.
OpsOf(p) == {"none", "stale"} \cup
            IF p = Daemon THEN {"dispatch", "plan", "failure"} ELSE Does[p]
OpFit(p) ==
  /\ th[p].op \in OpsOf(p)
  /\ th[p].pc \in {"gJobs", "gMark", "gUnclaim"} => th[p].op = "cancelGroup"
  /\ th[p].pc \in {"mLedger", "mLatest", "mRemaining", "mFlip"} => th[p].op = "retry"
  /\ th[p].pc \in {"markCancelled", "unclaim"} => th[p].op = "cancel"
  /\ th[p].pc = "report" => th[p].op \in {"report", "reportDone", "promote"}

\* The handler at work that will release the claim of j, which it has marked.
TearsDown(p, j) ==
  \/ th[p].pc = "unclaim" /\ th[p].job = j
  \/ /\ th[p].op = "cancelGroup"
     /\ th[p].pc \in {"gMark", "dGroup", "dDispatch", "dPending", "gUnclaim"}

Live(j) == job[j].status \in ActiveJob \cup {"inhand", "lost"}

Accounted(j) ==
  \/ Live(j)
  \/ job[j].status = "cancelled" /\ \E p \in Thread : TearsDown(p, j)

Owner(j)  == \E c \in Chunk : ledger[c] = j
OwnerLive == \A j \in JobId : Owner(j) => Accounted(j)

\* A failure, success or cancel past its release: its job owns nothing.
PastRelease(p) ==
  \/ th[p].pc \in {"load", "remaining", "markFailed", "markDone"}
  \/ th[p].pc = "park" /\ th[p].op # "retry"
Disowned(p) == PastRelease(p) => ledger[MyChunk(p)] # th[p].job

LedgerInv == crashes = 0 => OwnerLive /\ \A p \in Thread : Disowned(p)

\* What a step of thread p must not do to a claim it leaves in place.
KeepsOwner(p, j) ==
  /\ \/ job'[j].status = job[j].status
     \/ Live(j)'
     \/ job'[j].status = "cancelled" /\ TearsDown(p, j)'
  /\ TearsDown(p, j) => TearsDown(p, j)'

LEMMA LedgerKept ==
  ASSUME Shape, Shape', OwnerFit, LedgerInv, Releases, SameTable, NEW p \in Thread, Others(p),
         crashes' = crashes, Disowned(p)',
         \A j \in JobId : Owner(j)' => KeepsOwner(p, j)
  PROVE  LedgerInv'
<1> SUFFICES ASSUME crashes = 0 PROVE OwnerLive' /\ \A q \in Thread : Disowned(q)'
  BY DEF LedgerInv
<1>1. OwnerLive'
  <2> SUFFICES ASSUME NEW j \in JobId, Owner(j)' PROVE Accounted(j)'
    BY DEF OwnerLive
  <2>1. Owner(j) /\ KeepsOwner(p, j)
    BY DEF Owner, Releases, NoJob, JobId
  <2>2. CASE Live(j)
    BY <2>1, <2>2 DEF KeepsOwner, Accounted, Live
  <2>3. ASSUME job[j].status = "cancelled", NEW q \in Thread, TearsDown(q, j)
        PROVE  Accounted(j)'
    <3>1. TearsDown(q, j)'
      BY <2>1, <2>3 DEF KeepsOwner, Others, TearsDown
    <3> QED
      BY <2>1, <2>3, <3>1 DEF KeepsOwner, Accounted
  <2> QED
    BY <2>1, <2>2, <2>3 DEF LedgerInv, OwnerLive, Accounted
<1>2. ASSUME NEW q \in Thread \ {p}, PastRelease(q)' PROVE ledger'[MyChunk(q)'] # th'[q].job
  <2>1. th'[q] = th[q] /\ PastRelease(q)
    BY <1>2 DEF Others, PastRelease
  <2>2. th[q].job \in JobId /\ InTable(th[q].job) /\ MyChunk(q) \in Chunk
    BY <2>1, MyJob DEF PastRelease, JobPC
  <2>3. MyChunk(q)' = MyChunk(q)
    BY <2>1, <2>2 DEF SameTable, MyChunk, InTable, JobState
  <2>4. ledger[MyChunk(q)] # th[q].job
    BY <2>1 DEF LedgerInv, Disowned
  <2> QED
    BY <2>1, <2>2, <2>3, <2>4 DEF Releases, NoJob, JobId
<1> QED
  BY <1>1, <1>2 DEF Disowned

\* Steps that change neither claims nor jobs.
LEMMA LedgerUntouched ==
  ASSUME Shape, Shape', OwnerFit, LedgerInv, NEW p \in Thread, Others(p),
         UNCHANGED <<job, ledger, crashes>>, crashes = 0 => Disowned(p)',
         \A j \in JobId : TearsDown(p, j) => TearsDown(p, j)'
  PROVE  LedgerInv'
<1> SUFFICES ASSUME crashes = 0 PROVE LedgerInv'
  BY DEF LedgerInv
<1>1. Releases /\ SameTable
  BY SameLedger, SignalTable
<1>2. \A j \in JobId : Owner(j)' => KeepsOwner(p, j)
  BY DEF KeepsOwner
<1> QED
  BY <1>1, <1>2, LedgerKept

\* What a step makes of thread p's record.
LEMMA OpMoves ==
  ASSUME NEW p \in Thread, \A q \in Thread : OpFit(q), Others(p), OpFit(p)'
  PROVE  \A q \in Thread : OpFit(q)'
  BY DEF OpFit, Others

LEMMA OpGoes ==
  ASSUME Shape, NEW p \in Thread, OpFit(p), NEW l, Goto(p, l),
         l \in {"gUnclaim"} => th[p].op = "cancelGroup",
         l \in {"mLatest", "mRemaining", "mFlip"} => th[p].op = "retry",
         l = "unclaim" => th[p].op = "cancel",
         l \notin {"gJobs", "gMark", "mLedger", "markCancelled", "report"}
  PROVE  Others(p) /\ OpFit(p)'
  BY DEF Shape, TypeOK, Local, Goto, Others, OpFit

LEMMA OpReturns ==
  ASSUME Shape, NEW p \in Thread, NEW r,
         r.op = "none", r.pc \notin {"gJobs", "gMark", "gUnclaim", "mLedger", "mLatest",
                                     "mRemaining", "mFlip", "markCancelled", "unclaim",
                                     "report"},
         th' = [th EXCEPT ![p] = r]
  PROVE  Others(p) /\ OpFit(p)'
  BY DEF Shape, TypeOK, Others, OpFit, OpsOf

LEMMA OpInit == Init => \A p \in Thread : OpFit(p)
  BY DEF Init, OpFit, OpsOf, Idle

LEMMA StepOp ==
  ASSUME Shape, NEW p \in Thread, OpFit(p), Step(p)
  PROVE  Others(p) /\ OpFit(p)'
<1>t. th \in [Thread -> Local] /\ th[p] \in Local
  BY DEF Shape, TypeOK
<1>0. ASSUME Return(p) PROVE Others(p) /\ OpFit(p)'
  BY <1>0, OpReturns DEF Return, Idle
<1>1. CASE ReleaseIfOwner(p)
  BY <1>1, <1>t DEF ReleaseIfOwner, Goto, Local, Others, OpFit, OpsOf
<1>2. CASE LoadJobAndGroup(p) \/ ComputeRemaining(p) \/ ParkRetry(p) \/ ReleaseLedger(p)
           \/ MarkCancelled(p) \/ ReleaseUnconditional(p) \/ DrainDispatch(p)
  <2>1. \E l \in {"rGroup", "markFailed", "remaining", "park", "markDone", "unclaim", "load",
                  "dPending"} : Goto(p, l) /\ (l = "unclaim" => th[p].op = "cancel")
    BY <1>2 DEF LoadJobAndGroup, ComputeRemaining, ParkRetry, ReleaseLedger, MarkCancelled,
                ReleaseUnconditional, DrainDispatch, AfterRetry, OpFit
  <2> QED
    BY <2>1, OpGoes
<1>3. CASE MarkFailed(p) \/ MarkDone(p) \/ WriteReported(p) \/ WriteGroup(p) \/ ReadGroup(p)
  <2>1. Others(p) /\ th'[p].op = "none" /\ th'[p].pc \in {"dGroup", "rGroup", "idle", "rJobs"}
    <3>1. CASE MarkFailed(p) \/ MarkDone(p)
      BY <3>1, <1>t DEF MarkFailed, MarkDone, Idle, Others
    <3>2. CASE WriteReported(p)
      BY <3>2, <1>t DEF WriteReported, Idle, Others
    <3>3. CASE WriteGroup(p) \/ ReadGroup(p)
      BY <3>3, <1>t DEF WriteGroup, ReadGroup, Idle, Others
    <3> QED
      BY <1>3, <3>1, <3>2, <3>3
  <2> QED
    BY <2>1 DEF OpFit, OpsOf
<1>4. CASE ReadActiveJobs(p) \/ MarkNextCancelled(p)
  <2>1. Others(p) /\ th[p].op = "cancelGroup" /\ th'[p].op = th[p].op
        /\ th'[p].pc \in {"gMark", "dGroup"}
    BY <1>4, <1>t DEF ReadActiveJobs, MarkNextCancelled, Goto, Local, Others, OpFit
  <2> QED
    BY <2>1 DEF OpFit
<1>5. CASE \/ RefuseIfActiveSibling(p) \/ RefuseIfNoRemaining(p)
           \/ FlipGroupPending(p) \/ ParkManualRetry(p)
  <2>1. \/ Return(p)
        \/ /\ th[p].op = "retry"
           /\ \E l \in {"mLatest", "mRemaining", "mFlip", "park"} : Goto(p, l)
    BY <1>5 DEF RefuseIfActiveSibling, RefuseIfNoRemaining, FlipGroupPending, ParkManualRetry,
                OpFit
  <2> QED
    BY <1>0, <2>1, OpGoes
<1>6. CASE ResolveLatestSibling(p)
  <2>1. \/ Return(p)
        \/ /\ Others(p) /\ th[p].op = "retry" /\ th'[p].op = "retry"
           /\ th'[p].pc = "mRemaining"
    BY <1>6, <1>t DEF ResolveLatestSibling, Local, Others, OpFit
  <2> QED
    BY <1>0, <2>1 DEF OpFit
<1>7. CASE ReadJobs(p) \/ ReadFrames(p)
  <2>1. Others(p) /\ th'[p].op = th[p].op /\ th'[p].pc \in {"rFrames", "rPending"}
    BY <1>7, <1>t DEF ReadJobs, ReadFrames, Local, Others
  <2> QED
    BY <2>1 DEF OpFit
<1>8. ASSUME NEW q \in BOOLEAN, Conclude(p, q) PROVE Others(p) /\ OpFit(p)'
  <2>1. Others(p) /\ th'[p].op = "none" /\ th'[p].pc \in {"rWrite", "dGroup"}
    BY <1>8, <1>t DEF Conclude, Idle, Others
  <2> QED
    BY <2>1 DEF OpFit, OpsOf
<1>9. CASE ReadPending(p) \/ ReadDispatch(p)
  <2>1. Goto(p, "rDispatch") \/ \E q \in BOOLEAN : Conclude(p, q)
    BY <1>9 DEF ReadPending, ReadDispatch
  <2> QED
    BY <2>1, <1>8, OpGoes
<1>10. CASE CheckTerminal(p) \/ DrainPending(p) \/ ReleaseAll(p)
  <2>1. \/ Return(p) \/ Goto(p, "dDispatch")
        \/ th[p].op = "cancelGroup" /\ Goto(p, "gUnclaim")
    BY <1>10 DEF CheckTerminal, DrainPending, ReleaseAll, AfterDrain
  <2> QED
    BY <1>0, <2>1, OpGoes
<1> QED
  BY <1>1, <1>2, <1>3, <1>4, <1>5, <1>6, <1>7, <1>9, <1>10 DEF Step

LEMMA SignalOp ==
  ASSUME Shape, NEW p \in Handler, \/ \E j \in JobId : Signal(p, j)
                                  \/ GroupSignal(p)
  PROVE  Others(p) /\ OpFit(p)' /\ th'[p].pc \in {"cas", "release", "markCancelled", "mLedger",
                                                "report", "gJobs", "rGroup"}
<1>t. th \in [Thread -> Local] /\ p \in Thread /\ p # Daemon
  BY ConstantsOK DEF Shape, TypeOK, Thread
<1>1. ASSUME NEW l, NEW o, NEW j, Begin(p, l, o, j),
             l = "gJobs" => o = "cancelGroup", l = "markCancelled" => o = "cancel",
             l = "report" => o \in {"report", "reportDone", "promote"},
             l \in {"cas", "release", "markCancelled", "report", "gJobs", "rGroup"}
      PROVE  Others(p) /\ OpFit(p)' /\ th'[p].pc = l
  BY <1>t, <1>1 DEF Begin, Idle, Others, OpFit, OpsOf
<1>2. ASSUME NEW j \in JobId, BeginRetry(p, j)
      PROVE  Others(p) /\ OpFit(p)' /\ th'[p].pc = "mLedger"
  BY <1>t, <1>2 DEF BeginRetry, Idle, Others, OpFit, OpsOf
<1> QED
  BY <1>1, <1>2 DEF Signal, GroupSignal, BeginFailure, BeginSuccess, BeginCancel, BeginReport,
                    BeginPromote, BeginCancelGroup, BeginAudit

LEMMA DaemonOp ==
  ASSUME Shape, OpFit(Daemon), DispatchPhase \/ PendingPhase
  PROVE  Others(Daemon) /\ OpFit(Daemon)'
<1>t. th \in [Thread -> Local] /\ Daemon \in Thread /\ th[Daemon] \in Local
  BY DEF Shape, TypeOK, Thread
<1>1. CASE \/ GuardTerminalGroup \/ ClaimOrReplace \/ CreateJob \/ LoseDispatch
           \/ EndBatch \/ DeleteRow \/ Enqueue
           \/ \E r \in tick.batch : PlanRow(r)
  <2>1. \/ Return(Daemon)
        \/ \E l \in {"claim", "create", "launch", "batch", "owner"} : Goto(Daemon, l)
    BY <1>1 DEF GuardTerminalGroup, ClaimOrReplace, CreateJob, LoseDispatch, EndBatch, DeleteRow,
                Enqueue, PlanRow
  <2> QED
    BY <1>t, <2>1, OpGoes, OpReturns DEF Return, Idle
<1>2. ASSUME NEW j \in JobId, Dequeue(j) PROVE Others(Daemon) /\ OpFit(Daemon)'
  BY <1>t, <1>2 DEF Dequeue, Idle, Others, OpFit, OpsOf
<1>3. CASE Launch
  BY <1>t, <1>3 DEF Launch, Return, Idle, Local, Others, OpFit, OpsOf
<1>4. CASE ListAll
  BY <1>t, <1>4 DEF ListAll, Idle, Others, OpFit, OpsOf
<1>5. ASSUME UNCHANGED th PROVE Others(Daemon) /\ OpFit(Daemon)'
  BY <1>5 DEF Others, OpFit
<1>6. ASSUME NEW c \in Chunk, CheckOwner(c) PROVE Others(Daemon) /\ OpFit(Daemon)'
  BY <1>t, <1>5, <1>6, OpGoes DEF CheckOwner
<1> QED
  BY <1>1, <1>2, <1>3, <1>4, <1>5, <1>6 DEF DispatchPhase, PendingPhase, SkipRow

LEMMA OpStep ==
  ASSUME Shape, \A p \in Thread : OpFit(p), [Next]_vars
  PROVE  \A p \in Thread : OpFit(p)'
<1>1. ASSUME NEW p \in Handler, \/ \E j \in JobId : Signal(p, j)
                                \/ GroupSignal(p)
      PROVE  \A q \in Thread : OpFit(q)'
  BY <1>1, SignalOp, OpMoves DEF Thread
<1>2. ASSUME NEW p \in Thread, Step(p) PROVE \A q \in Thread : OpFit(q)'
  BY <1>2, StepOp, OpMoves
<1>3. CASE DispatchPhase \/ PendingPhase
  BY <1>3, DaemonOp, OpMoves DEF Thread
<1>4. CASE Crash
  BY <1>4 DEF Crash, OpFit, OpsOf, Idle
<1>5. ASSUME UNCHANGED th PROVE \A q \in Thread : OpFit(q)'
  BY <1>5 DEF OpFit
<1> QED
  BY <1>1, <1>2, <1>3, <1>4, <1>5 DEF Next, Upload, vars

LEMMA StepLedger ==
  ASSUME Shape, Shape', DispatchInv, OwnerFit, \A q \in Thread : OpFit(q), LedgerInv,
         \A q \in Handler : "reportDone" \notin Does[q], NEW p \in Thread, Step(p)
  PROVE  LedgerInv'
<1> SUFFICES ASSUME crashes = 0 PROVE LedgerInv'
  BY DEF LedgerInv, Step, ReleaseIfOwner, LoadJobAndGroup, ComputeRemaining, ParkRetry,
         MarkFailed, ReleaseLedger, MarkDone, MarkCancelled, ReleaseUnconditional,
         ReadActiveJobs, MarkNextCancelled, ReleaseAll, RefuseIfActiveSibling,
         ResolveLatestSibling, RefuseIfNoRemaining, FlipGroupPending, ParkManualRetry,
         WriteReported, ReadGroup, ReadJobs, ReadFrames, ReadPending, ReadDispatch, WriteGroup,
         CheckTerminal, DrainDispatch, DrainPending
<1>t. th \in [Thread -> Local] /\ th[p] \in Local /\ Disowned(p) /\ crashes = 0
  BY DEF Shape, TypeOK, LedgerInv
<1>c. Calm /\ SameTable
  BY StepCalm, StepTable
<1>1. CASE ReleaseIfOwner(p)
  <2>1. /\ Others(p) /\ th[p].pc = "cas" /\ UNCHANGED <<job, crashes>>
        /\ th'[p].job = th[p].job /\ th'[p].pc \in {"load", "markFailed"}
        /\ ledger'[MyChunk(p)] # th[p].job
    BY <1>1, <1>t, MyJob DEF ReleaseIfOwner, Goto, Others, Local, JobPC, NoJob, JobId, Shape, TypeOK
  <2> QED
    BY <2>1, <1>c, LedgerKept DEF Calm, Disowned, MyChunk, KeepsOwner, TearsDown
<1>2. CASE LoadJobAndGroup(p) \/ ComputeRemaining(p) \/ ParkRetry(p)
  <2>1. /\ Others(p) /\ UNCHANGED <<job, ledger, crashes>> /\ PastRelease(p)
        /\ th[p].pc \in {"load", "remaining", "park"}
        /\ th'[p].job = th[p].job
    BY <1>2, <1>t DEF LoadJobAndGroup, ComputeRemaining, ParkRetry, Goto, Others, Local, db,
                      PastRelease
  <2> QED
    BY <2>1, <1>t, LedgerUntouched DEF Disowned, MyChunk, TearsDown
<1>3. CASE MarkFailed(p) \/ MarkDone(p)
  <2>1. /\ Others(p) /\ UNCHANGED <<ledger, crashes>> /\ PastRelease(p)
        /\ th[p].pc \in JobPC
        /\ \E s \in JobState : SetStatus(th[p].job, s)
        /\ ~PastRelease(p)'
    BY <1>3, <1>t DEF MarkFailed, MarkDone, Others, Local, PastRelease, JobPC, JobState, Idle
  <2>2. PICK j \in JobId : /\ j = th[p].job /\ ledger[MyChunk(p)] # j
                           /\ \A k \in JobId : k # j => job'[k] = job[k]
    BY <2>1, <1>t, MyJob DEF Disowned, SetStatus, Shape, TypeOK
  <2>3. ~Owner(j)'
    BY <2>1, <2>2 DEF Owner, OwnerFit, MyChunk, NoJob, JobId
  <2>4. \A k \in JobId : ~TearsDown(p, k)
    BY <1>3 DEF MarkFailed, MarkDone, TearsDown
  <2> QED
    BY <2>1, <2>2, <2>3, <2>4, <1>c, LedgerKept DEF Calm, Disowned, KeepsOwner
<1>4. CASE ReleaseLedger(p) \/ ReleaseUnconditional(p)
  <2>1. /\ Others(p) /\ th[p].pc \in {"release", "unclaim"} /\ UNCHANGED <<job, crashes>>
        /\ th'[p].job = th[p].job /\ ledger' = [ledger EXCEPT ![MyChunk(p)] = NoJob]
    BY <1>4, <1>t DEF ReleaseLedger, ReleaseUnconditional, Goto, Others, Local
  <2>2. th[p].job \in JobId /\ MyChunk(p) \in Chunk /\ ledger'[MyChunk(p)] = NoJob
    BY <2>1, MyJob DEF JobPC, Shape, TypeOK
  <2>3. \A j \in JobId : Owner(j)' => KeepsOwner(p, j)
    BY <2>1, <2>2 DEF Owner, KeepsOwner, TearsDown, OwnerFit, MyChunk, NoJob, JobId, Shape, TypeOK
  <2> QED
    BY <2>1, <2>2, <2>3, <1>c, LedgerKept DEF Calm, Disowned, MyChunk, NoJob, JobId
<1>5. CASE MarkCancelled(p)
  <2>1. /\ Others(p) /\ th[p].pc = "markCancelled" /\ UNCHANGED <<ledger, crashes>>
        /\ th'[p].job = th[p].job /\ th'[p].pc = "unclaim"
        /\ SetStatus(th[p].job, "cancelled")
    BY <1>5, <1>t DEF MarkCancelled, Goto, Others, Local
  <2>2. \A k \in JobId : KeepsOwner(p, k)
    BY <2>1 DEF KeepsOwner, TearsDown, SetStatus, Shape, TypeOK, Job
  <2> QED
    BY <2>1, <2>2, <1>c, LedgerKept DEF Calm, Disowned, PastRelease, Shape, TypeOK
<1>6. CASE ReadActiveJobs(p)
  <2>1. /\ Others(p) /\ th[p].pc = "gJobs" /\ UNCHANGED <<job, ledger, crashes>>
        /\ th'[p].pc = "gMark"
    BY <1>6, <1>t DEF ReadActiveJobs, Others, Local, db
  <2> QED
    BY <2>1, LedgerUntouched DEF Disowned, PastRelease, TearsDown
<1>7. CASE MarkNextCancelled(p)
  <2>1. /\ Others(p) /\ th[p].pc = "gMark" /\ UNCHANGED <<ledger, crashes>>
        /\ th'[p].pc \in {"gMark", "dGroup"} /\ th'[p].op = th[p].op
        /\ \A k \in JobId : job'[k].status \in {job[k].status, "cancelled"}
    BY <1>7, <1>t DEF MarkNextCancelled, Goto, Others, Local, SetStatus, Shape, TypeOK, Job
  <2>2. th[p].op = "cancelGroup"
    BY <2>1 DEF OpFit
  <2>3. \A k \in JobId : KeepsOwner(p, k)
    BY <2>1, <2>2 DEF KeepsOwner, TearsDown
  <2> QED
    BY <2>1, <2>3, <1>c, LedgerKept DEF Calm, Disowned, PastRelease, Shape, TypeOK
<1>8. CASE ReleaseAll(p)
  <2>1. /\ Others(p) /\ UNCHANGED <<job, crashes>> /\ \A c \in Chunk : ledger'[c] = NoJob
        /\ th'[p].pc = "idle"
    BY <1>8, <1>t DEF ReleaseAll, Return, Idle, Others
  <2> QED
    BY <2>1, <1>c, LedgerKept DEF Calm, Disowned, PastRelease, Owner, NoJob, JobId
<1>9. CASE \/ RefuseIfActiveSibling(p) \/ ResolveLatestSibling(p) \/ RefuseIfNoRemaining(p)
           \/ FlipGroupPending(p) \/ ParkManualRetry(p)
  <2>1. /\ Others(p) /\ UNCHANGED <<job, ledger, crashes>>
        /\ th[p].pc \in {"mLedger", "mLatest", "mRemaining", "mFlip", "park"}
        /\ ~PastRelease(p)'
    BY <1>9, <1>t DEF RefuseIfActiveSibling, ResolveLatestSibling, RefuseIfNoRemaining,
                      FlipGroupPending, ParkManualRetry, Goto, Return, Others, Local, Idle,
                      PastRelease, OpFit, db
  <2> QED
    BY <2>1, LedgerUntouched DEF Disowned, TearsDown
<1>10. CASE WriteReported(p)
  <2>1. /\ Others(p) /\ th[p].pc = "report" /\ UNCHANGED <<ledger, crashes>>
        /\ th'[p].pc \in {"idle", "rGroup"} /\ SetStatus(th[p].job, "running")
    <3>1. th[p].op # "reportDone"
      BY DEF OpFit, OpsOf, Thread
    <3> QED
      BY <1>10, <1>t, <3>1 DEF WriteReported, Others, Idle
  <2>2. \A k \in JobId : KeepsOwner(p, k)
    BY <2>1 DEF KeepsOwner, TearsDown, Live, ActiveJob, SetStatus, Shape, TypeOK, Job
  <2> QED
    BY <2>1, <2>2, <1>c, LedgerKept DEF Calm, Disowned, PastRelease, Shape, TypeOK
<1>11. CASE \/ ReadGroup(p) \/ ReadJobs(p) \/ ReadFrames(p) \/ ReadPending(p) \/ ReadDispatch(p)
            \/ WriteGroup(p)
  <2>0. ASSUME NEW q \in BOOLEAN, Conclude(p, q)
        PROVE  Others(p) /\ th'[p].pc \in {"rWrite", "dGroup"}
    BY <1>t, <2>0 DEF Conclude, Others, Idle
  <2>1. /\ Others(p) /\ UNCHANGED <<job, ledger, crashes>>
        /\ th[p].pc \in {"rGroup", "rJobs", "rFrames", "rPending", "rDispatch", "rWrite"}
        /\ ~PastRelease(p)'
    <3>1. CASE ReadGroup(p) \/ WriteGroup(p)
      BY <1>t, <3>1 DEF ReadGroup, WriteGroup, Others, Idle, PastRelease, db
    <3>3. CASE ReadJobs(p) \/ ReadFrames(p)
      <4>1. Others(p) /\ th'[p].pc \in {"rFrames", "rPending"}
        BY <1>t, <3>3 DEF ReadJobs, ReadFrames, Others, Local
      <4> QED
        BY <3>3, <4>1 DEF ReadJobs, ReadFrames, PastRelease, db
    <3>2. CASE ReadPending(p) \/ ReadDispatch(p)
      <4>1. \/ \E q \in BOOLEAN : Conclude(p, q)
            \/ Goto(p, "rDispatch")
        BY <3>2 DEF ReadPending, ReadDispatch
      <4>2. Others(p) /\ th'[p].pc \in {"rWrite", "dGroup", "rDispatch"}
        BY <1>t, <2>0, <4>1 DEF Goto, Others, Local
      <4> QED
        BY <3>2, <4>2 DEF ReadPending, ReadDispatch, PastRelease, db
    <3> QED
      BY <1>11, <3>1, <3>2, <3>3
  <2> QED
    BY <2>1, LedgerUntouched DEF Disowned, TearsDown
<1>12. CASE CheckTerminal(p) \/ DrainPending(p)
  <2>1. /\ Others(p) /\ UNCHANGED <<job, ledger, crashes>>
        /\ th[p].pc \in {"dGroup", "dPending"}
        /\ ~PastRelease(p)'
        /\ th[p].op = "cancelGroup" =>
             th'[p].op = "cancelGroup" /\ th'[p].pc \in {"dDispatch", "gUnclaim"}
    BY <1>12, <1>t DEF CheckTerminal, DrainPending, AfterDrain, Goto, Return, Others, Local, Idle,
                       PastRelease, db
  <2> QED
    BY <2>1, LedgerUntouched DEF Disowned, TearsDown
<1>13. CASE DrainDispatch(p)
  <2>1. /\ Others(p) /\ UNCHANGED <<ledger, crashes>>
        /\ th[p].pc = "dDispatch" /\ th'[p].pc = "dPending" /\ th'[p].op = th[p].op
        /\ \A k \in JobId : job[k].status # "queued" => job'[k] = job[k]
    BY <1>13, <1>t DEF DrainDispatch, Goto, Others, Local
  <2>2. \A j \in JobId : Owner(j)' => KeepsOwner(p, j)
    BY <2>1 DEF Owner, OwnerFit, KeepsOwner, TearsDown, NoJob, JobId
  <2> QED
    BY <2>1, <2>2, <1>c, LedgerKept DEF Calm, Disowned, PastRelease
<1> QED
  BY <1>1, <1>2, <1>3, <1>4, <1>5, <1>6, <1>7, <1>8, <1>9, <1>10, <1>11, <1>12, <1>13 DEF Step

LEMMA DaemonLedger ==
  ASSUME Shape, Shape', DispatchInv, OwnerFit, OpFit(Daemon), LedgerInv,
         DispatchPhase \/ PendingPhase
  PROVE  LedgerInv'
<1> SUFFICES ASSUME crashes = 0 PROVE OwnerLive' /\ \A p \in Thread : Disowned(p)'
  BY DEF LedgerInv, DispatchPhase, PendingPhase, Dequeue, GuardTerminalGroup, ClaimOrReplace,
         CreateJob, Launch, LoseDispatch, ListAll, EndBatch, DeleteRow, Enqueue, PlanRow, SkipRow,
         CheckOwner
<1>t. /\ th \in [Thread -> Local] /\ Daemon \in Thread /\ th[Daemon] \in Local
      /\ job \in [JobId -> Job] /\ ledger \in [Chunk -> JobId \cup {NoJob}]
      /\ OwnerLive /\ \A p \in Thread : Disowned(p)
  BY DEF Shape, TypeOK, Thread, LedgerInv
<1>o. Others(Daemon)
  BY DaemonOp
<1>n. NoJob \notin JobId
  BY DEF NoJob, JobId
<1>d. /\ th[Daemon].pc \in {"idle", "qGroup", "claim", "create", "launch", "batch", "owner",
                           "enqueue"}
      /\ th'[Daemon].pc \notin {"load", "remaining", "park", "markFailed", "markDone"}
  <2>0. ASSUME Return(Daemon) \/ Goto(Daemon, "claim") \/ Goto(Daemon, "create")
               \/ Goto(Daemon, "launch") \/ Goto(Daemon, "batch") \/ Goto(Daemon, "owner")
               \/ Goto(Daemon, "enqueue")
        PROVE  th'[Daemon].pc \notin {"load", "remaining", "park", "markFailed", "markDone"}
    BY <1>t, <2>0 DEF Return, Goto, Idle, Local
  <2>1. CASE GuardTerminalGroup \/ ClaimOrReplace \/ CreateJob \/ LoseDispatch
    BY <2>0, <2>1 DEF GuardTerminalGroup, ClaimOrReplace, CreateJob, LoseDispatch
  <2>2. ASSUME NEW j \in JobId, Dequeue(j)
        PROVE  th[Daemon].pc = "idle" /\ th'[Daemon].pc = "qGroup"
    BY <1>t, <2>2 DEF Dequeue, Idle
  <2>3. CASE Launch
    <3>1. Return(Daemon) \/ th'[Daemon].pc = "cas"
      BY <1>t, <2>3 DEF Launch, Local
    <3> QED
      BY <2>0, <2>3, <3>1 DEF Launch
  <2>4. CASE ListAll
    BY <1>t, <2>4 DEF ListAll, Idle
  <2>5. CASE EndBatch \/ DeleteRow \/ Enqueue \/ \E r \in tick.batch : PlanRow(r)
    BY <2>0, <2>5 DEF EndBatch, DeleteRow, Enqueue, PlanRow
  <2>6. ASSUME NEW r \in tick.batch, SkipRow(r)
        PROVE  th[Daemon].pc = "batch" /\ th'[Daemon].pc = "batch"
    BY <2>6 DEF SkipRow
  <2>7. ASSUME NEW c \in Chunk, CheckOwner(c)
        PROVE  th[Daemon].pc = "owner" /\ (th'[Daemon].pc = "owner" \/ Goto(Daemon, "enqueue"))
    BY <2>7 DEF CheckOwner
  <2>8. CASE DispatchPhase
    BY <2>1, <2>2, <2>3, <2>8 DEF DispatchPhase, GuardTerminalGroup, ClaimOrReplace, CreateJob,
                                  LoseDispatch, Launch
  <2>9. CASE PendingPhase
    BY <2>0, <2>4, <2>5, <2>6, <2>7, <2>9 DEF PendingPhase, ListAll, EndBatch, DeleteRow, Enqueue,
                                              PlanRow, Idle
  <2> QED
    BY <2>8, <2>9
<1>w. \A q \in Thread, j \in JobId : TearsDown(q, j) => TearsDown(q, j)'
  <2>1. \A j \in JobId : ~TearsDown(Daemon, j)
    BY <1>d DEF TearsDown
  <2> QED
    BY <1>o, <2>1 DEF Others, TearsDown
<1>1. ASSUME UNCHANGED ledger,
             \A j \in JobId : InTable(j) => job'[j].chunk = job[j].chunk,
             \A j \in JobId : Owner(j) =>
               job'[j].status \in {job[j].status, "inhand", "lost"} \cup ActiveJob
      PROVE  OwnerLive' /\ \A p \in Thread : Disowned(p)'
  <2>1. OwnerLive'
    <3> SUFFICES ASSUME NEW j \in JobId, Owner(j)' PROVE Accounted(j)'
      BY DEF OwnerLive
    <3>1. /\ Accounted(j)
          /\ job'[j].status = job[j].status \/ job'[j].status \in ActiveJob \cup {"inhand", "lost"}
      BY <1>t, <1>1 DEF Owner, OwnerLive
    <3>2. CASE job'[j].status \in ActiveJob \cup {"inhand", "lost"}
      BY <3>2 DEF Accounted, Live
    <3>3. CASE job'[j].status = job[j].status /\ Live(j)
      BY <3>3 DEF Accounted, Live
    <3>4. CASE job'[j].status = job[j].status /\ ~Live(j)
      BY <1>w, <3>1, <3>4 DEF Accounted
    <3> QED
      BY <3>1, <3>2, <3>3, <3>4
  <2>2. ASSUME NEW q \in Thread, PastRelease(q)' PROVE ledger'[MyChunk(q)'] # th'[q].job
    <3>1. q # Daemon /\ th'[q] = th[q] /\ PastRelease(q)
      BY <1>d, <1>o, <2>2 DEF Others, PastRelease
    <3>2. th[q].job \in JobId /\ InTable(th[q].job)
      BY <3>1, MyJob DEF PastRelease, JobPC
    <3>3. job'[th[q].job].chunk = job[th[q].job].chunk
      BY <1>1, <3>2
    <3> QED
      BY <1>t, <1>1, <3>1, <3>3 DEF Disowned, MyChunk
  <2> QED
    BY <2>1, <2>2 DEF Disowned
<1>2. ASSUME UNCHANGED <<job, ledger>>
      PROVE  OwnerLive' /\ \A p \in Thread : Disowned(p)'
  BY <1>1, <1>2
<1>3. ASSUME NEW j \in JobId, ~InTable(j), NEW v \in Job, job' = [job EXCEPT ![j] = v],
             UNCHANGED ledger, ~Owner(j) \/ v.status \in ActiveJob \cup {"inhand", "lost"}
      PROVE  OwnerLive' /\ \A p \in Thread : Disowned(p)'
  BY <1>1, <1>3, <1>t
<1>4. ASSUME NEW j \in JobId, NEW s \in {"inhand", "pending", "lost"}, ~InTable(j),
             SetStatus(j, s), UNCHANGED ledger
      PROVE  OwnerLive' /\ \A p \in Thread : Disowned(p)'
  <2> DEFINE v == [job[j] EXCEPT !.status = s]
  <2>1. v \in Job /\ v.status \in ActiveJob \cup {"inhand", "lost"}
    BY <1>t DEF Job, JobStatus, JobState, ActiveJob
  <2>2. job' = [job EXCEPT ![j] = v]
    BY <1>4 DEF SetStatus
  <2> HIDE DEF v
  <2> QED
    BY <1>3, <1>4, <2>1, <2>2
<1>5. CASE DispatchPhase
  <2>1. ASSUME NEW j \in JobId, Dequeue(j)
        PROVE  OwnerLive' /\ \A p \in Thread : Disowned(p)'
    BY <2>1, <1>4 DEF Dequeue, InTable, JobState
  <2>2. CASE GuardTerminalGroup
    <3>1. PICK j \in JobId : j = th[Daemon].job /\ ~InTable(j)
      BY <2>2, HandJob DEF GuardTerminalGroup, HandPC, InHand, InTable, JobState
    <3>2. ~Owner(j)
      BY <2>2, <3>1, HandUnclaimed DEF GuardTerminalGroup, Owner
    <3>3. Unused \in Job
      BY DEF Unused, Job, JobStatus
    <3> QED
      BY <2>2, <1>2, <1>3, <3>1, <3>2, <3>3 DEF GuardTerminalGroup
  <2>3. CASE ClaimOrReplace
    <3>1. PICK j \in JobId : /\ j = th[Daemon].job /\ InHand(j)
                             /\ ledger' = [ledger EXCEPT ![MyChunk(Daemon)] = j]
      BY <2>3, HandJob DEF ClaimOrReplace, HandPC
    <3>2. job' = job
      BY <2>3 DEF ClaimOrReplace
    <3>3. OwnerLive'
      <4> SUFFICES ASSUME NEW k \in JobId, Owner(k)' PROVE Accounted(k)'
        BY DEF OwnerLive
      <4>1. Accounted(k)
        BY <1>t, <3>1 DEF Owner, OwnerLive, Accounted, Live, InHand
      <4> QED
        BY <1>w, <3>2, <4>1 DEF Accounted, Live
    <3>4. ASSUME NEW q \in Thread, PastRelease(q)'
          PROVE  ledger'[MyChunk(q)'] # th'[q].job
      <4>1. q # Daemon /\ th'[q] = th[q] /\ PastRelease(q)
        BY <1>d, <1>o, <3>4 DEF Others, PastRelease
      <4>2. th[q].job \in JobId /\ InTable(th[q].job)
        BY <4>1, MyJob DEF PastRelease, JobPC
      <4>3. th[q].job # j
        BY <3>1, <4>2 DEF InHand, InTable, JobState
      <4> QED
        BY <1>t, <3>1, <3>2, <4>1, <4>3 DEF Disowned, MyChunk
    <3> QED
      BY <3>3, <3>4 DEF Disowned
  <2>4. CASE CreateJob \/ LoseDispatch
    <3>1. PICK j \in JobId : j = th[Daemon].job /\ ~InTable(j)
      BY <2>4, HandJob DEF CreateJob, LoseDispatch, HandPC, InHand, InTable, JobState
    <3> QED
      BY <2>4, <1>4, <3>1 DEF CreateJob, LoseDispatch
  <2>5. CASE Launch
    BY <2>5, <1>2 DEF Launch, db
  <2> QED
    BY <1>5, <2>1, <2>2, <2>3, <2>4, <2>5 DEF DispatchPhase
<1>6. CASE PendingPhase
  <2>1. CASE Enqueue
    <3>1. ASSUME NEW j \in JobId, job[j] = Unused, UNCHANGED ledger, ~Queued(tick.chunk),
                 job' = [job EXCEPT ![j] = [chunk |-> tick.chunk, attempt |-> tick.row.attempt,
                                            status |-> "queued"]]
          PROVE  OwnerLive' /\ \A p \in Thread : Disowned(p)'
      <4>1. ~InTable(j) /\ ~Owner(j)
        BY <1>n, <3>1 DEF Unused, InTable, JobState, Owner, OwnerFit
      <4> QED
        BY <1>t, <1>1, <3>1, <4>1
    <3> QED
      BY <2>1, <1>2, <3>1 DEF Enqueue, LeastFree
  <2> QED
    BY <1>2, <1>6, <2>1 DEF PendingPhase, ListAll, EndBatch, DeleteRow, PlanRow, SkipRow,
                            CheckOwner, db
<1> QED
  BY <1>5, <1>6

LEMMA LedgerStep ==
  ASSUME Shape, DispatchInv, OwnerFit, \A p \in Thread : OpFit(p), LedgerInv, [Next]_vars,
         \A p \in Handler : "reportDone" \notin Does[p]
  PROVE  LedgerInv'
<1>s. Shape'
  BY ShapeStep
<1>1. ASSUME NEW p \in Handler, \/ \E j \in JobId : Signal(p, j)
                                \/ GroupSignal(p)
      PROVE  LedgerInv'
  <2>1. UNCHANGED <<job, ledger, crashes>>
    BY <1>1 DEF Signal, GroupSignal, BeginFailure, BeginSuccess, BeginCancel, BeginRetry,
                BeginReport, BeginPromote, BeginCancelGroup, BeginAudit, db
  <2>2. th[p] = Idle
    <3>1. CASE GroupSignal(p)
      BY <3>1 DEF GroupSignal, BeginCancelGroup, BeginAudit, Begin
    <3>2. CASE \E j \in JobId : Signal(p, j)
      BY <3>2 DEF Signal, BeginFailure, BeginSuccess, BeginCancel, BeginRetry, BeginReport,
                  BeginPromote, Begin
    <3> QED
      BY <1>1, <3>1, <3>2
  <2>3. Others(p) /\ ~PastRelease(p)'
    BY <1>1, SignalOp DEF PastRelease
  <2> QED
    BY <1>s, <2>1, <2>2, <2>3, LedgerUntouched DEF Thread, Disowned, TearsDown, Idle
<1>2. ASSUME NEW p \in Thread, Step(p) PROVE LedgerInv'
  BY <1>s, <1>2, StepLedger
<1>3. CASE DispatchPhase \/ PendingPhase
  BY <1>s, <1>3, DaemonLedger DEF Thread
<1>4. CASE Crash
  BY <1>4 DEF Crash, LedgerInv, Shape, TypeOK
<1>5. ASSUME UNCHANGED <<job, ledger, th, crashes>> PROVE LedgerInv'
  BY <1>5 DEF LedgerInv, OwnerLive, Owner, Accounted, Live, TearsDown, Disowned, PastRelease,
              MyChunk
<1> QED
  BY <1>1, <1>2, <1>3, <1>4, <1>5 DEF Next, Upload, vars

(* Whoever cancels, retries, fails or finishes jobs, and whichever         *)
(* dispatch raises, a claim names a job of its chunk that is still to be   *)
(* settled, so that active_sibling_exists is never said of a settled one.  *)
(* Only a worker that writes its own status done, or a crash, breaks it.   *)
THEOREM ClaimsAreLive ==
  ASSUME \A p \in Handler : "reportDone" \notin Does[p]
  PROVE  Spec => []LedgerNamesLiveJob
<1>1. Init => LedgerInv /\ \A p \in Thread : OpFit(p)
  BY OpInit DEF Init, LedgerInv, OwnerLive, Owner, NoJob, JobId, Disowned, PastRelease, Idle
<1>2. /\ Shape /\ DispatchInv /\ OwnerFit /\ LedgerInv
      /\ \A p \in Thread : OpFit(p)
      /\ [Next]_vars
      => LedgerInv' /\ (\A p \in Thread : OpFit(p))'
  BY LedgerStep, OpStep
<1>3. Shape /\ OwnerFit /\ LedgerInv => LedgerNamesLiveJob
  <2> SUFFICES ASSUME Shape, OwnerFit, LedgerInv, crashes = 0, NEW c \in Chunk, ledger[c] # NoJob
               PROVE  /\ job[ledger[c]].chunk = c
                      /\ \/ job[ledger[c]].status \in ActiveJob \cup {"inhand", "lost"}
                         \/ /\ job[ledger[c]].status = "cancelled"
                            /\ CancelInProgress(ledger[c])
    BY DEF LedgerNamesLiveJob
  <2>1. ledger[c] \in JobId /\ Accounted(ledger[c])
    BY DEF Shape, TypeOK, LedgerInv, OwnerLive, Owner
  <2> QED
    BY <2>1 DEF OwnerFit, Accounted, Live, TearsDown, CancelInProgress
<1> QED
  BY <1>1, <1>2, <1>3, OwnerFitAlways, PTL DEF Spec

=============================================================================
