------------------------- MODULE FleetMonitorProofs -------------------------
(***************************************************************************)
(* The fleet monitor's verdicts have their causes, for a chunk of any      *)
(* length, any deadlines and any number of faults.                         *)
(***************************************************************************)
EXTENDS FleetMonitor, WellFoundedInduction, TLAPS

Verdicts == {"done", "failed"}

-----------------------------------------------------------------------------
(* Of the blocks that apply, the first has the word.                       *)
LEMMA FirstOne ==
  ASSUME NEW H \in SUBSET Nat, H # {}
  PROVE  \E i \in H : \A k \in H : i <= k
<1>1. PICK i \in H : \A k \in H : ~(<<k, i>> \in OpToRel(<, Nat))
  BY NatLessThanWellFounded, WFMin
<1>2. ASSUME NEW k \in H PROVE i <= k
  <2>1. <<k, i>> \in Nat \X Nat
    OBVIOUS
  <2> QED
    BY <1>1, <2>1 DEF OpToRel
<1> QED
  BY <1>2

VastHits(s)  == {i \in 1..7 : VastBlocks(s)[i][1]}
ModalHits(s) == {i \in 1..4 : ModalBlocks(s)[i][1]}

(* A verdict is that of a block that applies, with none before it.         *)
LEMMA VastVerdict ==
  ASSUME fleet = "vast", NEW s
  PROVE  \/ Verdict(s) = "none"
         \/ \E i \in 1..7 : /\ VastBlocks(s)[i][1] /\ Verdict(s) = VastBlocks(s)[i][2]
                            /\ \A k \in 1..7 : VastBlocks(s)[k][1] => i <= k
<1>1. CASE VastHits(s) = {}
  <2>1. {i \in DOMAIN VastBlocks(s) : VastBlocks(s)[i][1]} = VastHits(s)
    BY DEF VastHits, VastBlocks
  <2> QED
    BY <1>1, <2>1 DEF Verdict
<1>2. CASE VastHits(s) # {}
  <2>1. {i \in DOMAIN VastBlocks(s) : VastBlocks(s)[i][1]} = VastHits(s)
    BY DEF VastHits, VastBlocks
  <2> DEFINE m == CHOOSE i \in VastHits(s) : \A k \in VastHits(s) : i <= k
  <2>2. m \in VastHits(s) /\ \A k \in VastHits(s) : m <= k
    <3>1. \E i \in VastHits(s) : \A k \in VastHits(s) : i <= k
      <4>1. VastHits(s) \in SUBSET Nat
        BY DEF VastHits
      <4> QED
        BY <1>2, <4>1, FirstOne
    <3> QED
      BY <3>1
  <2>3. Verdict(s) = VastBlocks(s)[m][2]
    BY <1>2, <2>1 DEF Verdict
  <2> HIDE DEF m
  <2> QED
    BY <2>2, <2>3 DEF VastHits
<1> QED
  BY <1>1, <1>2

LEMMA ModalVerdict ==
  ASSUME fleet = "modal", NEW s
  PROVE  \/ Verdict(s) = "none"
         \/ \E i \in 1..4 : /\ ModalBlocks(s)[i][1] /\ Verdict(s) = ModalBlocks(s)[i][2]
                            /\ \A k \in 1..4 : ModalBlocks(s)[k][1] => i <= k
<1>1. CASE ModalHits(s) = {}
  <2>1. {i \in DOMAIN ModalBlocks(s) : ModalBlocks(s)[i][1]} = ModalHits(s)
    BY DEF ModalHits, ModalBlocks
  <2> QED
    BY <1>1, <2>1 DEF Verdict
<1>2. CASE ModalHits(s) # {}
  <2>1. {i \in DOMAIN ModalBlocks(s) : ModalBlocks(s)[i][1]} = ModalHits(s)
    BY DEF ModalHits, ModalBlocks
  <2> DEFINE m == CHOOSE i \in ModalHits(s) : \A k \in ModalHits(s) : i <= k
  <2>2. m \in ModalHits(s) /\ \A k \in ModalHits(s) : m <= k
    <3>1. \E i \in ModalHits(s) : \A k \in ModalHits(s) : i <= k
      <4>1. ModalHits(s) \in SUBSET Nat
        BY DEF ModalHits
      <4> QED
        BY <1>2, <4>1, FirstOne
    <3> QED
      BY <3>1
  <2>3. Verdict(s) = ModalBlocks(s)[m][2]
    BY <1>2, <2>1 DEF Verdict
  <2> HIDE DEF m
  <2> QED
    BY <2>2, <2>3 DEF ModalHits
<1> QED
  BY <1>1, <1>2

LEMMA VerdictType ==
  ASSUME fleet \in {"vast", "modal"}, NEW s
  PROVE  Verdict(s) \in Verdicts \cup {"none"}
<1>1. CASE fleet = "vast"
  <2>1. \A i \in 1..7 : VastBlocks(s)[i][2] \in Verdicts
    BY DEF VastBlocks, Verdicts
  <2> QED
    BY <1>1, <2>1, VastVerdict
<1>2. CASE fleet = "modal"
  <2>1. \A i \in 1..4 : ModalBlocks(s)[i][2] \in Verdicts
    BY DEF ModalBlocks, Verdicts
  <2> QED
    BY <1>2, <2>1, ModalVerdict
<1> QED
  BY <1>1, <1>2

-----------------------------------------------------------------------------
LEMMA LookType ==
  ASSUME TypeOK, scan \in Scanned
  PROVE  Look \in Seen /\ Look.count = frames
<1>t. seen \in Seen /\ frames \in 0..Frames /\ Grace \in Nat /\ Stale \in Nat /\ Frames \in Nat
  BY FleetConstants DEF TypeOK
<1> DEFINE s == NoteActivity(seen)
<1>1. s \in Seen /\ s.count = frames
  <2>1. frames \in Unset..Frames /\ 0 \in 0..Stale + 1
    BY <1>t DEF Unset
  <2> QED
    BY <1>t, <2>1 DEF NoteActivity, Seen
<1>2. /\ [s EXCEPT !.ran = TRUE, !.anchor = 0] \in Seen
      /\ [s EXCEPT !.ran = TRUE, !.anchor = 0].count = frames
      /\ [s EXCEPT !.anchor = 0] \in Seen
      /\ [s EXCEPT !.anchor = 0].count = frames
  <2> HIDE DEF s
  <2>1. 0 \in Unset..Grace
    BY <1>t DEF Unset
  <2> QED
    BY <1>1, <2>1 DEF Seen
<1> QED
  BY <1>1, <1>2 DEF Look

LEMMA InitType == Init => TypeOK
<1>1. NotSeen \in Seen /\ 0 \in 0..AgeCap /\ 0 \in 0..Stale + 1 /\ -1 \in Never..TTL
  BY FleetConstants DEF NotSeen, Seen, Never, Unset, AgeCap, Greater
<1>2. 0 \in 0..Frames /\ 0 \in 0..MaxFaults /\ Never \in Never..TTL
  BY FleetConstants DEF Never
<1> QED
  BY <1>1, <1>2 DEF Init, TypeOK, Active

LEMMA DispatchType == TypeOK /\ Dispatch => TypeOK'
<1> SUFFICES ASSUME TypeOK, Dispatch PROVE TypeOK'
  OBVIOUS
<1>1. CASE DispatchJob \/ SaveProviderJobId
  BY <1>1 DEF TypeOK, DispatchJob, SaveProviderJobId
<1>2. CASE DispatchRaises \/ DispatchDies
  BY <1>2, FleetConstants DEF TypeOK, DispatchRaises, DispatchDies, Route, Fault, Ended
<1> QED
  BY <1>1, <1>2 DEF Dispatch

LEMMA ProviderType == TypeOK /\ Provider => TypeOK'
  BY FleetConstants
  DEF TypeOK, Provider, UnitStarts, UnitFatal, UnitExits, UnitDisappears, Fault, cloud

LEMMA WorkerType == TypeOK /\ Worker => TypeOK'
<1> SUFFICES ASSUME TypeOK, Worker PROVE TypeOK'
  OBVIOUS
<1>1. CASE StartWorker \/ HeartbeatGone \/ RegisterOutputs
  BY <1>1, FleetConstants DEF TypeOK, StartWorker, HeartbeatGone, RegisterOutputs, cloud
<1>2. CASE MarkRunning \/ WorkerExits
  BY <1>2, FleetConstants
  DEF TypeOK, MarkRunning, WorkerExits, Route, Fault, Fine, cloud, Active, Ended
<1>3. CASE Heartbeat
  BY <1>3, FleetConstants DEF TypeOK, Heartbeat, AfterBeat, Beats, FirstBeat, cloud, Never
<1> QED
  BY <1>1, <1>2, <1>3 DEF Worker

LEMMA MonitorType == TypeOK /\ Monitor => TypeOK'
<1> SUFFICES ASSUME TypeOK, Monitor PROVE TypeOK'
  OBVIOUS
<1>n. NotSeen \in Seen /\ ~(NoScan \in Scanned)
  BY FleetConstants DEF NotSeen, Seen, Unset, NoScan, Scanned, Active
<1>1. CASE Scan
  BY <1>1, FleetConstants DEF TypeOK, Scan, Scanned, cloud
<1>2. CASE DropState \/ MonitorDies
  BY <1>2, <1>n, FleetConstants DEF TypeOK, DropState, MonitorDies, Fault, cloud
<1>3. CASE InspectKeeps
  <2>1. Look \in Seen
    BY <1>3, LookType DEF InspectKeeps, TypeOK
  <2> QED
    BY <1>3, <2>1, FleetConstants DEF TypeOK, InspectKeeps, Fault, Fine, cloud, Active
<1>4. CASE InspectEnds
  <2>1. Verdict(Look) \in Verdicts \cup {"none"}
    BY VerdictType DEF TypeOK
  <2> QED
    BY <1>4, <1>n, <2>1, FleetConstants
    DEF TypeOK, InspectEnds, Route, Destroy, Fault, Fine, cloud, Ended, Verdicts
<1>5. CASE InspectRaises
  <2>1. Look \in Seen
    BY <1>5, LookType DEF InspectRaises, TypeOK
  <2> QED
    BY <1>5, <2>1, FleetConstants DEF TypeOK, InspectRaises, Fault, cloud
<1> QED
  BY <1>1, <1>2, <1>3, <1>4, <1>5 DEF Monitor, Inspect

LEMMA PassType == TypeOK /\ Pass => TypeOK'
<1> SUFFICES ASSUME TypeOK, Pass PROVE TypeOK'
  OBVIOUS
<1>1. age' \in 0..AgeCap /\ quiet' \in 0..Stale + 1
  BY FleetConstants DEF TypeOK, Pass, Least, AgeCap, Greater
<1>2. seen' \in Seen
  <2>1. Least(seen.still + 1, Stale + 1) \in 0..Stale + 1 /\ 0 \in 0..Stale + 1
    BY FleetConstants DEF TypeOK, Least, Seen
  <2>2. seen.anchor # Unset => Least(seen.anchor + 1, Grace) \in 0..Grace
    BY FleetConstants DEF TypeOK, Least, Seen, Unset
  <2>3. -1 \in Unset..Grace /\ 0..Grace \subseteq Unset..Grace
    BY FleetConstants DEF Unset
  <2> QED
    BY <2>1, <2>2, <2>3 DEF TypeOK, Pass, Seen, Unset
<1>3. hb' \in Never..TTL
  BY FleetConstants DEF TypeOK, Pass, Never
<1> QED
  BY <1>1, <1>2, <1>3 DEF TypeOK, Pass

LEMMA OthersType ==
  TypeOK /\ (ReportOrphan \/ ReportGhost \/ CancelJob \/ CloseGroup \/ RedisFails \/ RedisRecovers)
    => TypeOK'
<1> SUFFICES ASSUME TypeOK,
                    \/ ReportOrphan \/ ReportGhost \/ CancelJob
                    \/ CloseGroup \/ RedisFails \/ RedisRecovers
             PROVE  TypeOK'
  OBVIOUS
<1>1. CASE ReportGhost \/ CancelJob
  BY <1>1, FleetConstants DEF TypeOK, ReportGhost, CancelJob, Destroy, Fault, Fine, cloud, Ended
<1>2. CASE ReportOrphan \/ CloseGroup
  BY <1>2 DEF TypeOK, ReportOrphan, CloseGroup, cloud, Ended
<1>3. CASE RedisFails \/ RedisRecovers
  BY <1>3, FleetConstants DEF TypeOK, RedisFails, RedisRecovers, Fault
<1> QED
  BY <1>1, <1>2, <1>3

LEMMA TypeStep == TypeOK /\ [Next]_vars => TypeOK'
<1>1. TypeOK /\ UNCHANGED vars => TypeOK'
  BY DEF TypeOK, vars
<1> QED
  BY <1>1, DispatchType, ProviderType, WorkerType, MonitorType, PassType, OthersType DEF Next

(* FleetMonitor's TypeOK: the monitor's clocks and counters stay in their  *)
(* ranges however many ticks fail and however often it starts anew.        *)
THEOREM FleetTypes == Spec => []TypeOK
  BY InitType, TypeStep, PTL DEF Spec

-----------------------------------------------------------------------------
(* What the row and the provider have in common, and how old a dispatch    *)
(* under way can be: the ghost sweep must not meet one.                    *)
UnitFit ==
  /\ dispatch = "call" => unit = "none" /\ age = 0
  /\ dispatch = "save" => age < MinAge
  /\ unit = "none" => ~linked /\ dispatch # "save"
  /\ scan # NoScan => unit # "none" /\ scan.unit # "none"

(* The monitor counts no frame that is not there, and has not been waiting *)
(* for the next one longer than it has been due.                           *)
QuietFit ==
  /\ seen.count <= frames
  /\ seen.count = frames => seen.still <= quiet

FleetInv == TypeOK /\ UnitFit /\ QuietFit

LEMMA LookFit ==
  ASSUME FleetInv, scan \in Scanned
  PROVE  Look \in Seen /\ Look.count = frames /\ Look.still <= quiet
<1>1. Look.still = IF seen.count = frames THEN seen.still ELSE 0
  BY DEF FleetInv, TypeOK, Look, NoteActivity, Seen, FirstRun
<1> QED
  BY <1>1, LookType, FleetConstants DEF FleetInv, QuietFit, TypeOK

LEMMA InitFit == Init => FleetInv
  BY InitType, FleetConstants DEF FleetInv, UnitFit, QuietFit, Init, NotSeen, Unset

LEMMA UnitStep == TypeOK /\ UnitFit /\ [Next]_vars => UnitFit'
<1> SUFFICES ASSUME TypeOK, UnitFit, [Next]_vars PROVE UnitFit'
  OBVIOUS
<1> USE DEF UnitFit, cloud
<1>1. CASE Dispatch
  BY <1>1, FleetConstants
  DEF Dispatch, DispatchJob, SaveProviderJobId, DispatchRaises, DispatchDies
<1>2. CASE Provider
  BY <1>2 DEF Provider, UnitStarts, UnitFatal, UnitExits, UnitDisappears
<1>3. CASE Worker
  BY <1>3 DEF Worker, StartWorker, MarkRunning, Heartbeat, HeartbeatGone, RegisterOutputs, WorkerExits
<1>4. CASE Monitor
  <2>1. CASE Scan
    BY <2>1 DEF Scan, Scanned
  <2>2. CASE DropState \/ MonitorDies \/ InspectKeeps
    BY <2>2 DEF DropState, MonitorDies, InspectKeeps
  <2>3. CASE InspectEnds
    BY <2>3 DEF InspectEnds, Destroy
  <2>4. CASE InspectRaises
    BY <2>4 DEF InspectRaises
  <2> QED
    BY <1>4, <2>1, <2>2, <2>3, <2>4 DEF Monitor, Inspect
<1>5. CASE Pass
  BY <1>5, FleetConstants DEF Pass, Least, TypeOK, AgeCap, Greater
<1>6. CASE ReportOrphan \/ ReportGhost \/ CancelJob \/ CloseGroup \/ RedisFails \/ RedisRecovers
  BY <1>6
  DEF ReportOrphan, ReportGhost, CancelJob, CloseGroup, RedisFails, RedisRecovers, Destroy
<1>7. CASE UNCHANGED vars
  BY <1>7 DEF vars
<1> QED
  BY <1>1, <1>2, <1>3, <1>4, <1>5, <1>6, <1>7 DEF Next

LEMMA QuietStep == FleetInv /\ [Next]_vars => QuietFit'
<1> SUFFICES ASSUME FleetInv, [Next]_vars PROVE QuietFit'
  OBVIOUS
<1>t. /\ seen \in Seen /\ frames \in 0..Frames /\ quiet \in 0..Stale + 1
      /\ scan \in Scanned \cup {NoScan} /\ QuietFit
  BY DEF FleetInv, TypeOK
<1>1. CASE UNCHANGED <<frames, quiet, seen>>
  BY <1>1, <1>t DEF QuietFit
<1>2. CASE RegisterOutputs
  BY <1>2, <1>t, FleetConstants DEF RegisterOutputs, QuietFit, Seen, Unset
<1>3. CASE seen' = NotSeen /\ UNCHANGED <<frames, quiet>>
  BY <1>3, <1>t, FleetConstants DEF QuietFit, NotSeen, Unset
<1>4. CASE scan # NoScan /\ seen' = Look /\ UNCHANGED <<frames, quiet>>
  BY <1>4, <1>t, LookFit DEF QuietFit
<1>5. CASE Pass
  BY <1>5, <1>t, FleetConstants DEF Pass, QuietFit, Least, Seen, Unset
<1>6. CASE Worker
  BY <1>1, <1>2, <1>6
  DEF Worker, StartWorker, MarkRunning, Heartbeat, HeartbeatGone, WorkerExits
<1>7. CASE Monitor
  BY <1>1, <1>3, <1>4, <1>7
  DEF Monitor, Inspect, Scan, DropState, MonitorDies, InspectKeeps, InspectEnds, InspectRaises
<1> QED
  BY <1>1, <1>5, <1>6, <1>7
  DEF Next, vars, Dispatch, DispatchJob, SaveProviderJobId, DispatchRaises, DispatchDies, Provider,
      UnitStarts, UnitFatal, UnitExits, UnitDisappears, ReportOrphan, ReportGhost, CancelJob,
      CloseGroup, RedisFails, RedisRecovers

LEMMA FleetAlways == Spec => []FleetInv
<1>1. FleetInv /\ [Next]_vars => FleetInv'
  BY TypeStep, UnitStep, QuietStep DEF FleetInv
<1> QED
  BY InitFit, <1>1, PTL DEF Spec

-----------------------------------------------------------------------------
(* Only an inspection fails an active job, and by its verdict.             *)
LEMMA JudgedByVerdict ==
  ASSUME FleetInv, Next, Judged
  PROVE  scan \in Scanned /\ Verdict(Look) = "failed"
<1>1. scan \in Scanned
  BY DEF FleetInv, TypeOK, Judged
<1>2. CASE InspectEnds
  BY <1>1, <1>2 DEF InspectEnds, Judged, Route
<1>3. ~(UNCHANGED scan) /\ ~(UNCHANGED row) /\ row' # "running"
  BY DEF Judged, Active
<1>4. ~InspectKeeps /\ ~InspectRaises
  BY <1>3 DEF InspectKeeps, InspectRaises
<1> QED
  BY <1>1, <1>2, <1>3, <1>4
  DEF Next, Dispatch, DispatchJob, SaveProviderJobId, DispatchRaises, DispatchDies, Provider,
      UnitStarts, UnitFatal, UnitExits, UnitDisappears, Worker, StartWorker, MarkRunning, Heartbeat,
      HeartbeatGone, RegisterOutputs, WorkerExits, Monitor, Inspect, Scan, DropState, MonitorDies,
      ReportOrphan, ReportGhost, CancelJob, CloseGroup, RedisFails, RedisRecovers, Pass

(* However often the monitor is replaced, whatever it has forgotten and    *)
(* however old its scan is, it fails no job without cause: FleetMonitor's  *)
(* FailedForCause, from VastFleetMonitor._inspect and ModalFleetMonitor's. *)
THEOREM CauseGiven == Spec => FailedForCause
<1> DEFINE Cause == \/ closed
                    \/ fleet = "vast" /\ scan.unit \in {"gone", "fatal", "exited"}
                    \/ fleet = "vast" /\ scan.unit = "starting" /\ age > Startup
                    \/ redis = "up" /\ hb <= 0
                    \/ frames > 0 /\ quiet > Stale
                    \/ redis = "up" /\ age >= Ceiling
<1>1. ASSUME FleetInv, Next, Judged PROVE Cause
  <2>1. scan \in Scanned /\ Verdict(Look) = "failed"
    BY <1>1, JudgedByVerdict
  <2>2. Look \in Seen /\ Look.count = frames /\ Look.still <= quiet
    BY <1>1, <2>1, LookFit
  <2>3. HeartbeatDead(Look) \/ IsStale(Look) \/ Stall => Cause
    BY <1>1, <2>2, FleetConstants
    DEF HeartbeatDead, IsStale, Stall, FleetInv, TypeOK, Seen
  <2>4. CASE fleet = "vast"
    <3>1. PICK i \in 1..7 : VastBlocks(Look)[i][1] /\ VastBlocks(Look)[i][2] = "failed"
      BY <2>1, <2>4, VastVerdict
    <3>2. scan.unit \in {"starting", "running", "fatal", "exited", "gone"}
      BY <1>1, <2>1 DEF FleetInv, UnitFit, Scanned, NoScan, Active
    <3> QED
      <4>1. CASE i = 1
        BY <2>4, <3>1, <4>1 DEF VastBlocks
      <4>2. CASE i = 2
        BY <2>4, <3>1, <4>2 DEF VastBlocks
      <4>3. CASE i = 3
        BY <3>1, <4>3 DEF VastBlocks
      <4>4. CASE i = 4
        BY <3>1, <4>4 DEF VastBlocks
      <4>5. CASE i = 5
        BY <2>4, <3>1, <3>2, <4>5 DEF VastBlocks
      <4>6. CASE i = 6
        BY <2>3, <3>1, <4>6 DEF VastBlocks
      <4>7. CASE i = 7
        BY <2>4, <3>1, <4>7 DEF VastBlocks
      <4> QED
        BY <4>1, <4>2, <4>3, <4>4, <4>5, <4>6, <4>7
  <2>5. CASE fleet = "modal"
    <3>1. PICK i \in 1..4 : ModalBlocks(Look)[i][1] /\ ModalBlocks(Look)[i][2] = "failed"
      BY <2>1, <2>5, ModalVerdict
    <3> QED
      <4>1. CASE i \in 1..2
        BY <3>1, <4>1 DEF ModalBlocks
      <4>2. CASE i = 3
        BY <2>3, <3>1, <4>2 DEF ModalBlocks
      <4>3. CASE i = 4
        BY <2>3, <3>1, <4>3 DEF ModalBlocks
      <4> QED
        BY <4>1, <4>2, <4>3
  <2> QED
    BY <1>1, <2>4, <2>5 DEF FleetInv, TypeOK
<1>2. FleetInv /\ [Next]_vars => [Judged => Cause]_vars
  BY <1>1
<1> QED
  BY FleetAlways, <1>2, PTL DEF Spec, FailedForCause

(* A finished chunk is not thrown away for a silent or stale worker:       *)
(* FleetMonitor's CompleteNotFailed, from the order of _inspect's blocks.  *)
THEOREM CompleteStands == Spec => CompleteNotFailed
<1> DEFINE Excuse == closed \/ (fleet = "vast" /\ (scan.unit = "fatal" \/ scan.row = "pending"))
<1>1. ASSUME FleetInv, Next, Judged, Complete PROVE Excuse
  <2>1. scan \in Scanned /\ Verdict(Look) = "failed"
    BY <1>1, JudgedByVerdict
  <2>2. CASE fleet = "vast"
    <3>1. PICK i \in 1..7 : /\ VastBlocks(Look)[i][1] /\ VastBlocks(Look)[i][2] = "failed"
                            /\ \A k \in 1..7 : VastBlocks(Look)[k][1] => i <= k
      BY <2>1, <2>2, VastVerdict
    <3>2. scan.row = "running" => i <= 4
      BY <1>1, <3>1 DEF VastBlocks
    <3> QED
      <4>1. CASE scan.row = "running"
        <5>1. i \notin {1, 4}
          BY <1>1, <3>1 DEF VastBlocks
        <5>2. ASSUME i = 2 PROVE scan.unit = "fatal"
          BY <3>1, <5>2 DEF VastBlocks
        <5>3. i = 3 => closed
          BY <3>1 DEF VastBlocks
        <5> QED
          BY <2>2, <3>2, <4>1, <5>1, <5>2, <5>3
      <4>2. CASE scan.row = "pending"
        BY <2>2, <4>2
      <4> QED
        BY <2>1, <4>1, <4>2 DEF Scanned, Active
  <2>3. CASE fleet = "modal"
    <3>1. PICK i \in 1..4 : /\ ModalBlocks(Look)[i][1] /\ ModalBlocks(Look)[i][2] = "failed"
                            /\ \A k \in 1..4 : ModalBlocks(Look)[k][1] => i <= k
      BY <2>1, <2>3, ModalVerdict
    <3>2. i <= 2
      BY <1>1, <3>1 DEF ModalBlocks
    <3> QED
      BY <3>1, <3>2 DEF ModalBlocks
  <2> QED
    BY <1>1, <2>2, <2>3 DEF FleetInv, TypeOK
<1>2. FleetInv /\ [Next]_vars => [Judged /\ Complete => Excuse]_vars
  BY <1>1
<1> QED
  BY FleetAlways, <1>2, PTL DEF Spec, CompleteNotFailed

(* No unit is destroyed under a job that goes on, by the fleet monitor or  *)
(* by the backup monitor's sweep of instances without a row: FleetMonitor's*)
(* DestroyedOnlyWhenOver.                                                  *)
THEOREM NoLiveUnitDestroyed == Spec => DestroyedOnlyWhenOver
<1> DEFINE Gone == unit \in {"starting", "running"} /\ unit' = "gone" /\ faults' = faults
           Over == row' \in Ended \/ (~linked /\ dispatch = "ended")
<1>1. ASSUME FleetInv, Next, Gone PROVE Over
  <2>1. CASE InspectEnds
    <3>1. Verdict(Look) \in Verdicts
      BY <1>1, <2>1, VerdictType DEF FleetInv, TypeOK, InspectEnds
    <3> QED
      BY <1>1, <2>1, <3>1 DEF InspectEnds, Route, Verdicts, Ended, FleetInv, TypeOK
  <2>2. CASE ReportGhost
    BY <1>1, <2>2, FleetConstants DEF ReportGhost, FleetInv, TypeOK, UnitFit, AgeCap, Greater
  <2>3. CASE CancelJob
    BY <2>3 DEF CancelJob, Ended
  <2>4. CASE InspectRaises \/ UnitDisappears
    BY <1>1, <2>4 DEF InspectRaises, UnitDisappears, Fault, FleetInv, TypeOK
  <2>5. ~(UNCHANGED unit)
    BY <1>1
  <2> QED
    BY <1>1, <2>1, <2>2, <2>3, <2>4, <2>5
    DEF Next, Dispatch, DispatchJob, SaveProviderJobId, DispatchRaises, DispatchDies, Provider,
        UnitStarts, UnitFatal, UnitExits, Worker, StartWorker, MarkRunning, Heartbeat,
        HeartbeatGone, RegisterOutputs, WorkerExits, Monitor, Inspect, InspectKeeps, Scan, DropState,
        MonitorDies, ReportOrphan, CloseGroup, RedisFails, RedisRecovers, Pass, cloud
<1>2. FleetInv /\ [Next]_vars => [Gone => Over]_vars
  BY <1>1
<1> QED
  BY FleetAlways, <1>2, PTL DEF Spec, DestroyedOnlyWhenOver

=============================================================================
