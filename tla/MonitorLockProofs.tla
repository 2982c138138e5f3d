------------------------- MODULE MonitorLockProofs -------------------------
(***************************************************************************)
(* MonitorLock's lease keeps its singleton on one replica, for any number  *)
(* of replicas and any lengths that satisfy LeaseOutlivesTick.             *)
(***************************************************************************)
EXTENDS MonitorLock, TLAPS

Cycle == MaxTick + Interval

\* An upper bound on the time since r last set or extended the lease.
Used(r) ==
  blips[r] * Cycle + (IF st[r] = "tick" THEN MaxTick - left[r]
                      ELSE IF st[r] = "sleep" THEN Cycle - left[r]
                      ELSE Cycle)

Held(r) == owner = r /\ ttl + Used(r) >= TTL

(* A ticking replica holds the lease.  One that sleeps or is about to      *)
(* refresh holds it too, unless its refreshes have failed as often as they *)
(* may, after which the next one cannot fail and tells it the truth.       *)
Lease(r) ==
  /\ st[r] = "tick" => Held(r) /\ left[r] <= MaxTick
  /\ st[r] = "sleep" => left[r] <= Interval
  /\ st[r] \in {"sleep", "due"} /\ blips[r] < MaxBlips => Held(r)

LeaseInv == TypeOK /\ \A r \in Replica : Lease(r)

-----------------------------------------------------------------------------
(* One more failed refresh costs at most one more cycle of the lease.      *)
LEMMA CyclesFit ==
  ASSUME NEW b \in Nat, b < MaxBlips
  PROVE  b * Cycle + Cycle <= MaxBlips * Cycle
<1> MaxBlips \in Nat /\ Cycle \in Nat BY LockConstants DEF Cycle
<1>1. (b + 1) * Cycle = b * Cycle + Cycle OBVIOUS
<1>2. (b + 1) * Cycle <= MaxBlips * Cycle BY b + 1 <= MaxBlips
<1> QED BY <1>1, <1>2

(* The time a tick may have used is shorter than the lease.                *)
LEMMA TickFits ==
  ASSUME NEW b \in 0..MaxBlips
  PROVE  b * Cycle + MaxTick < TTL
<1> MaxBlips \in Nat /\ Cycle \in Nat /\ MaxTick \in Nat /\ TTL \in Nat
  BY LockConstants DEF Cycle
<1>1. b * Cycle <= MaxBlips * Cycle BY b <= MaxBlips
<1>2. MaxBlips * Cycle + MaxTick < TTL BY LeaseOutlivesTick DEF Cycle
<1> QED BY <1>1, <1>2

LEMMA LeaseInit == Init => LeaseInv
  BY LockConstants DEF Init, LeaseInv, Lease, TypeOK, State

(* Every action keeps the bookkeeping of the leases.                       *)
LEMMA LeaseStep == LeaseInv /\ [Next]_vars => LeaseInv'
<1> SUFFICES ASSUME LeaseInv, [Next]_vars PROVE LeaseInv'
  OBVIOUS
<1> USE LockConstants DEF LeaseInv
<1> MaxBlips \in Nat /\ Cycle \in Nat /\ Cycle = MaxTick + Interval
  BY DEF Cycle
<1>0. \A r \in Replica : blips[r] \in Nat /\ blips[r] * Cycle \in Nat
                      /\ left[r] \in Nat /\ 0 * Cycle = 0
  BY DEF TypeOK
<1>1. ASSUME NEW r \in Replica, TryStart(r) PROVE LeaseInv'
  BY <1>0, <1>1 DEF TryStart, SetLease, TypeOK, State, Lease, Held, Used
<1>2. ASSUME NEW r \in Replica, TryAcquire(r) PROVE LeaseInv'
  BY <1>0, <1>2 DEF TryAcquire, SetLease, BeginTick, TypeOK, State, Lease, Held, Used
<1>3. ASSUME NEW r \in Replica, Refresh(r) PROVE LeaseInv'
  BY <1>0, <1>3 DEF Refresh, SetLease, BeginTick, TypeOK, State, Lease, Held, Used
<1>4. ASSUME NEW r \in Replica, RefreshBlip(r) PROVE LeaseInv'
  <2>1. Held(r) /\ Used(r) = blips[r] * Cycle + Cycle
    BY <1>4 DEF RefreshBlip, Lease, Used
  <2>2. (blips[r] + 1) * Cycle = blips[r] * Cycle + Cycle
    BY <1>0
  <2> QED BY <1>0, <1>4, <2>1, <2>2
        DEF RefreshBlip, BeginTick, TypeOK, State, Lease, Held, Used
<1>5. ASSUME NEW r \in Replica, RefreshLost(r) PROVE LeaseInv'
  BY <1>0, <1>5 DEF RefreshLost, TypeOK, State, Lease, Held, Used
<1>6. ASSUME NEW r \in Replica, EndTick(r) PROVE LeaseInv'
  BY <1>0, <1>6 DEF EndTick, TypeOK, State, Lease, Held, Used
<1>7. ASSUME NEW r \in Replica, Wake(r) PROVE LeaseInv'
  BY <1>0, <1>7 DEF Wake, TypeOK, State, Lease, Held, Used
<1>8. ASSUME NEW r \in Replica, Crash(r) PROVE LeaseInv'
  BY <1>0, <1>8 DEF Crash, TypeOK, State, Lease, Held, Used
<1>9. ASSUME NEW r \in Replica, Restart(r) PROVE LeaseInv'
  BY <1>0, <1>9 DEF Restart, TypeOK, State, Lease, Held, Used
<1>10. CASE Pass
  <2>1. TypeOK'
    BY <1>10 DEF Pass, TypeOK, State
  <2>2. ASSUME NEW r \in Replica PROVE Lease(r)'
    <3>1. CASE st[r] = "tick"
      <4>1. blips[r] * Cycle + MaxTick < TTL
        BY TickFits DEF TypeOK
      <4>2. ttl > 1
        BY <1>0, <1>10, <2>2, <3>1, <4>1 DEF Pass, Lease, Held, Used, TypeOK
      <4> QED BY <1>0, <1>10, <2>2, <3>1, <4>2 DEF Pass, Lease, Held, Used, TypeOK
    <3>2. CASE st[r] = "sleep" /\ blips[r] < MaxBlips
      <4>1. blips[r] * Cycle + Cycle < TTL
        BY CyclesFit, TickFits, <1>0, <3>2 DEF TypeOK
      <4>2. ttl > 1
        BY <1>0, <1>10, <2>2, <3>2, <4>1 DEF Pass, Lease, Held, Used, TypeOK
      <4> QED BY <1>0, <1>10, <2>2, <3>2, <4>2 DEF Pass, Lease, Held, Used, TypeOK
    <3>3. CASE st[r] \notin {"tick", "due"} /\ ~(st[r] = "sleep" /\ blips[r] < MaxBlips)
      BY <1>0, <1>10, <2>2, <3>3 DEF Pass, Lease, TypeOK
    <3> QED BY <1>10, <2>2, <3>1, <3>2, <3>3 DEF Pass
  <2> QED BY <2>1, <2>2
<1>11. CASE UNCHANGED vars
  BY <1>11 DEF vars, TypeOK, Lease, Held, Used
<1> QED
  BY <1>1, <1>2, <1>3, <1>4, <1>5, <1>6, <1>7, <1>8, <1>9, <1>10, <1>11
  DEF Next, Loop

LEMMA LeaseAlways == Spec => []LeaseInv
  BY LeaseInit, LeaseStep, PTL DEF Spec

(* The lease's time, the replicas' clocks and the count of refreshes that  *)
(* failed keep their ranges: MonitorLock's TypeOK.                         *)
THEOREM LockTypes == Spec => []TypeOK
<1>1. LeaseInv => TypeOK BY DEF LeaseInv
<1> QED BY LeaseAlways, <1>1, PTL

(* Only one replica scans or dispatches at a time: MonitorLock's OneTicks, *)
(* the guarantee of monitor_lock/__init__.py, for any replicas and times.  *)
THEOREM OneTicker == Spec => []OneTicks
<1>1. LeaseInv => OneTicks BY DEF LeaseInv, Lease, Held, OneTicks
<1> QED BY LeaseAlways, <1>1, PTL

(* MonitorLock's OwnerRuns: the key never keeps the others away on behalf  *)
(* of a replica that is up and does not work.                              *)
THEOREM NoIdleOwner == Spec => []OwnerRuns
<1>1. Init => OwnerRuns
  BY LockConstants DEF Init, OwnerRuns
<1>2. LeaseInv /\ OwnerRuns /\ [Next]_vars => OwnerRuns'
  <2> SUFFICES ASSUME LeaseInv, OwnerRuns, [Next]_vars PROVE OwnerRuns'
    OBVIOUS
  <2> USE LockConstants DEF LeaseInv, TypeOK, OwnerRuns, Runs
  <2>1. ASSUME NEW r \in Replica, TryStart(r) \/ TryAcquire(r) PROVE OwnerRuns'
    BY <2>1 DEF TryStart, TryAcquire, SetLease, BeginTick
  <2>2. ASSUME NEW r \in Replica, Loop(r) PROVE OwnerRuns'
    BY <2>2 DEF Loop, Refresh, RefreshBlip, RefreshLost, EndTick, Wake,
                SetLease, BeginTick
  <2>3. ASSUME NEW r \in Replica, Crash(r) \/ Restart(r) PROVE OwnerRuns'
    BY <2>3 DEF Crash, Restart
  <2>4. CASE Pass \/ UNCHANGED vars
    BY <2>4 DEF Pass, vars
  <2> QED BY <2>1, <2>2, <2>3, <2>4 DEF Next
<1> QED BY LeaseAlways, <1>1, <1>2, PTL DEF Spec

=============================================================================
