---------------------------- MODULE MonitorLock ----------------------------
(***************************************************************************)
(* One singleton of serverV2 (a fleet monitor, or the dispatch daemon) and *)
(* the Redis lease that is to keep it on one replica: SET NX EX to take    *)
(* it, compare-and-EXPIRE before every tick to keep it.                    *)
(*                                                                         *)
(* Time is discrete.  A tick lasts at most MaxTick and a sleep exactly     *)
(* Interval, delays of the host included; how long a tick may last is an   *)
(* assumption, since the code does not bound it.                           *)
(***************************************************************************)
EXTENDS Integers, FiniteSets

CONSTANTS
  Replica,     \* the server processes
  TTL,         \* _LOCK_TTL_SEC
  Interval,    \* sleep between two ticks
  MaxTick,     \* how long a tick may last
  MaxBlips,    \* refreshes in a row that may fail with a RedisError
  MaxCrashes,  \* bound: processes that die
  Nobody,      \* no lock key
  Ghost        \* the key names a process that died

ASSUME LockConstants ==
  /\ TTL \in Nat \ {0} /\ Interval \in Nat /\ MaxTick \in Nat
  /\ MaxBlips \in Nat /\ MaxCrashes \in Nat
  /\ Nobody \notin Replica /\ Ghost \notin Replica /\ Nobody # Ghost

\* The lease outlives a tick that began with the last refresh allowed to fail.
ASSUME LeaseOutlivesTick ==
  MaxBlips * (MaxTick + Interval) + MaxTick < TTL

VARIABLES
  kind,     \* which loop this is: a fleet monitor's or the daemon's
  owner,    \* the lock key's value
  ttl,      \* its remaining time to live
  st,       \* what each replica's loop does
  left,     \* time left of its tick or of its sleep
  blips,    \* refreshes that failed since it last heard from Redis
  crashes

vars == <<kind, owner, ttl, st, left, blips, crashes>>

\* "off": no loop; "due": about to refresh.
State == {"down", "off", "due", "tick", "sleep"}
Runs  == {"due", "tick", "sleep"}

TypeOK ==
  /\ kind \in {"monitor", "daemon"}
  /\ owner \in Replica \cup {Nobody, Ghost}
  /\ ttl \in 0..TTL
  /\ st \in [Replica -> State]
  /\ left \in [Replica -> Nat]
  /\ blips \in [Replica -> 0..MaxBlips]
  /\ crashes \in Nat

Init ==
  /\ kind \in {"monitor", "daemon"}
  /\ owner = Nobody
  /\ ttl = 0
  /\ st = [r \in Replica |-> "off"]
  /\ left = [r \in Replica |-> 0]
  /\ blips = [r \in Replica |-> 0]
  /\ crashes = 0

BeginTick(r) ==
  /\ st' = [st EXCEPT ![r] = "tick"]
  /\ left' = [left EXCEPT ![r] = MaxTick]

\* Slip: what is left of the lease is added to the new one.
SetLeaseAdds(r) ==
  /\ owner' = r
  /\ ttl' = ttl + TTL
  /\ blips' = [blips EXCEPT ![r] = 0]

SetLease(r) ==
  /\ owner' = r
  /\ ttl' = TTL
  /\ blips' = [blips EXCEPT ![r] = 0]

\* try_start of a fleet monitor: the thread it spawns refreshes first.
TryStart(r) ==
  /\ kind = "monitor" /\ st[r] = "off" /\ owner = Nobody
  /\ SetLease(r)
  /\ st' = [st EXCEPT ![r] = "due"]
  /\ UNCHANGED <<kind, left, crashes>>

\* Slip: SET without NX.
TryAcquireAnyway(r) ==
  /\ kind = "daemon" /\ st[r] = "off"
  /\ SetLease(r)
  /\ BeginTick(r)
  /\ UNCHANGED <<kind, crashes>>

\* _gate_lock of the daemon without the lock: a win goes straight to the tick.
TryAcquire(r) ==
  /\ kind = "daemon" /\ st[r] = "off" /\ owner = Nobody
  /\ SetLease(r)
  /\ BeginTick(r)
  /\ UNCHANGED <<kind, crashes>>

Refresh(r) ==
  /\ st[r] = "due" /\ owner = r
  /\ SetLease(r)
  /\ BeginTick(r)
  /\ UNCHANGED <<kind, crashes>>

\* Slip: a RedisError counts as a lost lock.
RefreshBlipStops(r) ==
  /\ st[r] = "due" /\ blips[r] < MaxBlips
  /\ st' = [st EXCEPT ![r] = "off"]
  /\ UNCHANGED <<kind, owner, ttl, left, blips, crashes>>

\* A RedisError answers "still ours".
RefreshBlip(r) ==
  /\ st[r] = "due" /\ blips[r] < MaxBlips
  /\ blips' = [blips EXCEPT ![r] = @ + 1]
  /\ BeginTick(r)
  /\ UNCHANGED <<kind, owner, ttl, crashes>>

\* The monitor's thread exits; the daemon drops its flag.
RefreshLost(r) ==
  /\ st[r] = "due" /\ owner # r
  /\ st' = [st EXCEPT ![r] = "off"]
  /\ left' = [left EXCEPT ![r] = 0]
  /\ blips' = [blips EXCEPT ![r] = 0]
  /\ UNCHANGED <<kind, owner, ttl, crashes>>

EndTick(r) ==
  /\ st[r] = "tick"
  /\ st' = [st EXCEPT ![r] = "sleep"]
  /\ left' = [left EXCEPT ![r] = Interval]
  /\ UNCHANGED <<kind, owner, ttl, blips, crashes>>

Wake(r) ==
  /\ st[r] = "sleep" /\ left[r] = 0
  /\ st' = [st EXCEPT ![r] = "due"]
  /\ UNCHANGED <<kind, owner, ttl, left, blips, crashes>>

\* A process that restarts has a new instance id: its old key names nobody.
Crash(r) ==
  /\ st[r] # "down" /\ crashes < MaxCrashes
  /\ crashes' = crashes + 1
  /\ st' = [st EXCEPT ![r] = "down"]
  /\ left' = [left EXCEPT ![r] = 0]
  /\ blips' = [blips EXCEPT ![r] = 0]
  /\ owner' = IF owner = r THEN Ghost ELSE owner
  /\ UNCHANGED <<kind, ttl>>

Restart(r) ==
  /\ st[r] = "down"
  /\ st' = [st EXCEPT ![r] = "off"]
  /\ UNCHANGED <<kind, owner, ttl, left, blips, crashes>>

\* Slip: SET NX without EX.
PassNoExpiry ==
  /\ \A r \in Replica : /\ st[r] # "due"
                        /\ st[r] \in {"tick", "sleep"} => left[r] > 0
  /\ left' = [r \in Replica |-> IF left[r] > 0 THEN left[r] - 1 ELSE 0]
  /\ UNCHANGED <<kind, owner, ttl, st, blips, crashes>>

\* A second passes; Redis drops a key whose time is up.
Pass ==
  /\ \A r \in Replica : /\ st[r] # "due"
                        /\ st[r] \in {"tick", "sleep"} => left[r] > 0
  /\ left' = [r \in Replica |-> IF left[r] > 0 THEN left[r] - 1 ELSE 0]
  /\ ttl' = IF ttl > 0 THEN ttl - 1 ELSE 0
  /\ owner' = IF ttl <= 1 THEN Nobody ELSE owner
  /\ UNCHANGED <<kind, st, blips, crashes>>

Loop(r) ==
  \/ Refresh(r) \/ RefreshBlip(r) \/ RefreshLost(r) \/ EndTick(r) \/ Wake(r)

Next ==
  \/ \E r \in Replica : TryStart(r) \/ TryAcquire(r) \/ Loop(r) \/ Crash(r) \/ Restart(r)
  \/ Pass

Spec == Init /\ [][Next]_vars

(***************************************************************************)
(* Every replica's sweeper pokes try_start, or its daemon thread tries the *)
(* lock, again and again; a loop that runs goes on; time passes.           *)
(***************************************************************************)
Fairness ==
  /\ \A r \in Replica : /\ SF_vars(TryStart(r) \/ TryAcquire(r))
                        /\ WF_vars(Loop(r))
                        /\ WF_vars(Restart(r))
  /\ WF_vars(Pass)

FairSpec == Spec /\ Fairness

-----------------------------------------------------------------------------
(* monitor_lock/__init__.py: the singleton runs on at most one replica at  *)
(* a time.  It does while the lease outlives a tick and the refreshes that *)
(* may fail before it; the compare in the refresh is what makes a replica  *)
(* whose lease ran out in its sleep stop.                                  *)
OneTicks ==
  \A r, s \in Replica : st[r] = "tick" /\ st[s] = "tick" => r = s

(* The key never names a live replica that has stopped: a failed refresh   *)
(* is not taken for a lost lock, so no lease is held with nobody working.  *)
OwnerRuns == \A r \in Replica : owner = r => st[r] \in Runs

(* However the holder dies, some replica ticks again: the lease expires    *)
(* and a sweeper or a daemon elsewhere takes it.                           *)
Failover == []<>(\E r \in Replica : st[r] = "tick")

=============================================================================
