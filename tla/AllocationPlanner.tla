---------------------------- MODULE AllocationPlanner ----------------------------
(***************************************************************************)
(* The planner: which of the available targets a pending row gets, and how *)
(* the frames of a new group are shared out among them.  Pure operators on *)
(* a snapshot of what is available and on what is known of the scene.      *)
(*                                                                         *)
(* The scores that order the targets, and the number K of chunks worth     *)
(* making, are functions of estimates; both are parameters here.  The      *)
(* filters on engine and remaining commitment time only take targets away  *)
(* and are left out.                                                       *)
(***************************************************************************)
EXTENDS Integers, FiniteSets, Sequences, SequencesExt

CONSTANTS
  Machine,    \* community machines
  Offer,      \* offers on the Vast marketplace
  Endpoints,  \* Modal endpoints, in the order of the configuration
  Gpu,        \* Gpu[t]: the GPU type of an offer or endpoint
  Cap,        \* Cap[f]: fleet_max_parallel, the fleet's jobs at once
  Share,      \* Share[f]: fleet_target_share of a serverless fleet
  GpuPercent  \* gpu_type_diversification_cap, in percent

Endpoint == ToSet(Endpoints)
Target   == Machine \cup Offer \cup Endpoint
Fleet    == {"community", "vast", "modal"}

ASSUME PlannerConstants ==
  /\ Machine \cap Offer = {} /\ (Machine \cup Offer) \cap Endpoint = {}
  /\ Endpoints \in Seq(Endpoint) /\ IsInjective(Endpoints)

FleetOf(t) == CASE t \in Machine  -> "community"
                [] t \in Offer    -> "vast"
                [] t \in Endpoint -> "modal"

\* What a failure is held against: the machine, or the fleet's GPU type.
Key(t) == <<FleetOf(t), IF t \in Machine THEN t ELSE Gpu[t]>>

-----------------------------------------------------------------------------
Sum(w, I)     == SumFunctionOnSet(w, I)
Larger(a, b)  == IF a > b THEN a ELSE b
Smaller(a, b) == IF a < b THEN a ELSE b

\* Where a sequence has an element.
At(s, t) == CHOOSE i \in DOMAIN s : s[i] = t

-----------------------------------------------------------------------------
\* _collect_eligibles: a target of T is listed once per slot.  A machine has one and
\* so has an offer while its fleet has headroom; Modal's headroom is dealt to its
\* endpoints in turn.
Headroom(snap, f) == Cap[f] - snap.inflight[f]

Slots(snap, T, t) ==
  CASE t \in Machine  -> {1}
    [] t \in Offer    -> IF Headroom(snap, "vast") > 0 THEN {1} ELSE {}
    [] t \in Endpoint ->
         LET types == T \cap Endpoint
             ahead == {e \in types : At(Endpoints, e) < At(Endpoints, t)}
         IN {k \in 1..Headroom(snap, "modal") : (k - 1) % Cardinality(types) = Cardinality(ahead)}

Listed(snap, rank, T) ==
  UNION {{[place |-> i, nth |-> k, target |-> rank[i]] : k \in Slots(snap, T, rank[i])} :
           i \in {n \in DOMAIN rank : rank[n] \in T}}

\* The VRAM floor is dropped only when nothing at all passes it.
Eligible(snap, rank, among, fits) ==
  LET roomy == Listed(snap, rank, snap.avail \cap among \cap fits)
  IN IF roomy # {} THEN roomy ELSE Listed(snap, rank, snap.avail \cap among)

\* The order of the scores, and the first n of S in it.
Before(s, t)  == s.place < t.place \/ (s.place = t.place /\ s.nth < t.nth)
Leading(n, S) == {s \in S : Cardinality({t \in S : Before(t, s)}) < n}

-----------------------------------------------------------------------------
\* The best slot of each fleet in S.
BestOf(S) ==
  [f \in {FleetOf(s.target) : s \in S} |->
     CHOOSE s \in S : /\ FleetOf(s.target) = f
                      /\ \A t \in S : FleetOf(t.target) = f => t = s \/ Before(s, t)]

\* _apportion_by_share, by largest remainder; the rank of a fleet's best target
\* breaks ties.  all: the sum of the fleets' shares.
Apportioned(n, all, best, f) ==
  LET part(g) == IF all = 0 THEN n ELSE Share[g] * n
      whole   == IF all = 0 THEN Cardinality(DOMAIN best) ELSE all
      left    == n - Sum([g \in DOMAIN best |-> part(g) \div whole], DOMAIN best)
      ahead   == {g \in DOMAIN best :
                    \/ part(g) % whole > part(f) % whole
                    \/ part(g) % whole = part(f) % whole /\ Before(best[g], best[f])}
  IN (part(f) \div whole) + (IF Cardinality(ahead) < left THEN 1 ELSE 0)

Quota(n, best, f) == Apportioned(n, Sum(Share, DOMAIN best), best, f)

\* Of n slots each fleet's quota, no GPU type above its part.
ByQuota(n, rented, best) ==
  LET gpuCap    == Larger(1, (n * GpuPercent) \div 100)
      Alike(s)  == {t \in rented : Key(t.target) = Key(s.target) /\ Before(t, s)}
      Capped(f) == {s \in rented : FleetOf(s.target) = f /\ Cardinality(Alike(s)) < gpuCap}
  IN UNION {Leading(Quota(n, best, f), Capped(f)) : f \in DOMAIN best}

\* How many are chosen before each: the machines, the quotas fleet by fleet, the rest.
Turns(own, quota, spill, best) ==
  LET part(s) == IF s \in own THEN 1 ELSE IF s \in quota THEN 2 ELSE 3
      head(s) == IF s \in quota THEN best[FleetOf(s.target)] ELSE s
      chosen  == own \cup quota \cup spill
      Sooner(s, t) == \/ part(s) < part(t)
                      \/ part(s) = part(t) /\ Before(head(s), head(t))
                      \/ part(s) = part(t) /\ head(s) = head(t) /\ Before(s, t)
  IN [s \in chosen |-> Cardinality({t \in chosen : Sooner(t, s)})]

\* _select_with_diversification: k of the slots S, in turn.  Every machine first;
\* then each fleet's quota; then whatever scores best.
Select(S, k) ==
  LET own    == Leading(k, {s \in S : s.target \in Machine})
      rest   == k - Cardinality(own)
      rented == {s \in S : s.target \notin Machine}
      quota  == ByQuota(rest, rented, BestOf(rented))
      spill  == Leading(rest - Cardinality(quota), rented \ quota)
  IN Turns(own, quota, spill, BestOf(rented))

-----------------------------------------------------------------------------
\* The frames a chunk renders.
FramesOf(first, last, step) == {f \in first..last : (f - first) % step = 0}

\* Slip: the frames lost to rounding down are dealt to nobody.
FrameCountsFloored(turn, total, scene) ==
  LET all == Sum([s \in DOMAIN turn |-> scene.weight[s.target]], DOMAIN turn)
  IN [s \in DOMAIN turn |->
        Smaller((scene.weight[s.target] * total) \div all, scene.window[s.target])]

\* The slots faster than s, and of those as fast the ones chosen sooner.
Faster(turn, scene, s) ==
  {t \in DOMAIN turn :
     \/ scene.weight[t.target] > scene.weight[s.target]
     \/ scene.weight[t.target] = scene.weight[s.target] /\ turn[t] < turn[s]}

\* The frames in proportion to speed, the remainder to the fastest.
Balanced(turn, total, scene) ==
  LET all      == Sum([s \in DOMAIN turn |-> scene.weight[s.target]], DOMAIN turn)
      floor    == [s \in DOMAIN turn |-> (scene.weight[s.target] * total) \div all]
      residual == total - Sum(floor, DOMAIN turn)
  IN [s \in DOMAIN turn |->
        floor[s] + (IF Cardinality(Faster(turn, scene, s)) < residual THEN 1 ELSE 0)]

\* What a target's window cannot hold goes to the fastest that have room, or is left
\* over.
Fitted(turn, scene, balanced) ==
  LET slack    == [s \in DOMAIN turn |-> Larger(0, scene.window[s.target] - balanced[s])]
      excess   == [s \in DOMAIN turn |-> Larger(0, balanced[s] - scene.window[s.target])]
      ahead(s) == Sum(slack, Faster(turn, scene, s))
      given(s) == Smaller(slack[s], Larger(0, Sum(excess, DOMAIN turn) - ahead(s)))
  IN [s \in DOMAIN turn |-> Smaller(balanced[s], scene.window[s.target]) + given(s)]

\* _distribute_time_balanced: the frames of the row per slot.
FrameCounts(turn, total, scene) == Fitted(turn, scene, Balanced(turn, total, scene))

\* Where the frames of slot s start, and where they end.
StartOf(turn, row, step, counts, s) ==
  row.first + step * Sum(counts, {t \in DOMAIN turn : turn[t] < turn[s]})
EndOf(turn, row, step, counts, s) ==
  IF turn[s] = Cardinality(DOMAIN turn) - 1 THEN row.last
  ELSE StartOf(turn, row, step, counts, s) + (counts[s] - 1) * step

\* The chunks, one for each slot with frames, walking the range of the row.
Shares(turn, row, step, counts) ==
  LET used == {s \in DOMAIN turn : counts[s] > 0}
  IN {[group   |-> row.group,
       chunk   |-> Cardinality({t \in used : turn[t] < turn[s]}) + 1,
       attempt |-> 0,
       target  |-> s.target,
       first   |-> StartOf(turn, row, step, counts, s),
       last    |-> EndOf(turn, row, step, counts, s),
       count   |-> counts[s]] : s \in used}

-----------------------------------------------------------------------------
\* plan_initial, on the slots scored: those chosen for one chunk, two, at most k.
InitialTargets(scored, k) == {Select(scored, n) : n \in 1..Smaller(Cardinality(scored), k)}

\* Slip: a capability that has served the group is taken whatever it did to this chunk.
RetryTargetLoyal(row, scored, liked) ==
  LET allowed   == {s \in scored : Key(s.target) \notin row.avoid}
      preferred == {s \in scored : Key(s.target) \in liked}
  IN {s.target : s \in IF preferred # {} THEN Leading(1, preferred) ELSE DOMAIN Select(allowed, 1)}

\* plan_retry: never where the chunk has failed; else where the group has been
\* started before; else as for a new group.
RetryTarget(row, scored, liked) ==
  LET allowed   == {s \in scored : Key(s.target) \notin row.avoid}
      preferred == {s \in allowed : Key(s.target) \in liked}
  IN {s.target : s \in IF preferred # {} THEN Leading(1, preferred) ELSE DOMAIN Select(allowed, 1)}

=============================================================================
