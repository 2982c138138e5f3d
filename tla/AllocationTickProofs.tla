--------------------------- MODULE AllocationTickProofs ---------------------------
(* For every number of machines, offers, groups and ticks: the fleets' caps hold, a  *)
(* snapshot's units are promised once, a chunk never returns where it failed, and    *)
(* no range of a group that fits is lost or handed out twice.                        *)
EXTENDS AllocationTick, PlannerProofs

JobFields == {"group", "chunk", "attempt", "target", "first", "last", "count", "made",
              "status", "report"}

\* The fleet's jobs but those a late report has revived.
Standing(f) == {j \in OnFleet(f) : Stands(j)}

\* A jobs row has its columns, the table is finite, and no fleet is above its cap.
CapInv ==
  /\ \A j \in jobs : j = [x \in JobFields |-> j[x]]
  /\ IsFiniteSet(jobs)
  /\ CapKept

Untouched == UNCHANGED jobs

\* What depends on the jobs table alone stays as it is when the table does.
LEMMA UntouchedKeeps == CapInv /\ Untouched => CapInv'
  BY DEF CapInv, Untouched, CapKept, OnFleet, Live, Stands

LEMMA FiniteOnFleet ==
  ASSUME IsFiniteSet(jobs), NEW f
  PROVE  /\ IsFiniteSet(OnFleet(f)) /\ Cardinality(OnFleet(f)) \in Nat
         /\ IsFiniteSet(Standing(f)) /\ Cardinality(Standing(f)) \in Nat
         /\ Cardinality(Standing(f)) <= Cardinality(OnFleet(f))
<1>1. OnFleet(f) \subseteq jobs /\ Standing(f) \subseteq OnFleet(f) BY DEF OnFleet, Standing
<1> QED BY <1>1, FS_Subset, FS_CardinalityType

LEMMA OneMore ==
  ASSUME NEW S, IsFiniteSet(S), NEW x
  PROVE  /\ IsFiniteSet(S \cup {x})
         /\ Cardinality(S) \in Nat /\ Cardinality(S \cup {x}) \in Nat
         /\ Cardinality(S \cup {x}) <= Cardinality(S) + 1
<1>1. Cardinality(S) \in Nat /\ IsFiniteSet(S \cup {x})
  BY FS_CardinalityType, FS_AddElement
<1>2. Cardinality(S \cup {x}) \in Nat
  BY <1>1, FS_CardinalityType
<1>3. Cardinality(S \cup {x}) <= Cardinality(S) + 1
  <2>1. Cardinality(S \cup {x}) = IF x \in S THEN Cardinality(S) ELSE Cardinality(S) + 1
    BY FS_AddElement
  <2> QED BY <1>1, <2>1
<1> QED BY <1>1, <1>2, <1>3

\* A row written over: the row stays among those of its fleet that stand, or leaves them.
LEMMA BecomeKeeps ==
  ASSUME CapInv, NEW j \in jobs, NEW new, Become(j, new),
         new = [x \in JobFields |-> new[x]], new.target = j.target,
         Stands(new) => Stands(j)
  PROVE  CapInv'
<1>1. IsFiniteSet(jobs) /\ jobs' = (jobs \ {j}) \cup {new}
  BY DEF CapInv, Become
<1>2. IsFiniteSet(jobs')
  BY <1>1, FS_RemoveElement, FS_AddElement
<1>3. \A i \in jobs' : i = [x \in JobFields |-> i[x]]
  BY <1>1 DEF CapInv
<1>4. ASSUME NEW f \in Fleet PROVE Cardinality(Standing(f)') <= Cap[f]
  <2>1. IsFiniteSet(Standing(f)) /\ Cardinality(Standing(f)) \in Nat
    BY <1>1, FiniteOnFleet
  <2>2. Cardinality(Standing(f)) <= Cap[f] /\ Cap[f] \in Nat
    <3>1. Cap[f] \in Nat BY TickConstants
    <3> QED BY <3>1 DEF CapInv, CapKept, Standing
  <2>3. CASE j \in Standing(f)
    <3> DEFINE Others == Standing(f) \ {j}
    <3>2. IsFiniteSet(Others) /\ Cardinality(Others) = Cardinality(Standing(f)) - 1
      BY <2>1, <2>3, FS_RemoveElement
    <3>4. Standing(f)' \subseteq Others \cup {new}
      BY <1>1 DEF OnFleet, Live, Standing, Stands
    <3> HIDE DEF Others
    <3>3. IsFiniteSet(Others \cup {new}) /\ Cardinality(Others \cup {new}) \in Nat
          /\ Cardinality(Others \cup {new}) <= Cardinality(Others) + 1
      BY <3>2, OneMore
    <3>5. Cardinality(Standing(f)') <= Cardinality(Others \cup {new})
          /\ Cardinality(Standing(f)') \in Nat /\ Cardinality(Others \cup {new}) \in Nat
      BY <3>3, <3>4, FS_Subset, FS_CardinalityType
    <3> QED BY <2>1, <2>2, <3>2, <3>3, <3>5
  <2>4. CASE j \notin Standing(f)
    <3>1. new \notin Standing(f)'
      BY <2>4 DEF Standing, OnFleet, Live, Stands
    <3>2. Standing(f)' = Standing(f)
      BY <1>1, <2>4, <3>1 DEF Standing, OnFleet, Live, Stands
    <3> QED BY <2>2, <3>2
  <2> QED BY <2>3, <2>4
<1> QED BY <1>2, <1>3, <1>4 DEF CapInv, CapKept, Standing

\* The room is counted in the step that fills it.
LEMMA DispatchKeeps ==
  ASSUME CapInv, NEW k \in queue, Dispatch(k)
  PROVE  CapInv'
<1> DEFINE new == [group |-> k.group, chunk |-> k.chunk, attempt |-> k.attempt,
       target |-> k.target, first |-> k.first, last |-> k.last, count |-> k.count,
       made |-> 0, status |-> "pending", report |-> "none"]
<1>1. /\ jobs' = jobs \cup {new} /\ IsFiniteSet(jobs)
      /\ Active(FleetOf(k.target)) < Cap[FleetOf(k.target)]
  BY DEF Dispatch, CapInv
<1>2. IsFiniteSet(jobs')
  BY <1>1, FS_AddElement
<1>3. new = [x \in JobFields |-> new[x]]
  BY DEF JobFields
<1>4. \A i \in jobs' : i = [x \in JobFields |-> i[x]]
  BY <1>1, <1>3 DEF CapInv
<1>5. new.target = k.target
  OBVIOUS
<1> HIDE DEF new
<1>6. ASSUME NEW f \in Fleet PROVE Cardinality(Standing(f)') <= Cap[f]
  <2>1. /\ IsFiniteSet(Standing(f)) /\ Cardinality(Standing(f)) \in Nat
        /\ Cardinality(OnFleet(f)) \in Nat
        /\ Cardinality(Standing(f)) <= Cardinality(OnFleet(f))
    BY <1>1, FiniteOnFleet
  <2>2. Cardinality(Standing(f)) <= Cap[f] /\ Cap[f] \in Nat
    <3>1. Cap[f] \in Nat BY TickConstants
    <3> QED BY <3>1 DEF CapInv, CapKept, Standing
  <2>3. CASE FleetOf(k.target) = f
    <3>1. Standing(f)' \subseteq Standing(f) \cup {new}
      BY <1>1 DEF Standing, OnFleet, Live, Stands
    <3>2. IsFiniteSet(Standing(f) \cup {new})
          /\ Cardinality(Standing(f) \cup {new}) <= Cardinality(Standing(f)) + 1
      BY <2>1, OneMore
    <3>3. Cardinality(Standing(f)') <= Cardinality(Standing(f) \cup {new})
          /\ Cardinality(Standing(f)') \in Nat /\ Cardinality(Standing(f) \cup {new}) \in Nat
      BY <3>1, <3>2, FS_Subset, FS_CardinalityType
    <3>4. Cardinality(OnFleet(f)) < Cap[f]
      BY <1>1, <2>3 DEF Active
    <3> QED BY <2>1, <2>2, <3>2, <3>3, <3>4
  <2>4. CASE FleetOf(k.target) # f
    <3>1. Standing(f)' = Standing(f)
      BY <1>1, <1>5, <2>4 DEF Standing, OnFleet, Live, Stands
    <3> QED BY <2>2, <3>1
  <2> QED BY <2>3, <2>4
<1> QED BY <1>2, <1>4, <1>6 DEF CapInv, CapKept, Standing

LEMMA StepKeeps == CapInv /\ [Next]_vars => CapInv'
<1> SUFFICES ASSUME CapInv, [Next]_vars PROVE CapInv'
  OBVIOUS
<1>1. CASE UNCHANGED vars BY <1>1, UntouchedKeeps DEF vars, Untouched
<1>2. CASE Tick
  <2>1. CASE TickStarts \/ ListRows \/ Persist
    BY <2>1, UntouchedKeeps DEF TickStarts, ListRows, Persist, Untouched
  <2>2. ASSUME NEW k \in queue, Dispatch(k) PROVE CapInv'
    BY <2>2, DispatchKeeps
  <2>3. ASSUME NEW f \in Fleet, FleetFull(f) PROVE CapInv'
    BY <2>3, UntouchedKeeps DEF FleetFull, Untouched
  <2>4. ASSUME NEW row \in tick.rows, Promote(row) \/ Postpone(row) PROVE CapInv'
    BY <2>4, UntouchedKeeps DEF Promote, Postpone, Untouched
  <2> QED BY <1>2, <2>1, <2>2, <2>3, <2>4 DEF Tick
<1>3. CASE Work
  <2>1. PICK j \in jobs : BeginReport(j) \/ WriteReported(j) \/ Finish(j) BY <1>3 DEF Work
  <2>2. j = [x \in JobFields |-> j[x]] BY DEF CapInv
  <2>3. CASE BeginReport(j)
    <3> DEFINE new == [j EXCEPT !.report = "begun"]
    <3>1. new = [x \in JobFields |-> new[x]] /\ new.target = j.target
      BY <2>2 DEF JobFields
    <3>2. Become(j, new) /\ Live(j) /\ j.report = "none" BY <2>3 DEF BeginReport
    <3> QED BY <3>1, <3>2, BecomeKeeps DEF Stands
  <2>4. CASE WriteReported(j)
    <3> DEFINE new == [j EXCEPT !.status = "running",
                                !.report = IF Live(j) THEN "written" ELSE "late"]
    <3>1. new = [x \in JobFields |-> new[x]] /\ new.target = j.target
      BY <2>2 DEF JobFields
    <3>2. Become(j, new) /\ j.report = "begun" BY <2>4 DEF WriteReported
    <3>3. new.report # "late" => Live(j)
      BY <2>2 DEF JobFields
    <3> HIDE DEF new
    <3> QED BY <3>1, <3>2, <3>3, BecomeKeeps DEF Stands
  <2>5. CASE Finish(j)
    <3> DEFINE new == [j EXCEPT !.status = "done"]
    <3>1. new = [x \in JobFields |-> new[x]] /\ new.target = j.target /\ new.status = "done"
      BY <2>2 DEF JobFields
    <3>2. Become(j, new) /\ ~Live(new) BY <2>5, <3>1 DEF Finish, Live
    <3> QED BY <3>1, <3>2, BecomeKeeps DEF Stands
  <2> QED BY <2>1, <2>3, <2>4, <2>5
<1>4. CASE Failing
  <2>1. PICK j \in jobs : \E n \in 0..j.count, status \in {"failed", "infra"} : Fail(j, n, status)
    BY <1>4 DEF Failing
  <2>2. PICK n \in 0..j.count, status \in {"failed", "infra"} : Fail(j, n, status)
    BY <2>1
  <2>3. j = [x \in JobFields |-> j[x]] BY DEF CapInv
  <2> DEFINE new == [j EXCEPT !.status = status, !.made = IF Id(j) \in claims THEN n ELSE @]
  <2>4. new = [x \in JobFields |-> new[x]] /\ new.target = j.target /\ new.status = status
    BY <2>3 DEF JobFields
  <2>5. Become(j, new) /\ ~Live(new) BY <2>2, <2>4 DEF Fail, Live
  <2> QED BY <2>4, <2>5, BecomeKeeps DEF Stands
<1>5. CASE Preview \/ Age
  BY <1>5, UntouchedKeeps DEF Preview, Age, Untouched
<1>6. ASSUME NEW g \in Group, Submit(g) PROVE CapInv'
  BY <1>6, UntouchedKeeps DEF Submit, Untouched
<1> QED BY <1>1, <1>2, <1>3, <1>4, <1>5, <1>6 DEF Next

LEMMA InitHolds == Init => CapInv
<1> SUFFICES ASSUME Init PROVE CapInv
  OBVIOUS
<1>1. jobs = {} BY DEF Init
<1>2. IsFiniteSet(jobs) BY <1>1, FS_EmptySet
<1>3. \A f \in Fleet : Standing(f) = {} BY <1>1 DEF OnFleet, Standing
<1>4. \A f \in Fleet : Cardinality(Standing(f)) = 0 BY <1>3, FS_EmptySet
<1>5. \A f \in Fleet : Cap[f] \in Nat BY TickConstants
<1>6. CapKept BY <1>4, <1>5 DEF CapKept, Standing
<1> QED BY <1>1, <1>2, <1>6 DEF CapInv

\* However many tasks are queued and whatever the snapshot said when they were planned, a
\* fleet is over its cap only by jobs that a report written late has revived.
THEOREM FleetCaps == Spec => []CapKept
<1>1. Init => CapInv BY InitHolds
<1>2. CapInv /\ [Next]_vars => CapInv' BY StepKeeps
<1>3. CapInv => CapKept BY DEF CapInv
<1> QED BY <1>1, <1>2, <1>3, PTL DEF Spec

-----------------------------------------------------------------------------
(* What a plan is: targets the snapshot lists, no machine, offer or chunk  *)
(* number twice, no more of Modal than its headroom; a retry keeps its     *)
(* chunk and attempt and avoids what its row excludes.                     *)
OnModal(tasks) == {k \in tasks : FleetOf(k.target) = "modal"}

Planned(snap, row, tasks) ==
  /\ IsFiniteSet(tasks)
  /\ \A k \in tasks : k.target \in snap.avail /\ k.group = row.group
  /\ \A k, l \in tasks : k.target = l.target /\ k.target \notin Endpoint => k = l
  /\ Cardinality(OnModal(tasks)) <= Larger(0, Headroom(snap, "modal"))
  /\ row.chunk = 0 => /\ \A k \in tasks : k.attempt = 0 /\ k.chunk \in Nat \ {0}
                      /\ \A k, l \in tasks : k.chunk = l.chunk => k = l
  /\ row.chunk # 0 => /\ \A k \in tasks : /\ k.attempt = row.attempt /\ k.chunk = row.chunk
                                          /\ Key(k.target) \notin row.avoid
                      /\ \A k, l \in tasks : k = l

LEMMA HeadroomInt ==
  ASSUME NEW snap \in Snapshot
  PROVE  Headroom(snap, "modal") \in Int
  BY TickConstants DEF Headroom, Snapshot, Fleet, Rented

LEMMA SharesPlanned ==
  ASSUME NEW snap \in Snapshot, NEW turn, Offered(snap, DOMAIN turn),
         \A s \in DOMAIN turn : turn[s] \in Nat,
         \A s, t \in DOMAIN turn : turn[s] = turn[t] => s = t,
         NEW row, row.chunk = 0, NEW step, NEW counts
  PROVE  Planned(snap, row, Shares(turn, row, step, counts))
<1> DEFINE used == {s \in DOMAIN turn : counts[s] > 0}
           R    == {p \in used \X used : turn[p[1]] < turn[p[2]]}
           N(s) == Cardinality({t \in used : turn[t] < turn[s]})
           task(s) == [group |-> row.group, chunk |-> N(s) + 1, attempt |-> 0,
                       target |-> s.target, first |-> StartOf(turn, row, step, counts, s),
                       last |-> EndOf(turn, row, step, counts, s), count |-> counts[s]]
           tasks == {task(s) : s \in used}
           H == Headroom(snap, "modal")
<1>1. Shares(turn, row, step, counts) = tasks
  BY DEF Shares
<1>2. Offered(snap, used)
  BY FewerOffered
<1>3. IsFiniteSet(used) /\ used \subseteq DOMAIN turn
  BY <1>2 DEF Offered
<1>4. ASSUME NEW s \in used, NEW t \in used PROVE N(s) \in Nat /\ (N(s) = N(t) => s = t)
  <2>1. \A x, y \in used : <<x, y>> \in R <=> turn[x] < turn[y]
    OBVIOUS
  <2>2. /\ \A x \in used : <<x, x>> \notin R
        /\ \A x, y, z \in used : <<x, y>> \in R /\ <<y, z>> \in R => <<x, z>> \in R
        /\ \A x, y \in used : x = y \/ <<x, y>> \in R \/ <<y, x>> \in R
    BY <1>3, <2>1
  <2>3. \A x \in used : {y \in used : turn[y] < turn[x]} = Ahead(R, used, x)
    BY DEF Ahead
  <2> HIDE DEF R, used
  <2>4. /\ Cardinality(Ahead(R, used, s)) \in Nat
        /\ Cardinality(Ahead(R, used, s)) = Cardinality(Ahead(R, used, t)) => s = t
    BY <1>3, <2>2, Numbered
  <2> QED
    BY <2>3, <2>4
<1> HIDE DEF N, used
<1>5. ASSUME NEW k \in tasks
      PROVE  /\ k.group = row.group /\ k.attempt = 0 /\ k.chunk \in Nat \ {0}
             /\ k.target \in snap.avail
  <2>1. PICK s \in used : k = task(s)
    OBVIOUS
  <2>2. N(s) \in Nat /\ s.target \in snap.avail
    BY <1>2, <1>4 DEF Offered
  <2> QED
    BY <2>1, <2>2
<1>6. ASSUME NEW k \in tasks, NEW l \in tasks
      PROVE  /\ k.chunk = l.chunk => k = l
             /\ k.target = l.target /\ k.target \notin Endpoint => k = l
  <2>1. PICK s \in used : k = task(s)
    OBVIOUS
  <2>2. PICK t \in used : l = task(t)
    OBVIOUS
  <2>3. N(s) \in Nat /\ N(t) \in Nat /\ (N(s) = N(t) => s = t)
    BY <1>4
  <2>4. k.chunk = l.chunk => s = t
    BY <2>1, <2>2, <2>3
  <2>5. k.target = l.target /\ k.target \notin Endpoint => s = t
    BY <1>2, <2>1, <2>2 DEF Offered
  <2> QED
    BY <2>1, <2>2, <2>4, <2>5
<1>7. IsFiniteSet(tasks)
  <2>1. [s \in used |-> task(s)] \in Surjection(used, tasks)
    BY DEF Surjection
  <2> QED
    BY <1>3, <2>1, FS_Surjection
<1>8. Cardinality(OnModal(tasks)) <= Larger(0, H)
  <2> DEFINE M == OnModal(tasks)
             g == [k \in M |-> (CHOOSE s \in used : k = task(s)).nth]
  <2>1. H \in Int
    BY TickConstants DEF Headroom, Snapshot, Fleet, Rented
  <2>2. ASSUME NEW k \in M
        PROVE  \E s \in used : k = task(s) /\ s.target \in Endpoint /\ s.nth \in 1..H /\ g[k] = s.nth
    <3> DEFINE s == CHOOSE x \in used : k = task(x)
    <3>1. s \in used /\ k = task(s)
      BY DEF OnModal
    <3>2. g[k] = s.nth
      OBVIOUS
    <3> HIDE DEF s
    <3>3. k.target = s.target /\ FleetOf(k.target) = "modal"
      <4>1. FleetOf(k.target) = "modal"
        BY DEF OnModal
      <4>2. k.target = s.target
        BY <3>1
      <4> QED
        BY <4>1, <4>2
    <3>4. s.target \in Target
      BY <1>2, <3>1 DEF Offered, Snapshot
    <3>5. s.target \in Endpoint
      BY <3>3, <3>4, FleetsApart DEF Target
    <3>6. s.nth \in 1..H
      BY <1>2, <3>1, <3>5 DEF Offered
    <3> QED
      BY <3>1, <3>2, <3>5, <3>6
  <2>3. g \in [M -> 1..H]
    <3>1. \A k \in M : g[k] \in 1..H
      BY <2>2
    <3> QED
      BY <3>1
  <2> HIDE DEF g
  <2>4. ASSUME NEW k \in M, NEW l \in M, g[k] = g[l] PROVE k = l
    <3>1. PICK s \in used : k = task(s) /\ s.target \in Endpoint /\ g[k] = s.nth
      BY <2>2
    <3>2. PICK t \in used : l = task(t) /\ t.target \in Endpoint /\ g[l] = t.nth
      BY <2>2
    <3>3. s = t
      BY <1>2, <2>4, <3>1, <3>2 DEF Offered
    <3> QED
      BY <3>1, <3>2, <3>3
  <2>5. g \in Injection(M, 1..H)
    BY <2>3, <2>4 DEF Injection, IsInjective
  <2>6. IsFiniteSet(1..H) /\ Cardinality(1..H) = IF 1 > H THEN 0 ELSE H - 1 + 1
    BY <2>1, FS_Interval
  <2> HIDE DEF M, H
  <2>7. Cardinality(M) <= Cardinality(1..H) /\ IsFiniteSet(M)
    BY <2>5, <2>6, FS_Injection
  <2>8. Cardinality(M) \in Nat
    BY <2>7, FS_CardinalityType
  <2> QED
    BY <2>1, <2>6, <2>7, <2>8 DEF Larger, M
<1> HIDE DEF tasks
<1> QED
  BY <1>1, <1>5, <1>6, <1>7, <1>8 DEF Planned

LEMMA RetryPlanned ==
  ASSUME NEW snap \in Snapshot, NEW S, Offered(snap, S), NEW row, row.chunk # 0, NEW liked,
         NEW t \in RetryTarget(row, S, liked), NEW k, k.target = t,
         k.group = row.group, k.chunk = row.chunk, k.attempt = row.attempt
  PROVE  Planned(snap, row, {k})
<1> DEFINE allowed   == {s \in S : Key(s.target) \notin row.avoid}
           preferred == {s \in allowed : Key(s.target) \in liked}
<1>1. PICK s \in allowed : t = s.target
  <2>1. Leading(1, preferred) \subseteq allowed
    BY DEF Leading
  <2>2. Offered(snap, allowed)
    BY FewerOffered
  <2>3. DOMAIN Select(allowed, 1) \subseteq allowed
    BY <2>2, SelectTurns
  <2>4. PICK s \in (IF preferred # {} THEN Leading(1, preferred) ELSE DOMAIN Select(allowed, 1)) :
          t = s.target
    BY DEF RetryTarget
  <2> QED
    BY <2>1, <2>3, <2>4
<1>2. t \in snap.avail /\ Key(t) \notin row.avoid
  BY <1>1 DEF Offered
<1>3. IsFiniteSet({k}) /\ Cardinality({k}) = 1 /\ IsFiniteSet({}) /\ Cardinality({}) = 0
  BY FS_Singleton, FS_EmptySet
<1>4. Cardinality(OnModal({k})) <= Larger(0, Headroom(snap, "modal"))
  <2>1. Headroom(snap, "modal") \in Int
    BY TickConstants DEF Headroom, Snapshot, Fleet, Rented
  <2>2. CASE FleetOf(t) = "modal"
    <3>1. t \in Endpoint
      BY <1>2, <2>2, FleetsApart DEF Target, Snapshot
    <3>2. s.nth \in 1..Headroom(snap, "modal")
      BY <1>1, <3>1 DEF Offered
    <3>3. OnModal({k}) = {k}
      BY <2>2 DEF OnModal
    <3> QED
      BY <1>3, <2>1, <3>2, <3>3 DEF Larger
  <2>3. CASE FleetOf(t) # "modal"
    <3>1. OnModal({k}) = {}
      BY <2>3 DEF OnModal
    <3> QED
      BY <1>3, <2>1, <3>1 DEF Larger
  <2> QED
    BY <2>2, <2>3
<1> QED
  BY <1>2, <1>3, <1>4 DEF Planned

LEMMA PlansPlanned ==
  ASSUME NEW row, tick.snap \in Snapshot, NEW plan \in PlansOf(row)
  PROVE  Planned(tick.snap, row, plan.tasks)
<1> DEFINE scene   == Groups[row.group]
           among   == IF row.chunk = 0 /\ scene.only # {} THEN scene.only ELSE Target
           Scored  == {Eligible(tick.snap, rank, among, scene.fits) : rank \in Rankings}
           Chosen  == UNION {InitialTargets(s, Smaller(MaxTargets, row.count)) : s \in Scored}
           Retries == UNION {RetryTarget(row, s, Liked(row.group)) : s \in Scored}
<1>1. ASSUME NEW s \in Scored PROVE Offered(tick.snap, s)
  <2>1. PICK rank \in Rankings : s = Eligible(tick.snap, rank, among, scene.fits)
    OBVIOUS
  <2>2. Known(tick.snap)
    BY HeadroomInt DEF Known, Snapshot
  <2>3. Ranking(rank)
    BY TickConstants DEF Ranking
  <2> QED
    BY <2>1, <2>2, <2>3, EligibleOffered
<1>2. CASE row.chunk = 0
  <2>1. PICK turn \in Chosen :
          plan.tasks = Shares(turn, row, scene.step, FrameCounts(turn, row.count, scene))
    BY <1>2 DEF PlansOf
  <2>2. PICK s \in Scored, n \in Int : turn = Select(s, n)
    BY <2>1 DEF InitialTargets
  <2>3. /\ DOMAIN turn \subseteq s
        /\ \A x \in DOMAIN turn : turn[x] \in Nat
        /\ \A x, y \in DOMAIN turn : turn[x] = turn[y] => x = y
    BY <1>1, <2>2, SelectTurns
  <2>4. Offered(tick.snap, DOMAIN turn)
    BY <1>1, <2>2, <2>3, FewerOffered
  <2> QED
    BY <1>2, <2>1, <2>3, <2>4, SharesPlanned
<1>3. CASE row.chunk # 0
  <2>1. PICK t \in Retries :
          plan.tasks = {[group |-> row.group, chunk |-> row.chunk, attempt |-> row.attempt,
                         target |-> t, first |-> row.first, last |-> row.last,
                         count |-> row.count]}
    BY <1>3 DEF PlansOf
  <2>2. PICK s \in Scored : t \in RetryTarget(row, s, Liked(row.group))
    BY <2>1
  <2> DEFINE k == [group |-> row.group, chunk |-> row.chunk, attempt |-> row.attempt,
                   target |-> t, first |-> row.first, last |-> row.last, count |-> row.count]
  <2>3. /\ k.target = t /\ k.group = row.group /\ k.chunk = row.chunk
        /\ k.attempt = row.attempt /\ plan.tasks = {k}
    BY <2>1
  <2> HIDE DEF k, Scored
  <2> QED
    BY <1>1, <1>3, <2>2, <2>3, RetryPlanned
<1> QED
  BY <1>2, <1>3

-----------------------------------------------------------------------------
(* As long as Redis answers, what a snapshot in use still lists has not    *)
(* been planned on it.  The copy in the cache may list what the tick that  *)
(* took it has planned since, for as long as that tick lasts: nobody else  *)
(* reads it, and the tick writes over it.                                  *)
Account == [on : [Machine \cup Offer -> Nat], room : Int]

Kept(used) == used.room >= 0 /\ \A t \in Machine \cup Offer : used.on[t] <= 1

Sound(snap, used) ==
  /\ \A t \in snap.avail \cap (Machine \cup Offer) : used.on[t] = 0
  /\ Larger(0, Headroom(snap, "modal")) <= used.room

SnapTypes ==
  /\ faults \in Nat /\ cache \in [left : Nat, snap : Snapshot]
  /\ tick \in [at : {"rest", "drain", "plan"}, full : SUBSET Fleet, snap : Snapshot,
               rows : SUBSET pending]
  /\ spent \in [Build -> Account]

TickSound  == tick.at # "rest" => Sound(tick.snap, spent[tick.snap.build])
CacheSound ==
  cache.left > 0 /\ (tick.at = "rest" \/ cache.snap.build # tick.snap.build) =>
    Sound(cache.snap, spent[cache.snap.build])

SnapInv ==
  /\ SnapTypes
  /\ faults = 0 => TickSound /\ CacheSound /\ \A b \in Build : Kept(spent[b])

LEMMA UnspentKept == Unspent \in Account /\ Kept(Unspent)
  BY DEF Unspent, Account, Kept

LEMMA EmptyTypes ==
  /\ NoSnapshot \in Snapshot /\ Expired \in [left : Nat, snap : Snapshot]
  /\ Rest.at = "rest" /\ Rest.full = {} /\ Rest.rows = {} /\ Rest.snap \in Snapshot
  /\ Expired.left = 0
  BY DEF NoSnapshot, Snapshot, Expired, Rest, Build

\* What a plan adds to the account of its snapshot.
Charged(used, tasks) ==
  [on   |-> [t \in Machine \cup Offer |->
               used.on[t] + Cardinality({k \in tasks : k.target = t})],
   room |-> used.room - Cardinality({k \in tasks : FleetOf(k.target) = "modal"})]

(* A plan that fits the snapshot leaves one that is as good.               *)
LEMMA MarkSound ==
  ASSUME NEW snap \in Snapshot, NEW row, NEW tasks, Planned(snap, row, tasks),
         NEW used \in Account
  PROVE  /\ Marked(snap, tasks) \in Snapshot /\ Marked(snap, tasks).build = snap.build
         /\ Charged(used, tasks) \in Account
         /\ Sound(snap, used) /\ Kept(used) =>
              Sound(Marked(snap, tasks), Charged(used, tasks)) /\ Kept(Charged(used, tasks))
<1> DEFINE H == Headroom(snap, "modal")
           n == Cardinality(OnModal(tasks))
           On1(t) == Cardinality({k \in tasks : k.target = t})
           In(f) == Cardinality({k \in tasks : FleetOf(k.target) = f})
           M == Marked(snap, tasks)
           new == Charged(used, tasks)
<1>1. IsFiniteSet(tasks)
  BY DEF Planned
<1>2. ASSUME NEW f PROVE In(f) \in Nat
  <2>1. {k \in tasks : FleetOf(k.target) = f} \in SUBSET tasks
    OBVIOUS
  <2> QED
    BY <1>1, <2>1, FS_Subset, FS_CardinalityType
<1>3. Cardinality({}) = 0 /\ \A x : Cardinality({x}) = 1
  BY FS_EmptySet, FS_Singleton
<1>4. ASSUME NEW t \in Machine \cup Offer
      PROVE  On1(t) = 0 \/ (On1(t) = 1 /\ t \in snap.avail /\ \E k \in tasks : k.target = t)
  <2>1. t \notin Endpoint
    BY TargetsApart
  <2>2. CASE \E k \in tasks : k.target = t
    <3>1. PICK k \in tasks : k.target = t
      BY <2>2
    <3>2. {l \in tasks : l.target = t} = {k}
      BY <2>1, <3>1 DEF Planned
    <3>3. On1(t) = 1
      BY <1>3, <3>2
    <3>4. t \in snap.avail
      BY <3>1 DEF Planned
    <3> HIDE DEF On1
    <3> QED
      BY <3>1, <3>3, <3>4
  <2>3. CASE ~ \E k \in tasks : k.target = t
    <3>1. {l \in tasks : l.target = t} = {}
      BY <2>3
    <3>2. On1(t) = 0
      BY <1>3, <3>1
    <3> HIDE DEF On1
    <3> QED
      BY <3>2
  <2> QED
    BY <2>2, <2>3
<1>5. n \in Nat /\ n <= Larger(0, H) /\ H \in Int /\ n = In("modal")
  BY <1>2, HeadroomInt DEF Planned, OnModal
<1>6. /\ M.avail = {t \in snap.avail : \A k \in tasks : Key(k.target) # Key(t)}
      /\ M.inflight = [f \in Rented |-> snap.inflight[f] + In(f)]
      /\ M.build = snap.build
      /\ M = [avail |-> M.avail, inflight |-> M.inflight, build |-> M.build]
  <2>1. snap = [avail |-> snap.avail, inflight |-> snap.inflight, build |-> snap.build]
    BY DEF Snapshot
  <2> DEFINE A == {t \in snap.avail : \A k \in tasks : Key(k.target) # Key(t)}
             I == [f \in Rented |-> snap.inflight[f] + In(f)]
  <2>2. M = [snap EXCEPT !.avail = A, !.inflight = I]
    BY DEF Marked
  <2> HIDE DEF A, I, M
  <2>3. M.avail = A /\ M.inflight = I /\ M.build = snap.build
        /\ M = [avail |-> M.avail, inflight |-> M.inflight, build |-> M.build]
    BY <2>1, <2>2
  <2> QED
    BY <2>3 DEF A, I
<1>7. M \in Snapshot
  <2>1. ASSUME NEW f \in Rented PROVE snap.inflight[f] + In(f) \in Nat
    <3>1. In(f) \in Nat /\ snap.inflight[f] \in Nat
      BY <1>2 DEF Snapshot
    <3> HIDE DEF In
    <3> QED
      BY <3>1
  <2> HIDE DEF In, M
  <2> QED
    BY <1>6, <2>1 DEF Snapshot
<1>8. Headroom(M, "modal") = H - n
  <2>1. snap.inflight["modal"] \in Nat /\ Cap["modal"] \in Nat
    BY TickConstants DEF Snapshot, Rented, Fleet
  <2>2. M.inflight["modal"] = snap.inflight["modal"] + n
    BY <1>5, <1>6 DEF Rented
  <2> HIDE DEF M, n
  <2> QED
    BY <1>5, <2>1, <2>2 DEF Headroom
<1> DEFINE on == [t \in Machine \cup Offer |-> used.on[t] + On1(t)]
<1>9. new = [on |-> on, room |-> used.room - n]
  BY DEF OnModal, Charged
<1> HIDE DEF n, In, On1, M, H, new
<1>10. used.room \in Int /\ \A t \in Machine \cup Offer : used.on[t] \in Nat
  BY DEF Account
<1>11. ASSUME NEW t \in Machine \cup Offer
       PROVE  on[t] = used.on[t] + On1(t) /\ on[t] \in Nat
  BY <1>4, <1>10
<1> HIDE DEF on
<1>12. new.on = on /\ new.room = used.room - n
  BY <1>9
<1>13. on = [t \in Machine \cup Offer |-> on[t]]
  BY DEF on
<1>14. new \in Account
  <2>1. on \in [Machine \cup Offer -> Nat]
    BY <1>11, <1>13
  <2>2. used.room - n \in Int
    BY <1>5, <1>10
  <2> QED
    BY <1>9, <2>1, <2>2 DEF Account
<1>15. ASSUME Sound(snap, used), Kept(used) PROVE Sound(M, new) /\ Kept(new)
  <2>1. ASSUME NEW t \in Machine \cup Offer
        PROVE  new.on[t] <= 1 /\ (t \in M.avail => new.on[t] = 0)
    <3> DEFINE u == used.on[t]
    <3>1. u \in Nat /\ u <= 1 /\ new.on[t] = u + On1(t) /\ (t \in snap.avail => u = 0)
      BY <1>15, <1>10, <1>11, <1>12 DEF Sound, Kept
    <3>2. t \in M.avail => t \in snap.avail
      BY <1>6
    <3> HIDE DEF u
    <3>3. CASE On1(t) = 0
      BY <3>3, <3>1, <3>2
    <3>4. CASE On1(t) # 0
      <4>1. On1(t) = 1 /\ t \in snap.avail /\ t \notin M.avail
        BY <1>4, <1>6, <3>4
      <4> QED
        BY <3>1, <4>1
    <3> QED
      BY <3>3, <3>4
  <2>2. Larger(0, H) <= used.room
    BY <1>15 DEF Sound, H
  <2>3. new.room >= 0 /\ Larger(0, Headroom(M, "modal")) <= new.room
    BY <1>5, <1>8, <1>10, <1>12, <2>2 DEF Larger
  <2> QED
    BY <2>1, <2>3 DEF Sound, Kept
<1> QED
  BY <1>6, <1>7, <1>14, <1>15 DEF M, new

-----------------------------------------------------------------------------
(* A new snapshot promises what is free, and takes a name of its own.      *)
LEMMA BuiltSound ==
  ASSUME CapInv, NEW b \in Build
  PROVE  /\ Built(b) \in Snapshot /\ Built(b).build = b
         /\ [Unspent EXCEPT !.room = Larger(0, Cap["modal"] - Active("modal"))] \in Account
         /\ Kept([Unspent EXCEPT !.room = Larger(0, Cap["modal"] - Active("modal"))])
         /\ Sound(Built(b), [Unspent EXCEPT !.room = Larger(0, Cap["modal"] - Active("modal"))])
<1> DEFINE room == Larger(0, Cap["modal"] - Active("modal"))
           new == [Unspent EXCEPT !.room = room]
<1>1. Active("modal") \in Nat /\ Active("vast") \in Nat
  BY FiniteOnFleet DEF CapInv, Active
<1>2. UNION {Free(f) : f \in Fleet} \subseteq Target
  <2>1. \A f \in Fleet : Free(f) \subseteq Target
    BY DEF Free, Fleet, Target
  <2> QED
    BY <2>1
<1>3. [f \in Rented |-> Active(f)] \in [Rented -> Nat]
  BY <1>1 DEF Rented
<1>4. Built(b) \in Snapshot /\ Built(b).build = b /\ Built(b).inflight["modal"] = Active("modal")
  <2>1. Built(b) = [avail |-> UNION {Free(f) : f \in Fleet},
                    inflight |-> [f \in Rented |-> Active(f)], build |-> b]
    BY DEF Built
  <2>2. "modal" \in Rented
    BY DEF Rented
  <2> QED
    BY <1>2, <1>3, <2>1, <2>2 DEF Snapshot
<1>5. Cap["modal"] \in Nat
  BY TickConstants DEF Fleet
<1>6. Headroom(Built(b), "modal") = Cap["modal"] - Active("modal")
  BY <1>4 DEF Headroom
<1>7. /\ new.room = room /\ new.on = [t \in Machine \cup Offer |-> 0]
      /\ new = [on |-> [t \in Machine \cup Offer |-> 0], room |-> room]
      /\ room >= 0 /\ room \in Int
  BY <1>1, <1>5 DEF Unspent, Larger
<1>8. new \in Account /\ Kept(new)
  BY <1>7 DEF Account, Kept
<1>9. Sound(Built(b), new)
  BY <1>6, <1>7 DEF Sound
<1> QED
  BY <1>4, <1>8, <1>9

LEMMA FreshSound ==
  ASSUME SnapTypes, CapInv, tick.at = "rest"
  PROVE  /\ Fresh \in Snapshot
         /\ [Unspent EXCEPT !.room = Larger(0, Cap["modal"] - Active("modal"))] \in Account
         /\ Kept([Unspent EXCEPT !.room = Larger(0, Cap["modal"] - Active("modal"))])
         /\ Sound(Fresh, [Unspent EXCEPT !.room = Larger(0, Cap["modal"] - Active("modal"))])
<1>1. \E x \in Build : x \notin InUse
  <2>1. cache.snap.build \in Build
    BY DEF SnapTypes, Snapshot
  <2> QED
    BY <2>1 DEF InUse, Build
<1>2. (CHOOSE x \in Build : x \notin InUse) \in Build
  BY <1>1
<1> QED
  BY <1>2, BuiltSound DEF Fresh

(* The cached snapshot or a new one: it is sound, and so is the cache.     *)
LEMMA GotSound ==
  ASSUME SnapInv, CapInv, tick.at = "rest", NEW snap, GetOrBuild(snap)
  PROVE  /\ faults' \in Nat /\ cache' \in [left : Nat, snap : Snapshot]
         /\ spent' \in [Build -> Account] /\ snap \in Snapshot
         /\ faults' = 0 =>
              /\ Sound(snap, spent'[snap.build])
              /\ cache'.snap = snap
              /\ \A b \in Build : Kept(spent'[b])
<1> DEFINE new == [Unspent EXCEPT !.room = Larger(0, Cap["modal"] - Active("modal"))]
<1>t. SnapTypes /\ Life \in Nat /\ MaxFaults \in Nat
  BY TickConstants DEF SnapInv
<1>1. CASE cache.left > 0 /\ snap = cache.snap /\ UNCHANGED <<cache, spent>> /\ Fine
  BY <1>1, <1>t DEF SnapInv, SnapTypes, CacheSound, Fine
<1>2. ASSUME snap = Fresh, Opened(snap.build),
             \/ cache.left = 0 /\ cache' = [left |-> Life, snap |-> snap] /\ Fine
             \/ cache.left > 0 /\ cache' = [left |-> Life, snap |-> snap] /\ Fault
             \/ UNCHANGED cache /\ Fault
      PROVE  /\ faults' \in Nat /\ cache' \in [left : Nat, snap : Snapshot]
             /\ spent' \in [Build -> Account] /\ snap \in Snapshot
             /\ faults' = 0 =>
                  /\ Sound(snap, spent'[snap.build])
                  /\ cache'.snap = snap
                  /\ \A b \in Build : Kept(spent'[b])
  <2>1. snap \in Snapshot /\ new \in Account /\ Kept(new) /\ Sound(snap, new)
    BY <1>2, <1>t, FreshSound
  <2>2. spent' = [spent EXCEPT ![snap.build] = new] /\ snap.build \in Build
    BY <1>2, <2>1 DEF Opened, Snapshot
  <2> HIDE DEF new
  <2>3. spent' \in [Build -> Account] /\ spent'[snap.build] = new
        /\ \A b \in Build : spent'[b] = new \/ spent'[b] = spent[b]
    BY <1>t, <2>1, <2>2 DEF SnapTypes
  <2>4. faults' \in Nat /\ (faults' = 0 => faults = 0 /\ Fine)
    BY <1>2, <1>t DEF Fault, Fine, SnapTypes
  <2>5. cache' \in [left : Nat, snap : Snapshot]
    BY <1>2, <1>t, <2>1 DEF SnapTypes
  <2>6. faults' = 0 => cache'.snap = snap
    BY <1>2, <1>t DEF Fault, SnapTypes
  <2> QED
    BY <2>1, <2>3, <2>4, <2>5, <2>6 DEF SnapInv
<1> QED
  BY <1>1, <1>2 DEF GetOrBuild

LEMMA SnapInit == Init => SnapInv
<1> SUFFICES ASSUME Init PROVE SnapInv
  OBVIOUS
<1>1. SnapTypes
  BY UnspentKept, EmptyTypes DEF Init, SnapTypes, Rest
<1>2. TickSound /\ CacheSound
  BY EmptyTypes DEF Init, TickSound, CacheSound
<1>3. \A b \in Build : Kept(spent[b])
  BY UnspentKept DEF Init
<1> QED
  BY <1>1, <1>2, <1>3 DEF SnapInv

LEMMA SnapStep ==
  ASSUME SnapInv, CapInv, [Next]_vars
  PROVE  SnapInv'
<1>t. /\ SnapTypes /\ Life \in Nat
      /\ faults = 0 => TickSound /\ CacheSound /\ \A b \in Build : Kept(spent[b])
  BY TickConstants DEF SnapInv
<1>0. ASSUME UNCHANGED <<cache, spent, faults>>, tick'.snap = tick.snap,
             tick'.at = "rest" <=> tick.at = "rest",
             tick' \in [at : {"rest", "drain", "plan"}, full : SUBSET Fleet, snap : Snapshot,
                        rows : SUBSET pending']
      PROVE  SnapInv'
  BY <1>0, <1>t DEF SnapInv, SnapTypes, TickSound, CacheSound
<1>1. ASSUME UNCHANGED <<cache, spent, faults, tick>>, pending \subseteq pending' PROVE SnapInv'
  BY <1>0, <1>1, <1>t DEF SnapTypes
<1>2. CASE UNCHANGED vars
  BY <1>1, <1>2 DEF vars
<1>3. CASE TickStarts
  <2>1. PICK snap : /\ tick.at = "rest" /\ GetOrBuild(snap) /\ UNCHANGED pending
                    /\ tick' = [Rest EXCEPT !.at = "drain", !.snap = snap]
    BY <1>3 DEF TickStarts
  <2>2. /\ faults' \in Nat /\ cache' \in [left : Nat, snap : Snapshot]
        /\ spent' \in [Build -> Account] /\ snap \in Snapshot
        /\ faults' = 0 => /\ Sound(snap, spent'[snap.build])
                          /\ cache'.snap = snap
                          /\ \A b \in Build : Kept(spent'[b])
    BY <2>1, GotSound
  <2>3. /\ tick'.at = "drain" /\ tick'.snap = snap
        /\ tick' \in [at : {"rest", "drain", "plan"}, full : SUBSET Fleet, snap : Snapshot,
                      rows : SUBSET pending']
    BY <2>1, <2>2 DEF Rest
  <2> QED
    BY <2>2, <2>3 DEF SnapInv, SnapTypes, TickSound, CacheSound
<1>4. CASE ListRows
  BY <1>0, <1>4, <1>t DEF ListRows, SnapTypes
<1>5. ASSUME NEW f \in Fleet, FleetFull(f) PROVE SnapInv'
  BY <1>0, <1>5, <1>t DEF FleetFull, SnapTypes
<1>6. ASSUME NEW k \in queue, Dispatch(k) PROVE SnapInv'
  BY <1>1, <1>6 DEF Dispatch
<1>7. ASSUME NEW row \in tick.rows, Postpone(row) PROVE SnapInv'
  BY <1>0, <1>7, <1>t DEF Postpone, SnapTypes
<1>8. ASSUME NEW row \in tick.rows, Promote(row) PROVE SnapInv'
  <2>1. PICK plan \in PlansOf(row) :
          /\ tick' = [tick EXCEPT !.snap = Marked(@, plan.tasks), !.rows = @ \ {row}]
          /\ Spend(plan.tasks)
    BY <1>8 DEF Promote
  <2> DEFINE snap == tick.snap
             b == snap.build
             tasks == plan.tasks
             new == Charged(spent[b], tasks)
             next == Marked(snap, tasks)
  <2>2. snap \in Snapshot /\ b \in Build /\ spent[b] \in Account
    BY <1>t DEF SnapTypes, Snapshot
  <2>3. Planned(snap, row, tasks)
    BY <2>1, <2>2, PlansPlanned
  <2>4. spent' = [spent EXCEPT ![b] = new]
    BY <2>1 DEF Spend, Charged
  <2> HIDE DEF tasks
  <2>5. /\ next \in Snapshot /\ next.build = b /\ new \in Account
        /\ Sound(snap, spent[b]) /\ Kept(spent[b]) => Sound(next, new) /\ Kept(new)
    BY <2>2, <2>3, MarkSound
  <2>6. UNCHANGED <<cache, faults>> /\ pending' = pending \ {row} /\ tick.at = "plan"
        /\ tick' = [tick EXCEPT !.snap = next, !.rows = @ \ {row}]
    BY <1>8, <2>1 DEF Promote, tasks
  <2> HIDE DEF next, new
  <2>7. /\ tick'.at = "plan" /\ tick'.snap = next
        /\ tick' \in [at : {"rest", "drain", "plan"}, full : SUBSET Fleet, snap : Snapshot,
                      rows : SUBSET pending']
    BY <1>t, <2>5, <2>6 DEF SnapTypes
  <2>8. /\ spent' \in [Build -> Account] /\ spent'[b] = new
        /\ \A x \in Build \ {b} : spent'[x] = spent[x]
    BY <1>t, <2>2, <2>4, <2>5 DEF SnapTypes
  <2>9. SnapTypes'
    BY <1>t, <2>6, <2>7, <2>8 DEF SnapTypes
  <2>10. ASSUME faults = 0 PROVE TickSound' /\ CacheSound' /\ (\A x \in Build : Kept(spent[x]))'
    <3>1. Sound(next, new) /\ Kept(new)
      BY <1>t, <2>2, <2>5, <2>6, <2>10 DEF TickSound
    <3>2. TickSound'
      BY <2>5, <2>7, <2>8, <3>1 DEF TickSound
    <3>3. CacheSound'
      BY <1>t, <2>5, <2>6, <2>7, <2>8, <2>10 DEF CacheSound, SnapTypes, Snapshot
    <3> QED
      BY <1>t, <2>8, <2>10, <3>1, <3>2, <3>3
  <2> QED
    BY <2>6, <2>9, <2>10 DEF SnapInv
<1>9. CASE Persist
  <2>1. /\ tick.at = "plan" /\ tick' = Rest /\ Forget /\ UNCHANGED pending
        /\ \/ /\ cache' = IF cache.left > 0 THEN [cache EXCEPT !.snap = tick.snap] ELSE cache
              /\ faults' = faults
           \/ cache.left > 0 /\ UNCHANGED cache /\ faults' = faults + 1
    BY <1>9 DEF Persist, Fine, Fault
  <2>2. /\ cache' \in [left : Nat, snap : Snapshot] /\ faults' \in Nat
        /\ faults' = 0 => faults = 0 /\ (cache'.left > 0 => cache'.snap = tick.snap)
    BY <1>t, <2>1 DEF SnapTypes
  <2>3. \A b \in Build : spent'[b] = IF b \in InUse' THEN spent[b] ELSE Unspent
    BY <2>1 DEF Forget
  <2>4. spent' \in [Build -> Account]
    BY <1>t, <2>1, UnspentKept DEF Forget, SnapTypes
  <2>5. /\ tick'.at = "rest"
        /\ tick' \in [at : {"rest", "drain", "plan"}, full : SUBSET Fleet, snap : Snapshot,
                      rows : SUBSET pending']
    BY <2>1, EmptyTypes DEF Rest
  <2>6. SnapTypes'
    BY <2>2, <2>4, <2>5 DEF SnapTypes
  <2>7. ASSUME faults' = 0 PROVE CacheSound' /\ (\A b \in Build : Kept(spent[b]))'
    <3>1. \A b \in Build : Kept(spent'[b])
      BY <1>t, <2>2, <2>3, <2>7, UnspentKept
    <3>2. ASSUME cache'.left > 0 PROVE Sound(cache'.snap, spent'[cache'.snap.build])
      <4>1. cache'.snap = tick.snap /\ tick.snap.build \in Build
        BY <1>t, <2>2, <2>7, <3>2 DEF SnapTypes, Snapshot
      <4>2. tick.snap.build \in InUse'
        BY <3>2, <4>1 DEF InUse
      <4> QED
        BY <1>t, <2>1, <2>2, <2>3, <2>7, <4>1, <4>2 DEF TickSound
    <3> QED
      BY <3>1, <3>2 DEF CacheSound
  <2> QED
    BY <2>5, <2>6, <2>7 DEF SnapInv, TickSound
<1>10. CASE Age
  <2>1. /\ cache.left > 0 /\ Forget /\ UNCHANGED <<tick, pending, faults>>
        /\ cache' = IF cache.left = 1 THEN Expired ELSE [cache EXCEPT !.left = @ - 1]
    BY <1>10 DEF Age
  <2>2. /\ cache' \in [left : Nat, snap : Snapshot]
        /\ cache'.left > 0 => cache'.snap = cache.snap
    BY <1>t, <2>1, EmptyTypes DEF SnapTypes
  <2>3. \A b \in Build : spent'[b] = IF b \in InUse' THEN spent[b] ELSE Unspent
    BY <2>1 DEF Forget
  <2>4. spent' \in [Build -> Account]
    BY <1>t, <2>1, UnspentKept DEF Forget, SnapTypes
  <2>5. SnapTypes'
    BY <1>t, <2>1, <2>2, <2>4 DEF SnapTypes
  <2>6. /\ tick.at # "rest" => tick.snap.build \in InUse'
        /\ cache'.left > 0 => cache.snap.build \in InUse'
        /\ tick.snap.build \in Build /\ cache.snap.build \in Build
    BY <1>t, <2>1, <2>2 DEF InUse, SnapTypes, Snapshot
  <2>7. ASSUME faults = 0 PROVE TickSound' /\ CacheSound' /\ (\A b \in Build : Kept(spent[b]))'
    <3>1. TickSound'
      BY <1>t, <2>1, <2>3, <2>6, <2>7 DEF TickSound
    <3>2. CacheSound'
      BY <1>t, <2>1, <2>2, <2>3, <2>6, <2>7 DEF CacheSound
    <3> QED
      BY <1>t, <2>3, <2>7, <3>1, <3>2, UnspentKept
  <2> QED
    BY <2>1, <2>5, <2>7 DEF SnapInv
<1>11. CASE Preview
  <2> DEFINE new == [Unspent EXCEPT !.room = Larger(0, Cap["modal"] - Active("modal"))]
             b == CHOOSE x \in Build : tick.at = "rest" \/ x # tick.snap.build
             snap == Built(b)
  <2>1. /\ cache' = [left |-> Life, snap |-> snap] /\ Opened(snap.build)
        /\ UNCHANGED <<tick, pending, faults>>
    BY <1>11 DEF Preview, Fine
  <2>b. b \in Build /\ (tick.at = "rest" \/ b # tick.snap.build)
    <3>1. \E x \in Build : tick.at = "rest" \/ x # tick.snap.build
      BY DEF Build
    <3> QED
      BY <3>1
  <2> HIDE DEF b
  <2>2. /\ snap \in Snapshot /\ snap.build = b /\ new \in Account
        /\ Kept(new) /\ Sound(snap, new)
    BY <2>b, BuiltSound
  <2> HIDE DEF new, snap
  <2>3. spent' = [spent EXCEPT ![snap.build] = new] /\ snap.build \in Build
    BY <2>1, <2>2 DEF Opened, Snapshot, new
  <2>4. /\ spent' \in [Build -> Account] /\ spent'[snap.build] = new
        /\ \A x \in Build \ {snap.build} : spent'[x] = spent[x]
    BY <1>t, <2>2, <2>3 DEF SnapTypes
  <2>5. cache' \in [left : Nat, snap : Snapshot] /\ cache'.snap = snap
    BY <1>t, <2>1, <2>2
  <2>6. SnapTypes'
    BY <1>t, <2>1, <2>4, <2>5 DEF SnapTypes
  <2>7. tick.at # "rest" => tick.snap.build # snap.build /\ tick.snap.build \in Build
    BY <1>t, <2>b, <2>2 DEF SnapTypes, Snapshot
  <2>8. ASSUME faults = 0 PROVE TickSound' /\ CacheSound' /\ (\A x \in Build : Kept(spent[x]))'
    <3>1. TickSound'
      BY <1>t, <2>1, <2>4, <2>7, <2>8 DEF TickSound
    <3>2. CacheSound'
      BY <2>2, <2>4, <2>5 DEF CacheSound
    <3> QED
      BY <1>t, <2>2, <2>4, <2>8, <3>1, <3>2
  <2> QED
    BY <2>1, <2>6, <2>8 DEF SnapInv
<1>12. CASE Work
  BY <1>1, <1>12 DEF Work, BeginReport, WriteReported, Finish
<1>13. CASE Failing
  BY <1>1, <1>13 DEF Failing, Fail
<1>14. ASSUME NEW g \in Group, Submit(g) PROVE SnapInv'
  BY <1>1, <1>14 DEF Submit
<1> QED
  BY <1>2, <1>3, <1>4, <1>5, <1>6, <1>7, <1>8, <1>9, <1>10, <1>11, <1>12, <1>13, <1>14
  DEF Next, Tick

(* However many ticks use a snapshot and whatever else reads the cache in  *)
(* between, as long as Redis answers it promises nothing twice.            *)
THEOREM PromisedOnce == Spec => []PlannedOncePerSnapshot
<1>1. Init => SnapInv /\ CapInv
  BY SnapInit, InitHolds
<1>2. SnapInv /\ CapInv /\ [Next]_vars => SnapInv' /\ CapInv'
  BY SnapStep, StepKeeps
<1>3. SnapInv => PlannedOncePerSnapshot
  BY DEF SnapInv, PlannedOncePerSnapshot, Kept
<1> QED
  BY <1>1, <1>2, <1>3, PTL DEF Spec

-----------------------------------------------------------------------------
(* What is left to do of a chunk is in one piece: a parked row, a queued   *)
(* task or a job that is live and not revived.  Its attempt is the last, a *)
(* parked one excludes what the attempts before it failed on, only a job   *)
(* that is such a piece holds its chunk, and a group that has not been     *)
(* shared out is one row and nothing else.                                 *)
Pieces ==
  ({"row"} \X pending) \cup ({"task"} \X queue) \cup ({"job"} \X {j \in jobs : Stands(j)})

Same(p, q) == p.group = q.group /\ p.chunk = q.chunk

Counted ==
  /\ \A p \in pending \cup queue \cup jobs : p.attempt \in Nat
  /\ \A p \in queue \cup jobs : p.chunk # 0
OnePiece == \A x, y \in Pieces : Same(x[2], y[2]) => x = y
OneRow ==
  \A p \in pending : p.chunk = 0 =>
    /\ \A x \in Pieces : x[2].group = p.group => x = <<"row", p>>
    /\ \A j \in jobs : j.group # p.group
LastAttempt ==
  \A x \in Pieces, j \in jobs :
    Same(j, x[2]) => j.attempt < x[2].attempt \/ x = <<"job", j>>
OneJob == \A i, j \in jobs : Same(i, j) /\ i.attempt = j.attempt => i = j
Claimed == \A j \in jobs : Id(j) \in claims => Stands(j)

\* A failure on record that is the target's own.
Blames(j) == j.status = "failed" /\ j.report # "late"
Excluded ==
  \A p \in pending, j \in jobs : Same(j, p) /\ Blames(j) => Key(j.target) \in p.avoid

FailInv ==
  /\ Counted /\ OnePiece /\ OneRow /\ LastAttempt /\ OneJob
  /\ Claimed /\ Excluded /\ FailedNotRepeated

LEMMA PieceKinds ==
  /\ \A x \in Pieces : \/ x = <<"row", x[2]>> /\ x[2] \in pending
                       \/ x = <<"task", x[2]>> /\ x[2] \in queue
                       \/ x = <<"job", x[2]>> /\ x[2] \in jobs /\ Stands(x[2])
  /\ \A p \in pending : <<"row", p>> \in Pieces
  /\ \A k \in queue : <<"task", k>> \in Pieces
  /\ \A j \in jobs : Stands(j) => <<"job", j>> \in Pieces
  BY DEF Pieces

LEMMA FailSame ==
  ASSUME FailInv, UNCHANGED <<pending, queue, jobs, claims>>
  PROVE  FailInv'
  BY DEF FailInv, Counted, OnePiece, OneRow, LastAttempt, OneJob, Claimed, Excluded,
         FailedNotRepeated, Pieces, Stands, Live, Same, Blames, Id

LEMMA SubmitFails ==
  ASSUME FailInv, NEW g \in Group, Submit(g)
  PROVE  FailInv'
<1> DEFINE row == [group |-> g, chunk |-> 0, attempt |-> 0, first |-> Groups[g].first,
                   last |-> Groups[g].last, avoid |-> {},
                   count |-> Cardinality(FramesOf(Groups[g].first, Groups[g].last, Groups[g].step))]
<1>1. /\ pending' = pending \cup {row} /\ UNCHANGED <<queue, jobs, claims>>
      /\ \A p \in pending \cup queue \cup jobs : p.group # g
  BY DEF Submit
<1>2. row.group = g /\ row.chunk = 0 /\ row.attempt = 0
  OBVIOUS
<1> HIDE DEF row
<1>3. /\ Pieces' = Pieces \cup {<<"row", row>>}
      /\ \A x \in Pieces : x[2].group # g
  BY <1>1, PieceKinds DEF Pieces, Stands, Live
<1>4. Counted' /\ OneJob' /\ Claimed' /\ FailedNotRepeated' /\ Excluded'
  BY <1>1, <1>2
  DEF FailInv, Counted, OneJob, Claimed, FailedNotRepeated, Excluded, Blames, Stands, Live, Id, Same
<1>5. OnePiece' /\ OneRow' /\ LastAttempt'
  BY <1>1, <1>2, <1>3 DEF FailInv, OnePiece, OneRow, LastAttempt, Same
<1> QED
  BY <1>4, <1>5 DEF FailInv

LEMMA DispatchFails ==
  ASSUME FailInv, NEW k \in queue, Dispatch(k)
  PROVE  FailInv'
<1> DEFINE new == [group |-> k.group, chunk |-> k.chunk, attempt |-> k.attempt,
       target |-> k.target, first |-> k.first, last |-> k.last, count |-> k.count,
       made |-> 0, status |-> "pending", report |-> "none"]
<1>1. jobs' = jobs \cup {new} /\ queue' = queue \ {k} /\ UNCHANGED pending
      /\ claims' = claims \cup {Id(k)}
  BY DEF Dispatch
<1>2. /\ new.group = k.group /\ new.chunk = k.chunk /\ new.attempt = k.attempt
      /\ new.target = k.target /\ new.status = "pending" /\ new.report = "none"
  OBVIOUS
<1> HIDE DEF new
<1>3. <<"task", k>> \in Pieces
  BY PieceKinds
<1>4. Pieces' \subseteq (Pieces \ {<<"task", k>>}) \cup {<<"job", new>>}
  BY <1>1 DEF Pieces, Stands, Live
<1>5. \A x \in Pieces : Same(x[2], k) => x = <<"task", k>>
  BY <1>3 DEF FailInv, OnePiece
<1>6. \A j \in jobs : Same(j, k) => j.attempt < k.attempt
  BY <1>3 DEF FailInv, LastAttempt
<1>7. \A p \in pending : ~Same(k, p)
  BY <1>5, PieceKinds DEF Same
<1>8. \A p \in queue : Same(k, p) => p = k
  BY <1>5, PieceKinds DEF Same
<1>9. k.attempt \in Nat /\ k.chunk # 0 /\ \A j \in jobs : j.attempt \in Nat
  BY DEF FailInv, Counted
<1>10. Counted'
  BY <1>1, <1>2 DEF FailInv, Counted
<1>11. OnePiece'
  BY <1>2, <1>4, <1>5 DEF FailInv, OnePiece, Same
<1>12. OneRow'
  <2>1. ASSUME NEW p \in pending, p.chunk = 0 PROVE k.group # p.group
    BY <1>3, <2>1 DEF FailInv, OneRow
  <2> QED
    BY <1>1, <1>2, <1>4, <2>1 DEF FailInv, OneRow
<1>13. LastAttempt'
  <2>1. ASSUME NEW x \in Pieces', NEW j \in jobs', Same(j, x[2])
        PROVE  j.attempt < x[2].attempt \/ x = <<"job", j>>
    <3>1. CASE x = <<"job", new>>
      BY <1>1, <1>2, <1>6, <2>1, <3>1 DEF Same
    <3>2. CASE x # <<"job", new>> /\ j = new
      BY <1>2, <1>4, <1>5, <2>1, <3>2 DEF Same
    <3>3. CASE x # <<"job", new>> /\ j # new
      BY <1>1, <1>4, <2>1, <3>3 DEF FailInv, LastAttempt
    <3> QED
      BY <3>1, <3>2, <3>3
  <2> QED
    BY <2>1 DEF LastAttempt, Same
<1>14. OneJob'
  BY <1>1, <1>2, <1>6, <1>9 DEF FailInv, OneJob, Same
<1>15. Excluded'
  BY <1>1, <1>2, <1>7 DEF FailInv, Excluded, Blames, Same
<1>16. FailedNotRepeated'
  <2>1. ASSUME NEW p \in queue' \cup jobs', NEW j \in jobs', Same(j, p), j.attempt < p.attempt,
               Blames(j)
        PROVE  Key(j.target) # Key(p.target)
    <3>1. CASE j = new
      BY <1>2, <2>1, <3>1 DEF Blames
    <3>2. CASE j # new /\ p = new
      BY <1>1, <1>2, <2>1, <3>2 DEF FailInv, FailedNotRepeated, Blames, Same
    <3>3. CASE j # new /\ p # new
      BY <1>1, <2>1, <3>3 DEF FailInv, FailedNotRepeated, Blames, Same
    <3> QED
      BY <3>1, <3>2, <3>3
  <2> QED
    BY <2>1 DEF FailedNotRepeated, Blames, Same
<1>17. Claimed'
  <2>1. ASSUME NEW i \in jobs, Id(i) = Id(k) PROVE FALSE
    BY <1>6, <1>9, <2>1 DEF Id, Same
  <2>2. Stands(new)
    BY <1>2 DEF Stands, Live
  <2> QED
    BY <1>1, <2>1, <2>2 DEF FailInv, Claimed, Stands, Live, Id
<1> QED
  BY <1>10, <1>11, <1>12, <1>13, <1>14, <1>15, <1>16, <1>17 DEF FailInv

(* A job goes on, ends or is revived; P holds the row that takes over, if  *)
(* any.                                                                    *)
LEMMA BecomeFails ==
  ASSUME FailInv, NEW j \in jobs, NEW new, Become(j, new), UNCHANGED queue,
         Same(new, j), new.attempt = j.attempt, new.target = j.target,
         Stands(new) => Stands(j), Blames(new) => Stands(j) \/ Blames(j), NEW P,
         pending' = pending \cup P, P # {} => Stands(j) /\ ~Stands(new),
         \A p, q \in P : p = q,
         \A p \in P : Same(p, j) /\ p.attempt = j.attempt + 1 /\ p.avoid = Exclusions(j),
         claims' \subseteq claims, Id(j) \in claims' => Stands(new)
  PROVE  FailInv'
<1>1. jobs' = (jobs \ {j}) \cup {new} /\ queue' = queue /\ pending' = pending \cup P
  BY DEF Become
<1>2. Stands(j) => <<"job", j>> \in Pieces
  BY PieceKinds
<1>3. Stands(j) => \A x \in Pieces : Same(x[2], j) => x = <<"job", j>>
  BY <1>2 DEF FailInv, OnePiece
<1>4. /\ Stands(j) => \A i \in jobs : Same(i, j) => i.attempt < j.attempt \/ i = j
      /\ \A i \in jobs : Same(i, j) /\ i.attempt = j.attempt => i = j
      /\ \A x \in Pieces : Same(j, x[2]) => j.attempt < x[2].attempt \/ x = <<"job", j>>
  BY <1>2 DEF FailInv, LastAttempt, OneJob
<1>5. Stands(j) => \A p \in pending \cup queue : ~Same(p, j)
  BY <1>3, PieceKinds
<1>6. /\ Pieces' \subseteq (Pieces \ {<<"job", j>>}) \cup {<<"job", new>>} \cup ({"row"} \X P)
      /\ P # {} => Pieces' \subseteq (Pieces \ {<<"job", j>>}) \cup ({"row"} \X P)
      /\ ~Stands(j) => Pieces' \subseteq Pieces \ {<<"job", j>>}
  BY <1>1 DEF Pieces, Stands, Live
<1>7. /\ j.attempt \in Nat /\ j.chunk # 0 /\ \A i \in jobs : i.attempt \in Nat
      /\ new.group = j.group /\ new.chunk = j.chunk
  BY DEF FailInv, Counted, Same
<1>8. Counted'
  BY <1>1, <1>7 DEF FailInv, Counted
<1>9. OnePiece'
  <2>1. CASE Stands(j)
    BY <1>3, <1>6, <1>7, <2>1 DEF FailInv, OnePiece, Same
  <2>2. CASE ~Stands(j)
    BY <1>6, <2>2 DEF FailInv, OnePiece
  <2> QED
    BY <2>1, <2>2
<1>10. OneRow'
  <2>1. ASSUME NEW p \in pending, p.chunk = 0 PROVE j.group # p.group
    BY <2>1 DEF FailInv, OneRow
  <2>2. \A p \in P : p.chunk # 0 /\ p.group = j.group
    BY <1>7 DEF Same
  <2> QED
    BY <1>1, <1>6, <1>7, <2>1, <2>2 DEF FailInv, OneRow
<1>11. LastAttempt'
  <2>1. ASSUME NEW x \in Pieces', NEW i \in jobs', Same(i, x[2])
        PROVE  i.attempt < x[2].attempt \/ x = <<"job", i>>
    <3>1. CASE x \in Pieces \ {<<"job", j>>}
      <4>1. CASE i = new
        BY <1>4, <1>7, <2>1, <3>1, <4>1 DEF Same
      <4>2. CASE i # new
        BY <1>1, <2>1, <3>1, <4>2 DEF FailInv, LastAttempt, Same
      <4> QED
        BY <4>1, <4>2
    <3>2. CASE x = <<"job", new>> /\ Stands(j)
      BY <1>1, <1>4, <1>7, <2>1, <3>2 DEF Same
    <3>3. CASE x \in {"row"} \X P
      BY <1>1, <1>4, <1>7, <2>1, <3>3 DEF Same
    <3> QED
      BY <1>6, <3>1, <3>2, <3>3
  <2> QED
    BY <2>1 DEF LastAttempt, Same
<1>12. OneJob'
  <2>1. ASSUME NEW a \in jobs', NEW b \in jobs', Same(a, b), a.attempt = b.attempt PROVE a = b
    BY <1>1, <1>4, <1>7, <2>1 DEF FailInv, OneJob, Same
  <2> QED
    BY <2>1 DEF OneJob, Same
<1>13. Excluded'
  <2>1. ASSUME NEW p \in pending', NEW i \in jobs', Same(i, p), Blames(i)
        PROVE  Key(i.target) \in p.avoid
    <3>1. CASE p \in pending
      <4>1. CASE i = new
        <5>1. Same(p, j) /\ Same(j, p)
          BY <1>7, <2>1, <4>1 DEF Same
        <5>2. Blames(j)
          BY <1>5, <2>1, <3>1, <4>1, <5>1
        <5> QED
          BY <3>1, <4>1, <5>1, <5>2 DEF FailInv, Excluded
      <4>2. CASE i # new
        BY <1>1, <2>1, <3>1, <4>2 DEF FailInv, Excluded
      <4> QED
        BY <4>1, <4>2
    <3>2. CASE p \in P /\ i = new
      BY <3>2 DEF Exclusions
    <3>3. CASE p \in P /\ i # new
      <4>1. i \in jobs /\ Same(i, j) /\ i.status = "failed"
        BY <1>1, <2>1, <3>3 DEF Same, Blames
      <4> QED
        BY <3>3, <4>1 DEF Exclusions, Same
    <3> QED
      BY <1>1, <3>1, <3>2, <3>3
  <2> QED
    BY <2>1 DEF Excluded, Same, Blames
<1>14. FailedNotRepeated'
  <2>1. ASSUME NEW p \in queue' \cup jobs', NEW i \in jobs', Same(i, p), i.attempt < p.attempt,
               Blames(i)
        PROVE  Key(i.target) # Key(p.target)
    <3>1. CASE i = new /\ Stands(j)
      <4>1. p \notin queue
        BY <1>5, <1>7, <2>1, <3>1 DEF Same
      <4> QED
        BY <1>1, <1>4, <1>7, <2>1, <3>1, <4>1 DEF Same
    <3>2. CASE i = new /\ Blames(j)
      <4>1. p = new \/ (p \in queue \cup jobs /\ Same(j, p) /\ j.attempt < p.attempt)
        BY <1>1, <1>7, <2>1, <3>2 DEF Same
      <4>2. p # new
        BY <1>7, <2>1, <3>2
      <4> QED
        BY <2>1, <3>2, <4>1, <4>2 DEF FailInv, FailedNotRepeated, Blames, Same
    <3>3. CASE i # new /\ p = new
      BY <1>1, <1>7, <2>1, <3>3 DEF FailInv, FailedNotRepeated, Blames, Same
    <3>4. CASE i # new /\ p # new
      BY <1>1, <2>1, <3>4 DEF FailInv, FailedNotRepeated, Blames, Same
    <3> QED
      BY <2>1, <3>1, <3>2, <3>3, <3>4
  <2> QED
    BY <2>1 DEF FailedNotRepeated, Blames, Same
<1>15. Claimed'
  <2>1. Id(new) = Id(j)
    BY <1>7 DEF Id
  <2> QED
    BY <1>1, <2>1 DEF FailInv, Claimed, Stands, Live, Id
<1> QED
  BY <1>8, <1>9, <1>10, <1>11, <1>12, <1>13, <1>14, <1>15 DEF FailInv

LEMMA PromoteFails ==
  ASSUME FailInv, SnapTypes, NEW row \in tick.rows, Promote(row)
  PROVE  FailInv'
<1>1. PICK plan \in PlansOf(row) : queue' = queue \cup plan.tasks
  BY DEF Promote
<1> DEFINE tasks == plan.tasks
<1>2. Planned(tick.snap, row, tasks)
  BY PlansPlanned DEF SnapTypes
<1> HIDE DEF tasks
<1>3. /\ queue' = queue \cup tasks /\ pending' = pending \ {row} /\ UNCHANGED <<jobs, claims>>
      /\ row \in pending
  BY <1>1 DEF Promote, SnapTypes, tasks
<1>4. <<"row", row>> \in Pieces
  BY <1>3, PieceKinds
<1>5. Pieces' \subseteq (Pieces \ {<<"row", row>>}) \cup ({"task"} \X tasks)
  BY <1>3 DEF Pieces, Stands, Live
<1>6. ASSUME NEW k \in tasks
      PROVE  /\ k.attempt \in Nat /\ k.chunk # 0 /\ k.group = row.group
             /\ \A x \in Pieces : Same(x[2], k) => x = <<"row", row>>
             /\ \A l \in tasks : Same(k, l) => k = l
             /\ \A j \in jobs : Same(j, k) => /\ j.attempt < k.attempt /\ Same(j, row)
                                              /\ k.attempt = row.attempt /\ Key(k.target) \notin row.avoid
  <2>1. k.group = row.group /\ row.attempt \in Nat
    BY <1>2, <1>3 DEF Planned, FailInv, Counted
  <2>2. CASE row.chunk = 0
    <3>1. /\ \A x \in Pieces : x[2].group = row.group => x = <<"row", row>>
          /\ \A j \in jobs : j.group # row.group
      BY <1>3, <2>2 DEF FailInv, OneRow
    <3> QED
      BY <1>2, <2>1, <2>2, <3>1 DEF Planned, Same
  <2>3. CASE row.chunk # 0
    <3>1. Same(k, row) /\ k.attempt = row.attempt /\ k.chunk = row.chunk
          /\ Key(k.target) \notin row.avoid /\ \A l \in tasks : k = l
      BY <1>2, <2>1, <2>3 DEF Planned, Same
    <3>2. \A x \in Pieces : Same(x[2], k) => x = <<"row", row>>
      BY <1>4, <3>1 DEF FailInv, OnePiece, Same
    <3>3. \A j \in jobs : Same(j, k) => j.attempt < row.attempt
      BY <1>4, <3>1 DEF FailInv, LastAttempt, Same
    <3> QED
      BY <2>1, <2>3, <3>1, <3>2, <3>3 DEF Same
  <2> QED
    BY <2>2, <2>3
<1>7. Counted'
  BY <1>3, <1>6 DEF FailInv, Counted
<1>8. OnePiece'
  BY <1>5, <1>6 DEF FailInv, OnePiece, Same
<1>9. OneRow'
  <2>1. ASSUME NEW p \in pending', p.chunk = 0
        PROVE  /\ \A x \in Pieces' : x[2].group = p.group => x = <<"row", p>>
               /\ \A j \in jobs' : j.group # p.group
    <3>1. p.group # row.group
      BY <1>3, <1>4, <2>1 DEF FailInv, OneRow
    <3> QED
      BY <1>3, <1>5, <1>6, <2>1, <3>1 DEF FailInv, OneRow
  <2> QED
    BY <2>1 DEF OneRow
<1>10. LastAttempt'
  BY <1>3, <1>5, <1>6 DEF FailInv, LastAttempt, Same
<1>11. OneJob' /\ Excluded' /\ Claimed'
  BY <1>3 DEF FailInv, OneJob, Excluded, Claimed, Blames, Stands, Live, Id, Same
<1>12. FailedNotRepeated'
  <2>1. ASSUME NEW p \in queue' \cup jobs', NEW j \in jobs', Same(j, p), j.attempt < p.attempt,
               Blames(j)
        PROVE  Key(j.target) # Key(p.target)
    <3>1. CASE p \in queue \cup jobs
      BY <1>3, <2>1, <3>1 DEF FailInv, FailedNotRepeated, Blames, Same
    <3>2. CASE p \in tasks
      <4>1. Same(j, row) /\ p.attempt = row.attempt /\ Key(p.target) \notin row.avoid
        BY <1>3, <1>6, <2>1, <3>2
      <4> QED
        BY <1>3, <2>1, <4>1 DEF FailInv, Excluded
    <3> QED
      BY <1>3, <3>1, <3>2
  <2> QED
    BY <2>1 DEF FailedNotRepeated, Blames, Same
<1> QED
  BY <1>7, <1>8, <1>9, <1>10, <1>11, <1>12 DEF FailInv

LEMMA FailStep ==
  ASSUME FailInv, SnapTypes, CapInv, [Next]_vars
  PROVE  FailInv'
<1>1. CASE UNCHANGED <<pending, queue, jobs, claims>>
  BY <1>1, FailSame
<1>2. ASSUME NEW k \in queue, Dispatch(k) PROVE FailInv'
  BY <1>2, DispatchFails
<1>3. ASSUME NEW row \in tick.rows, Promote(row) PROVE FailInv'
  BY <1>3, PromoteFails
<1>4. ASSUME NEW g \in Group, Submit(g) PROVE FailInv'
  BY <1>4, SubmitFails
<1>5. CASE Work
  <2>1. PICK j \in jobs : BeginReport(j) \/ WriteReported(j) \/ Finish(j)
    BY <1>5 DEF Work
  <2>2. j = [x \in JobFields |-> j[x]] /\ (Id(j) \in claims => Stands(j))
    BY DEF CapInv, FailInv, Claimed
  <2>3. PICK new : /\ Become(j, new) /\ UNCHANGED <<queue, pending>>
                   /\ Same(new, j) /\ new.attempt = j.attempt /\ new.target = j.target
                   /\ Stands(new) => Stands(j)
                   /\ ~Blames(new)
                   /\ claims' \subseteq claims
                   /\ Id(j) \in claims' => Stands(new)
    <3>1. CASE BeginReport(j)
      <4> DEFINE n == [j EXCEPT !.report = "begun"]
      <4>1. /\ Same(n, j) /\ n.attempt = j.attempt /\ n.target = j.target
            /\ n.status = j.status /\ n.report = "begun"
        BY <2>2 DEF JobFields, Same
      <4>2. Become(j, n) /\ Live(j) /\ j.report = "none" /\ UNCHANGED <<queue, pending, claims>>
        BY <3>1 DEF BeginReport
      <4> HIDE DEF n
      <4>3. Stands(n) /\ Stands(j) /\ ~Blames(n)
        BY <4>1, <4>2 DEF Stands, Live, Blames
      <4> QED
        BY <4>1, <4>2, <4>3
    <3>2. CASE WriteReported(j)
      <4> DEFINE n == [j EXCEPT !.status = "running",
                                !.report = IF Live(j) THEN "written" ELSE "late"]
      <4>1. /\ Same(n, j) /\ n.attempt = j.attempt /\ n.target = j.target
            /\ n.status = "running" /\ n.report = IF Live(j) THEN "written" ELSE "late"
        BY <2>2 DEF JobFields, Same
      <4>2. Become(j, n) /\ j.report = "begun" /\ UNCHANGED <<queue, pending, claims>>
        BY <3>2 DEF WriteReported
      <4> HIDE DEF n
      <4>3. (Stands(n) <=> Stands(j)) /\ ~Blames(n)
        BY <4>1, <4>2 DEF Stands, Live, Blames
      <4> QED
        BY <2>2, <4>1, <4>2, <4>3
    <3>3. CASE Finish(j)
      <4> DEFINE n == [j EXCEPT !.status = "done"]
      <4>1. /\ Same(n, j) /\ n.attempt = j.attempt /\ n.target = j.target
            /\ n.status = "done"
        BY <2>2 DEF JobFields, Same
      <4>2. Become(j, n) /\ UNCHANGED <<queue, pending>>
            /\ claims' = {c \in claims : c[1] # j.group \/ c[2] # j.chunk}
        BY <3>3 DEF Finish
      <4> HIDE DEF n
      <4>3. ~Stands(n) /\ ~Blames(n) /\ Id(j) \notin claims'
        BY <4>1, <4>2 DEF Stands, Live, Blames, Id
      <4> QED
        BY <4>1, <4>2, <4>3
    <3> QED
      BY <2>1, <3>1, <3>2, <3>3
  <2>4. PICK P : P = {}
    OBVIOUS
  <2>5. /\ \A p, q \in P : p = q
        /\ \A p \in P : Same(p, j) /\ p.attempt = j.attempt + 1 /\ p.avoid = Exclusions(j)
        /\ P = {} /\ pending' = pending \cup P /\ UNCHANGED queue
    BY <2>3, <2>4
  <2> QED
    BY <2>3, <2>5, BecomeFails
<1>6. CASE Failing
  <2>1. PICK j \in jobs, n \in Int, status \in {"failed", "infra"} : Fail(j, n, status)
    BY <1>6 DEF Failing
  <2>2. j = [x \in JobFields |-> j[x]] /\ (Id(j) \in claims => Stands(j))
    BY DEF CapInv, FailInv, Claimed
  <2> DEFINE new == [j EXCEPT !.status = status, !.made = IF Id(j) \in claims THEN n ELSE @]
             P == IF Id(j) \in claims /\ j.attempt < MaxRetries THEN Parked(j, n) ELSE {}
  <2>3. /\ Same(new, j) /\ new.attempt = j.attempt /\ new.target = j.target
        /\ new.status = status /\ new.report = j.report
    BY <2>2 DEF JobFields, Same
  <2>4. /\ Live(j) /\ Become(j, new) /\ UNCHANGED queue /\ pending' = pending \cup P
        /\ claims' = claims \ {Id(j)}
    BY <2>1 DEF Fail
  <2>5. /\ \A p, q \in P : p = q
        /\ \A p \in P : Same(p, j) /\ p.attempt = j.attempt + 1 /\ p.avoid = Exclusions(j)
        /\ P # {} => Stands(j)
    BY <2>2 DEF Parked, Same
  <2> HIDE DEF new, P
  <2>6. ~Stands(new) /\ (Blames(new) => Stands(j))
    BY <2>3, <2>4 DEF Stands, Live, Blames
  <2> QED
    BY <2>3, <2>4, <2>5, <2>6, BecomeFails
<1> QED
  BY <1>1, <1>2, <1>3, <1>4, <1>5, <1>6
  DEF Next, Tick, TickStarts, ListRows, Persist, FleetFull, Postpone, Preview, Age, vars

LEMMA FailInit == Init => FailInv
<1> SUFFICES ASSUME Init PROVE FailInv
  OBVIOUS
<1>1. pending = {} /\ queue = {} /\ jobs = {}
  BY DEF Init
<1>2. Pieces = {}
  BY <1>1 DEF Pieces
<1> QED
  BY <1>1, <1>2
  DEF FailInv, Counted, OnePiece, OneRow, LastAttempt, OneJob, Claimed, Excluded, FailedNotRepeated

(* Whatever fails, is reported to run, is liked or is planned when, a      *)
(* chunk never goes back to where it failed for a reason of the target's   *)
(* own, unless a late report wrote over that failure.                      *)
THEOREM NeverBack == Spec => []FailedNotRepeated
<1>1. Init => FailInv /\ SnapInv /\ CapInv
  BY FailInit, SnapInit, InitHolds
<1>2. FailInv /\ SnapInv /\ CapInv /\ [Next]_vars => FailInv' /\ SnapInv' /\ CapInv'
  BY FailStep, SnapStep, StepKeeps DEF SnapInv
<1>3. FailInv => FailedNotRepeated
  BY DEF FailInv
<1> QED
  BY <1>1, <1>2, <1>3, PTL DEF Spec

-----------------------------------------------------------------------------
(* Where the frames are.  A row, a task or a job lies in the range of its  *)
(* group and starts on a frame of it; unless its group is short, it counts *)
(* just the frames it has.                                                 *)
StepOf(g)    == Groups[g].step
AllFrames(g) == FramesOf(Groups[g].first, Groups[g].last, Groups[g].step)

Lies(p) == Within(Groups[p.group], p, StepOf(p.group))
Full(p) == p.first = Groups[p.group].first /\ p.last = Groups[p.group].last /\ Tight(p, StepOf(p.group))

LEMMA SceneTypes ==
  ASSUME NEW g \in Group
  PROVE  /\ Groups[g].first \in Int /\ Groups[g].last \in Int
         /\ Groups[g].first <= Groups[g].last /\ Groups[g].step \in Nat \ {0}
         /\ StepOf(g) = Groups[g].step /\ StepOf(g) \in Nat \ {0}
         /\ \A t \in Target : Groups[g].weight[t] \in Nat \ {0} /\ Groups[g].window[t] \in Nat
  BY SceneConstants DEF Group, StepOf

(* A plan is of tasks that lie in the row; and if they all fit, every frame *)
(* of the row is in one of them.                                            *)
LEMMA PlansFramed ==
  ASSUME NEW row \in Row, tick.snap \in Snapshot, NEW plan \in PlansOf(row),
         Lies(row), row.chunk = 0 => Full(row)
  PROVE  /\ plan.tasks \subseteq Task
         /\ \A k \in plan.tasks : /\ k.group = row.group /\ Lies(k) /\ Frames(k) \subseteq Frames(row)
                                  /\ plan.fits /\ Tight(row, StepOf(row.group)) =>
                                       Tight(k, StepOf(row.group))
         /\ plan.fits =>
              \A f \in Frames(row) :
                \E k \in plan.tasks : /\ f \in Frames(k)
                                      /\ \A l \in plan.tasks : f \in Frames(l) => l = k
<1> DEFINE scene   == Groups[row.group]
           step    == StepOf(row.group)
           among   == IF row.chunk = 0 /\ scene.only # {} THEN scene.only ELSE Target
           Scored  == {Eligible(tick.snap, rank, among, scene.fits) : rank \in Rankings}
           Chosen  == UNION {InitialTargets(s, Smaller(MaxTargets, row.count)) : s \in Scored}
           Retries == UNION {RetryTarget(row, s, Liked(row.group)) : s \in Scored}
<1>0. /\ row.group \in Group /\ row.attempt \in 0..MaxRetries /\ row.first \in Int /\ row.last \in Int
      /\ row.count \in Nat \ {0} /\ row.chunk \in Nat
  BY DEF Row
<1>t. /\ scene.first \in Int /\ scene.last \in Int /\ scene.first <= scene.last
      /\ scene.step = step /\ step \in Nat \ {0} /\ StepOf(row.group) = scene.step
      /\ \A t \in Target : scene.weight[t] \in Nat \ {0} /\ scene.window[t] \in Nat
  BY <1>0, SceneTypes
<1>p. Planned(tick.snap, row, plan.tasks)
  BY PlansPlanned
<1>a. tick.snap.avail \subseteq Target /\ 0 \in 0..MaxRetries
  BY TickConstants DEF Snapshot
<1>1. ASSUME NEW s \in Scored PROVE Offered(tick.snap, s)
  <2>1. PICK rank \in Rankings : s = Eligible(tick.snap, rank, among, scene.fits)
    OBVIOUS
  <2>2. Known(tick.snap)
    BY HeadroomInt DEF Known, Snapshot
  <2>3. Ranking(rank)
    BY TickConstants DEF Ranking
  <2> QED
    BY <2>1, <2>2, <2>3, EligibleOffered
<1>2. ASSUME row.chunk = 0
      PROVE  /\ plan.tasks \subseteq Task
             /\ \A k \in plan.tasks : Lies(k) /\ Frames(k) \subseteq Frames(row)
                                      /\ (plan.fits => Tight(k, step))
             /\ plan.fits =>
                  \A f \in Frames(row) :
                    \E k \in plan.tasks : /\ f \in Frames(k)
                                          /\ \A l \in plan.tasks : f \in Frames(l) => l = k
  <2>1. PICK turn \in Chosen :
          /\ plan.tasks = Shares(turn, row, scene.step, FrameCounts(turn, row.count, scene))
          /\ plan.fits = HoldsAll(turn, row)
    BY <1>2 DEF PlansOf
  <2>2. PICK s \in Scored, n \in Int : turn = Select(s, n)
    BY <2>1 DEF InitialTargets
  <2> DEFINE D == DOMAIN turn
             tasks == plan.tasks
             window == [x \in D |-> scene.window[x.target]]
             counts == FrameCounts(turn, row.count, scene)
             W == Sum(window, D)
  <2>3. Offered(tick.snap, s)
    BY <1>1
  <2> HIDE DEF Scored, Chosen, scene, step
  <2>4. D \subseteq s /\ turn \in Bijection(D, 0..(Cardinality(D) - 1))
    <3>1. /\ DOMAIN Select(s, n) \subseteq s
          /\ Select(s, n) \in Bijection(DOMAIN Select(s, n), 0..(Cardinality(DOMAIN Select(s, n)) - 1))
      BY <2>3, SelectTurns
    <3> QED
      BY <2>2, <3>1
  <2>5. \A x \in D : x.target \in Target
    BY <1>a, <2>3, <2>4 DEF Offered
  <2>6. IsFiniteSet(D)
    BY <2>3, <2>4, FS_Subset DEF Offered
  <2>7. Dealt(turn, scene)
    BY <1>t, <2>4, <2>5, <2>6 DEF Dealt
  <2>8. plan.fits => W >= row.count
    BY <2>1 DEF HoldsAll, scene
  <2>9. tasks = Shares(turn, row, step, counts)
    BY <1>t, <2>1
  <2>10. CASE D = {}
    <3>1. tasks = {}
      BY <2>9, <2>10 DEF Shares
    <3>2. W = 0
      <4>1. IsFiniteSet(D) /\ \A x \in D : window[x] \in Nat
        BY <2>6, <2>10
      <4> HIDE DEF window
      <4> QED
        BY <2>10, <4>1, SumTerms
    <3>3. ~plan.fits
      BY <1>0, <2>8, <3>2
    <3> QED
      BY <3>1, <3>3
  <2>11. CASE D # {}
    <3>1. \A x \in D : window[x] = scene.window[x.target]
      OBVIOUS
    <3>2. row.count \in Nat
      BY <1>0
    <3> HIDE DEF window
    <3>3. /\ \A x \in D : FrameCounts(turn, row.count, scene)[x] \in Nat
          /\ Sum(FrameCounts(turn, row.count, scene), D) = Smaller(row.count, W)
          /\ W \in Nat
      BY <2>7, <2>11, <3>1, <3>2, CountsSum
    <3> HIDE DEF counts, W
    <3>4. /\ \A x \in D : counts[x] \in Nat
          /\ Sum(counts, D) <= row.count
          /\ plan.fits => Sum(counts, D) = row.count
      BY <2>8, <3>2, <3>3 DEF Smaller, counts
    <3>5. /\ row.first = scene.first /\ row.last = scene.last /\ Tight(row, step)
      BY <1>2 DEF Full, scene, step
    <3>6. Within(scene, row, step)
      BY DEF Lies, scene, step
    <3>7. Spans(row, step)
      BY <1>0, <3>5, <3>6 DEF Within, Tight, Spans
    <3>8. /\ \A k \in tasks : /\ Within(row, k, step)
                              /\ Sum(counts, D) = row.count => Tight(k, step)
          /\ Sum(counts, D) = row.count =>
               \A f \in FramesOf(row.first, row.last, step) :
                 \E k \in tasks : /\ f \in FramesOf(k.first, k.last, step)
                                  /\ \A l \in tasks : f \in FramesOf(l.first, l.last, step) => l = k
      <4>1. \A k \in Shares(turn, row, step, counts) :
              /\ Within(row, k, step)
              /\ Sum(counts, DOMAIN turn) = row.count => Tight(k, step)
        BY <1>t, <2>7, <3>4, <3>7, SharesFrames
      <4>2. Sum(counts, DOMAIN turn) = row.count =>
              \A f \in FramesOf(row.first, row.last, step) :
                \E k \in Shares(turn, row, step, counts) :
                  /\ f \in FramesOf(k.first, k.last, step)
                  /\ \A l \in Shares(turn, row, step, counts) :
                       f \in FramesOf(l.first, l.last, step) => l = k
        BY <1>t, <2>7, <3>4, <3>7, SharesFrames
      <4> HIDE DEF D, tasks
      <4> QED
        BY <2>9, <4>1, <4>2 DEF D
    <3>9. ASSUME NEW k \in tasks
          PROVE  /\ k.group = row.group /\ k.attempt = 0 /\ k.chunk \in Nat \ {0}
                 /\ k.target \in Target
                 /\ k = [group |-> k.group, chunk |-> k.chunk, attempt |-> k.attempt,
                         target |-> k.target, first |-> k.first, last |-> k.last,
                         count |-> k.count]
                 /\ Frames(k) = FramesOf(k.first, k.last, step)
      <4>1. k.group = row.group /\ k.attempt = 0 /\ k.chunk \in Nat \ {0} /\ k.target \in Target
        BY <1>2, <1>a, <1>p DEF Planned
      <4>2. k = [group |-> k.group, chunk |-> k.chunk, attempt |-> k.attempt,
                         target |-> k.target, first |-> k.first, last |-> k.last,
                         count |-> k.count]
        BY <2>9, ShareRecord
      <4>3. Frames(k) = FramesOf(k.first, k.last, step)
        BY <1>t, <4>1 DEF Frames, scene
      <4> QED
        BY <4>1, <4>2, <4>3
    <3>10. ASSUME NEW k \in tasks PROVE Lies(k) /\ Frames(k) \subseteq Frames(row)
      <4>1. Within(row, k, step) /\ k.group = row.group
        BY <3>8, <3>9
      <4>2. Lies(k)
        BY <3>5, <4>1 DEF Lies, Within, scene, step
      <4>3. FramesOf(k.first, k.last, step) \subseteq FramesOf(row.first, row.last, step)
        <5>1. /\ k.first \in Int /\ k.last \in Int /\ k.last <= row.last
              /\ OnFrame(row.first, step, k.first)
          BY <4>1 DEF Within
        <5>2. row.first \in Int /\ row.last \in Int /\ step \in Nat \ {0}
          BY <1>0, <1>t
        <5> QED
          BY <5>1, <5>2, FramesPart
      <4>4. Frames(row) = FramesOf(row.first, row.last, step)
        BY <1>t DEF Frames, scene
      <4> QED
        BY <3>9, <4>2, <4>3, <4>4
    <3>11. tasks \subseteq Task
      <4>1. ASSUME NEW k \in tasks PROVE k \in Task
        <5>1. k.first \in Int /\ k.last \in Int /\ k.count \in Nat \ {0}
          BY <3>8 DEF Within
        <5> QED
          BY <1>0, <1>a, <3>9, <5>1 DEF Task
      <4> QED
        BY <4>1
    <3>12. Frames(row) = FramesOf(row.first, row.last, step)
      BY <1>t DEF Frames, scene
    <3> QED
      BY <3>4, <3>8, <3>9, <3>10, <3>11, <3>12
  <2> QED
    BY <2>10, <2>11
<1>3. ASSUME row.chunk # 0
      PROVE  \E k : /\ plan.tasks = {k} /\ k \in Task /\ k.group = row.group
                    /\ k.first = row.first /\ k.last = row.last /\ k.count = row.count
  <2>1. PICK t \in Retries :
          plan.tasks = {[group |-> row.group, chunk |-> row.chunk, attempt |-> row.attempt,
                         target |-> t, first |-> row.first, last |-> row.last,
                         count |-> row.count]}
    BY <1>3 DEF PlansOf
  <2> DEFINE k == [group |-> row.group, chunk |-> row.chunk, attempt |-> row.attempt,
                   target |-> t, first |-> row.first, last |-> row.last, count |-> row.count]
  <2>2. k.target = t /\ k \in plan.tasks
    BY <2>1
  <2>3. t \in Target
    BY <1>a, <1>p, <2>2 DEF Planned
  <2>4. k \in Task
    BY <1>0, <1>3, <2>3 DEF Task
  <2> HIDE DEF Retries
  <2> QED
    BY <2>1, <2>4
<1>4. ASSUME row.chunk # 0
      PROVE  /\ plan.tasks \subseteq Task
             /\ \A k \in plan.tasks : Lies(k) /\ Frames(k) = Frames(row)
                                      /\ (Tight(row, step) => Tight(k, step))
             /\ \A k, l \in plan.tasks : k = l
             /\ plan.tasks # {}
  <2>1. PICK k : /\ plan.tasks = {k} /\ k \in Task /\ k.group = row.group
                 /\ k.first = row.first /\ k.last = row.last /\ k.count = row.count
    BY <1>3, <1>4
  <2>2. Lies(k) /\ Frames(k) = Frames(row) /\ (Tight(row, step) => Tight(k, step))
    BY <2>1 DEF Lies, Within, Frames, Tight
  <2> QED
    BY <2>1, <2>2
<1>5. \A k \in plan.tasks : k.group = row.group
  BY <1>p DEF Planned
<1>6. CASE row.chunk = 0
  BY <1>2, <1>5, <1>6
<1>7. CASE row.chunk # 0
  BY <1>4, <1>5, <1>7
<1> QED
  BY <1>6, <1>7

-----------------------------------------------------------------------------
Items == pending \cup queue \cup jobs

\* What a row, a task or a job must be.
Sized(p) == Lies(p) /\ (p.group \notin short => Tight(p, StepOf(p.group)))

Typed ==
  /\ pending \subseteq Row /\ queue \subseteq Task /\ jobs \subseteq Job /\ short \subseteq Group
  /\ claims \subseteq {Id(j) : j \in jobs}
  /\ \A p \in Items : Sized(p)
  /\ \A p \in pending : p.chunk = 0 => Full(p)

LEMMA Grouped ==
  ASSUME Typed, NEW p \in Items
  PROVE  /\ p.group \in Group /\ p.attempt \in 0..MaxRetries /\ p.chunk \in Nat
         /\ p.first \in Int /\ p.last \in Int /\ p.count \in Nat \ {0}
  BY DEF Typed, Items, Row, Task, Job

\* What a failed attempt leaves to do.
LEMMA ParkedLies ==
  ASSUME NEW j \in Job, Lies(j), NEW n \in Nat, n < j.count, NEW r \in Parked(j, n)
  PROVE  /\ r.first = j.first + n * StepOf(j.group) /\ r.last = j.last /\ r.group = j.group
         /\ r.first \in Int /\ r.count \in Nat \ {0}
         /\ Lies(r) /\ Tight(r, StepOf(r.group))
<1> DEFINE step == StepOf(j.group)
           G == Groups[j.group]
           first == j.first + n * step
           K == (j.last - first) \div step
<1>1. /\ r.group = j.group /\ r.first = first /\ r.last = j.last /\ r.count = K + 1
  BY DEF Parked, StepOf
<1>2. /\ step \in Nat \ {0} /\ j.first \in Int /\ j.last \in Int /\ j.count \in Nat \ {0}
  BY SceneTypes DEF Job
<1>3. /\ OnFrame(G.first, step, j.first) /\ j.last <= G.last
      /\ j.first + (j.count - 1) * step <= j.last
  BY DEF Lies, Within
<1>4. G.first \in Int
  BY SceneTypes DEF Job
<1> HIDE DEF step, G
<1>5. first \in Int /\ first <= j.last
  <2>1. n * step \in Nat /\ (j.count - 1) * step \in Nat
    BY <1>2
  <2>2. n * step <= (j.count - 1) * step
    <3>1. n \in Int /\ j.count - 1 \in Int /\ n <= j.count - 1
      BY <1>2
    <3> QED
      BY <1>2, <3>1, Scale
  <2> QED
    BY <1>2, <1>3, <2>1, <2>2
<1>6. OnFrame(G.first, step, first)
  <2>1. PICK k \in Nat : j.first = G.first + k * step
    BY <1>3 DEF OnFrame
  <2>2. (k + n) * step = k * step + n * step /\ k + n \in Nat /\ k * step \in Nat /\ n * step \in Nat
    BY <1>2
  <2>3. first = G.first + (k + n) * step
    BY <1>4, <2>1, <2>2
  <2> QED
    BY <2>2, <2>3 DEF OnFrame
<1> HIDE DEF first
<1>7. K \in Nat /\ first + K * step <= j.last /\ j.last < first + (K + 1) * step
  BY <1>2, <1>5, FramesNumber
<1> HIDE DEF K
<1>8. r.count \in Nat \ {0} /\ r.count - 1 = K
  BY <1>1, <1>7
<1>9. Within(G, r, step)
  BY <1>1, <1>2, <1>3, <1>5, <1>6, <1>7, <1>8 DEF Within
<1>10. Tight(r, step)
  BY <1>1, <1>7 DEF Tight
<1> QED
  BY <1>1, <1>5, <1>8, <1>9, <1>10 DEF Lies, G, step, first

LEMMA ParkedRow ==
  ASSUME Typed, NEW j \in jobs, j.attempt < MaxRetries, NEW n \in Nat, n < j.count,
         NEW r \in Parked(j, n)
  PROVE  /\ r \in Row /\ r.chunk # 0 /\ r.chunk = j.chunk /\ r.attempt = j.attempt + 1
<1>1. j \in Job /\ Lies(j)
  BY DEF Typed, Items, Sized
<1>2. r = [group |-> j.group, chunk |-> j.chunk, attempt |-> j.attempt + 1,
           first |-> r.first, last |-> j.last, count |-> r.count, avoid |-> Exclusions(j)]
  BY DEF Parked
<1>3. r.first \in Int /\ r.count \in Nat \ {0}
  BY <1>1, ParkedLies
<1>4. Exclusions(j) \subseteq {Key(t) : t \in Target}
  <2>1. \A i \in jobs : i.target \in Target
    BY DEF Typed, Job
  <2> QED
    BY <2>1 DEF Exclusions
<1>5. /\ j.group \in Group /\ j.chunk \in Nat \ {0} /\ j.attempt + 1 \in 0..MaxRetries /\ j.last \in Int
  BY <1>1, TickConstants DEF Job
<1> HIDE <1>1
<1> QED
  BY <1>2, <1>3, <1>4, <1>5 DEF Row

LEMMA SubmitTyped ==
  ASSUME Typed, NEW g \in Group, Submit(g)
  PROVE  Typed'
<1> DEFINE F == FramesOf(Groups[g].first, Groups[g].last, Groups[g].step)
           row == [group |-> g, chunk |-> 0, attempt |-> 0, first |-> Groups[g].first,
                   last |-> Groups[g].last, avoid |-> {}, count |-> Cardinality(F)]
           step == Groups[g].step
           K == (Groups[g].last - Groups[g].first) \div step
<1>1. pending' = pending \cup {row} /\ UNCHANGED <<queue, jobs, claims, short>>
  BY DEF Submit
<1>2. /\ Groups[g].first \in Int /\ Groups[g].last \in Int /\ Groups[g].first <= Groups[g].last
      /\ step \in Nat \ {0} /\ StepOf(g) = step
  BY SceneTypes
<1>3. /\ K \in Nat /\ Groups[g].first + K * step <= Groups[g].last
      /\ Groups[g].last < Groups[g].first + (K + 1) * step
      /\ Cardinality(F) = K + 1
  BY <1>2, FramesNumber
<1>4. /\ row.group = g /\ row.first = Groups[g].first /\ row.last = Groups[g].last
      /\ row.count = Cardinality(F)
  OBVIOUS
<1>5. row \in Row
  <2>1. Cardinality(F) \in Nat \ {0}
    BY <1>3
  <2>2. 0 \in 0..MaxRetries
    BY TickConstants
  <2> HIDE DEF F
  <2> QED
    BY <1>2, <2>1, <2>2 DEF Row
<1> HIDE DEF row, F, K, step
<1>6. OnFrame(Groups[g].first, step, Groups[g].first)
  <2>1. Groups[g].first = Groups[g].first + 0 * step
    BY <1>2
  <2> QED
    BY <2>1 DEF OnFrame
<1>7. Within(Groups[g], row, step)
  <2>1. row.count \in Nat \ {0} /\ row.count - 1 = K
    BY <1>3, <1>4
  <2> QED
    BY <1>2, <1>3, <1>4, <1>6, <2>1 DEF Within
<1>8. Tight(row, step)
  BY <1>3, <1>4 DEF Tight
<1>9. Lies(row) /\ Full(row) /\ Sized(row)'
  BY <1>1, <1>2, <1>4, <1>7, <1>8 DEF Lies, Full, Sized
<1>10. \A p \in Items' : p \in Items \/ p = row
  BY <1>1 DEF Items
<1>11. \A p \in Items : Sized(p)'
  BY <1>1 DEF Typed, Sized
<1> QED
  BY <1>1, <1>5, <1>9, <1>10, <1>11 DEF Typed, Id

LEMMA DispatchTyped ==
  ASSUME Typed, NEW k \in queue, Dispatch(k)
  PROVE  Typed'
<1> DEFINE new == [group |-> k.group, chunk |-> k.chunk, attempt |-> k.attempt,
       target |-> k.target, first |-> k.first, last |-> k.last, count |-> k.count,
       made |-> 0, status |-> "pending", report |-> "none"]
<1>1. jobs' = jobs \cup {new} /\ queue' = queue \ {k} /\ UNCHANGED <<pending, short>>
      /\ claims' = claims \cup {Id(k)}
  BY DEF Dispatch
<1>2. k \in Task /\ Sized(k)
  BY DEF Typed, Items
<1>3. new \in Job
  BY <1>2 DEF Task, Job
<1>4. /\ new.group = k.group /\ new.first = k.first /\ new.last = k.last /\ new.count = k.count
      /\ Id(new) = Id(k)
  BY DEF Id
<1> HIDE DEF new
<1>5. Sized(new)
  BY <1>2, <1>4 DEF Sized, Lies, Within, Tight
<1>6. \A p \in Items' : p \in Items \/ p = new
  BY <1>1 DEF Items
<1>7. \A p \in Items' : Sized(p)'
  BY <1>1, <1>5, <1>6 DEF Typed, Sized
<1>8. claims' \subseteq {Id(j) : j \in jobs'}
  BY <1>1, <1>4 DEF Typed
<1> QED
  BY <1>1, <1>3, <1>7, <1>8 DEF Typed, Id

LEMMA BecomeTyped ==
  ASSUME Typed, NEW j \in jobs, NEW new \in Job, Become(j, new), UNCHANGED <<queue, short>>,
         new.group = j.group, new.first = j.first, new.last = j.last, new.count = j.count,
         Id(new) = Id(j), claims' \subseteq claims, NEW P, pending' = pending \cup P, P \subseteq Row,
         \A r \in P : r.chunk # 0 /\ Lies(r) /\ Tight(r, StepOf(r.group))
  PROVE  Typed'
<1>1. jobs' = (jobs \ {j}) \cup {new}
  BY DEF Become
<1>2. Sized(j)
  BY DEF Typed, Items
<1>3. Sized(new)
  BY <1>2 DEF Sized, Lies, Within, Tight
<1>4. \A p \in Items' : p \in Items \/ p = new \/ p \in P
  BY <1>1 DEF Items
<1>5. \A r \in P : Sized(r)
  BY DEF Sized
<1>6. \A p \in Items' : Sized(p)'
  BY <1>3, <1>4, <1>5 DEF Typed, Sized
<1>7. claims' \subseteq {Id(i) : i \in jobs'}
  BY <1>1 DEF Typed
<1> QED
  BY <1>1, <1>6, <1>7 DEF Typed, Id

LEMMA PromoteTyped ==
  ASSUME Typed, SnapTypes, NEW row \in tick.rows, Promote(row)
  PROVE  Typed'
<1>1. PICK plan \in PlansOf(row) :
        /\ queue' = queue \cup plan.tasks
        /\ short' = IF plan.fits THEN short ELSE short \cup {row.group}
  BY DEF Promote
<1>2. /\ row \in pending /\ pending' = pending \ {row} /\ UNCHANGED <<jobs, claims>>
      /\ tick.snap \in Snapshot
  BY DEF Promote, SnapTypes
<1>3. row \in Row /\ Sized(row) /\ (row.chunk = 0 => Full(row)) /\ row.group \in Group
  BY <1>2 DEF Typed, Items, Row
<1>4. /\ plan.tasks \subseteq Task
      /\ \A k \in plan.tasks : /\ k.group = row.group /\ Lies(k)
                               /\ plan.fits /\ Tight(row, StepOf(row.group)) =>
                                    Tight(k, StepOf(row.group))
  BY <1>2, <1>3, PlansFramed DEF Sized
<1>5. short \subseteq short' /\ short' \subseteq Group
      /\ (row.group \notin short' => plan.fits /\ row.group \notin short)
  BY <1>1, <1>3 DEF Typed
<1>6. \A k \in plan.tasks : Sized(k)'
  <2>1. ASSUME NEW k \in plan.tasks, k.group \notin short' PROVE Tight(k, StepOf(k.group))
    BY <1>3, <1>4, <1>5, <2>1 DEF Sized
  <2> QED
    BY <1>4, <2>1 DEF Sized
<1>7. \A p \in Items' : p \in Items \/ p \in plan.tasks
  BY <1>1, <1>2 DEF Items
<1>8. \A p \in Items : Sized(p)'
  BY <1>5 DEF Typed, Sized
<1> QED
  BY <1>1, <1>2, <1>4, <1>5, <1>6, <1>7, <1>8 DEF Typed, Id

\* A new state of a job: the same attempt of the same chunk on the same target.
Goes(j, new) ==
  /\ new \in Job /\ new.group = j.group /\ new.chunk = j.chunk /\ new.attempt = j.attempt
  /\ new.first = j.first /\ new.last = j.last /\ new.count = j.count

LEMMA JobWorks ==
  ASSUME NEW j \in Job
  PROVE  /\ LET new == [j EXCEPT !.report = "begun"] IN Goes(j, new) /\ new.made = j.made
         /\ LET new == [j EXCEPT !.status = "running",
                                 !.report = IF Live(j) THEN "written" ELSE "late"]
            IN Goes(j, new) /\ new.made = j.made
         /\ LET new == [j EXCEPT !.status = "done"] IN Goes(j, new) /\ new.made = j.made
  BY DEF Job, Goes

LEMMA JobFails ==
  ASSUME NEW j \in Job, NEW n \in Nat, NEW status \in {"failed", "infra"}
  PROVE  LET new == [j EXCEPT !.status = status, !.made = IF Id(j) \in claims THEN n ELSE @]
         IN  Goes(j, new) /\ new.made = IF Id(j) \in claims THEN n ELSE j.made
  BY DEF Job, Goes

\* A job that goes on, ends or is revived makes no frames of its own account.
LEMMA WorkGoes ==
  ASSUME Typed, Work
  PROVE  \E j \in jobs, new \in Job :
           /\ Become(j, new) /\ Goes(j, new) /\ new.made = j.made
           /\ claims' \subseteq claims /\ UNCHANGED <<queue, pending, short>>
<1>1. PICK j \in jobs : BeginReport(j) \/ WriteReported(j) \/ Finish(j)
  BY DEF Work
<1>2. j \in Job
  BY DEF Typed
<1>3. CASE BeginReport(j)
  BY <1>2, <1>3, JobWorks DEF BeginReport, Goes
<1>4. CASE WriteReported(j)
  BY <1>2, <1>4, JobWorks DEF WriteReported, Goes
<1>5. CASE Finish(j)
  BY <1>2, <1>5, JobWorks DEF Finish, Goes
<1> QED
  BY <1>1, <1>3, <1>4, <1>5

LEMMA TypedStep ==
  ASSUME Typed, SnapTypes, [Next]_vars
  PROVE  Typed'
<1>1. CASE UNCHANGED <<pending, queue, jobs, claims, short>>
  BY <1>1 DEF Typed, Items, Sized, Id
<1>2. ASSUME NEW k \in queue, Dispatch(k) PROVE Typed'
  BY <1>2, DispatchTyped
<1>3. ASSUME NEW row \in tick.rows, Promote(row) PROVE Typed'
  BY <1>3, PromoteTyped
<1>4. ASSUME NEW g \in Group, Submit(g) PROVE Typed'
  BY <1>4, SubmitTyped
<1>5. CASE Work
  <2>1. PICK j \in jobs, new \in Job :
          /\ Become(j, new) /\ Goes(j, new) /\ claims' \subseteq claims
          /\ UNCHANGED <<queue, pending, short>>
    BY <1>5, WorkGoes
  <2>2. PICK P : P = {}
    OBVIOUS
  <2>3. pending' = pending \cup P /\ P \subseteq Row
        /\ \A r \in P : r.chunk # 0 /\ Lies(r) /\ Tight(r, StepOf(r.group))
    BY <2>1, <2>2
  <2> QED
    BY <2>1, <2>3, BecomeTyped DEF Goes, Id
<1>6. CASE Failing
  <2>1. PICK j \in jobs : \E n \in 0..j.count, status \in {"failed", "infra"} : Fail(j, n, status)
    BY <1>6 DEF Failing
  <2>2. PICK n \in 0..j.count, status \in {"failed", "infra"} : Fail(j, n, status)
    BY <2>1
  <2>3. j \in Job /\ Lies(j) /\ n \in Nat
    BY DEF Typed, Items, Sized, Job
  <2> DEFINE new == [j EXCEPT !.status = status, !.made = IF Id(j) \in claims THEN n ELSE @]
             P == IF Id(j) \in claims /\ j.attempt < MaxRetries THEN Parked(j, n) ELSE {}
  <2>4. /\ Become(j, new) /\ UNCHANGED <<queue, short>> /\ pending' = pending \cup P /\ n < j.count
        /\ claims' \subseteq claims
    BY <2>2 DEF Fail
  <2>5. Goes(j, new)
    BY <2>3, JobFails
  <2>6. \A r \in P : r \in Row /\ r.chunk # 0 /\ Lies(r) /\ Tight(r, StepOf(r.group))
    BY <2>3, <2>4, ParkedLies, ParkedRow
  <2> HIDE DEF new, P
  <2>7. P \subseteq Row
    BY <2>6
  <2> QED
    BY <2>4, <2>5, <2>6, <2>7, BecomeTyped DEF Goes, Id
<1> QED
  BY <1>1, <1>2, <1>3, <1>4, <1>5, <1>6
  DEF Next, Tick, TickStarts, ListRows, Persist, FleetFull, Postpone, Preview, Age, vars

LEMMA TypedInit == Init => Typed
  BY DEF Init, Typed, Items

\* What SnapTypes leaves open of the bounds.
Bounded == cache.left \in 0..Life /\ faults \in 0..MaxFaults

LEMMA FaultBounded ==
  ASSUME Bounded, Fault \/ Fine
  PROVE  faults' \in 0..MaxFaults
  BY TickConstants DEF Bounded, Fault, Fine

LEMMA BuildBounded ==
  ASSUME Bounded, NEW snap, GetOrBuild(snap)
  PROVE  Bounded'
<1>1. faults' \in 0..MaxFaults
  BY FaultBounded DEF GetOrBuild
<1>2. cache' = cache \/ cache' = [left |-> Life, snap |-> snap]
  BY DEF GetOrBuild
<1>3. Life \in 0..Life
  BY TickConstants
<1>4. cache'.left \in 0..Life
  BY <1>2, <1>3 DEF Bounded
<1> QED
  BY <1>1, <1>4 DEF Bounded

LEMMA BoundedStep ==
  ASSUME Bounded, SnapTypes, [Next]_vars
  PROVE  Bounded'
<1>0. Life \in Nat /\ MaxFaults \in Nat /\ 0 \in 0..Life
  BY TickConstants
<1>1. CASE UNCHANGED <<cache, faults>>
  BY <1>1 DEF Bounded
<1>2. CASE TickStarts
  BY <1>2, BuildBounded DEF TickStarts
<1>3. CASE Preview
  <2>1. cache'.left = Life /\ UNCHANGED faults
    BY <1>3 DEF Preview, Fine
  <2> QED
    BY <1>0, <2>1 DEF Bounded
<1>4. CASE Persist
  <2>1. faults' \in 0..MaxFaults
    BY <1>4, FaultBounded DEF Persist
  <2>2. cache' = cache \/ cache' = [cache EXCEPT !.snap = tick.snap]
    BY <1>4 DEF Persist
  <2>3. cache'.left = cache.left
    BY <2>2 DEF SnapTypes
  <2> QED
    BY <2>1, <2>3 DEF Bounded
<1>5. CASE Age
  <2>1. cache.left > 0 /\ UNCHANGED faults
        /\ cache' = IF cache.left = 1 THEN Expired ELSE [cache EXCEPT !.left = @ - 1]
    BY <1>5 DEF Age
  <2>2. cache'.left = 0 \/ cache'.left = cache.left - 1
    BY <2>1 DEF Expired, SnapTypes
  <2> QED
    BY <1>0, <2>1, <2>2 DEF Bounded
<1> QED
  BY <1>1, <1>2, <1>3, <1>4, <1>5
  DEF Next, Tick, Dispatch, Promote, Submit, Work, BeginReport, WriteReported, Finish, Failing, Fail,
      ListRows, FleetFull, Postpone, vars

(* The rows, the tasks, the jobs, the snapshots and what is planned on     *)
(* them are what their types say: every chunk the planner makes has a      *)
(* first frame, a last one and at least one frame, and so has every row a  *)
(* failure parks.                                                          *)
THEOREM TickTypes == Spec => []TypeOK
<1>1. Init => Typed /\ Bounded /\ SnapInv /\ CapInv
  <2>1. Init => Bounded
    BY TickConstants DEF Init, Bounded, Expired
  <2> QED
    BY <2>1, TypedInit, SnapInit, InitHolds
<1>2. Typed /\ Bounded /\ SnapInv /\ CapInv /\ [Next]_vars
        => Typed' /\ Bounded' /\ SnapInv' /\ CapInv'
  BY TypedStep, BoundedStep, SnapStep, StepKeeps DEF SnapInv
<1>3. Typed /\ Bounded /\ SnapInv => TypeOK
  <2> SUFFICES ASSUME Typed, Bounded, SnapTypes PROVE TypeOK
    BY DEF SnapInv
  <2> QED
    BY DEF Typed, Bounded, SnapTypes, Account, TypeOK
<1> QED
  BY <1>1, <1>2, <1>3, PTL DEF Spec

-----------------------------------------------------------------------------
(* Who has a frame.  An attempt that a later one has taken over from keeps *)
(* the frames it made; everything else has all of its frames.  Of a group  *)
(* that fits, every frame is somebody's and nobody else's.                 *)
Superseded(x)  == x \in jobs /\ \E p \in Items : Same(p, x) /\ p.attempt > x.attempt
Held(x)        == IF Superseded(x) THEN Made(x) ELSE Frames(x)
Holders(g, f)  == {p \in Items : p.group = g /\ f \in Held(p)}
One(H)         == \E p \in H : \A q \in H : q = p
Parted ==
  \A x \in Items : x.group \notin short => \A f \in AllFrames(x.group) : One(Holders(x.group, f))

\* A row has no target, a task has made no frames, a job excludes nothing.
LEMMA Kinds == Row \cap Task = {} /\ Row \cap Job = {} /\ Task \cap Job = {}
<1>1. Row \cap Task = {}
  BY DEF Row, Task
<1>2. Row \cap Job = {}
  BY DEF Row, Job
<1>3. Task \cap Job = {}
  BY DEF Task, Job
<1> QED
  BY <1>1, <1>2, <1>3

LEMMA Apart ==
  ASSUME Typed
  PROVE  pending \cap queue = {} /\ pending \cap jobs = {} /\ queue \cap jobs = {}
  BY Kinds DEF Typed

\* What is left to do of a chunk is its last attempt.
LEMMA Newest ==
  ASSUME FailInv, NEW kind, NEW a, <<kind, a>> \in Pieces
  PROVE  a \in Items /\ \A p \in Items : Same(p, a) => p.attempt <= a.attempt
<1> DEFINE x == <<kind, a>>
<1>1. x \in Pieces /\ x[2] = a
  OBVIOUS
<1> HIDE DEF x
<1>2. a \in Items
  BY <1>1, PieceKinds DEF Items
<1>3. \A p \in Items : p.attempt \in Nat
  BY DEF FailInv, Counted, Items
<1>4. ASSUME NEW p \in Items, Same(p, a) PROVE p.attempt <= a.attempt
  <2>1. CASE p \in pending
    <3>1. <<"row", p>> \in Pieces /\ <<"row", p>>[2] = p
      BY <2>1, PieceKinds
    <3>2. x = <<"row", p>>
      BY <1>1, <1>4, <3>1 DEF FailInv, OnePiece, Same
    <3> QED
      BY <1>1, <1>3, <3>1, <3>2
  <2>2. CASE p \in queue
    <3>1. <<"task", p>> \in Pieces /\ <<"task", p>>[2] = p
      BY <2>2, PieceKinds
    <3>2. x = <<"task", p>>
      BY <1>1, <1>4, <3>1 DEF FailInv, OnePiece, Same
    <3> QED
      BY <1>1, <1>3, <3>1, <3>2
  <2>3. CASE p \in jobs
    <3>1. p.attempt < a.attempt \/ x = <<"job", p>>
      BY <1>1, <1>4, <2>3 DEF FailInv, LastAttempt
    <3>2. x = <<"job", p>> => a = p
      BY <1>1
    <3> QED
      BY <1>2, <1>3, <3>1, <3>2
  <2> QED
    BY <2>1, <2>2, <2>3 DEF Items
<1> QED
  BY <1>2, <1>4

\* Nobody else's frames change when a makes way for B, and B has a's frames.
LEMMA Swapped ==
  ASSUME Typed, Parted, NEW a \in Items, NEW B, Items' = (Items \ {a}) \cup B,
         short \subseteq short', \A b \in B : b.group = a.group,
         \A x \in Items \ {a} : x \in jobs' <=> x \in jobs,
         \A x \in jobs \ {a} :
           (Same(a, x) /\ a.attempt > x.attempt) <=> \E b \in B : Same(b, x) /\ b.attempt > x.attempt,
         a.group \notin short' =>
           /\ \A b \in B : Held(b)' \subseteq Held(a)
           /\ \A f \in Held(a) : \E b \in B : /\ f \in Held(b)'
                                             /\ \A c \in B : f \in Held(c)' => c = b
  PROVE  Parted'
<1>1. ASSUME NEW x \in Items \ {a} PROVE Held(x)' = Held(x)
  <2>1. x \in jobs' <=> x \in jobs
    BY <1>1
  <2>2. ASSUME x \in jobs
        PROVE  (\E p \in Items' : Same(p, x) /\ p.attempt > x.attempt)
                 <=> \E p \in Items : Same(p, x) /\ p.attempt > x.attempt
    <3>1. (\E p \in Items \ {a} : Same(p, x) /\ p.attempt > x.attempt)
            \/ (\E p \in B : Same(p, x) /\ p.attempt > x.attempt)
          <=> \E p \in Items' : Same(p, x) /\ p.attempt > x.attempt
      OBVIOUS
    <3>2. (\E p \in Items \ {a} : Same(p, x) /\ p.attempt > x.attempt)
            \/ (Same(a, x) /\ a.attempt > x.attempt)
          <=> \E p \in Items : Same(p, x) /\ p.attempt > x.attempt
      OBVIOUS
    <3> QED
      BY <2>2, <3>1, <3>2
  <2>3. Superseded(x)' <=> Superseded(x)
    BY <2>1, <2>2 DEF Superseded, Same
  <2> QED
    BY <2>3 DEF Held, Made, Frames
<1>2. ASSUME NEW x \in Items', x.group \notin short', NEW f \in AllFrames(x.group)
      PROVE  One(Holders(x.group, f))'
  <2> DEFINE g == x.group
             D == {p \in Items' : p.group = g /\ f \in Held(p)'}
             C == Holders(g, f)
  <2>0. Holders(g, f)' = D
    BY DEF Holders
  <2>1. CASE g # a.group
    <3>1. x \in Items /\ x.group \notin short
      BY <1>2, <2>1
    <3>2. One(C)
      BY <3>1 DEF Parted
    <3>3. D = C
      BY <1>1, <2>1 DEF Holders
    <3> QED
      BY <2>0, <3>2, <3>3 DEF One
  <2>2. CASE g = a.group
    <3>1. One(C)
      BY <1>2, <2>2 DEF Parted
    <3>2. CASE f \in Held(a)
      <4>1. C = {a}
        BY <2>2, <3>1, <3>2 DEF One, Holders
      <4>2. D \subseteq B
        BY <1>1, <4>1 DEF Holders
      <4>3. PICK b \in B : /\ f \in Held(b)'
                           /\ \A c \in B : f \in Held(c)' => c = b
        BY <1>2, <2>2, <3>2
      <4>4. b \in D /\ \A q \in D : q = b
        BY <2>2, <4>2, <4>3
      <4> QED
        BY <2>0, <4>4 DEF One
    <3>3. CASE f \notin Held(a)
      <4>1. \A b \in B : f \notin Held(b)'
        BY <1>2, <2>2, <3>3
      <4>2. D = C
        BY <1>1, <3>3, <4>1 DEF Holders
      <4> QED
        BY <2>0, <3>1, <4>2 DEF One
    <3> QED
      BY <3>2, <3>3
  <2> QED
    BY <2>1, <2>2
<1> QED
  BY <1>2 DEF Parted, AllFrames

\* One piece takes the place of another, with its frames.
LEMMA Replaced ==
  ASSUME Typed, Parted, NEW a \in Items, NEW b, Items' = (Items \ {a}) \cup {b},
         short \subseteq short', Same(b, a), b.attempt = a.attempt, Held(b)' = Held(a),
         \A x \in Items \ {a} : x \in jobs' <=> x \in jobs
  PROVE  Parted'
<1> DEFINE B == {b}
<1>1. /\ Items' = (Items \ {a}) \cup B /\ \A c \in B : c.group = a.group
      /\ \A x \in jobs \ {a} :
        (Same(a, x) /\ a.attempt > x.attempt) <=> \E c \in B : Same(c, x) /\ c.attempt > x.attempt
  BY DEF Same
<1>2. /\ \A c \in B : Held(c)' \subseteq Held(a)
      /\ \A f \in Held(a) : \E c \in B : /\ f \in Held(c)'
                                         /\ \A d \in B : f \in Held(d)' => d = c
  OBVIOUS
<1> HIDE DEF B
<1> QED
  BY <1>1, <1>2, Swapped

\* The last attempt of a chunk changes form and keeps its frames.
LEMMA Passed ==
  ASSUME Typed, Parted, NEW a \in Items, NEW b, Items' = (Items \ {a}) \cup {b},
         short \subseteq short', Same(b, a), b.attempt = a.attempt,
         b.first = a.first, b.last = a.last,
         \A p \in Items : Same(p, a) => p.attempt <= a.attempt,
         \A x \in Items \ {a} : x \in jobs' <=> x \in jobs
  PROVE  Parted'
<1>0. a.attempt \in Int /\ \A p \in Items : p.attempt \in Int
  <2>1. \A p \in Items : p.attempt \in 0..MaxRetries
    BY Grouped
  <2> QED
    BY <2>1, TickConstants
<1>1. Held(a) = Frames(a)
  BY <1>0 DEF Held, Superseded
<1>2. \A p \in Items' : Same(p, b) => p.attempt <= b.attempt
  BY <1>0 DEF Same
<1>3. Held(b)' = Frames(b)
  <2>1. ~Superseded(b)'
    BY <1>0, <1>2 DEF Superseded, Same
  <2> QED
    BY <2>1 DEF Held, Frames
<1>4. Frames(b) = Frames(a)
  BY DEF Frames, Same
<1>5. Held(b)' = Held(a)
  BY <1>1, <1>3, <1>4
<1> QED
  BY <1>5, Replaced

LEMMA PartedSame ==
  ASSUME Parted, UNCHANGED <<pending, queue, jobs, short>>
  PROVE  Parted'
  BY DEF Parted, AllFrames, One, Holders, Held, Superseded, Items, Made, Frames, Same

LEMMA SubmitParts ==
  ASSUME Typed, Parted, NEW g \in Group, Submit(g)
  PROVE  Parted'
<1> DEFINE row == [group |-> g, chunk |-> 0, attempt |-> 0, first |-> Groups[g].first,
                   last |-> Groups[g].last, avoid |-> {},
                   count |-> Cardinality(FramesOf(Groups[g].first, Groups[g].last, Groups[g].step))]
<1>1. /\ pending' = pending \cup {row} /\ UNCHANGED <<queue, jobs, short>>
      /\ \A p \in Items : p.group # g
  BY DEF Submit, Items
<1>2. row.group = g /\ row.first = Groups[g].first /\ row.last = Groups[g].last
  OBVIOUS
<1> HIDE DEF row
<1>3. Items' = Items \cup {row}
  BY <1>1 DEF Items
<1>4. \A x \in Items : Held(x)' = Held(x)
  BY <1>1, <1>2, <1>3 DEF Held, Superseded, Same, Made, Frames, Items
<1>5. row \notin jobs'
  BY <1>1, <1>2 DEF Items
<1>6. Held(row)' = AllFrames(g)
  BY <1>2, <1>5 DEF Held, Superseded, Frames, AllFrames
<1>7. ASSUME NEW x \in Items', x.group \notin short', NEW f \in AllFrames(x.group)
      PROVE  One(Holders(x.group, f))'
  <2>1. CASE x.group = g
    <3>1. Holders(g, f)' = {row}
      BY <1>1, <1>2, <1>3, <1>6, <1>7, <2>1 DEF Holders
    <3> QED
      BY <2>1, <3>1 DEF One
  <2>2. CASE x.group # g
    <3>1. x \in Items /\ x.group \notin short
      BY <1>1, <1>2, <1>3, <1>7, <2>2
    <3>2. Holders(x.group, f)' = Holders(x.group, f)
      BY <1>2, <1>3, <1>4, <2>2 DEF Holders
    <3>3. One(Holders(x.group, f))
      BY <3>1 DEF Parted
    <3> QED
      BY <3>2, <3>3 DEF One
  <2> QED
    BY <2>1, <2>2
<1> QED
  BY <1>7 DEF Parted, AllFrames

LEMMA DispatchParts ==
  ASSUME Typed, Parted, FailInv, NEW k \in queue, Dispatch(k)
  PROVE  Parted'
<1> DEFINE new == [group |-> k.group, chunk |-> k.chunk, attempt |-> k.attempt,
       target |-> k.target, first |-> k.first, last |-> k.last, count |-> k.count,
       made |-> 0, status |-> "pending", report |-> "none"]
<1>1. jobs' = jobs \cup {new} /\ queue' = queue \ {k} /\ UNCHANGED <<pending, short>>
  BY DEF Dispatch
<1>2. /\ new.group = k.group /\ new.chunk = k.chunk /\ new.attempt = k.attempt
      /\ new.first = k.first /\ new.last = k.last
  OBVIOUS
<1>3. new \in Job
  <2>1. k \in Task
    BY DEF Typed
  <2> QED
    BY <2>1 DEF Task, Job
<1> HIDE DEF new
<1>4. <<"task", k>> \in Pieces
  BY PieceKinds
<1>5. k \in Items /\ \A p \in Items : Same(p, k) => p.attempt <= k.attempt
  BY <1>4, Newest
<1>6. pending \cap queue = {} /\ pending \cap jobs = {} /\ queue \cap jobs = {}
  BY Apart
<1>7. new \notin pending /\ new \notin queue
  BY <1>3, Kinds DEF Typed
<1>8. Items' = (Items \ {k}) \cup {new}
  BY <1>1, <1>6 DEF Items
<1>9. \A x \in Items \ {k} : x \in jobs' <=> x \in jobs
  BY <1>1, <1>7 DEF Items
<1>10. Same(new, k)
  BY <1>2 DEF Same
<1> QED
  BY <1>1, <1>2, <1>5, <1>8, <1>9, <1>10, Passed

\* A job's next state: no piece of its chunk comes or goes, and no frame is made by an
\* attempt that another has taken over from.
LEMMA GoesParts ==
  ASSUME Typed, Parted, FailInv, NEW j \in jobs, NEW new, Goes(j, new), Become(j, new),
         Stands(j) \/ new.made = j.made, UNCHANGED <<pending, queue, short>>
  PROVE  Parted'
<1>1. jobs' = (jobs \ {j}) \cup {new} /\ short \subseteq short'
  BY DEF Become
<1>2. /\ Same(new, j) /\ new.attempt = j.attempt /\ new \in Job
      /\ new.first = j.first /\ new.last = j.last
  BY DEF Goes, Same
<1>3. pending \cap queue = {} /\ pending \cap jobs = {} /\ queue \cap jobs = {}
  BY Apart
<1>4. j \in Items /\ Items' = (Items \ {j}) \cup {new}
  BY <1>1, <1>3 DEF Items
<1>5. new \notin pending /\ new \notin queue
  BY <1>2, Kinds DEF Typed
<1>6. \A x \in Items \ {j} : x \in jobs' <=> x \in jobs
  BY <1>1, <1>5 DEF Items
<1>7. CASE Stands(j)
  <2>1. <<"job", j>> \in Pieces
    BY <1>7, PieceKinds
  <2>2. \A p \in Items : Same(p, j) => p.attempt <= j.attempt
    BY <2>1, Newest
  <2> QED
    BY <1>1, <1>2, <1>4, <1>6, <2>2, Passed
<1>8. CASE new.made = j.made
  <2>1. \A p \in Items : p.attempt \in 0..MaxRetries
    BY Grouped
  <2>2. j.attempt \in Int
    BY <1>4, <2>1, TickConstants
  <2>3. (\E p \in Items' : Same(p, new) /\ p.attempt > new.attempt)
          <=> \E p \in Items : Same(p, j) /\ p.attempt > j.attempt
    BY <1>2, <1>4, <2>2 DEF Same
  <2>4. Superseded(new)' <=> Superseded(j)
    BY <1>1, <2>3 DEF Superseded, Same
  <2>5. new.group = j.group
    BY <1>2 DEF Same
  <2>6. Held(new)' = Held(j)
    BY <1>2, <1>8, <2>4, <2>5 DEF Held, Made, Frames
  <2> QED
    BY <1>1, <1>2, <1>4, <1>6, <2>6, Replaced
<1> QED
  BY <1>7, <1>8

\* An attempt fails and the rest of its frames are parked.
LEMMA FailParts ==
  ASSUME Typed, Parted, FailInv, NEW j \in jobs, Stands(j), j.attempt < MaxRetries,
         NEW n \in Nat, n < j.count, NEW new, Goes(j, new), new.made = n, Become(j, new),
         pending' = pending \cup Parked(j, n), UNCHANGED <<queue, short>>
  PROVE  Parted'
<1>1. PICK r : Parked(j, n) = {r}
  BY DEF Parked
<1>2. jobs' = (jobs \ {j}) \cup {new} /\ pending' = pending \cup {r}
  BY <1>1 DEF Become
<1>3. /\ new.group = j.group /\ new.chunk = j.chunk /\ new.attempt = j.attempt /\ new \in Job
      /\ new.first = j.first /\ new.last = j.last
  BY DEF Goes
<1>4. r \in Row /\ r.chunk = j.chunk /\ r.attempt = j.attempt + 1
  BY <1>1, ParkedRow
<1>5. j \in Job /\ Lies(j)
  BY DEF Typed, Items, Sized
<1> DEFINE step == StepOf(j.group)
<1>6. /\ r.first = j.first + n * step /\ r.last = j.last /\ r.group = j.group /\ r.first \in Int
  BY <1>1, <1>5, ParkedLies
<1>7. <<"job", j>> \in Pieces /\ <<"job", j>>[2] = j
  BY PieceKinds
<1>8. \A p \in Items : Same(p, j) => p.attempt <= j.attempt
  BY <1>7, Newest
<1>9. j.attempt \in Int /\ (\A p \in Items : p.attempt \in Int) /\ j \in Items
  <2>1. \A p \in Items : p.attempt \in 0..MaxRetries
    BY Grouped
  <2>2. j \in Items
    BY DEF Items
  <2> QED
    BY <2>1, <2>2, TickConstants
<1>10. pending \cap queue = {} /\ pending \cap jobs = {} /\ queue \cap jobs = {}
  BY Apart
<1> DEFINE B == {new, r}
<1>11. Items' = (Items \ {j}) \cup B
  BY <1>2, <1>10 DEF Items
<1>12. new \notin pending /\ new \notin queue /\ new # r /\ r \notin jobs'
  BY <1>2, <1>3, <1>4, Kinds DEF Typed
<1>13. \A x \in Items \ {j} : x \in jobs' <=> x \in jobs
  BY <1>2, <1>12 DEF Items
<1>14. \A i \in jobs \ {j} : Same(j, i) => i.attempt < j.attempt
  <2>1. ASSUME NEW i \in jobs \ {j}, Same(j, i) PROVE i.attempt < j.attempt
    <3>1. Same(i, <<"job", j>>[2])
      BY <1>7, <2>1 DEF Same
    <3>2. <<"job", j>> # <<"job", i>>
      OBVIOUS
    <3>3. i.attempt < <<"job", j>>[2].attempt
      BY <1>7, <3>1, <3>2 DEF FailInv, LastAttempt
    <3> QED
      BY <1>7, <3>3
  <2> QED
    BY <2>1
<1>15. \A x \in jobs \ {j} :
         (Same(j, x) /\ j.attempt > x.attempt) <=> \E b \in B : Same(b, x) /\ b.attempt > x.attempt
  <2>1. \A x \in jobs \ {j} : x.attempt \in Int
    BY <1>9 DEF Items
  <2> QED
    BY <1>3, <1>4, <1>6, <1>9, <1>14, <2>1 DEF Same
<1>16. Held(j) = Frames(j)
  BY <1>8, <1>9 DEF Held, Superseded
<1>17. Held(r)' = Frames(r)
  BY <1>12 DEF Held, Superseded, Frames
<1>18. Held(new)' = Made(new)
  <2>1. r \in Items' /\ Same(r, new) /\ r.attempt > new.attempt
    BY <1>3, <1>4, <1>6, <1>9, <1>11 DEF Same
  <2>2. new \in jobs'
    BY <1>2
  <2>3. Superseded(new)'
    BY <2>1, <2>2 DEF Superseded, Same
  <2> QED
    BY <2>3 DEF Held, Made, Frames
<1>19. j.first \in Int /\ j.last \in Int /\ step \in Nat \ {0}
  BY <1>5, SceneTypes DEF Job
<1>20. /\ Frames(j) = FramesOf(j.first, j.last, step)
       /\ Frames(r) = FramesOf(r.first, r.last, step)
       /\ Made(new) = {f \in FramesOf(j.first, j.last, step) : f < r.first}
  BY <1>3, <1>6 DEF Frames, Made, StepOf
<1> HIDE DEF step
<1>21. OnFrame(j.first, step, r.first)
  BY <1>6 DEF OnFrame
<1>22. /\ Frames(r) \subseteq Frames(j)
       /\ \A f \in Frames(j) : f \in Frames(r) <=> r.first <= f /\ f <= j.last
  BY <1>6, <1>19, <1>20, <1>21, FramesPart
<1>23. \A f \in Frames(j) : f \in Int /\ f <= j.last
  BY <1>19, <1>20 DEF FramesOf
<1>24. \A f \in Frames(j) : f \in Made(new) <=> f \notin Frames(r)
  BY <1>6, <1>20, <1>22, <1>23
<1>25. /\ \A b \in B : Held(b)' \subseteq Held(j)
       /\ \A f \in Held(j) : \E b \in B : /\ f \in Held(b)'
                                          /\ \A c \in B : f \in Held(c)' => c = b
  BY <1>12, <1>16, <1>17, <1>18, <1>20, <1>22, <1>24
<1>26. \A b \in B : b.group = j.group
  BY <1>3, <1>6
<1> HIDE DEF B
<1> QED
  BY <1>9, <1>11, <1>13, <1>15, <1>25, <1>26, Swapped

LEMMA PromoteParts ==
  ASSUME Typed, Parted, FailInv, SnapTypes, NEW row \in tick.rows, Promote(row)
  PROVE  Parted'
<1>1. PICK plan \in PlansOf(row) :
        /\ plan.tasks # {}
        /\ queue' = queue \cup plan.tasks
        /\ short' = IF plan.fits THEN short ELSE short \cup {row.group}
  BY DEF Promote
<1>2. /\ row \in pending /\ pending' = pending \ {row} /\ UNCHANGED <<jobs, claims>>
      /\ tick.snap \in Snapshot
  BY DEF Promote, SnapTypes
<1>3. row \in Row /\ Sized(row) /\ (row.chunk = 0 => Full(row)) /\ row \in Items
  BY <1>2 DEF Typed, Items
<1>4. /\ plan.tasks \subseteq Task
      /\ \A k \in plan.tasks : k.group = row.group /\ Frames(k) \subseteq Frames(row)
      /\ plan.fits =>
           \A f \in Frames(row) :
             \E k \in plan.tasks : /\ f \in Frames(k)
                                   /\ \A l \in plan.tasks : f \in Frames(l) => l = k
  BY <1>2, <1>3, PlansFramed DEF Sized
<1>5. Planned(tick.snap, row, plan.tasks)
  BY <1>2, PlansPlanned
<1>6. short \subseteq short' /\ (row.group \notin short' => plan.fits)
  BY <1>1
<1> DEFINE B == plan.tasks
<1> HIDE DEF B
<1>7. pending \cap queue = {} /\ pending \cap jobs = {} /\ queue \cap jobs = {}
  BY Apart
<1>8. Items' = (Items \ {row}) \cup B
  BY <1>1, <1>2, <1>7 DEF Items, B
<1>9. Held(row) = Frames(row)
  BY <1>2, <1>7 DEF Held, Superseded
<1>10. ASSUME NEW k \in B PROVE Held(k)' = Frames(k)
  <2>1. k \notin jobs'
    BY <1>2, <1>4, Kinds DEF Typed, B
  <2> QED
    BY <2>1 DEF Held, Superseded, Frames
<1>11. \A x \in jobs : x.attempt \in Nat
  BY DEF FailInv, Counted
<1>12. ASSUME NEW x \in jobs
       PROVE  (Same(row, x) /\ row.attempt > x.attempt) <=> \E b \in B : Same(b, x) /\ b.attempt > x.attempt
  <2>1. CASE row.chunk = 0
    <3>1. x.group # row.group
      BY <1>2, <2>1 DEF FailInv, OneRow
    <3> QED
      BY <1>4, <3>1 DEF Same, B
  <2>2. CASE row.chunk # 0 /\ B # {}
    <3>1. PICK k \in B : B = {k}
      <4>1. \A l, m \in B : l = m
        BY <1>5, <2>2 DEF Planned, B
      <4> QED
        BY <2>2, <4>1
    <3>2. k.group = row.group /\ k.chunk = row.chunk /\ k.attempt = row.attempt
      BY <1>5, <2>2, <3>1 DEF Planned, B
    <3> QED
      BY <3>1, <3>2 DEF Same
  <2>3. B # {}
    BY <1>1 DEF B
  <2> QED
    BY <2>1, <2>2, <2>3
<1>13. row.group \notin short' =>
         /\ \A b \in B : Held(b)' \subseteq Held(row)
         /\ \A f \in Held(row) : \E b \in B : /\ f \in Held(b)'
                                             /\ \A c \in B : f \in Held(c)' => c = b
  BY <1>4, <1>6, <1>9, <1>10 DEF B
<1>14. \A b \in B : b.group = row.group
  BY <1>4 DEF B
<1>15. \A x \in Items \ {row} : x \in jobs' <=> x \in jobs
  BY <1>2
<1>16. \A x \in jobs \ {row} :
         (Same(row, x) /\ row.attempt > x.attempt) <=> \E b \in B : Same(b, x) /\ b.attempt > x.attempt
  BY <1>12
<1> QED
  BY <1>3, <1>6, <1>8, <1>13, <1>14, <1>15, <1>16, Swapped

LEMMA PartedStep ==
  ASSUME Typed, Parted, FailInv, SnapTypes, [Next]_vars
  PROVE  Parted'
<1>1. CASE UNCHANGED <<pending, queue, jobs, short>>
  BY <1>1, PartedSame
<1>2. ASSUME NEW k \in queue, Dispatch(k) PROVE Parted'
  BY <1>2, DispatchParts
<1>3. ASSUME NEW row \in tick.rows, Promote(row) PROVE Parted'
  BY <1>3, PromoteParts
<1>4. ASSUME NEW g \in Group, Submit(g) PROVE Parted'
  BY <1>4, SubmitParts
<1>5. CASE Work
  <2>1. PICK j \in jobs, new \in Job :
          /\ Become(j, new) /\ Goes(j, new) /\ new.made = j.made
          /\ UNCHANGED <<queue, pending, short>>
    BY <1>5, WorkGoes
  <2> QED
    BY <2>1, GoesParts
<1>6. CASE Failing
  <2>1. PICK j \in jobs : \E n \in 0..j.count, status \in {"failed", "infra"} : Fail(j, n, status)
    BY <1>6 DEF Failing
  <2>2. PICK n \in 0..j.count, status \in {"failed", "infra"} : Fail(j, n, status)
    BY <2>1
  <2>3. j \in Job /\ n \in Nat /\ (Id(j) \in claims => Stands(j))
    BY DEF Typed, Job, FailInv, Claimed
  <2> DEFINE new == [j EXCEPT !.status = status, !.made = IF Id(j) \in claims THEN n ELSE @]
  <2>4. /\ Become(j, new) /\ UNCHANGED <<queue, short>> /\ n < j.count
        /\ pending' = pending \cup
             (IF Id(j) \in claims /\ j.attempt < MaxRetries THEN Parked(j, n) ELSE {})
    BY <2>2 DEF Fail
  <2>5. Goes(j, new) /\ new.made = IF Id(j) \in claims THEN n ELSE j.made
    BY <2>3, JobFails
  <2> HIDE DEF new
  <2>6. CASE Id(j) \in claims /\ j.attempt < MaxRetries
    BY <2>3, <2>4, <2>5, <2>6, FailParts
  <2>7. CASE ~(Id(j) \in claims /\ j.attempt < MaxRetries)
    <3>1. UNCHANGED <<pending, queue, short>> /\ (Stands(j) \/ new.made = j.made)
      BY <2>3, <2>4, <2>5, <2>7
    <3> QED
      BY <2>4, <2>5, <3>1, GoesParts
  <2> QED
    BY <2>6, <2>7
<1> QED
  BY <1>1, <1>2, <1>3, <1>4, <1>5, <1>6
  DEF Next, Tick, TickStarts, ListRows, Persist, FleetFull, Postpone, Preview, Age, vars

\* A range whose count leaves no frame out, nor one too many, counts its frames.
LEMMA TightCounts ==
  ASSUME NEW row, NEW k, NEW step \in Nat \ {0}, Within(row, k, step), Tight(k, step)
  PROVE  k.count = Cardinality(FramesOf(k.first, k.last, step))
<1>1. /\ k.first \in Int /\ k.last \in Int /\ k.count \in Nat \ {0}
      /\ k.first + (k.count - 1) * step <= k.last
      /\ k.last < k.first + k.count * step
  BY DEF Within, Tight
<1> DEFINE q == k.count - 1
           r == k.last - k.first - q * step
           a == k.last - k.first
<1>2. q \in Nat /\ q * step \in Nat /\ k.count = q + 1 /\ k.count * step = q * step + step
  <2>1. q \in Nat /\ k.count = q + 1
    <3>1. k.count \in Nat \ {0}
      BY <1>1
    <3> QED
      BY <3>1
  <2> HIDE DEF q
  <2>2. q * step \in Nat /\ (q + 1) * step = q * step + step
    BY <2>1
  <2> QED
    BY <2>1, <2>2
<1> HIDE DEF q
<1>3. k.first <= k.last /\ a \in Nat /\ r \in Nat /\ r < step /\ a = q * step + r
  BY <1>1, <1>2 DEF q
<1> HIDE DEF a, r
<1>4. q = a \div step
  BY <1>2, <1>3, Division
<1>5. Cardinality(FramesOf(k.first, k.last, step)) = (k.last - k.first) \div step + 1
  BY <1>1, <1>3, FramesNumber
<1> QED
  BY <1>2, <1>4, <1>5 DEF a

LEMMA PartedConserves ==
  ASSUME Typed, Parted
  PROVE  FramesConserved
<1> SUFFICES ASSUME NEW g \in Group \ short
             PROVE  LET pieces == {p \in pending \cup queue \cup jobs : p.group = g}
                        gone   == {j \in pieces \cap jobs :
                                     \E p \in pieces : p.chunk = j.chunk /\ p.attempt > j.attempt}
                        held   == pieces \ gone
                        all    == FramesOf(Groups[g].first, Groups[g].last, Groups[g].step)
                    IN pieces # {} =>
                         /\ \A p \in pieces : p.count = Cardinality(Frames(p)) /\ Frames(p) \subseteq all
                         /\ \A f \in all :
                              Cardinality({p \in held : f \in Frames(p)} \cup {j \in gone : f \in Made(j)}) = 1
  BY DEF FramesConserved
<1> DEFINE pieces == {p \in pending \cup queue \cup jobs : p.group = g}
           gone   == {j \in pieces \cap jobs :
                        \E p \in pieces : p.chunk = j.chunk /\ p.attempt > j.attempt}
           held   == pieces \ gone
           all    == FramesOf(Groups[g].first, Groups[g].last, Groups[g].step)
<1> SUFFICES ASSUME NEW x \in pieces
             PROVE  /\ \A p \in pieces : p.count = Cardinality(Frames(p)) /\ Frames(p) \subseteq all
                    /\ \A f \in all :
                         Cardinality({p \in held : f \in Frames(p)} \cup {j \in gone : f \in Made(j)}) = 1
  OBVIOUS
<1>1. ASSUME NEW p \in pieces PROVE p.count = Cardinality(Frames(p)) /\ Frames(p) \subseteq all
  <2>1. p \in Items /\ p.group = g
    BY DEF Items
  <2>2. Within(Groups[g], p, StepOf(g)) /\ Tight(p, StepOf(g))
    BY <2>1 DEF Typed, Sized, Lies
  <2>3. /\ Groups[g].first \in Int /\ Groups[g].last \in Int
        /\ StepOf(g) = Groups[g].step /\ StepOf(g) \in Nat \ {0}
    BY SceneTypes
  <2>4. Frames(p) = FramesOf(p.first, p.last, StepOf(g))
    BY <2>1, <2>3 DEF Frames
  <2>5. p.count = Cardinality(FramesOf(p.first, p.last, StepOf(g)))
    BY <2>2, <2>3, TightCounts
  <2>6. /\ p.first \in Int /\ p.last \in Int /\ p.last <= Groups[g].last
        /\ OnFrame(Groups[g].first, StepOf(g), p.first)
    BY <2>2 DEF Within
  <2>7. FramesOf(p.first, p.last, StepOf(g)) \subseteq FramesOf(Groups[g].first, Groups[g].last, StepOf(g))
    BY <2>3, <2>6, FramesPart
  <2> QED
    BY <2>3, <2>4, <2>5, <2>7
<1>2. \A p \in pieces : p \in gone <=> Superseded(p)
  BY DEF Superseded, Same, Items
<1>3. ASSUME NEW f \in all
      PROVE  Cardinality({p \in held : f \in Frames(p)} \cup {j \in gone : f \in Made(j)}) = 1
  <2>1. {p \in held : f \in Frames(p)} \cup {j \in gone : f \in Made(j)} = Holders(g, f)
    <3>1. \A p : p \in pieces <=> p \in Items /\ p.group = g
      BY DEF Items
    <3> HIDE DEF pieces
    <3>2. gone \subseteq pieces
      OBVIOUS
    <3> HIDE DEF gone
    <3> QED
      BY <1>2, <3>1, <3>2 DEF Holders, Held
  <2>2. One(Holders(g, f))
    <3>1. x \in Items /\ x.group = g
      BY DEF Items
    <3> QED
      BY <1>3, <3>1 DEF Parted, AllFrames
  <2>3. PICK p : Holders(g, f) = {p}
    BY <2>2 DEF One
  <2> QED
    BY <2>1, <2>3, FS_Singleton
<1> QED
  BY <1>1, <1>3

(* No range of a group that fits is lost and none is handed out twice,     *)
(* over every submission, plan, dispatch, report, failure and retry.       *)
THEOREM FramesKept == Spec => []FramesConserved
<1>1. Init => Typed /\ Parted /\ FailInv /\ SnapInv /\ CapInv
  <2>1. Init => Parted
    BY DEF Init, Parted, Items
  <2> QED
    BY <2>1, TypedInit, FailInit, SnapInit, InitHolds
<1>2. Typed /\ Parted /\ FailInv /\ SnapInv /\ CapInv /\ [Next]_vars
        => Typed' /\ Parted' /\ FailInv' /\ SnapInv' /\ CapInv'
  BY TypedStep, PartedStep, FailStep, SnapStep, StepKeeps DEF SnapInv
<1>3. Typed /\ Parted => FramesConserved
  BY PartedConserves
<1> QED
  BY <1>1, <1>2, <1>3, PTL DEF Spec

=============================================================================
