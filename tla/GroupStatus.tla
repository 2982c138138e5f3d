---------------------------- MODULE GroupStatus ----------------------------
(***************************************************************************)
(* The pure roll-up of a render group's status from its jobs, its frames   *)
(* and its queued work: serverV2/callbacks/group_status_aggregator.py.     *)
(*                                                                         *)
(* compute_group_status reads the list of job statuses only through any()  *)
(* and all(), so the list is represented by the set of statuses in it; it  *)
(* reads the frame counts only through "zero" and "at least the total", so *)
(* they are represented by "none", "some" or "all".  A group has at least  *)
(* one frame.                                                              *)
(***************************************************************************)

GroupState == {"pending", "running", "done", "failed", "cancelled"}
JobState   == {"pending", "running", "done", "failed", "cancelled"}
Rendered   == {"none", "some", "all"}

ActiveJob     == {"pending", "running"}
TerminalJob   == {"done", "failed", "cancelled"}
ActiveGroup   == {"pending", "running"}
TerminalGroup == {"done", "failed", "cancelled"}

\* The aggregator's own notion of a terminal group leaves "done" out.
Unlockable == {"cancelled", "failed"}

\* queued says that a row of either allocation queue exists for the group.
NoActive(view, queued) == view \cap ActiveJob = {} /\ ~queued

Persist(current, s) == [status |-> s, persist |-> current # s]
Hold(current)       == [status |-> current, persist |-> FALSE]

FromTerminal(current, view, rend, queued) ==
  IF ~NoActive(view, queued)
    THEN [status |-> "running", persist |-> TRUE]
  ELSE IF "done" \in view /\ rend = "all"
    THEN Persist(current, "done")
  ELSE Hold(current)

\* Every job done counts as done, whatever is still queued.
Completed(view, rend, queued) ==
  \/ view = {"done"}
  \/ NoActive(view, queued) /\ "done" \in view /\ rend = "all"

FromActive(current, view, rend, queued) ==
  IF view = {} /\ ~queued /\ rend = "none"
    THEN Hold(current)
  ELSE IF Completed(view, rend, queued)
    THEN Persist(current, "done")
  ELSE IF "running" \in view
    THEN [status |-> "running", persist |-> current = "pending"]
  ELSE IF NoActive(view, queued) /\ (view = {"failed"} \/ rend # "all")
    THEN Persist(current, "failed")
  ELSE Hold(current)

ComputeGroupStatus(current, view, rend, queued) ==
  IF current \in Unlockable
    THEN FromTerminal(current, view, rend, queued)
    ELSE FromActive(current, view, rend, queued)

=============================================================================
