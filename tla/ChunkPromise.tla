---------------------------- MODULE ChunkPromise ----------------------------
(***************************************************************************)
(* What serverV2 promises about the chunks of a render, with no queue, no  *)
(* claim and no handler in sight: each chunk waits for a machine, runs, is *)
(* rendered, is given up after Budget launches, or is dropped because the  *)
(* render was closed.  RenderLifecycle implements this module.             *)
(***************************************************************************)
EXTENDS Naturals

CONSTANTS
  Chunk,
  Budget      \* launches a chunk may cost: the first and max_retries more

VARIABLES
  phase,      \* where each chunk is
  launches,   \* jobs launched for each chunk
  closing     \* somebody is acting on a closed render

vars == <<phase, launches, closing>>

Phase == {"waiting", "running", "rendered", "spent", "dropped"}

Init ==
  /\ phase = [c \in Chunk |-> "waiting"]
  /\ launches = [c \in Chunk |-> 0]
  /\ closing = FALSE

Move(c, from, to) == phase[c] \in from /\ phase' = [phase EXCEPT ![c] = to]

\* Frames that arrived late do not call back an attempt already on its way.
Launch(c) ==
  /\ launches[c] < Budget
  /\ launches' = [launches EXCEPT ![c] = @ + 1]
  /\ \/ Move(c, {"waiting"}, "running")
     \/ phase[c] = "rendered" /\ UNCHANGED phase

\* The attempt ended without its frames.
Fail(c) == Move(c, {"running"}, "waiting") /\ UNCHANGED launches

GiveUp(c) ==
  /\ launches[c] = Budget
  /\ Move(c, {"running", "waiting"}, "spent")
  /\ UNCHANGED launches

\* A worker may upload after its job was given up, but not before any job.
Render(c) ==
  /\ launches[c] > 0
  /\ Move(c, Phase \ {"rendered"}, "rendered")
  /\ UNCHANGED launches

Drop ==
  /\ closing
  /\ \E S \in SUBSET {c \in Chunk : phase[c] \in {"waiting", "running"}} :
       phase' = [c \in Chunk |-> IF c \in S THEN "dropped" ELSE phase[c]]
  /\ UNCHANGED launches

\* A row the daemon had read before the render was closed comes back.
Resume(c) == Move(c, {"dropped"}, "waiting") /\ UNCHANGED launches

Next ==
  /\ \/ \E c \in Chunk : Launch(c) \/ Fail(c) \/ GiveUp(c) \/ Render(c) \/ Resume(c)
     \/ Drop
     \/ UNCHANGED <<phase, launches>>
  /\ closing' \in BOOLEAN

Spec == Init /\ [][Next]_vars

=============================================================================
