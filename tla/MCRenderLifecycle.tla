------------------------- MODULE MCRenderLifecycle -------------------------
(* Instances of RenderLifecycle: which entry points each thread runs.      *)
EXTENDS RenderLifecycle, TLC

CONSTANTS h1, h2

\* Two threads that report the outcome of jobs.
Outcomes == [p \in Handler |-> {"failure", "success"}]
\* One thread that is the monitor and then the sweep, in any order.
InTurns  == [p \in Handler |-> {"failure", "success", "audit"}]
\* A user who cancels a job or the render and retries by hand, and a monitor.
Users    == [p \in Handler |-> IF p = h1 THEN {"cancel", "cancelGroup", "retry"} ELSE {"failure"}]
\* A user who cancels the render, and a monitor that fails or promotes jobs.
Teardown == [p \in Handler |-> IF p = h1 THEN {"cancelGroup"} ELSE {"failure", "promote"}]
Everyone == [p \in Handler |-> Op]

Symmetry == Permutations(Handler) \cup Permutations(Chunk)
ChunkSymmetry == Permutations(Chunk)
=============================================================================
