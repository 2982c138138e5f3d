--------------------------- MODULE MCWorkerUpload ---------------------------
(* Instances of WorkerUpload: which files Blender writes.                  *)
EXTENDS WorkerUpload, TLC

\* Two frames; one frame of two files, a File Output node's and the main one.
TwoFrames == <<1, 2>>
TwoFiles  == <<1, 1>>

Symmetry == Permutations(Container)
=============================================================================
