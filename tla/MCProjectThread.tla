--------------------------- MODULE MCProjectThread ---------------------------
(* Instances of ProjectThread for TLC.                                       *)
EXTENDS ProjectThread
MCTasks == 1 .. 2
=============================================================================
