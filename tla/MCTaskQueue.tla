----------------------------- MODULE MCTaskQueue -----------------------------
(* TaskQueue on a small instance.  Task ids are interchangeable, but the run *)
(* checks liveness, so no symmetry is declared.                              *)
EXTENDS TaskQueue
=============================================================================
