----------------------------- MODULE MCTokenCache -----------------------------
(* TokenCache on a small instance.  The calls are interchangeable, but the    *)
(* run checks liveness, so no symmetry is declared.                           *)
EXTENDS TokenCache
=============================================================================
