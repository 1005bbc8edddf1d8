-------------------------- MODULE MCInstanceRouting --------------------------
(* InstanceRouting on small instances; threads are interchangeable, so are   *)
(* the configured instances, any of which may be the default.                *)
EXTENDS InstanceRouting, TLC

Interchangeable == Permutations(Threads) \union Permutations(Names)
=============================================================================
