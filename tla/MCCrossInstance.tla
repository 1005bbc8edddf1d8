--------------------------- MODULE MCCrossInstance ---------------------------
(* Small instances of CrossInstance. *)
EXTENDS CrossInstance

CONSTANTS a, b, c, ghost

MCInstances == {a, b, c}
MCOptedOut == {c}
MCTagged == {b, c}
MCDenied == {a}
MCRequests ==
  {[kind |-> "all", names |-> <<>>], [kind |-> "tags", names |-> <<>>],
   [kind |-> "list", names |-> <<a, b, c, ghost>>], [kind |-> "list", names |-> <<a, a>>]}
=============================================================================
