----------------------------- MODULE MCWriteGate -----------------------------
(* WriteGate on a small instance.                                           *)
EXTENDS WriteGate

CONSTANTS write, upload

Approval(t, p, confirm, form) ==
  [token |-> t, payload |-> p, confirm |-> confirm, form |-> form,
   accepted |-> FALSE]

\* Every payload as it was validated, one edited after validation, and one
\* without confirm=true.
SomeAsks ==
  {Approval(p, p, TRUE, form) : p \in {write, upload}, form \in BOOLEAN}
    \union {Approval(write, upload, TRUE, FALSE),
            Approval(write, write, FALSE, FALSE)}
=============================================================================
