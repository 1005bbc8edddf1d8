----------------------------- MODULE WriteReports -----------------------------
(***************************************************************************)
(* The reports behind the write gate (agent_tools.py): what validate_write *)
(* requires of a payload, the approval it hands out, what of an approval   *)
(* the token binds, and the call an approval stands for.  WriteGate takes  *)
(* their outcome for granted; here it is computed.                         *)
(*                                                                         *)
(* A payload is a record of op, ids, values, batch, list, context and      *)
(* instance: list counts only when batch (the argument values_list was     *)
(* given), its entries are [object, values], and values are functions from *)
(* fields to numbers, which JSON may carry as floats.                      *)
(***************************************************************************)
EXTENDS ToolCalls, SequencesExt, Integers

CONSTANTS
  WriteInputs,  \* of [payload, metadata, edit]: a payload to validate, the
                \* fields known and readonly, how the approval comes back
  MaxBatch      \* MAX_WRITE_BATCH_SIZE

IsDictionary(values) == values = [f \in DOMAIN values |-> values[f]]
ASSUME WriteAssumption ==
  /\ MaxBatch \in Nat \ {0}
  /\ \A in \in WriteInputs :
       LET p == in.payload IN
         /\ DOMAIN p = {"op", "ids", "values", "batch", "list", "context", "instance"}
         /\ IsDictionary(p.values) /\ p.list \in Seq(ToSet(p.list))
         /\ \A i \in DOMAIN p.list :
              DOMAIN p.list[i] = {"object", "values"} /\ IsDictionary(p.list[i].values)

\* canonical_json collapses integral floats, and absent means the default.
Integral(values) == [f \in DOMAIN values |-> IF values[f] = "1.0" THEN "1" ELSE values[f]]
Canonical(p) ==
  [p EXCEPT !.values = Integral(p.values),
            !.list = IF p.batch
                     THEN [i \in DOMAIN p.list |-> [p.list[i] EXCEPT !.values = Integral(@)]]
                     ELSE <<>>,
            !.instance = IF @ = "" THEN "default" ELSE @]

\* build_write_preview_report finds no error.
WellFormed(p) ==
  /\ p.op \in {"create", "write", "unlink"}
  /\ IF p.batch
       THEN /\ p.op = "create" /\ p.values = <<>>
            /\ Len(p.list) \in 1..MaxBatch
            /\ \A i \in DOMAIN p.list : p.list[i].object /\ p.list[i].values # <<>>
       ELSE p.op = "create" => p.values # <<>>
  /\ p.op \in {"write", "unlink"} => p.ids # <<>>
  /\ p.op = "write" => p.values # <<>>

\* _metadata_issues_for_values, over every dictionary of the payload.
Dictionaries(p) ==
  IF p.batch THEN {p.list[i].values : i \in {j \in DOMAIN p.list : p.list[j].object}}
  ELSE {p.values}
Settable(p, metadata) ==
  \A values \in Dictionaries(p) : DOMAIN values \subseteq metadata.known \ metadata.readonly

Validated(in) == WellFormed(in.payload) /\ Settable(in.payload, in.metadata)

\* The approval as the caller sends it back: as it was, with its numbers turned
\* into floats on the way, or with one entry replaced.
Floats(values) == [f \in DOMAIN values |-> IF values[f] = "1" THEN "1.0" ELSE values[f]]
Returned(p, edit) ==
  CASE edit.entry = "none" -> p
    [] edit.entry = "floats" ->
         [p EXCEPT !.values = Floats(@),
                   !.list = [i \in DOMAIN p.list |-> [p.list[i] EXCEPT !.values = Floats(@)]]]
    [] OTHER -> [p EXCEPT ![edit.entry] = edit.to]

\* Mutant: the context is not part of what the token binds.
Verifies_NoContext(in) ==
  [Canonical(Returned(in.payload, in.edit)) EXCEPT !.context = in.payload.context]
    = Canonical(in.payload)

\* verify_write_approval: the token is the digest of the canonical payload.
Verifies(in) == Canonical(Returned(in.payload, in.edit)) = Canonical(in.payload)

\* _write_execute_method_args: the records the call writes and what it writes.
Executed(p) ==
  LET c == Canonical(p) IN
    [method |-> c.op, context |-> c.context, instance |-> c.instance,
     ids |-> IF c.op = "create" THEN <<>> ELSE c.ids,
     vals |-> CASE c.op = "unlink" -> <<>>
                [] c.op = "create" /\ c.batch -> [i \in DOMAIN c.list |-> c.list[i].values]
                [] OTHER -> <<c.values>>]

ValidateThenVerify ==
  \E in \in WriteInputs :
    Call("validate_write", in,
      [success |-> Validated(in), verified |-> Validated(in) /\ Verifies(in)])

-----------------------------------------------------------------------------
\* An approval that verifies stands for the very call that was validated,
\* whatever of it the caller edited, and one that only lost the difference
\* between 1 and 1.0 on its way still verifies.
ApprovalsAreBinding ==
  Answers("validate_write") /\ call.out.success =>
    /\ call.out.verified =>
         Executed(Returned(call.in.payload, call.in.edit)) = Executed(call.in.payload)
    /\ call.in.edit.entry \in {"none", "floats"} => call.out.verified

\* A validated call does something, to records it names or creates, in at most
\* one batch, and sets nothing but fields that exist and may be written.
ValidatedCallsAreSound ==
  Answers("validate_write") /\ call.out.success =>
    LET does == Executed(call.in.payload) IN
      /\ does.method # "create" <=> does.ids # <<>>
      /\ does.method # "unlink" <=> does.vals # <<>>
      /\ Len(does.vals) <= MaxBatch
      /\ \A i \in DOMAIN does.vals :
           /\ does.vals[i] # <<>>
           /\ DOMAIN does.vals[i] \subseteq call.in.metadata.known \ call.in.metadata.readonly
=============================================================================
