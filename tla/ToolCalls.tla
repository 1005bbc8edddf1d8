------------------------------- MODULE ToolCalls -------------------------------
(* The tools and start-up steps that keep no state between calls: a call      *)
(* takes an input, computes its answer from it, and is done.  The modules     *)
(* that extend this one say what each of them computes.                       *)
VARIABLE call

NoCall == [tool |-> "none", in |-> {}, out |-> {}]
Idle == call.tool = "none"
Answers(tool) == call.tool = tool

Call(tool, in, out) == call' = [tool |-> tool, in |-> in, out |-> out]
Return == ~Idle /\ call' = NoCall
=============================================================================
