------------------------------ MODULE MCAnswers -------------------------------
(* What the tools ask of Odoo and answer: a request of OdooRpc, with the       *)
(* bounds of the code, the calls of MCTools, and the indexes of                *)
(* KnowledgeIndex.  The three share no state, so a behaviour is one of one of  *)
(* them, as its initial state chooses.                                         *)
EXTENDS MCTools, OdooRpc, KnowledgeIndex

VARIABLE part

AnswersInit ==
  /\ part \in {"rpc", "tool", "index"}
  /\ Init /\ ToolsInit /\ IndexInit
AnswersNext ==
  \/ part = "rpc" /\ Next /\ UNCHANGED <<part, call, indexVars>>
  \/ part = "tool" /\ ToolsNext /\ UNCHANGED <<part, vars, indexVars>>
  \/ part = "index" /\ IndexNext /\ UNCHANGED <<part, vars, call>>
AnswersSpec == AnswersInit /\ [][AnswersNext]_<<part, vars, call, indexVars>>

-----------------------------------------------------------------------------
\* Two models, two records each, whose text changes from one set of
\* terms to another, to punctuation only and to nothing.
MCText ==
  [d \in {1, 2} |->
     [v \in 0..1 |-> CASE d = 1 /\ v = 0 -> {"invoice", "late"}
                       [] d = 2 /\ v = 0 -> {"late"}
                       [] OTHER -> {}]]
MCBlank == {<<2, 1>>}
\* Models and callers may be exchanged.
MCSymmetry == Permutations(Indexes) \cup Permutations(Callers)
===============================================================================
