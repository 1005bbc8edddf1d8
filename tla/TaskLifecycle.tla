---------------------------- MODULE TaskLifecycle ----------------------------
(***************************************************************************)
(* What AsyncTaskManager promises the callers of its four tools: the       *)
(* stages a background task goes through, that a task cancelled before it  *)
(* started never starts, that only ended tasks are forgotten, and that at  *)
(* most MaxTasks tasks are alive.  TaskQueue implements it.                *)
(***************************************************************************)
EXTENDS Naturals, FiniteSets

CONSTANTS Tasks, MaxTasks

VARIABLE stage  \* where each task is, as its caller can tell

Ended == {"succeeded", "failed", "cancelled"}
Stages == {"new", "refused", "pending", "running", "forgotten"} \union Ended

Live == {t \in Tasks : stage[t] \in {"pending", "running"}}

Init == stage = [t \in Tasks |-> "new"]

Without(S) == [u \in Tasks |-> IF u \in S THEN "forgotten" ELSE stage[u]]

Forgettable == {u \in Tasks : stage[u] \in Ended}

Forget(S) == stage' = Without(S)

Admit(t, S) ==
  /\ stage[t] = "new" /\ Cardinality(Live) < MaxTasks
  /\ stage' = [Without(S) EXCEPT ![t] = "pending"]

Refuse(t, S) ==
  /\ stage[t] = "new" /\ Cardinality(Live) >= MaxTasks
  /\ stage' = [Without(S) EXCEPT ![t] = "refused"]

Start(t) ==
  /\ stage[t] = "pending"
  /\ stage' = [stage EXCEPT ![t] = "running"]

End(t) ==
  /\ stage[t] = "running"
  /\ \E s \in {"succeeded", "failed"} : stage' = [stage EXCEPT ![t] = s]

Cancel(t) ==
  /\ stage[t] \in {"pending", "running"}
  /\ stage' = [stage EXCEPT ![t] = "cancelled"]

Next ==
  \/ \E S \in SUBSET Forgettable :
       Forget(S) \/ \E t \in Tasks : Admit(t, S) \/ Refuse(t, S)
  \/ \E t \in Tasks : Start(t) \/ End(t) \/ Cancel(t)

Spec == Init /\ [][Next]_stage
=============================================================================
