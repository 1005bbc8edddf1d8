---------------------------- MODULE CrossInstance ----------------------------
(***************************************************************************)
(* One question to many configured Odoo instances (cross_instance.py and   *)
(* tools_cross_instance.py).  The instances are selected, each is asked by *)
(* a worker of the call's own thread pool under its own rate limit and     *)
(* field policy, and what they answer or fail with is merged.              *)
(***************************************************************************)
EXTENDS RateLimit, SequencesExt

CONSTANTS Instances,    \* configured instances
          OptedOut,     \* those with "cross_instance": false
          Tagged,       \* those carrying the tag that requests name
          Denied,       \* those whose field policy denies the aggregated fields
          Unknown,      \* a name that is not configured
          Requests,     \* [kind: "all", "tags" or "list", names: those of a list]
          MaxWorkers,   \* ODOO_MCP_CROSS_INSTANCE_WORKERS
          MaxQueries    \* bound on fan-out calls

ASSUME FleetAssumption ==
  /\ OptedOut \cup Tagged \cup Denied \subseteq Instances
  /\ Unknown \notin Instances /\ Keys = Instances
  /\ Threads \subseteq Int /\ \A by \in Threads : by <= 0  \* no position of a worker
  /\ MaxWorkers \in Nat \ {0} /\ MaxQueries \in Nat
  /\ IsFiniteSet(Instances)
  /\ \A r \in Requests :
       /\ r.kind \in {"all", "tags", "list"}
       /\ r.names \in Seq(Instances \cup {Unknown})
       /\ r.kind # "list" => r.names = <<>>

VARIABLES query,   \* the fan-out call in progress or last answered: the instances
                   \* with a result, with an error and, for the history, whose
                   \* request to Odoo failed
          queries  \* history: how many were made

vars == <<limitVars, query, queries>>

Operations == {"search", "aggregate", "aging"}
Phases == {"waiting", "charging", "asking", "done"}

NoRequest == [kind |-> "all", names |-> <<>>]
InPhase(p) == {i \in DOMAIN query.phase : query.phase[i] = p}
Running == InPhase("charging") \cup InPhase("asking")

\* The pool runs no more workers than it may, too.
QueryTypeOK ==
  /\ query \in [op : Operations \cup {"none"}, request : Requests \cup {NoRequest},
                names : [DOMAIN query.names -> Instances],
                phase : [DOMAIN query.names -> Phases],
                results : SUBSET Instances, errors : SUBSET Instances, lost : SUBSET Instances]
  /\ IsFiniteSet(DOMAIN query.names) /\ DOMAIN query.names \subseteq Nat
  /\ Cardinality(Running) <= MaxWorkers
  /\ queries \in 0..MaxQueries
FleetTypeOK == LimitTypeOK /\ KeysAreBounded /\ QueryTypeOK

-----------------------------------------------------------------------------
\* select_instances: every opted-in instance, those with a wanted tag, or the
\* names of a list, each of them selected, skipped or unknown.  What is selected
\* is a function of the position of a name.
OptedIn == Instances \ OptedOut
Named(request, S) ==
  [i \in {j \in DOMAIN request.names : request.names[j] \in S} |-> request.names[i]]
Selected(request) ==
  CASE request.kind = "all"  -> SetToSeq(OptedIn)
    [] request.kind = "tags" -> SetToSeq(OptedIn \cap Tagged)
    [] OTHER -> Named(request, OptedIn)

\* run_search_across and its kin up to _fan_out, which submits one worker per
\* selected name.
StartQuery(op, request) ==
  /\ \A i \in DOMAIN query.phase : query.phase[i] = "done"
  /\ queries < MaxQueries
  /\ query' = [op |-> op, request |-> request, names |-> Selected(request),
               phase |-> [i \in DOMAIN Selected(request) |-> "waiting"],
               results |-> {}, errors |-> {}, lost |-> {}]
  /\ queries' = queries + 1
  /\ UNCHANGED limitVars

Init ==
  /\ LimitInit
  /\ queries = 0
  /\ query = [op |-> "none", request |-> NoRequest,
              names |-> <<>>, phase |-> <<>>,
              results |-> {}, errors |-> {}, lost |-> {}]

\* Mutant: an error is filed for the last of the instances that failed only.
Failed_Last(i) == [query EXCEPT !.phase[i] = "done", !.errors = {query.names[i]}]

\* The future of worker i raised, and the loop of _fan_out files it.
Failed(i) == [query EXCEPT !.phase[i] = "done", !.errors = @ \cup {query.names[i]}]

\* What a worker does once it was not refused: its policy is looked at.
Denies(n) == query.op = "aggregate" /\ n \in Denied
Goes(i) == IF Denies(query.names[i]) THEN Failed(i) ELSE [query EXCEPT !.phase[i] = "asking"]

\* A worker of the pool takes the next name and connects, which may fail; then
\* check_rate, if it is not off, reads the clock.
StartWorker(connected) ==
  /\ InPhase("waiting") # {} /\ Cardinality(Running) < MaxWorkers
  /\ LET i == Min(InPhase("waiting"))
     IN IF ~connected THEN query' = Failed(i) /\ UNCHANGED limitVars
        ELSE IF mode = "off" THEN query' = Goes(i) /\ UNCHANGED limitVars
        ELSE /\ ReadClock(i, query.names[i])
             /\ query' = [query EXCEPT !.phase[i] = "charging"]
  /\ queries' = queries

\* It is counted against the instance's budget before its policy is looked at.
ChargeWorker(i) ==
  /\ query.phase[i] = "charging"
  /\ \E p \in pending, refused \in BOOLEAN :
       /\ p.by = i /\ p.key = query.names[i] /\ Charge(p, refused)
       /\ query' = IF refused THEN Failed(i) ELSE Goes(i)
  /\ queries' = queries

\* A request to Odoo that fails raises in an aggregate only: search_read, which
\* the two other operations call, prints the error and returns no rows.
Answered(i) == [query EXCEPT !.phase[i] = "done", !.results = @ \cup {query.names[i]}]
Lost(i) == [(IF query.op = "aggregate" THEN Failed(i) ELSE Answered(i)) EXCEPT
              !.lost = @ \cup {query.names[i]}]

\* Mutant: a request that fails is never given up.
FinishWorker_NoTimeout(i) ==
  /\ query.phase[i] = "asking"
  /\ query.names[i] \notin Denied
  /\ query' = Answered(i)
  /\ UNCHANGED <<limitVars, queries>>

\* Odoo answers worker i, or its request fails.
FinishWorker(i) ==
  /\ query.phase[i] = "asking"
  /\ query' \in {Answered(i), Lost(i)}
  /\ UNCHANGED <<limitVars, queries>>

\* The rest of the server: calls of other tools, the clock, health_check.
Other == LimitNext /\ UNCHANGED <<query, queries>>

Next ==
  \/ \E op \in Operations, r \in Requests : StartQuery(op, r)
  \/ \E connected \in BOOLEAN : StartWorker(connected)
  \/ \E i \in DOMAIN query.phase : ChargeWorker(i) \/ FinishWorker(i)
  \/ Other

Spec == Init /\ [][Next]_vars

\* The threads of the pool run, and every request has a timeout.
FairSpec ==
  /\ Spec
  /\ WF_vars(\E connected \in BOOLEAN : StartWorker(connected))
  /\ \A i \in 1..Cardinality(Instances) + 1 :
       WF_vars(i \in DOMAIN query.phase /\ (ChargeWorker(i) \/ FinishWorker(i)))

-----------------------------------------------------------------------------
(* The envelope.                                                           *)

Complete == InPhase("done") = DOMAIN query.names

\* envelope: instances_queried lists the results and then the errors.
InstanceCount == Cardinality(query.results) + Cardinality(query.errors)
Skipped(request) == Named(request, OptedOut)
UnknownNames(request) == Named(request, {Unknown})
Asked(request) ==
  CASE request.kind = "all"  -> OptedIn
    [] request.kind = "tags" -> OptedIn \cap Tagged
    [] OTHER                 -> ToSet(request.names)

\* When every name is asked for once, each ends up in exactly one place of the
\* envelope, whichever workers failed, were refused or came back first.
EachInstanceIsAccountedFor ==
  LET r == query.request IN
    query.op # "none" /\ Complete /\ IsInjective(r.names) =>
      /\ query.results \cap query.errors = {}
      /\ Asked(r) = query.results \cup query.errors \cup ToSet(Skipped(r)) \cup ToSet(UnknownNames(r))
      /\ InstanceCount = Cardinality(DOMAIN query.names)

\* No instance that opted out is asked by any query, and none whose policy
\* denies the aggregated fields by an aggregate.
OnlyWillingInstancesAreAsked ==
  \A n \in query.results \cup {query.names[i] : i \in InPhase("asking")} :
    n \notin OptedOut /\ (query.op = "aggregate" => n \notin Denied)

AggregatesNameLosses == query.op = "aggregate" => query.lost \subseteq query.errors

\* The envelope tells what happened to every instance of the question, names
\* each one that an aggregate could not get an answer of, and the question went
\* to none that must not see it (select_instances, _fan_out).
EnvelopeIsRight ==
  /\ EachInstanceIsAccountedFor /\ OnlyWillingInstancesAreAsked
  /\ AggregatesNameLosses

\* "One instance being down yields a partial result and an errors map"
\* (tools_cross_instance.py): violated, since search_read returns no rows for a
\* request that failed.
FailuresAreReported == query.lost \subseteq query.errors

\* An instance that hangs until its timeout, fails or is refused does not keep
\* the call from being answered.
QueriesAreAnswered == [](query.op # "none" => <>Complete)

-----------------------------------------------------------------------------
(* What makes the envelope an invariant.                                   *)

\* The workers are those of the instances selected, the ones that are done have
\* filed what they came to, and in one place only when no name was given twice.
WorkersFile ==
  /\ IF query.op = "none" THEN query.names = <<>>
     ELSE query.request \in Requests /\ query.names = Selected(query.request)
  /\ query.results \cup query.errors = {query.names[i] : i \in InPhase("done")}
  /\ IsInjective(query.names) => query.results \cap query.errors = {}

QueryInv == QueryTypeOK /\ WorkersFile /\ OnlyWillingInstancesAreAsked /\ AggregatesNameLosses
FleetInv == LimitInv /\ QueryInv
=============================================================================
