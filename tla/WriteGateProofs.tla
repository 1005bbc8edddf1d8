--------------------------- MODULE WriteGateProofs ---------------------------
(***************************************************************************)
(* Proofs about WriteGate for every set of payloads, calls and validations,*)
(* every TTL and any number of restarts.  Typing alone is not inductive    *)
(* (that a call under review has arguments is part of CallInv), so every   *)
(* result is read off the one inductive invariant GateInv.                 *)
(***************************************************************************)
EXTENDS WriteGate, TLAPS

\* The store, the calls and the clock of a fresh server satisfy GateInv.
LEMMA GateInit == Init => GateInv
  BY GateAssumption DEF Init, GateInv, TypeOK, StoreInv, CallInv, OneRpc,
     Consumed, Authorised, Sent, Verified, Answered

\* Storing a validation, with the sweep that goes before it.
LEMMA ValidateStep ==
  ASSUME GateInv, NEW v \in Validations, NEW p \in Payloads,
         NEW file \in BOOLEAN, NEW source \in {"server", "caller"},
         Validate(v, p, source, file)
  PROVE  GateInv'
<1> DEFINE g == [payload |-> p, at |-> now, file |-> file,
                 lifetime |-> lifetime, source |-> source]
<1> USE GateAssumption DEF GateInv
<1>1. g \in Grant /\ g # None
  BY DEF Grant, TypeOK
<1>2. /\ grant[v] = None /\ grant' = [grant EXCEPT ![v] = g]
      /\ UNCHANGED <<now, lifetime, enabled, ask, pc, permit, odoo>>
  BY DEF Validate
<1>3. /\ approvals' \in [Payloads -> Validations \union {None}]
      /\ \A q \in Payloads : approvals'[q] # None =>
           \/ approvals'[q] = v /\ q = p /\ source = "server"
           \/ approvals'[q] = approvals[q]
  BY DEF Validate, Swept, Token, TypeOK
<1>4. \A u \in Validations : grant[u] # None => grant'[u] = grant[u] /\ u # v
  BY <1>2 DEF TypeOK
<1>5. TypeOK'
  BY <1>1, <1>2, <1>3 DEF TypeOK
<1>6. StoreInv'
  <2> SUFFICES ASSUME NEW q \in Payloads, approvals'[q] # None
               PROVE  LET h == grant'[approvals'[q]] IN
                        /\ h # None /\ h.payload = q /\ h.source = "server"
                        /\ h.lifetime = lifetime' /\ h.at <= now'
    BY DEF StoreInv
  <2>1. CASE approvals'[q] = v /\ q = p /\ source = "server"
    BY <2>1, <1>1, <1>2 DEF TypeOK
  <2>2. CASE approvals'[q] = approvals[q]
    <3>1. approvals[q] \in Validations /\ grant[approvals[q]] # None
      BY <2>2 DEF StoreInv, TypeOK
    <3>2. grant'[approvals'[q]] = grant[approvals[q]]
      BY <2>2, <3>1, <1>4
    <3> QED
      BY <2>2, <3>1, <3>2, <1>2 DEF StoreInv
  <2> QED
    BY <2>1, <2>2, <1>3
<1>7. \A c \in Calls : Sent(c) =>
        /\ permit[c].by \in Validations
        /\ grant[permit[c].by] # None /\ permit[c].by # v
        /\ grant'[permit[c].by] = grant[permit[c].by]
  BY <1>4, <1>2 DEF CallInv, TypeOK, Permit, Sent
<1>8. CallInv'
  BY <1>2, <1>7 DEF CallInv, Sent, Verified
<1>9. OneRpc'
  BY <1>2 DEF OneRpc
<1>10. Consumed'
  <2> SUFFICES ASSUME NEW c \in Calls, pc[c] = "success"
               PROVE  /\ \A q \in Payloads : approvals'[q] # permit[c].by
                      /\ \A d \in Calls : (pc[d] \in {"rpc", "success"}
                             /\ permit[d].by = permit[c].by) => d = c
    BY <1>2 DEF Consumed
  <2>1. Sent(c)
    BY DEF CallInv
  <2>2. permit[c].by # v /\ permit[c].by # None
    BY <2>1, <1>7
  <2> QED
    BY <2>2, <1>3 DEF Consumed
<1>11. Authorised'
  BY <1>2, <1>7 DEF Authorised, Sent, GrantOf
<1> QED
  BY <1>5, <1>6, <1>8, <1>9, <1>10, <1>11

\* Arguments arrive, and the human answers: nothing is sent yet.
LEMMA SubmitStep ==
  ASSUME GateInv, NEW c \in Calls,
         (\E a \in Asks : Submit(c, a)) \/ HumanAccepts(c) \/ HumanDeclines(c)
  PROVE  GateInv'
<1> USE GateAssumption DEF GateInv
<1>1. /\ pc' \in [Calls -> {"idle", "review", "ready", "rpc"} \union Answered]
      /\ pc'[c] \notin {"rpc", "success"} /\ pc[c] \notin {"rpc", "success"}
      /\ \A d \in Calls : d # c => pc'[d] = pc[d] /\ ask'[d] = ask[d]
      /\ ~Sent(c)
      /\ UNCHANGED <<now, lifetime, enabled, approvals, grant, permit, odoo>>
  BY DEF Submit, HumanAccepts, HumanDeclines, TypeOK, CallInv, Answered, Sent
<1>2. ask' \in [Calls -> Ask \union {None}] /\ ask'[c] \in Ask
  <2>1. CASE \E a \in Asks : Submit(c, a)
    BY <2>1 DEF Submit, TypeOK
  <2>2. CASE HumanAccepts(c) \/ HumanDeclines(c)
    <3>1. ask[c] \in Ask
      BY <2>2 DEF HumanAccepts, HumanDeclines, TypeOK, CallInv
    <3>2. [ask[c] EXCEPT !.accepted = TRUE] \in Ask
      BY <3>1 DEF Ask
    <3> QED
      BY <2>2, <3>1, <3>2 DEF HumanAccepts, HumanDeclines, TypeOK
  <2> QED
    BY <2>1, <2>2
<1>3. pc'[c] = "ready" /\ Elicits /\ ask'[c].form => ask'[c].accepted
  BY DEF Submit, HumanAccepts, HumanDeclines, TypeOK, CallInv, Ask
<1>4. TypeOK'
  BY <1>1, <1>2 DEF TypeOK
<1>5. StoreInv'
  BY <1>1 DEF StoreInv
<1>6. CallInv'
  BY <1>1, <1>2, <1>3 DEF CallInv, Sent, Verified
<1>7. OneRpc' /\ Consumed'
  BY <1>1 DEF OneRpc, Consumed
<1>8. Authorised'
  BY <1>1 DEF Authorised, Sent, GrantOf
<1> QED
  BY <1>4, <1>5, <1>6, <1>7, <1>8

\* The gates let a call through: everything Authorised asks for is a gate.
LEMMA SendStep ==
  ASSUME GateInv, NEW c \in Calls, Send(c)
  PROVE  GateInv'
<1> DEFINE v == approvals[ask[c].token]
           t == [by |-> v, at |-> now, lifetime |-> lifetime,
                 enabled |-> enabled]
<1> USE GateAssumption DEF GateInv
<1>1. ask[c] \in Ask
  BY DEF Send, CallInv, TypeOK
<1>2. /\ v \in Validations /\ v # None /\ grant[v] \in Grant
      /\ grant[v] # None /\ grant[v].payload = ask[c].payload
      /\ grant[v].source = "server" /\ grant[v].lifetime = lifetime
      /\ grant[v].at <= now
  BY <1>1 DEF Send, PassesGates, TypeOK, StoreInv, Ask
<1>3. t \in Permit /\ t # None /\ t.by = v
  BY <1>2 DEF TypeOK, Permit
<1>4. /\ pc[c] = "ready" /\ pc' = [pc EXCEPT ![c] = "rpc"]
      /\ permit' = [permit EXCEPT ![c] = t]
      /\ odoo' = [odoo EXCEPT ![c] = "sent"]
      /\ UNCHANGED <<now, lifetime, enabled, approvals, grant, ask>>
  BY DEF Send
<1>5. TypeOK'
  BY <1>3, <1>4 DEF TypeOK
<1>6. StoreInv'
  BY <1>4 DEF StoreInv
<1>7. CallInv'
  BY <1>2, <1>3, <1>4 DEF CallInv, Sent, Verified, TypeOK, Send, PassesGates
<1>8. OneRpc'
  BY <1>4 DEF OneRpc, Send, LoopFree, TypeOK
<1>9. Consumed'
  <2> SUFFICES ASSUME NEW d \in Calls, pc'[d] = "success"
               PROVE  /\ \A p \in Payloads : approvals'[p] # permit'[d].by
                      /\ \A e \in Calls : (pc'[e] \in {"rpc", "success"}
                             /\ permit'[e].by = permit'[d].by) => e = d
    BY DEF Consumed
  <2>1. d # c /\ pc[d] = "success" /\ permit'[d] = permit[d]
    BY <1>4 DEF TypeOK
  <2>2. permit[d].by # v
    BY <1>1, <2>1 DEF Consumed, Ask
  <2>3. ASSUME NEW e \in Calls, pc'[e] \in {"rpc", "success"},
               permit'[e].by = permit'[d].by
        PROVE  e = d
    <3>1. e # c
      BY <1>3, <1>4, <2>1, <2>2, <2>3 DEF TypeOK
    <3> QED
      BY <1>4, <2>1, <2>3, <3>1 DEF Consumed, TypeOK
  <2> QED
    BY <1>4, <2>1, <2>3 DEF Consumed
<1>10. Authorised'
  <2> SUFFICES ASSUME NEW d \in Calls, Sent(d)'
               PROVE  /\ GrantOf(d)'.payload = ask'[d].payload
                      /\ GrantOf(d)'.source = "server"
                      /\ GrantOf(d)'.lifetime = permit'[d].lifetime
                      /\ GrantOf(d)'.at <= permit'[d].at
                      /\ permit'[d].at <= GrantOf(d)'.at + TTL
                      /\ ask'[d].confirm /\ permit'[d].enabled
                      /\ (Elicits /\ ask'[d].form) => ask'[d].accepted
    BY DEF Authorised
  <2>1. CASE d # c
    BY <1>4, <2>1 DEF Authorised, Sent, GrantOf, TypeOK
  <2>2. CASE d = c
    <3>1. permit'[c] = t /\ GrantOf(c)' = grant[v] /\ ask'[c] = ask[c]
      BY <1>3, <1>4 DEF GrantOf, TypeOK
    <3>2. now <= grant[v].at + TTL
      BY <1>2 DEF Send, PassesGates, Expired, Grant, TypeOK
    <3>3. ask[c].confirm /\ enabled
      BY DEF Send, PassesGates
    <3>4. Elicits /\ ask[c].form => ask[c].accepted
      BY <1>4 DEF CallInv
    <3> QED
      BY <2>2, <3>1, <3>2, <3>3, <3>4, <1>2
  <2> QED
    BY <2>1, <2>2
<1> QED
  BY <1>5, <1>6, <1>7, <1>8, <1>9, <1>10

\* A call ends: refused at the gates, answered by Odoo, or given up.
LEMMA AnswerStep ==
  ASSUME GateInv, NEW c \in Calls, Deny(c) \/ Succeed(c) \/ Fail(c)
  PROVE  GateInv'
<1> USE GateAssumption DEF GateInv
<1>1. /\ pc[c] \in {"ready", "rpc"}
      /\ pc' \in [Calls -> {"idle", "review", "ready", "rpc"} \union Answered]
      /\ pc'[c] \in {"success", "denied"}
      /\ pc'[c] = "success" => pc[c] = "rpc"
      /\ \A d \in Calls : d # c => pc'[d] = pc[d]
      /\ UNCHANGED <<now, lifetime, enabled, grant, ask, permit, odoo>>
  BY DEF Deny, Succeed, Fail, TypeOK, Answered
<1>2. /\ approvals' \in [Payloads -> Validations \union {None}]
      /\ \A p \in Payloads : approvals'[p] # None => approvals'[p] = approvals[p]
      /\ pc'[c] = "success" => approvals'[ask[c].token] = None
  <2>1. ask[c] \in Ask /\ ask[c].token \in Payloads
    BY <1>1 DEF CallInv, TypeOK, Ask
  <2>2. approvals' = approvals
          \/ approvals' = [approvals EXCEPT ![ask[c].token] = None]
    BY DEF Deny, Succeed, Fail
  <2>3. pc'[c] = "success"
          => approvals' = [approvals EXCEPT ![ask[c].token] = None]
    BY <1>1 DEF Deny, Succeed, Fail, TypeOK
  <2> QED
    BY <2>1, <2>2, <2>3 DEF TypeOK
<1>3. TypeOK'
  BY <1>1, <1>2 DEF TypeOK
<1>4. StoreInv'
  BY <1>1, <1>2 DEF StoreInv
<1>5. CallInv'
  BY <1>1 DEF CallInv, Sent, Verified
<1>6. OneRpc'
  BY <1>1 DEF OneRpc
<1>7. Authorised'
  BY <1>1 DEF Authorised, Sent, GrantOf
<1>8. Consumed'
  <2> SUFFICES ASSUME NEW d \in Calls, pc'[d] = "success"
               PROVE  /\ \A p \in Payloads : approvals'[p] # permit[d].by
                      /\ \A e \in Calls : (pc'[e] \in {"rpc", "success"}
                             /\ permit[e].by = permit[d].by) => e = d
    BY <1>1 DEF Consumed
  <2>1. permit[d].by # None
    BY <1>1 DEF CallInv, Sent, TypeOK, Permit
  <2>2. CASE d # c
    BY <2>1, <2>2, <1>1, <1>2 DEF Consumed
  <2>3. CASE d = c
    <3>1. pc[c] = "rpc" /\ Sent(c) /\ ask[c] # None /\ ask[c] \in Ask
      BY <2>3, <1>1 DEF CallInv, TypeOK
    <3>2. approvals'[ask[c].token] = None /\ Succeed(c)
      BY <2>3, <1>2, <3>1 DEF Deny, Fail, TypeOK
    <3>3. grant[permit[c].by].payload = ask[c].payload
      BY <3>1 DEF Authorised, GrantOf
    <3>4. ask[c].token = ask[c].payload
      BY <3>1 DEF CallInv, Verified, Token
    <3>5. \A p \in Payloads : approvals'[p] # permit[c].by
      BY <2>1, <2>3, <1>2, <3>2, <3>3, <3>4 DEF StoreInv
    <3>6. \A e \in Calls : pc'[e] \in {"rpc", "success"}
                           /\ permit[e].by = permit[c].by => e = c
      BY <1>1, <3>1 DEF OneRpc, Consumed
    <3> QED
      BY <2>3, <3>5, <3>6
  <2> QED
    BY <2>2, <2>3
<1> QED
  BY <1>3, <1>4, <1>5, <1>6, <1>7, <1>8

\* Odoo, the clock and restarts.
LEMMA EnvironmentStep ==
  ASSUME GateInv,
         Tick \/ Restart \/ \E c \in Calls : OdooApplies(c) \/ OdooRefuses(c)
  PROVE  GateInv'
<1> USE GateAssumption DEF GateInv
<1>1. CASE Tick
  <2>1. /\ now' = now + 1
        /\ UNCHANGED <<lifetime, enabled, approvals, grant, ask, pc, permit,
                       odoo>>
    BY <1>1 DEF Tick
  <2>2. TypeOK' /\ CallInv' /\ OneRpc' /\ Consumed'
    BY <2>1 DEF TypeOK, CallInv, OneRpc, Consumed, Sent, Verified
  <2>3. \A p \in Payloads : approvals[p] # None =>
          grant[approvals[p]].at \in Nat
    BY DEF TypeOK, StoreInv, Grant
  <2>4. StoreInv'
    BY <2>1, <2>3 DEF StoreInv, TypeOK
  <2>5. Authorised'
    BY <2>1 DEF Authorised, Sent, GrantOf
  <2> QED
    BY <2>2, <2>4, <2>5
<1>2. CASE \E c \in Calls : OdooApplies(c) \/ OdooRefuses(c)
  BY <1>2 DEF OdooApplies, OdooRefuses, TypeOK, StoreInv, CallInv, OneRpc,
     Consumed, Authorised, Sent, Verified, GrantOf
<1>3. CASE Restart
  <2>1. /\ pc' \in [Calls -> {"idle", "review", "ready", "rpc"} \union Answered]
        /\ \A c \in Calls : /\ pc'[c] \notin {"review", "ready", "rpc"}
                            /\ pc'[c] \in {"idle", "success"} => pc'[c] = pc[c]
                            /\ pc'[c] # "idle" => pc[c] # "idle"
        /\ \A p \in Payloads : approvals'[p] = None
        /\ UNCHANGED <<now, grant, ask, permit, odoo>>
    BY <1>3 DEF Restart, TypeOK, Answered
  <2>2. TypeOK'
    BY <1>3, <2>1 DEF Restart, TypeOK
  <2>3. StoreInv' /\ CallInv' /\ OneRpc'
    BY <2>1 DEF StoreInv, CallInv, OneRpc, Sent, Verified
  <2>4. Consumed'
    BY <2>1 DEF Consumed, CallInv, Sent, TypeOK, Permit
  <2>5. Authorised'
    BY <2>1 DEF Authorised, Sent, GrantOf
  <2> QED
    BY <2>2, <2>3, <2>4, <2>5
<1> QED
  BY <1>1, <1>2, <1>3

\* The inductive invariant holds in every reachable state.
THEOREM GateInvariant == Spec => []GateInv
<1>1. GateInv /\ UNCHANGED vars => GateInv'
  BY DEF vars, GateInv, TypeOK, StoreInv, CallInv, OneRpc, Consumed,
     Authorised, Sent, Verified, GrantOf
<1>2. GateInv /\ Next => GateInv'
  <2> SUFFICES ASSUME GateInv, Next PROVE GateInv'
    OBVIOUS
  <2>1. CASE \E v \in Validations, p \in Payloads, file \in BOOLEAN,
               source \in {"server", "caller"} : Validate(v, p, source, file)
    BY <2>1, ValidateStep
  <2>2. CASE \E c \in Calls, a \in Asks : Submit(c, a)
    BY <2>2, SubmitStep
  <2>3. CASE Tick \/ Restart
    BY <2>3, EnvironmentStep
  <2>4. ASSUME NEW c \in Calls,
               \/ HumanAccepts(c) \/ HumanDeclines(c)
               \/ Send(c) \/ Deny(c) \/ Succeed(c) \/ Fail(c)
               \/ OdooApplies(c) \/ OdooRefuses(c)
        PROVE  GateInv'
    BY <2>4, SubmitStep, SendStep, AnswerStep, EnvironmentStep
  <2> QED
    BY <2>1, <2>2, <2>3, <2>4 DEF Next
<1> QED
  BY GateInit, <1>1, <1>2, PTL DEF Spec

\* The variables keep their types.
THEOREM TypeCorrect == Spec => []TypeOK
  BY GateInvariant, PTL DEF GateInv

\* Nothing reaches Odoo that was not validated, unexpired, in this lifetime,
\* confirmed and, where asked, accepted by a human.
THEOREM WritesAreAuthorised == Spec => []Authorised
  BY GateInvariant, PTL DEF GateInv

\* No validation carries two successful executions.
THEOREM ApprovalsAreSingleUse == Spec => []OneSuccessPerValidation
<1>1. GateInv => OneSuccessPerValidation
  BY DEF GateInv, Consumed, OneSuccessPerValidation
<1> QED
  BY <1>1, GateInvariant, PTL
=============================================================================
