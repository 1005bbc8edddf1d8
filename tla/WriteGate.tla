------------------------------ MODULE WriteGate ------------------------------
(***************************************************************************)
(* The write gate of the MCP server: the store of validated approvals      *)
(* (AppContext.write_approvals), validate_write that fills it,             *)
(* execute_approved_write that spends it, and the Odoo server behind the   *)
(* RPC, whose answers may be late or lost.                                 *)
(*                                                                         *)
(* A payload is the canonical write (model, operation, ids, values,        *)
(* context, instance).  Its token is the SHA-256 of its canonical JSON, so *)
(* a token is written here as the payload it is the hash of.  Every call   *)
(* of validate_write is a member of Validations and every call of          *)
(* execute_approved_write a member of Calls, each used once; the sets stay *)
(* arbitrary.  validate_write runs on worker threads and interleaves with  *)
(* everything; execute_approved_write holds the event loop from its gates  *)
(* to the answer of its RPC.                                               *)
(***************************************************************************)
EXTENDS Naturals

CONSTANTS
  Payloads,     \* canonical writes a caller may ask for
  Uploads,      \* those with a field filled through <field>_from_path
  Calls,        \* calls of execute_approved_write
  Validations,  \* calls of validate_write
  Asks,         \* the approval dictionaries they are called with
  None,         \* "no such record"
  TTL,          \* WRITE_APPROVAL_TTL_SECONDS
  MaxTime,      \* bound on the clock
  MaxRestarts,  \* bound on the restarts of the process
  Elicits       \* ODOO_MCP_ELICIT_WRITES is set

\* What execute_approved_write is called with, and what the human then said.
Ask == [token: Payloads, payload: Payloads, confirm: BOOLEAN, form: BOOLEAN,
        accepted: BOOLEAN]

\* A validation, and the record register_write_approval keeps of it.
Grant == [payload: Payloads, at: Nat, lifetime: Nat, file: BOOLEAN,
          source: {"server", "caller"}]

\* The moment the gates let a call through, and the record they read.
Permit == [by: Validations, at: Nat, lifetime: Nat, enabled: BOOLEAN]

ASSUME GateAssumption ==
  /\ Uploads \subseteq Payloads
  /\ TTL \in Nat /\ MaxTime \in Nat /\ MaxRestarts \in Nat
  /\ Elicits \in BOOLEAN
  /\ None \notin Validations \union Ask \union Grant \union Permit
  /\ \A a \in Asks : a \in Ask /\ ~a.accepted

VARIABLES
  now,        \* time.time()
  lifetime,   \* how many times the process was restarted
  enabled,    \* ODOO_MCP_ENABLE_WRITES of this process
  approvals,  \* write_approvals: token -> the validation whose record it holds
  grant,      \* what each validation found and when
  ask,        \* the arguments of each execute call
  pc,         \* where each execute call is
  permit,     \* the record the gates of each call let it through with
  odoo        \* what Odoo did with the request of each call

vars == <<now, lifetime, enabled, approvals, grant, ask, pc, permit, odoo>>

Token(p) == p

Answered == {"success", "denied", "declined", "lost"}

TypeOK ==
  /\ now \in Nat /\ lifetime \in Nat /\ enabled \in BOOLEAN
  /\ approvals \in [Payloads -> Validations \union {None}]
  /\ grant \in [Validations -> Grant \union {None}]
  /\ ask \in [Calls -> Ask \union {None}]
  /\ pc \in [Calls -> {"idle", "review", "ready", "rpc"} \union Answered]
  /\ permit \in [Calls -> Permit \union {None}]
  /\ odoo \in [Calls -> {"none", "sent", "applied", "refused"}]

Init ==
  /\ now = 0 /\ lifetime = 0 /\ enabled \in BOOLEAN
  /\ approvals = [p \in Payloads |-> None]
  /\ grant = [v \in Validations |-> None]
  /\ ask = [c \in Calls |-> None]
  /\ pc = [c \in Calls |-> "idle"]
  /\ permit = [c \in Calls |-> None]
  /\ odoo = [c \in Calls |-> "none"]

-----------------------------------------------------------------------------
(* The approval store.                                                     *)

Expired(v) == now > grant[v].at + TTL

\* Mutant: the sweep leaves holes in the table.
Swept_Holes == [p \in {q \in Payloads : approvals[q] = None} |-> None]

\* _sweep_expired_write_approvals: every expired record leaves the store.
Swept == [p \in Payloads |->
           IF approvals[p] # None /\ Expired(approvals[p]) THEN None
           ELSE approvals[p]]

\* validate_write of a well-formed payload.  A field given as _from_path is
\* read into the record; the same payload with the fingerprint passed as a
\* plain value has the same token and no file.  Only validation against live
\* server metadata (not fields_metadata of the caller, or none) is stored, after
\* a sweep, and replaces a record of the same token.
Validate(v, p, source, file) ==
  /\ grant[v] = None
  /\ file => p \in Uploads /\ source = "server"
  /\ grant' = [grant EXCEPT ![v] = [payload |-> p, at |-> now, file |-> file,
                                    lifetime |-> lifetime, source |-> source]]
  /\ approvals' = IF source = "server" THEN [Swept EXCEPT ![Token(p)] = v]
                  ELSE approvals
  /\ UNCHANGED <<now, lifetime, enabled, ask, pc, permit, odoo>>

-----------------------------------------------------------------------------
(* execute_approved_write.                                                 *)

\* The tool is called with an approval dictionary, which the caller may have
\* edited: its token need not be the hash of its payload.  When elicitation
\* is on and the client has a form, a human sees the payload first.
Submit(c, a) ==
  /\ pc[c] = "idle"
  /\ ask' = [ask EXCEPT ![c] = a]
  /\ pc' = [pc EXCEPT ![c] = IF Elicits /\ a.form THEN "review" ELSE "ready"]
  /\ UNCHANGED <<now, lifetime, enabled, approvals, grant, permit, odoo>>

HumanAccepts(c) ==
  /\ pc[c] = "review"
  /\ ask' = [ask EXCEPT ![c].accepted = TRUE]
  /\ pc' = [pc EXCEPT ![c] = "ready"]
  /\ UNCHANGED <<now, lifetime, enabled, approvals, grant, permit, odoo>>

HumanDeclines(c) ==
  /\ pc[c] = "review"
  /\ pc' = [pc EXCEPT ![c] = "declined"]
  /\ UNCHANGED <<now, lifetime, enabled, approvals, grant, ask, permit, odoo>>

Verified(c) == ask[c].token = Token(ask[c].payload)

\* require_validated_write_approval found a record it must drop.
FindsExpired(c) ==
  /\ Verified(c)
  /\ approvals[ask[c].token] # None
  /\ Expired(approvals[ask[c].token])

\* Mutant: the expiry of the record is not looked at.
PassesGates_NoExpiry(c) ==
  /\ Verified(c)
  /\ approvals[ask[c].token] # None
  /\ grant[approvals[ask[c].token]].payload = ask[c].payload
  /\ ask[c].confirm /\ enabled

PassesGates(c) ==
  /\ Verified(c)
  /\ approvals[ask[c].token] # None
  /\ ~Expired(approvals[ask[c].token])
  /\ grant[approvals[ask[c].token]].payload = ask[c].payload
  /\ ask[c].confirm
  /\ enabled

\* The gated body runs in one piece on the event loop, up to its RPC.
LoopFree == \A c \in Calls : pc[c] # "rpc"

Send(c) ==
  /\ pc[c] = "ready" /\ LoopFree /\ PassesGates(c)
  /\ permit' = [permit EXCEPT ![c] =
                  [by |-> approvals[ask[c].token], at |-> now,
                   lifetime |-> lifetime, enabled |-> enabled]]
  /\ pc' = [pc EXCEPT ![c] = "rpc"]
  /\ odoo' = [odoo EXCEPT ![c] = "sent"]
  /\ UNCHANGED <<now, lifetime, enabled, approvals, grant, ask>>

Deny(c) ==
  /\ pc[c] = "ready" /\ LoopFree /\ ~PassesGates(c)
  /\ pc' = [pc EXCEPT ![c] = "denied"]
  /\ approvals' = IF FindsExpired(c)
                  THEN [approvals EXCEPT ![ask[c].token] = None]
                  ELSE approvals
  /\ UNCHANGED <<now, lifetime, enabled, grant, ask, permit, odoo>>

\* Mutant: success does not consume the token.
Succeed_KeepsToken(c) ==
  /\ pc[c] = "rpc" /\ odoo[c] = "applied"
  /\ pc' = [pc EXCEPT ![c] = "success"]
  /\ UNCHANGED <<now, lifetime, enabled, approvals, grant, ask, permit, odoo>>

\* execute_method returned: the token is popped, whatever record it holds now.
Succeed(c) ==
  /\ pc[c] = "rpc" /\ odoo[c] = "applied"
  /\ pc' = [pc EXCEPT ![c] = "success"]
  /\ approvals' = [approvals EXCEPT ![ask[c].token] = None]
  /\ UNCHANGED <<now, lifetime, enabled, grant, ask, permit, odoo>>

\* Mutant: no timeout, only a fault of Odoo ends the call.
Fail_OnFaultOnly(c) ==
  /\ pc[c] = "rpc" /\ odoo[c] = "refused"
  /\ pc' = [pc EXCEPT ![c] = "denied"]
  /\ UNCHANGED <<now, lifetime, enabled, approvals, grant, ask, permit, odoo>>

\* execute_method raised (an Odoo fault, a timeout, a broken connection): the
\* token stays, the call answers with the error and the audit log says denied.
Fail(c) ==
  /\ pc[c] = "rpc"
  /\ pc' = [pc EXCEPT ![c] = "denied"]
  /\ UNCHANGED <<now, lifetime, enabled, approvals, grant, ask, permit, odoo>>

-----------------------------------------------------------------------------
(* The environment.                                                        *)

\* A request that reached Odoo is processed at any later time, also after the
\* client gave up on it; one that never arrives stays "sent".
OdooApplies(c) ==
  /\ odoo[c] = "sent"
  /\ odoo' = [odoo EXCEPT ![c] = "applied"]
  /\ UNCHANGED <<now, lifetime, enabled, approvals, grant, ask, pc, permit>>

OdooRefuses(c) ==
  /\ odoo[c] = "sent"
  /\ odoo' = [odoo EXCEPT ![c] = "refused"]
  /\ UNCHANGED <<now, lifetime, enabled, approvals, grant, ask, pc, permit>>

Tick ==
  /\ now < MaxTime
  /\ now' = now + 1
  /\ UNCHANGED <<lifetime, enabled, approvals, grant, ask, pc, permit, odoo>>

\* The process ends and a new one starts: a fresh AppContext, the environment
\* read again, and every outstanding call gone.
Restart ==
  /\ lifetime < MaxRestarts
  /\ lifetime' = lifetime + 1
  /\ enabled' \in BOOLEAN
  /\ approvals' = [p \in Payloads |-> None]
  /\ pc' = [c \in Calls |-> IF pc[c] \in {"review", "ready", "rpc"} THEN "lost"
                            ELSE pc[c]]
  /\ UNCHANGED <<now, grant, ask, permit, odoo>>

Next ==
  \/ \E v \in Validations, p \in Payloads, file \in BOOLEAN,
       source \in {"server", "caller"} : Validate(v, p, source, file)
  \/ \E c \in Calls, a \in Asks : Submit(c, a)
  \/ \E c \in Calls :
       \/ HumanAccepts(c) \/ HumanDeclines(c)
       \/ Send(c) \/ Deny(c) \/ Succeed(c) \/ Fail(c)
       \/ OdooApplies(c) \/ OdooRefuses(c)
  \/ Tick
  \/ Restart

Spec == Init /\ [][Next]_vars

\* The event loop runs what is ready, and a socket timeout ends every RPC.
\* Callers, the human, Odoo and the clock owe nothing.
Fairness ==
  \A c \in Calls : /\ WF_vars(Send(c) \/ Deny(c))
                   /\ WF_vars(Succeed(c) \/ Fail(c))

FairSpec == Spec /\ Fairness

-----------------------------------------------------------------------------
(* Properties.                                                             *)

Sent(c) == permit[c] # None
GrantOf(c) == grant[permit[c].by]

\* Whatever reaches Odoo was validated: the payload sent is the one a
\* validate_write of this process lifetime checked against live metadata at
\* most TTL earlier, it was confirmed, writes were enabled, and the human
\* accepted it where a form was shown (_execute_approved_write_gated).
Authorised ==
  \A c \in Calls : Sent(c) =>
    /\ GrantOf(c).payload = ask[c].payload
    /\ GrantOf(c).source = "server"
    /\ GrantOf(c).lifetime = permit[c].lifetime
    /\ GrantOf(c).at <= permit[c].at /\ permit[c].at <= GrantOf(c).at + TTL
    /\ ask[c].confirm /\ permit[c].enabled
    /\ (Elicits /\ ask[c].form) => ask[c].accepted

\* A token is consumed by success: no two calls report success on the same
\* validation, in any interleaving of calls, re-validations and restarts.
OneSuccessPerValidation ==
  \A c, d \in Calls :
    (pc[c] = "success" /\ pc[d] = "success" /\ permit[c].by = permit[d].by)
      => c = d

\* A record in the store is that of a trusted validation of this lifetime and
\* of the payload its token stands for.
StoreInv ==
  \A p \in Payloads : approvals[p] # None =>
    LET g == grant[approvals[p]] IN
      /\ g # None /\ g.payload = p /\ g.source = "server"
      /\ g.lifetime = lifetime /\ g.at <= now

\* What is known of a call at each point of its way through the tool.
CallInv ==
  \A c \in Calls :
    /\ pc[c] # "idle" => ask[c] # None
    /\ pc[c] \in {"idle", "review", "ready"} => permit[c] = None
    /\ (pc[c] = "ready" /\ Elicits /\ ask[c].form) => ask[c].accepted
    /\ pc[c] \in {"rpc", "success"} => Sent(c) /\ Verified(c)
    /\ Sent(c) => grant[permit[c].by] # None

\* The event loop is in at most one RPC.
OneRpc == \A c, d \in Calls : pc[c] = "rpc" /\ pc[d] = "rpc" => c = d

\* The validation behind a success is gone from the store, and no other call
\* uses it or has used it up.
Consumed ==
  \A c \in Calls : pc[c] = "success" =>
    /\ \A p \in Payloads : approvals[p] # permit[c].by
    /\ \A d \in Calls : (pc[d] \in {"rpc", "success"}
                          /\ permit[d].by = permit[c].by) => d = c

\* The inductive invariant behind Authorised and OneSuccessPerValidation.
GateInv == /\ TypeOK /\ StoreInv /\ CallInv /\ OneRpc /\ Consumed /\ Authorised

\* Every call the event loop has taken on is answered or lost in a restart.
CallsAreAnswered ==
  \A c \in Calls : pc[c] \in {"ready", "rpc"} ~> pc[c] \in Answered

\* What the docstring of _resolve_binary_from_path_fields says: the content
\* read from the path is stored server-side and substituted back in at
\* execution.  So a call whose payload has a good validation that read the
\* file is sent with the bytes of the file.
UploadWritesFile ==
  [][\A c \in Calls :
       (/\ permit[c] = None /\ permit'[c] # None
        /\ \E v \in Validations :
             /\ grant[v] # None /\ grant[v].file /\ ~Expired(v)
             /\ grant[v].payload = ask[c].payload
             /\ grant[v].lifetime = lifetime)
         => grant[permit'[c].by].file]_vars
=============================================================================
