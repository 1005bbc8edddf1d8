----------------------------- MODULE TokenCache -----------------------------
(***************************************************************************)
(* IntrospectionTokenVerifier.verify_token over its BoundedTTLCache: the   *)
(* calls that check a bearer token share one cache of verdicts, and each   *)
(* gives up the event loop while it waits for the authorization server.    *)
(* Between two awaits a call runs alone, so a lookup is one step, and so   *)
(* are judging an answer and storing the verdict.                          *)
(*                                                                         *)
(* The authorization server may revoke a token at any time.  A verdict     *)
(* carries, as history, when its introspection was sent and when it was    *)
(* stored.                                                                 *)
(***************************************************************************)
EXTENDS Naturals, Sequences

CONSTANTS
  Calls,       \* calls of verify_token
  Tokens,      \* bearer tokens, by their _cache_key
  Ours,        \* those whose iss and aud name this server, if given
  None,        \* no entry, no time, no verdict
  MaxEntries,  \* max_entries of the cache
  TTL,         \* cache_ttl_seconds; 0 disables the cache
  MaxTime      \* bound on the clock

ASSUME TokenAssumption ==
  /\ Ours \subseteq Tokens
  /\ MaxEntries \in Nat \ {0} /\ TTL \in Nat /\ MaxTime \in Nat
  /\ None \notin Nat

VARIABLES
  now,      \* time.time()
  revoked,  \* when the authorization server revoked each token
  entry,    \* _entries: verdict and expires_at per key
  order,    \* _entries: its keys from the oldest to the newest
  pc,       \* where each call is
  token,    \* the token each call checks
  sent,     \* when the call sent its introspection
  reply,    \* what the authorization server answered
  answer    \* the verdict a call returned, when, and whether from the cache

vars == <<now, revoked, entry, order, pc, token, sent, reply, answer>>

Time == Nat \union {None}
Verdicts == [accepted : BOOLEAN, fault : BOOLEAN, sent : Nat, stored : Nat]
Entries == [verdict : Verdicts, until : Nat]
Answers == [verdict : Verdicts, at : Nat, cached : BOOLEAN]

TypeOK ==
  /\ now \in Nat
  /\ revoked \in [Tokens -> Time]
  /\ entry \in [Tokens -> Entries \union {None}]
  /\ order \in Seq(Tokens) /\ Len(order) <= MaxEntries
  /\ \A t \in Tokens : entry[t] # None => \E i \in 1..Len(order) : order[i] = t
  /\ pc \in [Calls -> {"idle", "asking", "replied", "answered"}]
  /\ token \in [Calls -> Tokens \union {None}]
  /\ sent \in [Calls -> Time]
  /\ reply \in [Calls -> {"none", "active", "inactive"}]
  /\ answer \in [Calls -> Answers \union {None}]

Init ==
  /\ now = 0
  /\ revoked = [t \in Tokens |-> None]
  /\ entry = [t \in Tokens |-> None] /\ order = <<>>
  /\ pc = [c \in Calls |-> "idle"]
  /\ token = [c \in Calls |-> None] /\ sent = [c \in Calls |-> None]
  /\ reply = [c \in Calls |-> "none"] /\ answer = [c \in Calls |-> None]

-----------------------------------------------------------------------------
(* BoundedTTLCache.                                                        *)

Fresh(t) == entry[t] # None /\ now < entry[t].until

\* The keys left when one is popped from the dict.
Without(t) ==
  IF \E i \in 1..Len(order) : order[i] = t
  THEN LET i == CHOOSE i \in 1..Len(order) : order[i] = t
       IN  SubSeq(order, 1, i - 1) \o SubSeq(order, i + 1, Len(order))
  ELSE order

\* __getitem__ of a fresh entry: it becomes the newest.
Touch(t) ==
  /\ order' = Append(Without(t), t)
  /\ UNCHANGED entry

\* __getitem__ without a fresh entry: an expired one is deleted.
Purge(t) ==
  /\ order' = Without(t)
  /\ entry' = [entry EXCEPT ![t] = None]

\* Mutant: the cache may outgrow its limit by one.
Put_OffByOne(t, verdict) ==
  LET keys == Append(Without(t), t)
      surplus == IF Len(keys) > MaxEntries + 1 THEN 1 ELSE 0
  IN  /\ order' = SubSeq(keys, surplus + 1, Len(keys))
      /\ entry' = [k \in Tokens |->
                     IF k = t
                     THEN [verdict |-> verdict, until |-> now + TTL]
                     ELSE IF \E i \in 1..surplus : keys[i] = k THEN None
                     ELSE entry[k]]

\* __setitem__: the key becomes the newest, and the oldest go until the rest
\* fits.
Put(t, verdict) ==
  LET keys == Append(Without(t), t)
      surplus == IF Len(keys) > MaxEntries THEN Len(keys) - MaxEntries ELSE 0
      evicted == {keys[i] : i \in 1..surplus}
  IN  /\ order' = SubSeq(keys, surplus + 1, Len(keys))
      /\ entry' = [k \in Tokens |->
                     IF k \in evicted THEN None
                     ELSE IF k = t
                          THEN [verdict |-> verdict, until |-> now + TTL]
                          ELSE entry[k]]

-----------------------------------------------------------------------------
(* verify_token.                                                           *)

Return(c, verdict, cached) ==
  /\ pc' = [pc EXCEPT ![c] = "answered"]
  /\ answer' = [answer EXCEPT ![c] = [verdict |-> verdict, at |-> now,
                                      cached |-> cached]]

Hit(c, t) ==
  /\ pc[c] \in {"idle", "answered"} /\ Fresh(t)
  /\ Touch(t)
  /\ token' = [token EXCEPT ![c] = t]
  /\ Return(c, entry[t].verdict, TRUE)
  /\ UNCHANGED <<now, revoked, sent, reply>>

\* Nothing cached: the introspection is sent, and the call awaits the answer.
Ask(c, t) ==
  /\ pc[c] \in {"idle", "answered"} /\ ~Fresh(t)
  /\ Purge(t)
  /\ token' = [token EXCEPT ![c] = t]
  /\ sent' = [sent EXCEPT ![c] = now]
  /\ pc' = [pc EXCEPT ![c] = "asking"]
  /\ answer' = [answer EXCEPT ![c] = None]
  /\ UNCHANGED <<now, revoked, reply>>

\* The verdict is stored, a rejection too, and returned.
Conclude(c, accepted, fault) ==
  LET verdict == [accepted |-> accepted, fault |-> fault, sent |-> sent[c],
                  stored |-> now]
  IN  /\ IF TTL > 0 THEN Put(token[c], verdict) ELSE UNCHANGED <<entry, order>>
      /\ Return(c, verdict, FALSE)
      /\ sent' = [sent EXCEPT ![c] = None]
      /\ reply' = [reply EXCEPT ![c] = "none"]
      /\ UNCHANGED <<now, revoked, token>>

\* Mutant: the claims are not looked at.
Accepts_AnyAudience(c) == reply[c] = "active"

\* The answer arrives: accepted if active, and issued by and for the right
\* parties.  (An exp in the past goes with an inactive token.)
Accepts(c) == reply[c] = "active" /\ token[c] \in Ours

Judge(c) ==
  /\ pc[c] = "replied"
  /\ Conclude(c, Accepts(c), FALSE)

\* Mutant: no timeout; only an answer ends the wait.
Fail_NoTimeout(c) ==
  /\ pc[c] = "replied"
  /\ Conclude(c, FALSE, TRUE)

\* Transport error, timeout, status other than 200, no JSON object.
Fail(c) ==
  /\ pc[c] \in {"asking", "replied"}
  /\ Conclude(c, FALSE, TRUE)

-----------------------------------------------------------------------------
(* The authorization server, and time.                                     *)

Introspect(c) ==
  /\ pc[c] = "asking"
  /\ reply' = [reply EXCEPT ![c] = IF revoked[token[c]] = None
                                   THEN "active" ELSE "inactive"]
  /\ pc' = [pc EXCEPT ![c] = "replied"]
  /\ UNCHANGED <<now, revoked, entry, order, token, sent, answer>>

Revoke(t) ==
  /\ revoked[t] = None
  /\ revoked' = [revoked EXCEPT ![t] = now]
  /\ UNCHANGED <<now, entry, order, pc, token, sent, reply, answer>>

Tick ==
  /\ now < MaxTime
  /\ now' = now + 1
  /\ UNCHANGED <<revoked, entry, order, pc, token, sent, reply, answer>>

Next ==
  \/ \E c \in Calls, t \in Tokens : Hit(c, t) \/ Ask(c, t)
  \/ \E c \in Calls : Judge(c) \/ Fail(c) \/ Introspect(c)
  \/ \E t \in Tokens : Revoke(t)
  \/ Tick

Spec == Init /\ [][Next]_vars

\* A wait ends with an answer or with the HTTP client's timeout, and the event
\* loop then runs the call.
FairSpec == Spec /\ \A c \in Calls : WF_vars(Judge(c) \/ Fail(c))

-----------------------------------------------------------------------------
(* Properties.                                                             *)

Answered(c) == pc[c] = "answered"
Accepted(c) == Answered(c) /\ answer[c].verdict.accepted

\* A token is accepted only if it is meant for this server and was still active
\* when the introspection behind the verdict was sent, or later: a token that
\* was revoked before is accepted by no introspection sent afterwards, whatever
\* order the answers come in.
AcceptedWasActive ==
  \A c \in Calls :
    Accepted(c) =>
      /\ token[c] \in Ours
      /\ \/ revoked[token[c]] = None
         \/ revoked[token[c]] >= answer[c].verdict.sent

\* No verdict is served TTL or more after it was stored, however often it is
\* asked for; this is what bounds how long a revocation may go unnoticed.
VerdictsExpire ==
  \A c \in Calls :
    (Answered(c) /\ answer[c].cached) =>
      answer[c].at < answer[c].verdict.stored + TTL

\* A token of this server is turned away only if it was revoked, or if its
\* introspection failed less than TTL ago: an outage of the authorization
\* server is forgotten after TTL.
RejectedForAReason ==
  \A c \in Calls :
    (Answered(c) /\ ~Accepted(c) /\ token[c] \in Ours) =>
      \/ answer[c].verdict.fault
      \/ revoked[token[c]] # None /\ revoked[token[c]] <= answer[c].at

\* A verdict is justified by what the authorization server said of the token,
\* both ways, and for TTL only.
VerdictsAreSound == AcceptedWasActive /\ VerdictsExpire /\ RejectedForAReason

\* Every call of verify_token returns.
CallsAreAnswered ==
  \A c \in Calls : pc[c] \in {"asking", "replied"} ~> Answered(c)

-----------------------------------------------------------------------------
(* The inductive invariant behind the properties.                          *)

\* A verdict on a token is what the authorization server could say of it
\* between the sending of the introspection and the storing of the verdict.
Sound(t, verdict) ==
  /\ verdict.sent <= verdict.stored /\ verdict.stored <= now
  /\ verdict.accepted =>
       /\ t \in Ours
       /\ revoked[t] = None \/ revoked[t] >= verdict.sent
  /\ (~verdict.accepted /\ t \in Ours) =>
       \/ verdict.fault
       \/ revoked[t] # None /\ revoked[t] <= verdict.stored

RevokedInv == \A t \in Tokens : revoked[t] # None => revoked[t] <= now

EntryInv ==
  \A t \in Tokens :
    entry[t] # None =>
      /\ Sound(t, entry[t].verdict)
      /\ entry[t].until = entry[t].verdict.stored + TTL

\* What a waiting call knows: a reply is as recent as its request.
Waiting(c) ==
  /\ token[c] \in Tokens /\ sent[c] \in Nat /\ sent[c] <= now
  /\ pc[c] = "replied" =>
       \/ /\ reply[c] = "active"
          /\ revoked[token[c]] = None \/ revoked[token[c]] >= sent[c]
       \/ reply[c] = "inactive" /\ revoked[token[c]] # None

Returned(c) ==
  /\ token[c] \in Tokens /\ answer[c] \in Answers
  /\ Sound(token[c], answer[c].verdict)
  /\ answer[c].verdict.stored <= answer[c].at
  /\ answer[c].cached => answer[c].at < answer[c].verdict.stored + TTL

CallInv ==
  \A c \in Calls :
    /\ pc[c] \in {"asking", "replied"} => Waiting(c)
    /\ Answered(c) => Returned(c)

TokenInv == TypeOK /\ RevokedInv /\ EntryInv /\ CallInv
=============================================================================
