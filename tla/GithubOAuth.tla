----------------------------- MODULE GithubOAuth -----------------------------
(***************************************************************************)
(* The OAuth authorization server of a hosted deployment                   *)
(* (github_oauth.py).  A client registers, is sent to GitHub with a fresh  *)
(* state, comes back through the callback with an authorization code, and  *)
(* exchanges the code, and later a refresh token, for a pair of tokens.    *)
(*                                                                         *)
(* Registrations and tokens are signed and self-contained: whoever holds   *)
(* one presents it again after a restart.  Pending sign-ins, codes and the *)
(* set of revoked digests live in the process and die with it.             *)
(*                                                                         *)
(* Every handler runs on the event loop without giving it up (the two      *)
(* requests to GitHub block the loop), so a handler is one step.           *)
(***************************************************************************)
EXTENDS Naturals, FiniteSets

CONSTANTS Clients,      \* dynamically registered clients
          Logins,       \* GitHub accounts that may answer the sign-in
          AllowedUsers, \* those listed in MCP_GITHUB_ALLOWED_USERS
          Requests,     \* scope lists a client may ask for, {} when it names none
          NoLogin,      \* GitHub refused, timed out or answered without a user
          StateTTL, CodeTTL, AccessTTL, RefreshTTL, ClientTTL,
          MaxTime,      \* bound of the clock
          MaxSerial,    \* bound on states, codes and tokens handed out
          MaxRestarts   \* bound on restarts

ASSUME UsersAssumption == AllowedUsers \subseteq Logins /\ NoLogin \notin Logins
ASSUME TTLAssumption ==
  /\ {StateTTL, CodeTTL, AccessTTL, RefreshTTL, ClientTTL} \subseteq Nat \ {0}
  /\ {MaxTime, MaxSerial, MaxRestarts} \subseteq Nat

VARIABLES now,        \* time.time()
          clients,    \* self.clients: registrations this process has seen
          registered, \* expiry signed into each client's id, 0 before it registers
          pending,    \* self.pending
          codes,      \* self.authorization_codes
          memory,     \* self.access_tokens and self.refresh_tokens
          revoked,    \* self.revoked_token_digests
          granted,    \* history: every authorization code ever handed out
          issued,     \* every signed token ever handed out, in its holder's hands
          serial,     \* states, codes and tokens are fresh: the next number
          restarts    \* history: how often the process restarted

vars == <<now, clients, registered, pending, codes, memory, revoked,
          granted, issued, serial, restarts>>

BaseScope == "odoo"
SupportedScopes == {BaseScope, "offline_access"}

Pendings == [id : Nat, client : Clients, scopes : SUBSET SupportedScopes, exp : Nat]
Codes == [id : Nat, state : Nat, client : Clients, scopes : SUBSET SupportedScopes,
          subject : Logins, exp : Nat]
Tokens == [id : Nat, kind : {"access", "refresh"}, client : Clients,
           scopes : SUBSET SupportedScopes, subject : Logins,
           code : Nat, parent : Nat, exp : Nat]

TypeOK ==
  /\ now \in Nat /\ serial \in Nat \ {0} /\ restarts \in Nat
  /\ clients \subseteq Clients
  /\ registered \in [Clients -> Nat]
  /\ pending \subseteq Pendings
  /\ codes \subseteq granted /\ granted \subseteq Codes
  /\ memory \subseteq issued /\ revoked \subseteq issued /\ issued \subseteq Tokens

Init ==
  /\ now = 0 /\ serial = 1 /\ restarts = 0
  /\ clients = {} /\ registered = [c \in Clients |-> 0]
  /\ pending = {} /\ codes = {} /\ memory = {} /\ revoked = {}
  /\ granted = {} /\ issued = {}

-----------------------------------------------------------------------------
\* _cleanup_expired, the first call of nearly every handler.
Fresh(S) == {r \in S : r.exp > now}
CleanupExpired ==
  /\ pending' = Fresh(pending)
  /\ codes' = Fresh(codes)
  /\ memory' = Fresh(memory)

\* get_client: the process's own registrations never expire, a signed id does.
GetClient(c) == c \in clients \/ registered[c] > now

\* Mutant: only the tokens this process issued are known.
LoadRefreshToken_InMemory(c, t) ==
  t.kind = "refresh" /\ t.client = c /\ t \notin revoked /\ t \in Fresh(memory)

\* load_refresh_token: the token as this process stored it, or its signature.
LoadRefreshToken(c, t) ==
  /\ t.kind = "refresh" /\ t.client = c
  /\ t \notin revoked
  /\ t \in Fresh(memory) \/ t.exp > now

\* load_access_token: only the signature path asks for the registration.
LoadAccessToken(t) ==
  /\ t.kind = "access"
  /\ t \notin revoked
  /\ t \in Fresh(memory) \/ (t.exp > now /\ GetClient(t.client))

Accepted(t) == LoadAccessToken(t) \/ LoadRefreshToken(t.client, t)

-----------------------------------------------------------------------------
\* register_client: the id the client leaves with carries its own expiry.
RegisterClient(c) ==
  /\ registered[c] = 0
  /\ registered' = [registered EXCEPT ![c] = now + ClientTTL]
  /\ clients' = clients \cup {c}
  /\ UNCHANGED <<now, pending, codes, memory, revoked, granted, issued, serial, restarts>>

\* authorize: an unsupported scope, or one without the base scope, is refused.
Authorize(c, requested) ==
  LET scopes == IF requested = {} THEN SupportedScopes ELSE requested
  IN
  /\ GetClient(c)
  /\ serial < MaxSerial
  /\ IF scopes \subseteq SupportedScopes /\ BaseScope \in scopes
     THEN /\ pending' = Fresh(pending) \cup
               {[id |-> serial, client |-> c, scopes |-> scopes, exp |-> now + StateTTL]}
          /\ serial' = serial + 1
     ELSE pending' = Fresh(pending) /\ serial' = serial
  /\ codes' = Fresh(codes) /\ memory' = Fresh(memory)
  /\ UNCHANGED <<now, clients, registered, revoked, granted, issued, restarts>>

NewCode(p, login) ==
  [id |-> serial, state |-> p.id, client |-> p.client, scopes |-> p.scopes,
   subject |-> login, exp |-> now + CodeTTL]

\* Mutant: whoever GitHub names is let in.
GithubCallback_AnyUser(p, login) ==
  /\ pending' = Fresh(pending) \ {p}
  /\ memory' = Fresh(memory)
  /\ serial < MaxSerial
  /\ codes' = Fresh(codes) \cup {NewCode(p, login)}
  /\ granted' = granted \cup {NewCode(p, login)}
  /\ serial' = serial + 1
  /\ UNCHANGED <<now, clients, registered, revoked, issued, restarts>>

\* complete_github_callback: the state is popped before GitHub is asked, so a
\* failure there, or an account that is not listed, spends it.
GithubCallback(p, login) ==
  /\ pending' = Fresh(pending) \ {p}
  /\ memory' = Fresh(memory)
  /\ IF p \in Fresh(pending) /\ login \in AllowedUsers
     THEN /\ serial < MaxSerial
          /\ codes' = Fresh(codes) \cup {NewCode(p, login)}
          /\ granted' = granted \cup {NewCode(p, login)}
          /\ serial' = serial + 1
     ELSE codes' = Fresh(codes) /\ UNCHANGED <<granted, serial>>
  /\ UNCHANGED <<now, clients, registered, revoked, issued, restarts>>

\* _issue_token_pair
Pair(c, scopes, subject, code, parent) ==
  LET token(kind, id, ttl) ==
        [id |-> id, kind |-> kind, client |-> c, scopes |-> scopes,
         subject |-> subject, code |-> code, parent |-> parent, exp |-> now + ttl]
  IN {token("access", serial, AccessTTL), token("refresh", serial + 1, RefreshTTL)}
IssueTokenPair(pair) ==
  /\ serial + 1 < MaxSerial
  /\ memory' = Fresh(memory) \cup pair
  /\ issued' = issued \cup pair
  /\ serial' = serial + 2

\* Mutant: the code is looked up and not taken away.
ExchangeCode_Keeps(c, k, proof) ==
  /\ GetClient(c)
  /\ pending' = Fresh(pending) /\ codes' = Fresh(codes)
  /\ k \in codes' /\ k.client = c /\ proof
  /\ IssueTokenPair(Pair(c, k.scopes, k.subject, k.id, 0))
  /\ UNCHANGED <<now, clients, registered, revoked, granted, restarts>>

\* load_authorization_code, the token endpoint's proof-key check, and then
\* exchange_authorization_code, which pops the code.
ExchangeCode(c, k, proof) ==
  /\ GetClient(c)
  /\ pending' = Fresh(pending)
  /\ IF k \in Fresh(codes) /\ k.client = c /\ proof
     THEN /\ codes' = Fresh(codes) \ {k}
          /\ IssueTokenPair(Pair(c, k.scopes, k.subject, k.id, 0))
     ELSE codes' = Fresh(codes) /\ memory' = Fresh(memory) /\ UNCHANGED <<issued, serial>>
  /\ UNCHANGED <<now, clients, registered, revoked, granted, restarts>>

\* exchange_refresh_token: the refresh token presented is not taken away.
ExchangeRefresh(c, t, scopes) ==
  LET requested == IF scopes = {} THEN t.scopes ELSE scopes
  IN
  /\ GetClient(c)
  /\ pending' = Fresh(pending) /\ codes' = Fresh(codes)
  /\ IF LoadRefreshToken(c, t) /\ requested \subseteq t.scopes
     THEN IssueTokenPair(Pair(c, requested, t.subject, t.code, t.id))
     ELSE memory' = Fresh(memory) /\ UNCHANGED <<issued, serial>>
  /\ UNCHANGED <<now, clients, registered, revoked, granted, restarts>>

\* A request that carries an access token: load_access_token.
UseAccess == CleanupExpired /\ UNCHANGED <<now, clients, registered, revoked,
                                           granted, issued, serial, restarts>>

\* Mutant: only the last revocation is remembered.
RevokeToken_Last(c, t) ==
  /\ GetClient(c)
  /\ t.client = c /\ Accepted(t)
  /\ revoked' = {t}
  /\ memory' = Fresh(memory) \ {t}
  /\ pending' = Fresh(pending) /\ codes' = Fresh(codes)
  /\ UNCHANGED <<now, clients, registered, granted, issued, serial, restarts>>

\* revoke_token, for a token its client could load.
RevokeToken(c, t) ==
  /\ GetClient(c)
  /\ t.client = c /\ Accepted(t)
  /\ revoked' = revoked \cup {t}
  /\ memory' = Fresh(memory) \ {t}
  /\ pending' = Fresh(pending) /\ codes' = Fresh(codes)
  /\ UNCHANGED <<now, clients, registered, granted, issued, serial, restarts>>

\* The host stops the process and starts it again.
Restart ==
  /\ restarts < MaxRestarts
  /\ clients' = {} /\ pending' = {} /\ codes' = {} /\ memory' = {} /\ revoked' = {}
  /\ restarts' = restarts + 1
  /\ UNCHANGED <<now, registered, granted, issued, serial>>

Tick ==
  /\ now < MaxTime
  /\ now' = now + 1
  /\ UNCHANGED <<clients, registered, pending, codes, memory, revoked,
                 granted, issued, serial, restarts>>

Next ==
  \/ \E c \in Clients : RegisterClient(c)
  \/ \E c \in Clients, s \in Requests : Authorize(c, s)
  \/ \E p \in pending, l \in Logins \cup {NoLogin} : GithubCallback(p, l)
  \/ \E c \in Clients, k \in granted, proof \in BOOLEAN : ExchangeCode(c, k, proof)
  \/ \E c \in Clients, t \in issued, s \in Requests : ExchangeRefresh(c, t, s)
  \/ UseAccess
  \/ \E c \in Clients, t \in issued : RevokeToken(c, t)
  \/ Restart
  \/ Tick

Spec == Init /\ [][Next]_vars

-----------------------------------------------------------------------------
\* One sign-in at GitHub gives at most one authorization code, and a code at
\* most one pair of tokens, whatever is presented again, lost or restarted.
SignInsAreSpentOnce ==
  /\ \A k1, k2 \in granted : k1.state = k2.state => k1 = k2
  /\ \A t1, t2 \in issued :
       t1.parent = 0 /\ t2.parent = 0 /\ t1.code = t2.code /\ t1.kind = t2.kind
         => t1 = t2

\* A token, however many refreshes away, names the client, the user and at
\* most the scopes of a sign-in by a listed GitHub user, and no sign-in is
\* spent twice (authorize, complete_github_callback, the two exchanges).
TokensTraceToASignIn ==
  SignInsAreSpentOnce /\ \A t \in issued : \E k \in granted :
    /\ k.id = t.code
    /\ t.client = k.client /\ t.subject = k.subject
    /\ t.scopes \subseteq k.scopes /\ k.subject \in AllowedUsers

\* What still leads to new access: a code not yet spent, or an accepted token.
Alive(k) == k \in Fresh(codes) \/ \E t \in issued : t.code = k.id /\ Accepted(t)

\* Until the process restarts, a revoked token is refused, a token once refused
\* (expired or revoked) stays refused, and a sign-in all of whose tokens are
\* refused never yields another (revoke_token, load_refresh_token).
EndedSessionsStayEnded ==
  [][restarts' = restarts =>
       /\ \A t \in revoked' : ~Accepted(t)'
       /\ \A t \in issued : ~Accepted(t) => ~Accepted(t)'
       /\ \A k \in granted : ~Alive(k) => ~Alive(k)']_vars

\* A restart keeps every session whose registration has not expired, and brings
\* back no token except those that had been revoked.
RestartKeepsSessions ==
  [][restarts' # restarts =>
       \A t \in issued :
         /\ Accepted(t) /\ (t.kind = "access" => registered[t.client] > now) => Accepted(t)'
         /\ ~Accepted(t) /\ Accepted(t)' => t \in revoked]_vars

-----------------------------------------------------------------------------
\* The inductive invariant of GithubOAuthProofs.

\* Whoever is known, signing in or holding a token has registered.
ClientsInv ==
  /\ \A c \in clients : registered[c] > 0
  /\ \A r \in pending \cup granted : registered[r.client] > 0

\* States, codes and tokens are numbered apart.
NumbersInv ==
  /\ \A p \in pending : p.id < serial
  /\ \A k \in granted : k.id < serial /\ k.state < serial
  /\ \A t \in issued : 0 < t.id /\ t.id < serial
  /\ \A p, q \in pending : p.id = q.id => p = q
  /\ \A k, l \in granted : k.id = l.id => k = l

\* A state that gave a code is no longer pending, a code that gave tokens is gone.
SpentInv ==
  /\ \A p \in pending, k \in granted : k.state # p.id
  /\ \A k \in codes, t \in issued : t.parent = 0 => t.code # k.id

OauthInv ==
  /\ TypeOK /\ ClientsInv /\ NumbersInv /\ SpentInv /\ TokensTraceToASignIn
  /\ \A k \in granted : k.subject \in AllowedUsers
=============================================================================
