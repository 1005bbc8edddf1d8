-------------------------- MODULE GithubOAuthProofs --------------------------
(* Proofs about GithubOAuth: for any clients, accounts, lifetimes and number *)
(* of restarts, where every token comes from and what ends with a session.   *)
EXTENDS GithubOAuth, TLAPS

USE UsersAssumption, TTLAssumption

\* The steps that hand out nothing: sign-ins, codes and tokens only go away.
Quiet ==
  /\ pending' \subseteq pending /\ codes' \subseteq codes /\ memory' \subseteq memory
  /\ UNCHANGED <<granted, issued, serial>>
  /\ \A c \in Clients : registered[c] > 0 => registered'[c] > 0

LEMMA QuietStep ==
  ASSUME OauthInv, Quiet, TypeOK', \A c \in clients' : registered'[c] > 0
  PROVE  OauthInv'
<1> USE DEF OauthInv, Quiet
<1>1. ClientsInv'
  <2>1. \A r \in pending \cup granted : r.client \in Clients
    BY DEF TypeOK, Pendings, Codes
  <2> QED
    BY <2>1 DEF ClientsInv
<1>2. NumbersInv'
  BY DEF NumbersInv
<1>3. SpentInv'
  BY DEF SpentInv
<1>4. TokensTraceToASignIn'
  BY DEF TokensTraceToASignIn, SignInsAreSpentOnce
<1> QED
  BY <1>1, <1>2, <1>3, <1>4

\* A sign-in begins: its state is a number nobody has seen (authorize).
LEMMA AuthorizeStep ==
  ASSUME OauthInv, NEW c \in Clients, NEW s \in Requests, Authorize(c, s)
  PROVE  OauthInv'
<1> DEFINE scopes == IF s = {} THEN SupportedScopes ELSE s
           p == [id |-> serial, client |-> c, scopes |-> scopes, exp |-> now + StateTTL]
<1> USE DEF OauthInv
<1>0. /\ codes' \subseteq codes /\ memory' \subseteq memory
      /\ UNCHANGED <<now, clients, registered, revoked, granted, issued, restarts>>
  BY DEF Authorize, Fresh
<1>1. CASE scopes \subseteq SupportedScopes /\ BaseScope \in scopes
  <2>1. pending' \subseteq pending \cup {p} /\ serial' = serial + 1
    BY <1>1 DEF Authorize, Fresh
  <2>2. registered[c] > 0
    BY DEF Authorize, GetClient, ClientsInv, TypeOK
  <2>3. p \in Pendings
    BY <1>1 DEF Pendings, TypeOK
  <2>4. TypeOK'
    BY <1>0, <2>1, <2>3 DEF TypeOK
  <2>5. ClientsInv'
    BY <1>0, <2>1, <2>2 DEF ClientsInv
  <2>6. NumbersInv'
    BY <1>0, <2>1 DEF NumbersInv, TypeOK, Pendings, Codes, Tokens
  <2>7. SpentInv'
    BY <1>0, <2>1 DEF SpentInv, NumbersInv, TypeOK, Codes
  <2>8. TokensTraceToASignIn'
    BY <1>0 DEF TokensTraceToASignIn, SignInsAreSpentOnce
  <2> QED
    BY <1>0, <2>4, <2>5, <2>6, <2>7, <2>8
<1>2. CASE ~(scopes \subseteq SupportedScopes /\ BaseScope \in scopes)
  <2>1. pending' \subseteq pending /\ serial' = serial
    BY <1>2 DEF Authorize, Fresh
  <2>2. TypeOK'
    BY <1>0, <2>1 DEF TypeOK
  <2> QED
    BY <1>0, <2>1, <2>2, QuietStep DEF Quiet, ClientsInv
<1> QED
  BY <1>1, <1>2

\* The callback takes the state away and gives one code (complete_github_callback).
LEMMA CallbackStep ==
  ASSUME OauthInv, NEW p \in pending, NEW l \in Logins \cup {NoLogin}, GithubCallback(p, l)
  PROVE  OauthInv'
<1> USE DEF OauthInv
<1>0. /\ pending' \subseteq pending \ {p} /\ memory' \subseteq memory
      /\ UNCHANGED <<now, clients, registered, revoked, issued, restarts>>
  BY DEF GithubCallback, Fresh
<1>1. CASE p \in Fresh(pending) /\ l \in AllowedUsers
  <2> DEFINE k == NewCode(p, l)
  <2>1. /\ codes' \subseteq codes \cup {k}
        /\ granted' = granted \cup {k} /\ serial' = serial + 1
    BY <1>1 DEF GithubCallback, Fresh
  <2>2. p \in Pendings /\ registered[p.client] > 0 /\ serial \in Nat /\ p.id < serial
    BY DEF TypeOK, ClientsInv, NumbersInv
  <2>3. k = [id |-> serial, state |-> p.id, client |-> p.client, scopes |-> p.scopes,
             subject |-> l, exp |-> now + CodeTTL]
    BY DEF NewCode
  <2>4. k \in Codes
    BY <1>1, <2>2, <2>3 DEF Codes, Pendings, TypeOK
  <2>5. /\ k.id = serial /\ k.state = p.id /\ k.client = p.client /\ k.subject = l
    BY <2>3
  <2> HIDE DEF k
  <2>6. TypeOK'
    BY <1>0, <2>1, <2>4 DEF TypeOK, GithubCallback
  <2>7. ClientsInv'
    BY <1>0, <2>1, <2>2, <2>5 DEF ClientsInv
  <2>8. NumbersInv'
    BY <1>0, <2>1, <2>2, <2>5 DEF NumbersInv, TypeOK, Pendings, Codes, Tokens
  <2>9. SpentInv'
    <3>1. \A q \in pending', j \in granted' : j.state # q.id
      BY <1>0, <2>1, <2>5 DEF SpentInv, NumbersInv
    <3>2. \A t \in issued : t.code # serial
      BY DEF TokensTraceToASignIn, NumbersInv, TypeOK, Codes
    <3> QED
      BY <1>0, <2>1, <2>5, <3>1, <3>2 DEF SpentInv
  <2>10. TokensTraceToASignIn'
    <3>1. \A j \in granted : j.state # k.state
      BY <2>5 DEF SpentInv
    <3>2. SignInsAreSpentOnce'
      BY <1>0, <2>1, <3>1 DEF TokensTraceToASignIn, SignInsAreSpentOnce
    <3> QED
      BY <1>0, <2>1, <3>2 DEF TokensTraceToASignIn
  <2>11. \A j \in granted' : j.subject \in AllowedUsers
    BY <1>1, <2>1, <2>5
  <2> QED
    BY <2>6, <2>7, <2>8, <2>9, <2>10, <2>11
<1>2. CASE ~(p \in Fresh(pending) /\ l \in AllowedUsers)
  <2>1. codes' \subseteq codes /\ UNCHANGED <<granted, serial>>
    BY <1>2 DEF GithubCallback, Fresh
  <2>2. TypeOK'
    BY <1>0, <2>1 DEF TypeOK
  <2> QED
    BY <1>0, <2>1, <2>2, QuietStep DEF Quiet, ClientsInv
<1> QED
  BY <1>1, <1>2

\* A pair of tokens is written out (_issue_token_pair): for a code that leaves
\* the table, or for a refresh token of the same code and no wider scopes.
LEMMA PairStep ==
  ASSUME OauthInv, NEW c \in Clients, NEW scopes, NEW subject, NEW code, NEW parent \in Nat,
         NEW k \in granted,
         code = k.id, c = k.client, subject = k.subject, scopes \subseteq k.scopes,
         IssueTokenPair(Pair(c, scopes, subject, code, parent)),
         pending' \subseteq pending, codes' \subseteq codes,
         parent = 0 => k \in codes /\ k \notin codes',
         UNCHANGED <<now, clients, registered, revoked, granted, restarts>>
  PROVE  OauthInv'
<1> DEFINE pair == Pair(c, scopes, subject, code, parent)
<1> USE DEF OauthInv
<1>1. /\ serial' = serial + 2 /\ issued' = issued \cup pair /\ memory' \subseteq memory \cup pair
  BY DEF IssueTokenPair, Fresh
<1>2. k \in Codes /\ serial \in Nat \ {0} /\ now \in Nat
  BY DEF TypeOK
<1>3. \A t \in pair : /\ t \in Tokens
                      /\ t.client = c /\ t.scopes = scopes /\ t.subject = subject
                      /\ t.code = code /\ t.parent = parent
                      /\ t.id = (IF t.kind = "access" THEN serial ELSE serial + 1)
  BY <1>2 DEF Pair, Tokens, Codes
<1>4. \A t, u \in pair : t.kind = u.kind => t = u
  BY DEF Pair
<1> HIDE DEF pair
<1>5. TypeOK'
  BY <1>1, <1>2, <1>3 DEF TypeOK
<1>6. ClientsInv'
  BY DEF ClientsInv
<1>7. NumbersInv'
  BY <1>1, <1>2, <1>3 DEF NumbersInv, TypeOK, Pendings, Codes, Tokens
<1>8. SpentInv'
  <2>1. ASSUME NEW j \in codes', NEW t \in pair, t.parent = 0
        PROVE  t.code # j.id
    BY <2>1, <1>3 DEF NumbersInv, TypeOK
  <2> QED
    BY <1>1, <2>1 DEF SpentInv
<1>9. TokensTraceToASignIn'
  <2>1. \A t \in pair : t.parent = 0 => \A u \in issued : u.parent = 0 => t.code # u.code
    BY <1>3 DEF SpentInv
  <2>2. SignInsAreSpentOnce'
    BY <1>1, <1>4, <2>1 DEF TokensTraceToASignIn, SignInsAreSpentOnce
  <2>3. \A t \in pair : /\ k.id = t.code /\ t.client = k.client /\ t.subject = k.subject
                        /\ t.scopes \subseteq k.scopes /\ k.subject \in AllowedUsers
    BY <1>3
  <2> QED
    BY <1>1, <2>2, <2>3 DEF TokensTraceToASignIn
<1> QED
  BY <1>5, <1>6, <1>7, <1>8, <1>9

\* exchange_authorization_code.
LEMMA ExchangeCodeStep ==
  ASSUME OauthInv, NEW c \in Clients, NEW k \in granted, NEW proof \in BOOLEAN,
         ExchangeCode(c, k, proof)
  PROVE  OauthInv'
<1>0. /\ pending' \subseteq pending
      /\ UNCHANGED <<now, clients, registered, revoked, granted, restarts>>
  BY DEF ExchangeCode, Fresh
<1>1. CASE k \in Fresh(codes) /\ k.client = c /\ proof
  <2>1. /\ k \in codes /\ k \notin codes' /\ codes' \subseteq codes
        /\ IssueTokenPair(Pair(c, k.scopes, k.subject, k.id, 0))
    BY <1>1 DEF ExchangeCode, Fresh
  <2> QED
    BY <1>0, <1>1, <2>1, PairStep
<1>2. CASE ~(k \in Fresh(codes) /\ k.client = c /\ proof)
  <2>1. codes' \subseteq codes /\ memory' \subseteq memory /\ UNCHANGED <<issued, serial>>
    BY <1>2 DEF ExchangeCode, Fresh
  <2>2. TypeOK'
    BY <1>0, <2>1 DEF OauthInv, TypeOK
  <2> QED
    BY <1>0, <2>1, <2>2, QuietStep DEF Quiet, OauthInv, ClientsInv
<1> QED
  BY <1>1, <1>2

\* exchange_refresh_token: the new pair has the code of the old token.
LEMMA ExchangeRefreshStep ==
  ASSUME OauthInv, NEW c \in Clients, NEW t \in issued, NEW s \in Requests,
         ExchangeRefresh(c, t, s)
  PROVE  OauthInv'
<1> DEFINE requested == IF s = {} THEN t.scopes ELSE s
<1>0. /\ pending' \subseteq pending /\ codes' \subseteq codes
      /\ UNCHANGED <<now, clients, registered, revoked, granted, restarts>>
  BY DEF ExchangeRefresh, Fresh
<1>1. CASE LoadRefreshToken(c, t) /\ requested \subseteq t.scopes
  <2>1. IssueTokenPair(Pair(c, requested, t.subject, t.code, t.id))
    BY <1>1 DEF ExchangeRefresh
  <2>2. PICK k \in granted : /\ k.id = t.code /\ t.client = k.client
                             /\ t.subject = k.subject /\ t.scopes \subseteq k.scopes
    BY DEF OauthInv, TokensTraceToASignIn
  <2>3. t.client = c
    BY <1>1 DEF LoadRefreshToken
  <2>4. t.id \in Nat /\ t.id # 0
    BY DEF OauthInv, TypeOK, Tokens, NumbersInv
  <2>5. requested \subseteq k.scopes
    BY <1>1, <2>2
  <2> HIDE DEF requested
  <2> QED
    BY <1>0, <2>1, <2>2, <2>3, <2>4, <2>5, PairStep
<1>2. CASE ~(LoadRefreshToken(c, t) /\ requested \subseteq t.scopes)
  <2>1. memory' \subseteq memory /\ UNCHANGED <<issued, serial>>
    BY <1>2 DEF ExchangeRefresh, Fresh
  <2>2. TypeOK'
    BY <1>0, <2>1 DEF OauthInv, TypeOK
  <2> QED
    BY <1>0, <2>1, <2>2, QuietStep DEF Quiet, OauthInv, ClientsInv
<1> QED
  BY <1>1, <1>2

\* OauthInv survives every handler, the clock and the loss of the process.
LEMMA OauthStep == OauthInv /\ [Next]_vars => OauthInv'
<1> SUFFICES ASSUME OauthInv, [Next]_vars PROVE OauthInv'
  OBVIOUS
<1>1. ASSUME NEW c \in Clients, RegisterClient(c)
      PROVE  OauthInv'
  <2>1. TypeOK'
    BY <1>1 DEF RegisterClient, OauthInv, TypeOK
  <2>2. registered'[c] > 0 /\ \A d \in Clients \ {c} : registered'[d] = registered[d]
    BY <1>1 DEF RegisterClient, OauthInv, TypeOK
  <2> QED
    BY <1>1, <2>1, <2>2, QuietStep DEF RegisterClient, Quiet, OauthInv, ClientsInv, TypeOK
<1>2. CASE UseAccess
  BY <1>2, QuietStep DEF UseAccess, CleanupExpired, Fresh, Quiet, OauthInv, TypeOK, ClientsInv
<1>3. ASSUME NEW c \in Clients, NEW t \in issued, RevokeToken(c, t)
      PROVE  OauthInv'
  BY <1>3, QuietStep DEF RevokeToken, Fresh, Quiet, OauthInv, TypeOK, ClientsInv
<1>4. CASE Restart
  BY <1>4, QuietStep DEF Restart, Quiet, OauthInv, TypeOK
<1>5. CASE Tick
  BY <1>5, QuietStep DEF Tick, Quiet, OauthInv, TypeOK, ClientsInv
<1>6. CASE UNCHANGED vars
  BY <1>6, QuietStep DEF vars, Quiet, OauthInv, TypeOK, ClientsInv
<1> QED
  BY <1>1, <1>2, <1>3, <1>4, <1>5, <1>6, AuthorizeStep, CallbackStep,
     ExchangeCodeStep, ExchangeRefreshStep DEF Next

\* The invariant of the authorization server holds in every reachable state.
THEOREM OauthInvariant == Spec => []OauthInv
<1>1. Init => OauthInv
  BY DEF Init, OauthInv, TypeOK, ClientsInv, NumbersInv, SpentInv,
     TokensTraceToASignIn, SignInsAreSpentOnce
<1> QED
  BY <1>1, OauthStep, PTL DEF Spec

\* Type correctness of the provider's tables and of what it hands out.
THEOREM TypeCorrect == Spec => []TypeOK
  BY OauthInvariant, PTL DEF OauthInv

\* Every token traces back to one sign-in of a listed GitHub user, and no
\* sign-in or code is spent twice, whatever is replayed, refreshed or restarted.
THEOREM TokensComeFromSignIns == Spec => []TokensTraceToASignIn
  BY OauthInvariant, PTL DEF OauthInv

-----------------------------------------------------------------------------
(* What is accepted, and for how long.                                     *)

\* Being stored adds nothing to a refresh token's signature, and to an access
\* token's only that its client need not be known (load_access_token).
Valid(t) ==
  /\ t \notin revoked /\ t.exp > now
  /\ t.kind = "refresh" \/ t \in memory \/ GetClient(t.client)

LEMMA AcceptedIsValid == OauthInv => \A t \in issued : Accepted(t) <=> Valid(t)
  BY DEF OauthInv, TypeOK, Tokens, Accepted, LoadAccessToken, LoadRefreshToken, Fresh, Valid

\* Steps of one process never forget a revocation, never learn of an old client
\* again and never bring an old token back into memory.
LEMMA OneProcess ==
  ASSUME OauthInv, [Next]_vars, restarts' = restarts
  PROVE  /\ now' >= now /\ revoked \subseteq revoked'
         /\ \A t \in issued : t \in memory' => t \in memory
         /\ \A t \in issued : GetClient(t.client)' => GetClient(t.client)
<1> USE DEF OauthInv
<1>1. \A t \in issued : t.client \in Clients /\ registered[t.client] > 0
  BY DEF TypeOK, Tokens, Codes, ClientsInv, TokensTraceToASignIn
<1>2. now \in Nat /\ registered \in [Clients -> Nat]
  BY DEF TypeOK
<1>3. ASSUME NEW c, NEW scopes, NEW subject, NEW code, NEW parent,
             IssueTokenPair(Pair(c, scopes, subject, code, parent))
      PROVE  \A t \in issued : t \in memory' => t \in memory
  <2>1. \A t \in Pair(c, scopes, subject, code, parent) : t.id >= serial
    BY DEF Pair, TypeOK
  <2> QED
    BY <1>3, <2>1 DEF IssueTokenPair, Fresh, NumbersInv, TypeOK, Tokens
<1>4. ASSUME NEW c \in Clients, RegisterClient(c)
      PROVE  \A t \in issued : GetClient(t.client)' => GetClient(t.client)
  BY <1>1, <1>2, <1>4 DEF RegisterClient, GetClient
<1>5. ASSUME NEW c \in Clients, NEW s \in Requests, Authorize(c, s)
      PROVE  /\ memory' \subseteq memory
             /\ UNCHANGED <<now, clients, registered, revoked>>
  BY <1>5 DEF Authorize, Fresh
<1>6. ASSUME NEW p \in pending, NEW l \in Logins \cup {NoLogin}, GithubCallback(p, l)
      PROVE  /\ memory' \subseteq memory
             /\ UNCHANGED <<now, clients, registered, revoked>>
  BY <1>6 DEF GithubCallback, Fresh
<1>7. ASSUME NEW c \in Clients, NEW k \in granted, NEW proof \in BOOLEAN, ExchangeCode(c, k, proof)
      PROVE  /\ \A t \in issued : t \in memory' => t \in memory
             /\ UNCHANGED <<now, clients, registered, revoked>>
  BY <1>3, <1>7 DEF ExchangeCode, Fresh
<1>8. ASSUME NEW c \in Clients, NEW t \in issued, NEW s \in Requests, ExchangeRefresh(c, t, s)
      PROVE  /\ \A u \in issued : u \in memory' => u \in memory
             /\ UNCHANGED <<now, clients, registered, revoked>>
  BY <1>3, <1>8 DEF ExchangeRefresh, Fresh
<1>9. CASE UseAccess
  BY <1>9 DEF UseAccess, CleanupExpired, Fresh, GetClient, TypeOK
<1>10. ASSUME NEW c \in Clients, NEW t \in issued, RevokeToken(c, t)
       PROVE  /\ memory' \subseteq memory /\ revoked \subseteq revoked'
              /\ UNCHANGED <<now, clients, registered>>
  BY <1>10 DEF RevokeToken, Fresh
<1>11. CASE Tick
  BY <1>1, <1>2, <1>11 DEF Tick, GetClient
<1>12. CASE Restart
  BY <1>12 DEF Restart, TypeOK
<1>13. CASE UNCHANGED vars
  BY <1>13 DEF vars, GetClient, TypeOK
<1>14. \A c \in Clients : RegisterClient(c) => UNCHANGED <<now, memory, revoked>>
  BY DEF RegisterClient
<1> QED
  BY <1>2, <1>4, <1>5, <1>6, <1>7, <1>8, <1>9, <1>10, <1>11, <1>12, <1>13, <1>14
  DEF Next, GetClient

\* A refused token stays refused while the process lives.
LEMMA RefusedStaysRefused ==
  ASSUME OauthInv, OauthInv', [Next]_vars, restarts' = restarts, NEW t \in issued,
         Accepted(t)'
  PROVE  Accepted(t)
<1>1. issued \subseteq issued'
  BY DEF Next, vars, RegisterClient, Authorize, GithubCallback, ExchangeCode, ExchangeRefresh,
     IssueTokenPair, UseAccess, RevokeToken, Restart, Tick
<1>2. t \in Tokens /\ memory' \subseteq issued' /\ t \in issued'
  BY <1>1 DEF OauthInv, TypeOK
<1>3. Valid(t)'
  BY <1>2 DEF Tokens, Accepted, LoadAccessToken, LoadRefreshToken, Fresh, Valid
<1>4. t.exp \in Nat /\ now \in Nat /\ now' \in Nat
  BY DEF OauthInv, TypeOK, Tokens
<1>5. Valid(t)
  BY <1>3, <1>4, OneProcess DEF Valid
<1> QED
  BY <1>5, AcceptedIsValid

\* A step that issues tokens spends a code or is shown a token still accepted.
LEMMA NewTokensNeedLive ==
  ASSUME OauthInv, [Next]_vars, NEW t \in issued', t \notin issued
  PROVE  \E k \in granted : k.id = t.code /\ Alive(k)
<1>1. ASSUME NEW c \in Clients, NEW k \in granted, NEW proof \in BOOLEAN, ExchangeCode(c, k, proof)
      PROVE  \E j \in granted : j.id = t.code /\ Alive(j)
  <2>1. k \in Fresh(codes) /\ t \in Pair(c, k.scopes, k.subject, k.id, 0)
    BY <1>1 DEF ExchangeCode, IssueTokenPair
  <2>2. t.code = k.id
    BY <2>1 DEF Pair
  <2> QED
    BY <2>1, <2>2 DEF Alive
<1>2. ASSUME NEW c \in Clients, NEW u \in issued, NEW s \in Requests, ExchangeRefresh(c, u, s)
      PROVE  \E j \in granted : j.id = t.code /\ Alive(j)
  <2> DEFINE requested == IF s = {} THEN u.scopes ELSE s
  <2>1. LoadRefreshToken(c, u) /\ t \in Pair(c, requested, u.subject, u.code, u.id)
    BY <1>2 DEF ExchangeRefresh, IssueTokenPair
  <2>2. t.code = u.code
    BY <2>1 DEF Pair
  <2>3. Accepted(u)
    BY <2>1 DEF Accepted, LoadRefreshToken
  <2>4. PICK j \in granted : j.id = u.code
    BY DEF OauthInv, TokensTraceToASignIn
  <2> QED
    BY <2>2, <2>3, <2>4 DEF Alive
<1> QED
  BY <1>1, <1>2 DEF Next, vars, RegisterClient, Authorize, GithubCallback,
     UseAccess, RevokeToken, Restart, Tick

\* A code that is spent or expired is never usable again.
LEMMA SpentStaysSpent ==
  ASSUME OauthInv, [Next]_vars, NEW k \in granted, (k \in Fresh(codes))'
  PROVE  k \in Fresh(codes)
<1>1. now \in Nat /\ k.exp \in Nat /\ k.id < serial /\ serial \in Nat
  BY DEF OauthInv, TypeOK, Codes, NumbersInv
<1>2. k \in codes' /\ k.exp > now'
  BY DEF Fresh
<1>3. now' >= now /\ now' \in Nat
  BY <1>1 DEF Next, vars, RegisterClient, Authorize, GithubCallback, ExchangeCode, ExchangeRefresh,
     UseAccess, RevokeToken, Restart, Tick
<1>4. k.exp > now
  BY <1>1, <1>2, <1>3
<1>5. \A p \in pending, l \in Logins \cup {NoLogin} : k # NewCode(p, l)
  BY <1>1 DEF NewCode
<1>6. k \in codes
  BY <1>2, <1>5 DEF Next, vars, RegisterClient, Authorize, GithubCallback, ExchangeCode,
     ExchangeRefresh, UseAccess, CleanupExpired, RevokeToken, Restart, Tick, Fresh
<1> QED
  BY <1>4, <1>6 DEF Fresh

\* Within one process a revoked or refused token stays refused, and a session
\* with neither code nor accepted token has ended for good.
THEOREM SessionsStayEnded == Spec => EndedSessionsStayEnded
<1> DEFINE Ended == restarts' = restarts =>
                      /\ \A t \in revoked' : ~Accepted(t)'
                      /\ \A t \in issued : ~Accepted(t) => ~Accepted(t)'
                      /\ \A k \in granted : ~Alive(k) => ~Alive(k)'
<1>1. OauthInv /\ OauthInv' /\ [Next]_vars => Ended
  <2> SUFFICES ASSUME OauthInv, OauthInv', [Next]_vars, restarts' = restarts
               PROVE  Ended
    OBVIOUS
  <2>1. \A t \in revoked' : ~Accepted(t)'
    BY DEF Accepted, LoadAccessToken, LoadRefreshToken
  <2>2. \A t \in issued : ~Accepted(t) => ~Accepted(t)'
    BY RefusedStaysRefused
  <2>3. ASSUME NEW k \in granted, Alive(k)'
        PROVE  Alive(k)
    <3>1. CASE (k \in Fresh(codes))'
      BY <3>1, SpentStaysSpent DEF Alive
    <3>2. CASE \E t \in issued' : t.code = k.id /\ Accepted(t)'
      <4>1. PICK t \in issued' : t.code = k.id /\ Accepted(t)'
        BY <3>2
      <4>2. CASE t \in issued
        BY <4>1, <4>2, RefusedStaysRefused DEF Alive
      <4>3. CASE t \notin issued
        <5>1. PICK j \in granted : j.id = t.code /\ Alive(j)
          BY <4>3, NewTokensNeedLive
        <5>2. j = k
          BY <4>1, <5>1 DEF OauthInv, NumbersInv
        <5> QED
          BY <5>1, <5>2
      <4> QED
        BY <4>2, <4>3
    <3> QED
      BY <2>3, <3>1, <3>2 DEF Alive
  <2> QED
    BY <2>1, <2>2, <2>3
<1>2. OauthInv /\ OauthInv' /\ [Next]_vars => [Ended]_vars
  BY <1>1
<1> QED
  BY <1>2, OauthInvariant, PTL DEF Spec, EndedSessionsStayEnded

\* What a restart forgets brings back only revoked tokens, and logs out nobody
\* whose registration is still valid (signed tokens, _decode_token).
THEOREM RestartsKeepSessions == Spec => RestartKeepsSessions
<1> DEFINE Keeps == restarts' # restarts =>
                      \A t \in issued :
                        /\ Accepted(t) /\ (t.kind = "access" => registered[t.client] > now)
                             => Accepted(t)'
                        /\ ~Accepted(t) /\ Accepted(t)' => t \in revoked
<1>1. OauthInv /\ OauthInv' /\ [Next]_vars => [Keeps]_vars
  <2> SUFFICES ASSUME OauthInv, OauthInv', Next, restarts' # restarts, NEW t \in issued
               PROVE  /\ Accepted(t) /\ (t.kind = "access" => registered[t.client] > now)
                            => Accepted(t)'
                      /\ ~Accepted(t) /\ Accepted(t)' => t \in revoked
    BY DEF Next
  <2>1. Restart
    BY DEF Next, RegisterClient, Authorize, GithubCallback, ExchangeCode, ExchangeRefresh,
       UseAccess, RevokeToken, Tick
  <2>2. t \in Tokens /\ issued' = issued /\ memory' = {} /\ revoked' = {}
        /\ clients' = {} /\ now' = now /\ registered' = registered
    BY <2>1 DEF Restart, OauthInv, TypeOK
  <2>3. Accepted(t)' <=> t.exp > now /\ (t.kind = "refresh" \/ registered[t.client] > now)
    BY <2>2 DEF Tokens, Accepted, LoadAccessToken, LoadRefreshToken, Fresh, GetClient
  <2>4. Accepted(t) <=> Valid(t)
    BY AcceptedIsValid
  <2>5. t.kind \in {"access", "refresh"}
    BY DEF OauthInv, TypeOK, Tokens
  <2> QED
    BY <2>3, <2>4, <2>5 DEF Valid, GetClient
<1> QED
  BY <1>1, OauthInvariant, PTL DEF Spec, RestartKeepsSessions
=============================================================================
