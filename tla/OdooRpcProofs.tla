---------------------------- MODULE OdooRpcProofs ----------------------------
(* Proofs about OdooRpc: its requests are bounded, and JSON-2 carries out a  *)
(* mutating call at most once.                                               *)
EXTENDS OdooRpc, TLAPS

USE RpcAssumption

\* The GETs an attempt has room for, and the requests, are numbers.
LEMMA RoomTyped ==
  /\ MaxGets \in Nat \ {0}
  /\ \A t : PerAttempt(t) \in Nat
<1>1. ASSUME NEW r \in Nat \ {0}, NEW l \in Nat \ {0} PROVE r * (l - 1) \in Nat
  OBVIOUS
<1>2. MaxGets \in Nat \ {0}
  BY <1>1 DEF MaxGets
<1> QED
  BY <1>2 DEF PerAttempt

\* One more attempt has room for one attempt's requests more.
LEMMA RoomGrows ==
  ASSUME NEW k \in Nat, NEW n \in Nat
  PROVE  k * n \in Nat /\ k * (n + 1) = k * n + k
OBVIOUS

\* A larger number of attempts has no less room.
LEMMA RoomMonotone ==
  ASSUME NEW k \in Nat, NEW n \in Nat, NEW m \in 0..n
  PROVE  k * m <= k * n
<1>1. k * (n - m) \in Nat /\ k * n = k * m + k * (n - m)
  OBVIOUS
<1>2. k * m \in Nat /\ k * n \in Nat
  OBVIOUS
<1> QED
  BY <1>1, <1>2

\* What the places visited allow, one more place allows, and one visit more.
LEMMA OneMorePlace ==
  ASSUME NEW l \in 0..MaxLocations, l < MaxLocations
  PROVE  /\ MaxRepeats * l \in Nat /\ MaxRepeats * l < MaxGets
         /\ MaxRepeats * l + 1 <= IF l + 1 < MaxLocations
                                  THEN MaxRepeats * (l + 1) ELSE MaxGets
<1>1. MaxRepeats * l \in Nat /\ MaxRepeats * (l + 1) = MaxRepeats * l + MaxRepeats
  BY RoomGrows
<1>2. l \in 0..(MaxLocations - 1) /\ MaxLocations - 1 \in Nat
  OBVIOUS
<1>3. MaxRepeats * l <= MaxRepeats * (MaxLocations - 1)
  BY <1>2, RoomMonotone
<1>4. MaxRepeats * (MaxLocations - 1) \in Nat
  BY <1>2, RoomGrows
<1>5. l + 1 = MaxLocations => MaxRepeats * l = MaxRepeats * (MaxLocations - 1)
  <2>1. l + 1 = MaxLocations => l = MaxLocations - 1
    OBVIOUS
  <2> QED
    BY <2>1
<1> QED
  BY <1>1, <1>3, <1>4, <1>5 DEF MaxGets

\* Whatever an attempt has been through, its requests had room.
LEMMA TurnsHaveRoom ==
  ASSUME RpcInv, NEW c \in Calls
  PROVE  Turns(c) \in Nat /\ Turns(c) <= PerAttempt(transport[c])
<1>1. /\ redirects[c] \in Nat /\ locations[c] \in 0..MaxLocations
      /\ resent[c] \in BOOLEAN /\ RedirectsBounded(c) /\ MaxGets \in Nat
  BY RoomTyped DEF RpcInv, TypeOK, PostInv, CallInv
<1>2. CASE transport[c] = "json2"
  <2>1. redirects[c] <= MaxGets
    <3>1. locations[c] < MaxLocations =>
            MaxRepeats * locations[c] \in Nat /\ MaxRepeats * locations[c] < MaxGets
      BY <1>1, OneMorePlace
    <3> QED
      BY <1>1, <1>2, <3>1 DEF RedirectsBounded
  <2> QED
    BY <1>1, <1>2, <2>1 DEF Turns, PerAttempt
<1>3. CASE transport[c] # "json2"
  BY <1>1, <1>3 DEF Turns, PerAttempt, RedirectsBounded
<1> QED
  BY <1>2, <1>3

\* The state of a call, and that a step leaves it alone.
Same(d) ==
  /\ transport'[d] = transport[d] /\ kind'[d] = kind[d] /\ pc'[d] = pc[d]
  /\ attempt'[d] = attempt[d] /\ redirects'[d] = redirects[d]
  /\ locations'[d] = locations[d] /\ resent'[d] = resent[d]
  /\ current'[d] = current[d] /\ late'[d] = late[d] /\ posts'[d] = posts[d]
  /\ applied'[d] = applied[d]

LEMMA OthersKept ==
  ASSUME NEW d, CallInv(d), Same(d) PROVE CallInv(d)'
BY DEF Same, CallInv, Turns, RedirectsBounded, PostedOncePerAttempt, PerAttempt

\* A step of one call keeps the account of every call if it keeps its own.
LEMMA OneCallMoves ==
  ASSUME RpcInv, NEW c \in Calls, TypeOK', CallInv(c)',
         \A d \in Calls \ {c} : Same(d)
  PROVE  RpcInv'
<1>1. ASSUME NEW d \in Calls, d # c PROVE CallInv(d)'
  BY <1>1, OthersKept DEF RpcInv, PostInv
<1> QED
  BY <1>1 DEF RpcInv, PostInv

\* An attempt that fails: the request given up on is counted as one Odoo may
\* still process, and the next attempt starts with nothing spent (_execute).
LEMMA FailsStep ==
  ASSUME RpcInv, NEW c \in Calls, pc[c] = "waiting", AttemptFails(c),
         current' = [current EXCEPT ![c] = "none"],
         late' = [late EXCEPT ![c] = IF current[c] = "sent" THEN @ + 1 ELSE @],
         UNCHANGED <<transport, kind, posts, applied>>
  PROVE  RpcInv'
<1>0. TypeOK /\ CallInv(c)
  BY DEF RpcInv, PostInv
<1> DEFINE P == PerAttempt(transport[c])
<1>1. P \in Nat /\ Turns(c) \in Nat /\ Turns(c) <= P /\ posts[c] <= P * attempt[c] + Turns(c)
  BY <1>0, RoomTyped, TurnsHaveRoom DEF CallInv
<1>2. /\ P * attempt[c] \in Nat /\ P * (attempt[c] + 1) = P * attempt[c] + P
      /\ posts[c] \in Nat /\ attempt[c] \in Nat
  <2>1. attempt[c] \in Nat /\ posts[c] \in Nat
    BY <1>0 DEF TypeOK
  <2> QED
    BY <1>1, <2>1, RoomGrows
<1>3. PerAttempt(transport[c])' = P
  BY DEF PerAttempt
<1>4. /\ late'[c] = IF current[c] = "sent" THEN late[c] + 1 ELSE late[c]
      /\ current'[c] = "none" /\ late[c] \in Nat /\ applied[c] \in Nat
      /\ current[c] \in {"none", "sent", "applied"}
  BY <1>0 DEF TypeOK
<1>5. late' \in [Calls -> Nat]
  BY <1>0 DEF TypeOK
<1> HIDE DEF P
<1>6. CASE kind[c] = "read" /\ attempt[c] < ExtraAttempts
  <2> USE <1>6 DEF AttemptFails
  <2>1. TypeOK'
    <3>1. attempt' \in [Calls -> 0..ExtraAttempts]
      <4>1. attempt[c] + 1 \in 0..ExtraAttempts
        BY <1>0 DEF TypeOK
      <4> QED
        BY <1>0, <4>1 DEF TypeOK
    <3>2. redirects' \in [Calls -> Nat] /\ locations' \in [Calls -> 0..MaxLocations]
      BY <1>0 DEF TypeOK
    <3>3. /\ resent' \in [Calls -> BOOLEAN]
          /\ current' \in [Calls -> {"none", "sent", "applied"}]
          /\ pc' \in [Calls -> {"idle", "sending", "waiting", "answered", "raised"}]
      BY <1>0 DEF TypeOK
    <3> QED
      BY <1>0, <1>5, <3>1, <3>2, <3>3 DEF TypeOK
  <2>2. /\ attempt'[c] = attempt[c] + 1 /\ redirects'[c] = 0 /\ locations'[c] = 0
        /\ resent'[c] = FALSE /\ pc'[c] = "sending" /\ kind'[c] = "read"
        /\ posts'[c] = posts[c] /\ applied'[c] = applied[c]
        /\ transport'[c] = transport[c]
    BY <1>0 DEF TypeOK
  <2>3. Turns(c)' = 0
    BY <2>2 DEF Turns
  <2>4. posts'[c] <= PerAttempt(transport[c])' * attempt'[c] + Turns(c)'
    <3>1. posts[c] <= P * (attempt[c] + 1)
      BY <1>1, <1>2
    <3>2. P * (attempt[c] + 1) \in Nat
      BY <1>1, <1>2
    <3> QED
      BY <1>2, <1>3, <2>2, <2>3, <3>1, <3>2
  <2>5. RedirectsBounded(c)'
    <3>1. MaxRepeats * 0 = 0 /\ MaxGets \in Nat
      BY RoomTyped
    <3> QED
      BY <2>2, <3>1 DEF RedirectsBounded
  <2>6. PostedOncePerAttempt(c)'
    BY <1>0, <1>2, <1>4, <2>2 DEF CallInv, PostedOncePerAttempt
  <2>7. CallInv(c)'
    BY <1>2, <1>4, <2>2, <2>4, <2>5, <2>6 DEF CallInv
  <2>8. \A d \in Calls \ {c} : Same(d)
    BY <1>0 DEF Same, TypeOK
  <2> QED
    BY <2>1, <2>7, <2>8, OneCallMoves
<1>7. CASE ~(kind[c] = "read" /\ attempt[c] < ExtraAttempts)
  <2> USE <1>7 DEF AttemptFails, Raise
  <2>1. TypeOK'
    BY <1>0, <1>5 DEF TypeOK
  <2>2. pc'[c] = "raised"
    BY <1>0 DEF TypeOK
  <2>3. Turns(c)' = Turns(c)
    BY <2>2 DEF Turns
  <2>4. RedirectsBounded(c)'
    BY <1>0 DEF CallInv, RedirectsBounded
  <2>5. PostedOncePerAttempt(c)'
    BY <1>0, <1>2, <1>4, <2>2 DEF CallInv, PostedOncePerAttempt
  <2>6. CallInv(c)'
    BY <1>0, <1>1, <1>3, <2>2, <2>3, <2>4, <2>5 DEF CallInv, P
  <2>7. \A d \in Calls \ {c} : Same(d)
    BY <1>0 DEF Same, TypeOK
  <2> QED
    BY <2>1, <2>6, <2>7, OneCallMoves
<1> QED
  BY <1>6, <1>7

\* What the proofs of the steps know of a call.
LEMMA CallFacts ==
  ASSUME RpcInv, NEW c \in Calls
  PROVE  /\ TypeOK /\ CallInv(c) /\ Turns(c) \in Nat
         /\ attempt[c] \in Nat /\ redirects[c] \in Nat
         /\ locations[c] \in 0..MaxLocations
         /\ resent[c] \in BOOLEAN /\ current[c] \in {"none", "sent", "applied"}
         /\ late[c] \in Nat /\ posts[c] \in Nat /\ applied[c] \in Nat
         /\ PerAttempt(transport[c]) \in Nat
         /\ PerAttempt(transport[c]) * attempt[c] \in Nat
<1>1. PerAttempt(transport[c]) \in Nat /\ attempt[c] \in Nat
  BY RoomTyped DEF RpcInv, TypeOK
<1>2. PerAttempt(transport[c]) * attempt[c] \in Nat
  BY <1>1, RoomGrows
<1> QED
  BY <1>1, <1>2, TurnsHaveRoom DEF RpcInv, TypeOK, PostInv

\* A step after which the call has made no more requests than before it: the
\* requests it had room for are the same.
LEMMA NoMoreRequests ==
  ASSUME RpcInv, NEW c \in Calls, TypeOK',
         transport'[c] = transport[c], attempt'[c] = attempt[c],
         kind'[c] = kind[c], posts'[c] = posts[c],
         pc'[c] # "idle", pc'[c] = "sending" => current'[c] = "none",
         Turns(c)' \in Nat, Turns(c)' >= Turns(c),
         RedirectsBounded(c)', PostedOncePerAttempt(c)',
         \A d \in Calls \ {c} : Same(d)
  PROVE  RpcInv'
<1> DEFINE R == PerAttempt(transport[c]) * attempt[c]
<1>1. R \in Nat /\ Turns(c) \in Nat /\ posts[c] \in Nat /\ CallInv(c)
  BY CallFacts
<1>2. PerAttempt(transport[c])' * attempt'[c] = R
  BY DEF PerAttempt
<1>3. posts[c] <= R + Turns(c)
  BY <1>1 DEF CallInv
<1> HIDE DEF R
<1>4. posts'[c] <= R + Turns(c)'
  BY <1>1, <1>3
<1>5. CallInv(c)'
  BY <1>1, <1>2, <1>4 DEF CallInv
<1> QED
  BY <1>5, OneCallMoves

\* Every step keeps the account of requests.
LEMMA RpcStep == RpcInv /\ [Next]_vars => RpcInv'
<1> SUFFICES ASSUME RpcInv, [Next]_vars PROVE RpcInv'
  OBVIOUS
<1>0. TypeOK
  BY DEF RpcInv
<1>1. ASSUME NEW c \in Calls, NEW k \in {"read", "mutate"}, NEW t \in Transports,
             Start(c, k, t) PROVE RpcInv'
  <2> USE <1>1 DEF Start
  <2>1. TypeOK'
    BY <1>0 DEF TypeOK, Transports
  <2>2. /\ transport'[c] = t /\ kind'[c] = k /\ pc'[c] = "sending"
        /\ attempt'[c] = 0 /\ redirects'[c] = 0 /\ locations'[c] = 0
        /\ resent'[c] = FALSE /\ current'[c] = "none" /\ posts'[c] = 0
        /\ applied'[c] = 0 /\ late'[c] = 0
    BY <1>0, CallFacts DEF TypeOK, CallInv
  <2>3. Turns(c)' = 0 /\ RedirectsBounded(c)' /\ PostedOncePerAttempt(c)'
    <3>1. MaxRepeats * 0 = 0 /\ MaxGets \in Nat
      BY RoomTyped
    <3> QED
      BY <2>2, <3>1 DEF Turns, RedirectsBounded, PostedOncePerAttempt
  <2>4. PerAttempt(transport[c])' \in Nat
    <3>1. PerAttempt(transport[c])' = PerAttempt(t)
      BY <2>2 DEF PerAttempt
    <3> QED
      BY <3>1, RoomTyped
  <2>5. PerAttempt(transport[c])' * attempt'[c] \in Nat
    BY <2>2, <2>4, RoomGrows
  <2>6. CallInv(c)'
    BY <2>2, <2>3, <2>5 DEF CallInv
  <2>7. \A d \in Calls \ {c} : Same(d)
    BY <1>0 DEF Same, TypeOK
  <2> QED
    BY <2>1, <2>6, <2>7, OneCallMoves
<1>2. ASSUME NEW c \in Calls, Post(c) PROVE RpcInv'
  <2> USE <1>2 DEF Post
  <2>1. TypeOK'
    <3>1. posts' \in [Calls -> Nat] /\ current' \in [Calls -> {"none", "sent", "applied"}]
      BY <1>0 DEF TypeOK
    <3> QED
      BY <1>0, <3>1 DEF TypeOK
  <2> DEFINE R == PerAttempt(transport[c]) * attempt[c]
  <2>2. R \in Nat /\ posts[c] <= R + Turns(c) /\ Turns(c) \in Nat /\ posts[c] \in Nat /\ CallInv(c)
    BY CallFacts DEF CallInv
  <2>3. /\ pc'[c] = "waiting" /\ posts'[c] = posts[c] + 1
        /\ current'[c] \in {"none", "sent"}
        /\ AsksForAPage(c) => current'[c] = "none"
    BY <1>0 DEF TypeOK
  <2>4. Turns(c)' = Turns(c) + 1
    BY <2>3, CallFacts DEF Turns
  <2>5. RedirectsBounded(c)'
    BY <2>2 DEF CallInv, RedirectsBounded
  <2>6. PostedOncePerAttempt(c)'
    <3> SUFFICES ASSUME transport[c] = "json2" PROVE PostedOncePerAttempt(c)'
      BY DEF PostedOncePerAttempt
    <3>1. /\ applied[c] + late[c] <= attempt[c] + (IF redirects[c] = 0 THEN 0 ELSE 1)
          /\ applied[c] \in Nat /\ late[c] \in Nat /\ attempt[c] \in Nat
          /\ redirects[c] \in Nat
      BY <2>2, CallFacts DEF CallInv, PostedOncePerAttempt
    <3>2. applied[c] + late[c] + (IF current'[c] = "sent" THEN 1 ELSE 0)
            <= attempt[c] + 1
      BY <2>3, <3>1 DEF AsksForAPage
    <3> QED
      BY <2>3, <3>2 DEF PostedOncePerAttempt
  <2>7. PerAttempt(transport[c])' * attempt'[c] = R
    BY DEF PerAttempt
  <2> HIDE DEF R
  <2>8. posts'[c] <= R + Turns(c)'
    BY <2>2, <2>3, <2>4
  <2>9. CallInv(c)'
    BY <2>2, <2>3, <2>5, <2>6, <2>7, <2>8 DEF CallInv
  <2>10. \A d \in Calls \ {c} : Same(d)
    BY <1>0 DEF Same, TypeOK
  <2> QED
    BY <2>1, <2>9, <2>10, OneCallMoves
<1>3. ASSUME NEW c \in Calls, Answer(c) PROVE RpcInv'
  <2> USE <1>3 DEF Answer
  <2>1. TypeOK' /\ pc'[c] = "answered"
    BY <1>0 DEF TypeOK
  <2>2. Turns(c)' = Turns(c) /\ RedirectsBounded(c)' /\ PostedOncePerAttempt(c)'
    BY <2>1, CallFacts DEF Turns, CallInv, RedirectsBounded, PostedOncePerAttempt
  <2>3. \A d \in Calls \ {c} : Same(d)
    BY <1>0 DEF Same, TypeOK
  <2> QED
    BY <2>1, <2>2, <2>3, CallFacts, NoMoreRequests
<1>4. ASSUME NEW c \in Calls, Refuse(c) PROVE RpcInv'
  <2> USE <1>4 DEF Refuse, Raise
  <2>1. TypeOK' /\ pc'[c] = "raised" /\ current'[c] = "none"
    BY <1>0 DEF TypeOK
  <2>2. Turns(c)' = Turns(c) /\ RedirectsBounded(c)'
    BY <2>1, CallFacts DEF Turns, CallInv, RedirectsBounded
  <2>3. PostedOncePerAttempt(c)'
    BY <2>1, CallFacts DEF CallInv, PostedOncePerAttempt
  <2>4. \A d \in Calls \ {c} : Same(d)
    BY <1>0 DEF Same, TypeOK
  <2> QED
    BY <2>1, <2>2, <2>3, <2>4, CallFacts, NoMoreRequests
<1>5. ASSUME NEW c \in Calls, TimeOut(c) PROVE RpcInv'
  BY <1>5, FailsStep DEF TimeOut, GiveUp
<1>6. ASSUME NEW c \in Calls, GiveUp(c), Raise(c), UNCHANGED <<transport, kind, posts, applied>>
      PROVE RpcInv'
  <2> USE <1>6 DEF GiveUp, Raise
  <2>1. TypeOK'
    <3>1. late' \in [Calls -> Nat]
      BY <1>0 DEF TypeOK
    <3> QED
      BY <1>0, <3>1 DEF TypeOK
  <2>2. /\ pc'[c] = "raised" /\ current'[c] = "none"
        /\ late'[c] = IF current[c] = "sent" THEN late[c] + 1 ELSE late[c]
    BY <1>0 DEF TypeOK
  <2>3. Turns(c)' = Turns(c) /\ RedirectsBounded(c)'
    BY <2>2, CallFacts DEF Turns, CallInv, RedirectsBounded
  <2>4. PostedOncePerAttempt(c)'
    BY <2>2, CallFacts DEF CallInv, PostedOncePerAttempt
  <2>5. \A d \in Calls \ {c} : Same(d)
    BY <1>0 DEF Same, TypeOK
  <2> QED
    BY <2>1, <2>2, <2>3, <2>4, <2>5, CallFacts, NoMoreRequests
<1>7. ASSUME NEW c \in Calls, BadGateway(c) PROVE RpcInv'
  BY <1>6, <1>7, FailsStep DEF BadGateway, GiveUp
<1>8. ASSUME NEW c \in Calls, Drop(c) PROVE RpcInv'
  <2>1. CASE transport[c] = "xmlrpc" /\ ~resent[c]
    <3> USE <1>8, <2>1 DEF Drop, GiveUp
    <3>1. TypeOK'
      <4>1. late' \in [Calls -> Nat]
        BY <1>0 DEF TypeOK
      <4> QED
        BY <1>0, <4>1 DEF TypeOK
    <3>2. pc'[c] = "sending" /\ current'[c] = "none" /\ resent'[c] = TRUE
      BY <1>0 DEF TypeOK
    <3>3. /\ Turns(c)' = Turns(c) /\ RedirectsBounded(c)' /\ PostedOncePerAttempt(c)'
      BY <3>2, CallFacts DEF Turns, CallInv, RedirectsBounded, PostedOncePerAttempt
    <3>4. \A d \in Calls \ {c} : Same(d)
      BY <1>0 DEF Same, TypeOK
    <3> QED
      BY <3>1, <3>2, <3>3, <3>4, CallFacts, NoMoreRequests
  <2>2. CASE ~(transport[c] = "xmlrpc" /\ ~resent[c])
    BY <1>8, <2>2, FailsStep DEF Drop, GiveUp
  <2> QED
    BY <2>1, <2>2
<1>9. ASSUME NEW c \in Calls, Redirect(c) PROVE RpcInv'
  <2>1. CASE redirects[c] + 1 < MaxRedirects
    <3> USE <1>9, <2>1 DEF Redirect
    <3>1. TypeOK'
      <4>1. redirects' \in [Calls -> Nat]
        BY <1>0 DEF TypeOK
      <4> QED
        BY <1>0, <4>1 DEF TypeOK
    <3>2. /\ pc'[c] = "sending" /\ current'[c] = "none" /\ resent'[c] = FALSE
          /\ redirects'[c] = redirects[c] + 1
      BY <1>0 DEF TypeOK
    <3>3. /\ Turns(c)' \in Nat /\ Turns(c)' >= Turns(c)
          /\ RedirectsBounded(c)' /\ PostedOncePerAttempt(c)'
      BY <3>2, CallFacts DEF Turns, RedirectsBounded, PostedOncePerAttempt
    <3>4. \A d \in Calls \ {c} : Same(d)
      BY <1>0 DEF Same, TypeOK
    <3> QED
      BY <3>1, <3>2, <3>3, <3>4, CallFacts, NoMoreRequests
  <2>2. CASE ~(redirects[c] + 1 < MaxRedirects)
    <3>1. /\ current' = [current EXCEPT ![c] = "none"]
          /\ late' = [late EXCEPT ![c] = IF current[c] = "sent" THEN @ + 1 ELSE @]
      BY <1>0, <1>9 DEF Redirect, TypeOK
    <3> QED
      BY <1>9, <2>2, <3>1, FailsStep DEF Redirect
  <2> QED
    BY <2>1, <2>2
<1>10. ASSUME NEW c \in Calls, RedirectToPage(c) PROVE RpcInv'
  <2>1. ASSUME NEW new \in {0, 1}, locations[c] < MaxLocations,
               new = 0 => redirects[c] < MaxRepeats * locations[c],
               redirects' = [redirects EXCEPT ![c] = @ + 1],
               locations' = [locations EXCEPT ![c] = @ + new],
               pc' = [pc EXCEPT ![c] = "sending"],
               UNCHANGED <<attempt, resent>>
        PROVE  RpcInv'
    <3> USE <1>10, <2>1 DEF RedirectToPage
    <3>1. TypeOK'
      <4>1. redirects' \in [Calls -> Nat]
        BY <1>0 DEF TypeOK
      <4>2. locations[c] + new \in 0..MaxLocations
        BY <1>0 DEF TypeOK
      <4>3. locations' \in [Calls -> 0..MaxLocations]
        BY <1>0, <4>2 DEF TypeOK
      <4> QED
        BY <1>0, <4>1, <4>3 DEF TypeOK
    <3>2. /\ pc'[c] = "sending" /\ current'[c] = "none" /\ transport'[c] = "json2"
          /\ redirects'[c] = redirects[c] + 1
          /\ locations'[c] = locations[c] + new /\ resent'[c] = resent[c]
      BY <1>0 DEF TypeOK
    <3>3. /\ Turns(c)' \in Nat /\ Turns(c)' >= Turns(c)
      BY <3>2, CallFacts DEF Turns
    <3>4. RedirectsBounded(c)'
      <4>1. ~resent[c] /\ redirects[c] <= MaxRepeats * locations[c] /\ redirects[c] \in Nat
        BY CallFacts DEF CallInv, RedirectsBounded
      <4>2. /\ MaxRepeats * locations[c] \in Nat
            /\ MaxRepeats * locations[c] + 1 <=
                 IF locations[c] + 1 < MaxLocations
                 THEN MaxRepeats * (locations[c] + 1) ELSE MaxGets
        BY CallFacts, OneMorePlace
      <4>3. CASE new = 0
        BY <3>2, <4>1, <4>2, <4>3, CallFacts DEF RedirectsBounded
      <4>4. CASE new = 1
        <5>1. locations'[c] = locations[c] + 1
          BY <3>2, <4>4
        <5>2. redirects'[c] <= IF locations'[c] < MaxLocations
                              THEN MaxRepeats * locations'[c] ELSE MaxGets
          <6>1. MaxGets \in Nat /\ MaxRepeats * (locations[c] + 1) \in Nat
            <7>1. locations[c] + 1 \in Nat
              BY CallFacts
            <7> QED
              BY <7>1, RoomTyped, RoomGrows
          <6> QED
            BY <3>2, <4>1, <4>2, <5>1, <6>1
        <5> QED
          BY <3>2, <4>1, <5>2 DEF RedirectsBounded
      <4> QED
        BY <4>3, <4>4
    <3>5. PostedOncePerAttempt(c)'
      BY <3>2, CallFacts DEF CallInv, PostedOncePerAttempt
    <3>6. \A d \in Calls \ {c} : Same(d)
      BY <1>0 DEF Same, TypeOK
    <3> QED
      BY <3>1, <3>2, <3>3, <3>4, <3>5, <3>6, CallFacts, NoMoreRequests
  <2>2. CASE Raise(c)
    <3> USE <1>10, <2>2 DEF RedirectToPage, Raise
    <3>1. TypeOK' /\ pc'[c] = "raised"
      BY <1>0 DEF TypeOK
    <3>2. /\ Turns(c)' = Turns(c) /\ RedirectsBounded(c)' /\ PostedOncePerAttempt(c)'
      BY <3>1, CallFacts DEF Turns, CallInv, RedirectsBounded, PostedOncePerAttempt
    <3>3. \A d \in Calls \ {c} : Same(d)
      BY <1>0 DEF Same, TypeOK
    <3> QED
      BY <3>1, <3>2, <3>3, CallFacts, NoMoreRequests
  <2> QED
    BY <1>10, <2>1, <2>2 DEF RedirectToPage
<1>11. ASSUME NEW c \in Calls, OdooApplies(c) PROVE RpcInv'
  <2> USE <1>11 DEF OdooApplies
  <2>1. TypeOK'
    <3>1. applied' \in [Calls -> Nat]
      BY <1>0 DEF TypeOK
    <3> QED
      BY <1>0, <3>1 DEF TypeOK
  <2>2. /\ current'[c] = "applied" /\ applied'[c] = applied[c] + 1
        /\ pc[c] # "idle" /\ pc[c] # "sending" /\ pc'[c] = pc[c]
    BY <1>0, CallFacts DEF TypeOK, CallInv
  <2>3. Turns(c)' = Turns(c) /\ RedirectsBounded(c)' /\ PostedOncePerAttempt(c)'
    BY <2>2, CallFacts DEF Turns, CallInv, RedirectsBounded, PostedOncePerAttempt
  <2>4. \A d \in Calls \ {c} : Same(d)
    BY <1>0 DEF Same, TypeOK
  <2> QED
    BY <2>1, <2>2, <2>3, <2>4, CallFacts, NoMoreRequests
<1>12. ASSUME NEW c \in Calls, ApplyLate(c) PROVE RpcInv'
  <2> USE <1>12 DEF ApplyLate
  <2>1. TypeOK'
    <3>1. applied' \in [Calls -> Nat] /\ late' \in [Calls -> Nat]
      BY <1>0 DEF TypeOK
    <3> QED
      BY <1>0, <3>1 DEF TypeOK
  <2>2. /\ late'[c] = late[c] - 1 /\ applied'[c] = applied[c] + 1
        /\ pc[c] # "idle" /\ pc'[c] = pc[c]
    BY <1>0, CallFacts DEF TypeOK, CallInv
  <2>3. Turns(c)' = Turns(c) /\ RedirectsBounded(c)' /\ PostedOncePerAttempt(c)'
    BY <2>2, CallFacts DEF Turns, CallInv, RedirectsBounded, PostedOncePerAttempt
  <2>4. \A d \in Calls \ {c} : Same(d)
    BY <1>0 DEF Same, TypeOK
  <2> QED
    BY <2>1, <2>2, <2>3, <2>4, CallFacts, NoMoreRequests DEF CallInv
<1>13. ASSUME UNCHANGED vars PROVE RpcInv'
  <2>1. TypeOK'
    BY <1>0, <1>13 DEF vars, TypeOK
  <2>2. \A d \in Calls : Same(d)
    BY <1>13 DEF vars, Same
  <2>3. ASSUME NEW d \in Calls PROVE CallInv(d)'
    BY <2>2, OthersKept DEF RpcInv, PostInv
  <2> QED
    BY <2>1, <2>3 DEF RpcInv, PostInv
<1>14. ASSUME NEW c \in Calls, Garbled(c) PROVE RpcInv'
  BY <1>6, <1>14 DEF Garbled
<1> QED
  BY <1>1, <1>2, <1>3, <1>4, <1>5, <1>7, <1>8, <1>9, <1>10, <1>11, <1>12, <1>13, <1>14
  DEF Next, Client

\* RpcInv is an invariant of the client.
THEOREM RpcInvariant == Spec => []RpcInv
<1>1. Init => RpcInv
  <2> SUFFICES ASSUME Init PROVE RpcInv
    OBVIOUS
  <2>1. TypeOK
    BY DEF Init, TypeOK
  <2>2. ASSUME NEW c \in Calls PROVE CallInv(c)
    <3>1. PerAttempt(transport[c]) \in Nat
      BY RoomTyped
    <3>2. PerAttempt(transport[c]) * 0 = 0
      BY <3>1
    <3> QED
      BY <3>2 DEF Init, CallInv, Turns, RedirectsBounded, PostedOncePerAttempt
  <2> QED
    BY <2>1, <2>2 DEF RpcInv, PostInv
<1> QED
  BY <1>1, RpcStep, PTL DEF Spec

THEOREM TypeCorrect == Spec => []TypeOK
BY RpcInvariant, PTL DEF RpcInv

\* A call puts a bounded number of requests on the wire, redirects of both
\* transports counted.
THEOREM RequestsAreBounded == Spec => []PostsBounded
<1>1. RpcInv => PostsBounded
  <2> SUFFICES ASSUME RpcInv, NEW c \in Calls
               PROVE  posts[c] <= PerAttempt(transport[c]) *
                                   (IF kind[c] = "read" THEN ExtraAttempts + 1 ELSE 1)
    BY DEF PostsBounded
  <2> DEFINE P == PerAttempt(transport[c])
  <2>0. /\ attempt[c] \in 0..ExtraAttempts /\ posts[c] \in Nat /\ CallInv(c)
        /\ P \in Nat /\ P * attempt[c] \in Nat
        /\ Turns(c) \in Nat /\ Turns(c) <= P
    BY CallFacts, TurnsHaveRoom DEF RpcInv, TypeOK
  <2>1. posts[c] <= P * attempt[c] + P
    BY <2>0 DEF CallInv
  <2> HIDE DEF P
  <2>2. P * (attempt[c] + 1) = P * attempt[c] + P
    BY <2>0, RoomGrows
  <2>3. CASE kind[c] = "read"
    <3>1. attempt[c] + 1 \in 0..(ExtraAttempts + 1) /\ ExtraAttempts + 1 \in Nat
      BY <2>0
    <3>2. P * (attempt[c] + 1) <= P * (ExtraAttempts + 1)
      BY <2>0, <3>1, RoomMonotone
    <3>3. P * (ExtraAttempts + 1) \in Nat
      BY <2>0, <3>1, RoomGrows
    <3>4. posts[c] <= P * (ExtraAttempts + 1)
      BY <2>0, <2>1, <2>2, <3>2, <3>3
    <3> QED
      BY <2>3, <3>4 DEF P
  <2>4. CASE kind[c] # "read"
    <3>1. attempt[c] = 0
      BY <2>0, <2>4 DEF CallInv
    <3>2. posts[c] <= P * 1
      BY <2>0, <2>1, <3>1
    <3> QED
      BY <2>4, <3>2 DEF P
  <2> QED
    BY <2>3, <2>4
<1> QED
  BY <1>1, RpcInvariant, PTL

\* Under JSON-2 no mutating call is carried out twice.
THEOREM JsonMutatesOnce == Spec => []Json2MutatesOnce
<1>1. RpcInv => Json2MutatesOnce
  <2> SUFFICES ASSUME RpcInv, NEW c \in Calls, kind[c] = "mutate",
                      transport[c] = "json2"
               PROVE  applied[c] <= 1
    BY DEF Json2MutatesOnce
  <2>1. attempt[c] = 0 /\ PostedOncePerAttempt(c)
    BY CallFacts DEF CallInv
  <2> QED
    BY <2>1, CallFacts DEF PostedOncePerAttempt
<1> QED
  BY <1>1, RpcInvariant, PTL
=============================================================================
