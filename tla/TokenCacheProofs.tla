-------------------------- MODULE TokenCacheProofs --------------------------
(* Theorems about TokenCache, for any number of calls and tokens, any bound  *)
(* on the cache and any TTL.                                                 *)
EXTENDS TokenCache, SequenceTheorems, TLAPS

Listed(k, keys) == \E i \in 1..Len(keys) : keys[i] = k

-----------------------------------------------------------------------------
(* The cache.                                                              *)

\* Popping a key from the dict leaves the others in it.
LEMMA WithoutKeepsOthers ==
  ASSUME order \in Seq(Tokens), NEW t \in Tokens
  PROVE  /\ Without(t) \in Seq(Tokens) /\ Len(Without(t)) <= Len(order)
         /\ \A k \in Tokens : k # t /\ Listed(k, order) => Listed(k, Without(t))
<1>1. CASE ~Listed(t, order)
  BY <1>1 DEF Without, Listed
<1>2. CASE Listed(t, order)
  <2> DEFINE j == CHOOSE i \in 1..Len(order) : order[i] = t
             front == SubSeq(order, 1, j - 1)
             back == SubSeq(order, j + 1, Len(order))
  <2>1. j \in 1..Len(order) /\ order[j] = t
    BY <1>2 DEF Listed
  <2>2. Without(t) = front \o back
    BY <1>2 DEF Without, Listed
  <2> HIDE DEF j
  <2>3. /\ front \in Seq(Tokens) /\ Len(front) = j - 1
        /\ \A i \in 1..(j - 1) : front[i] = order[i]
    BY <2>1, SubSeqProperties
  <2>4. /\ back \in Seq(Tokens) /\ Len(back) = Len(order) - j
        /\ \A i \in 1..(Len(order) - j) : back[i] = order[j + i]
    BY <2>1, SubSeqProperties
  <2> HIDE DEF front, back
  <2>a. /\ front \o back \in Seq(Tokens)
        /\ Len(front \o back) = Len(front) + Len(back)
        /\ \A i \in 1..(Len(front) + Len(back)) :
             (front \o back)[i] = IF i <= Len(front) THEN front[i]
                                  ELSE back[i - Len(front)]
    BY <2>3, <2>4, ConcatProperties
  <2>5. /\ front \o back \in Seq(Tokens)
        /\ Len(front \o back) = Len(order) - 1
    BY <2>1, <2>3, <2>4, <2>a
  <2> DEFINE rest == front \o back
  <2>7. \A i \in 1..(j - 1) : i \in 1..Len(rest) /\ rest[i] = order[i]
    BY <2>1, <2>3, <2>4, <2>5, <2>a
  <2>8. ASSUME NEW i \in (j + 1)..Len(order)
        PROVE  i - 1 \in 1..Len(rest) /\ rest[i - 1] = order[i]
    <3>1. i - 1 \in 1..(Len(front) + Len(back)) /\ ~(i - 1 <= Len(front))
      BY <2>1, <2>3, <2>4
    <3>2. (i - 1) - Len(front) = i - j /\ i - j \in 1..(Len(order) - j)
      BY <2>1, <2>3, <2>4
    <3>3. back[i - j] = order[j + (i - j)] /\ j + (i - j) = i
      BY <2>1, <2>4, <3>2
    <3> QED BY <2>5, <2>a, <3>1, <3>2, <3>3
  <2> HIDE DEF rest
  <2>6. ASSUME NEW k \in Tokens, k # t, NEW i \in 1..Len(order), order[i] = k
        PROVE  Listed(k, rest)
    <3>1. CASE i \in 1..(j - 1)
      BY <2>6, <2>7, <3>1 DEF Listed
    <3>2. CASE i \in (j + 1)..Len(order)
      <4>1. i - 1 \in 1..Len(rest) /\ rest[i - 1] = k
        BY <2>6, <2>8, <3>2
      <4> QED BY <4>1 DEF Listed
    <3> QED BY <2>1, <2>6, <3>1, <3>2
  <2>9. \A k \in Tokens : k # t /\ Listed(k, order) => Listed(k, rest)
    BY <2>6 DEF Listed
  <2> QED BY <2>1, <2>2, <2>5, <2>9 DEF rest
<1> QED BY <1>1, <1>2

\* Touching, purging and putting keep the dict what TypeOK says of it: no
\* entry without its key in the order, and no more keys than MaxEntries.
CacheOK ==
  /\ entry \in [Tokens -> Entries \union {None}]
  /\ order \in Seq(Tokens) /\ Len(order) <= MaxEntries
  /\ \A k \in Tokens : entry[k] # None => Listed(k, order)

LEMMA AppendLists ==
  ASSUME NEW keys \in Seq(Tokens), NEW t \in Tokens
  PROVE  /\ Append(keys, t) \in Seq(Tokens)
         /\ Len(Append(keys, t)) = Len(keys) + 1
         /\ Listed(t, Append(keys, t))
         /\ \A k \in Tokens : Listed(k, keys) => Listed(k, Append(keys, t))
<1>1. /\ Append(keys, t) \in Seq(Tokens)
      /\ Len(Append(keys, t)) = Len(keys) + 1
      /\ Append(keys, t)[Len(keys) + 1] = t
      /\ \A i \in 1..Len(keys) : Append(keys, t)[i] = keys[i]
  BY AppendProperties
<1>2. Len(keys) \in Nat
  OBVIOUS
<1> QED BY <1>1, <1>2 DEF Listed

LEMMA PurgeKeepsCache ==
  ASSUME CacheOK, NEW t \in Tokens, Purge(t)
  PROVE  CacheOK'
<1>1. /\ order' \in Seq(Tokens) /\ Len(order') <= Len(order)
      /\ \A k \in Tokens : k # t /\ Listed(k, order) => Listed(k, order')
  BY WithoutKeepsOthers DEF CacheOK, Purge
<1>2. Len(order) \in Nat /\ Len(order') \in Nat /\ MaxEntries \in Nat
  BY <1>1, TokenAssumption DEF CacheOK
<1>3. entry' = [entry EXCEPT ![t] = None]
  BY DEF Purge
<1> HIDE DEF Listed
<1> QED BY <1>1, <1>2, <1>3 DEF CacheOK

LEMMA PutKeepsCache ==
  ASSUME CacheOK, NEW t \in Tokens, NEW verdict \in Verdicts, now \in Nat,
         Put(t, verdict)
  PROVE  CacheOK'
<1> DEFINE keys == Append(Without(t), t)
           surplus == IF Len(keys) > MaxEntries
                      THEN Len(keys) - MaxEntries ELSE 0
<1>1. /\ keys \in Seq(Tokens) /\ Len(keys) \in Nat
      /\ Listed(t, keys)
      /\ \A k \in Tokens : Listed(k, order) => Listed(k, keys)
  BY WithoutKeepsOthers, AppendLists DEF CacheOK
<1>2. /\ order' = SubSeq(keys, surplus + 1, Len(keys))
      /\ entry' = [k \in Tokens |->
                     IF k \in {keys[i] : i \in 1..surplus} THEN None
                     ELSE IF k = t
                          THEN [verdict |-> verdict, until |-> now + TTL]
                          ELSE entry[k]]
  BY DEF Put
<1> HIDE DEF keys
<1>3. surplus \in 0..Len(keys) /\ Len(keys) - surplus <= MaxEntries
  BY <1>1, TokenAssumption
<1> HIDE DEF surplus
<1>4. /\ order' \in Seq(Tokens) /\ Len(order') = Len(keys) - surplus
      /\ \A i \in 1..(Len(keys) - surplus) : order'[i] = keys[surplus + i]
  BY <1>1, <1>2, <1>3, SubSeqProperties
<1>5. ASSUME NEW k \in Tokens, entry'[k] # None PROVE Listed(k, order')
  <2>1. k \notin {keys[i] : i \in 1..surplus}
    BY <1>2, <1>5
  <2>2. Listed(k, keys)
    BY <1>1, <1>2, <1>5 DEF CacheOK
  <2>3. PICK i \in 1..Len(keys) : keys[i] = k
    BY <2>2 DEF Listed
  <2>4. i - surplus \in 1..(Len(keys) - surplus) /\ surplus + (i - surplus) = i
    BY <1>1, <1>3, <2>1, <2>3
  <2> QED BY <1>4, <2>3, <2>4 DEF Listed
<1>6. entry' \in [Tokens -> Entries \union {None}]
  BY <1>2, TokenAssumption DEF CacheOK, Entries
<1> QED BY <1>1, <1>3, <1>4, <1>5, <1>6 DEF CacheOK
LEMMA TouchKeepsCache ==
  ASSUME CacheOK, NEW t \in Tokens, entry[t] # None, Touch(t)
  PROVE  CacheOK'
<1>1. /\ Without(t) \in Seq(Tokens) /\ Len(Without(t)) <= Len(order)
      /\ \A k \in Tokens : k # t /\ Listed(k, order) => Listed(k, Without(t))
  BY WithoutKeepsOthers DEF CacheOK
<1>2. Len(Without(t)) < Len(order)
  <2>1. PICK i \in 1..Len(order) : order[i] = t
    BY DEF CacheOK, Listed
  <2> DEFINE j == CHOOSE i0 \in 1..Len(order) : order[i0] = t
  <2>2. j \in 1..Len(order) /\ order[j] = t
    BY <2>1
  <2>3. Without(t) = SubSeq(order, 1, j - 1) \o SubSeq(order, j + 1, Len(order))
    BY <2>1 DEF Without
  <2> HIDE DEF j
  <2>4. /\ SubSeq(order, 1, j - 1) \in Seq(Tokens)
        /\ Len(SubSeq(order, 1, j - 1)) = j - 1
        /\ SubSeq(order, j + 1, Len(order)) \in Seq(Tokens)
        /\ Len(SubSeq(order, j + 1, Len(order))) = Len(order) - j
    BY <2>2, SubSeqProperties DEF CacheOK
  <2>5. Len(Without(t)) = (j - 1) + (Len(order) - j)
    BY <2>3, <2>4, ConcatProperties
  <2>6. Len(order) \in Nat
    BY DEF CacheOK
  <2> QED BY <2>2, <2>5, <2>6
<1>3. /\ order' \in Seq(Tokens) /\ Len(order') = Len(Without(t)) + 1
      /\ Listed(t, order')
      /\ \A k \in Tokens : Listed(k, Without(t)) => Listed(k, order')
  BY <1>1, AppendLists DEF Touch
<1>4. /\ Len(order) \in Nat /\ Len(Without(t)) \in Nat /\ MaxEntries \in Nat
  BY <1>1, TokenAssumption DEF CacheOK
<1>5. entry' = entry
  BY DEF Touch
<1> HIDE DEF Listed
<1> QED BY <1>1, <1>2, <1>3, <1>4, <1>5 DEF CacheOK

-----------------------------------------------------------------------------
(* Type correctness.                                                       *)

\* TypeOK without the cache.
CallTypes ==
  /\ now \in Nat
  /\ revoked \in [Tokens -> Time]
  /\ pc \in [Calls -> {"idle", "asking", "replied", "answered"}]
  /\ token \in [Calls -> Tokens \union {None}]
  /\ sent \in [Calls -> Time]
  /\ reply \in [Calls -> {"none", "active", "inactive"}]
  /\ answer \in [Calls -> Answers \union {None}]

LEMMA TypeParts == TypeOK <=> CallTypes /\ CacheOK
  BY DEF TypeOK, CallTypes, CacheOK, Listed

LEMMA InitInv == Init => TokenInv
<1> SUFFICES ASSUME Init PROVE TokenInv
  OBVIOUS
<1>1. TypeOK
  <2>1. <<>> \in Seq(Tokens) /\ Len(<<>>) = 0
    OBVIOUS
  <2> QED BY <2>1, TokenAssumption DEF Init, TypeOK, Time
<1>2. RevokedInv /\ EntryInv /\ CallInv
  BY DEF Init, RevokedInv, EntryInv, CallInv, Answered
<1> QED BY <1>1, <1>2 DEF TokenInv

\* Concluding a call stores a verdict of the type of verdicts, in a cache that
\* stays within its bound.
LEMMA ConcludeTypes ==
  ASSUME TokenInv, NEW c \in Calls, pc[c] \in {"asking", "replied"},
         NEW accepted \in BOOLEAN, NEW fault \in BOOLEAN,
         Conclude(c, accepted, fault)
  PROVE  CallTypes' /\ CacheOK'
<1> DEFINE verdict == [accepted |-> accepted, fault |-> fault, sent |-> sent[c],
                       stored |-> now]
<1>1. CallTypes /\ CacheOK
  BY TypeParts DEF TokenInv
<1>2. token[c] \in Tokens /\ sent[c] \in Nat
  BY DEF TokenInv, CallInv, Waiting
<1>3. verdict \in Verdicts
  BY <1>1, <1>2 DEF CallTypes, Verdicts
<1>4. CallTypes'
  <2>1. [verdict |-> verdict, at |-> now, cached |-> FALSE] \in Answers
    BY <1>1, <1>3 DEF CallTypes, Answers
  <2> HIDE DEF verdict
  <2>2. /\ pc' = [pc EXCEPT ![c] = "answered"]
        /\ answer' = [answer EXCEPT ![c] = [verdict |-> verdict, at |-> now,
                                            cached |-> FALSE]]
        /\ sent' = [sent EXCEPT ![c] = None]
        /\ reply' = [reply EXCEPT ![c] = "none"]
        /\ UNCHANGED <<now, revoked, token>>
    BY DEF Conclude, Return, verdict
  <2> QED BY <1>1, <2>1, <2>2 DEF CallTypes, Time
<1>5. CacheOK'
  <2>1. CASE TTL > 0
    <3>1. Put(token[c], verdict)
      BY <2>1 DEF Conclude
    <3> HIDE DEF verdict
    <3> QED BY <1>1, <1>2, <1>3, <3>1, PutKeepsCache DEF CallTypes
  <2>2. CASE ~(TTL > 0)
    BY <1>1, <2>2 DEF Conclude, CacheOK
  <2> QED BY <2>1, <2>2
<1> QED BY <1>4, <1>5

LEMMA TypeStep == TokenInv /\ [Next]_vars => TypeOK'
<1> SUFFICES ASSUME TokenInv, [Next]_vars PROVE CallTypes' /\ CacheOK'
  BY TypeParts DEF TypeOK, CallTypes, CacheOK, Listed
<1> USE DEF TokenInv
<1>0. CallTypes /\ CacheOK
  BY TypeParts
<1>1. ASSUME NEW c \in Calls, NEW t \in Tokens, Hit(c, t)
      PROVE  CallTypes' /\ CacheOK'
  <2>1. entry[t] # None /\ Touch(t)
    BY <1>1 DEF Hit, Fresh
  <2>2. CacheOK'
    BY <1>0, <2>1, TouchKeepsCache
  <2>3. [verdict |-> entry[t].verdict, at |-> now, cached |-> TRUE] \in Answers
    BY <1>0, <2>1 DEF CallTypes, CacheOK, Entries, Answers
  <2>4. CallTypes'
    BY <1>0, <1>1, <2>3 DEF Hit, Return, CallTypes
  <2> QED BY <2>2, <2>4
<1>2. ASSUME NEW c \in Calls, NEW t \in Tokens, Ask(c, t)
      PROVE  CallTypes' /\ CacheOK'
  <2>1. CacheOK'
    BY <1>0, <1>2, PurgeKeepsCache DEF Ask
  <2>2. CallTypes'
    BY <1>0, <1>2 DEF Ask, CallTypes, Time
  <2> QED BY <2>1, <2>2
<1>3. ASSUME NEW c \in Calls, Judge(c) PROVE CallTypes' /\ CacheOK'
  BY <1>3, ConcludeTypes DEF Judge, Accepts
<1>4. ASSUME NEW c \in Calls, Fail(c) PROVE CallTypes' /\ CacheOK'
  BY <1>4, ConcludeTypes DEF Fail
<1>5. ASSUME NEW c \in Calls, Introspect(c) PROVE CallTypes' /\ CacheOK'
  BY <1>0, <1>5 DEF Introspect, CallTypes, CacheOK
<1>6. ASSUME NEW t \in Tokens, Revoke(t) PROVE CallTypes' /\ CacheOK'
  BY <1>0, <1>6 DEF Revoke, CallTypes, CacheOK, Time
<1>7. CASE Tick
  BY <1>0, <1>7 DEF Tick, CallTypes, CacheOK
<1>8. CASE UNCHANGED vars
  BY <1>0, <1>8 DEF vars, CallTypes, CacheOK
<1> QED BY <1>1, <1>2, <1>3, <1>4, <1>5, <1>6, <1>7, <1>8 DEF Next
-----------------------------------------------------------------------------
(* Verdicts.                                                               *)

\* How time and the authorization server move on in a step.
Later ==
  /\ now' \in Nat /\ now' >= now
  /\ \A t \in Tokens : \/ revoked'[t] = revoked[t]
                       \/ revoked[t] = None /\ revoked'[t] = now

LEMMA StepsGoOn == TypeOK /\ [Next]_vars => Later
<1> SUFFICES ASSUME TypeOK, [Next]_vars PROVE Later
  OBVIOUS
<1>1. now \in Nat /\ revoked \in [Tokens -> Time]
  BY DEF TypeOK
<1>2. CASE UNCHANGED <<now, revoked>>
  BY <1>1, <1>2 DEF Later
<1>3. ASSUME NEW t \in Tokens, Revoke(t) PROVE Later
  BY <1>1, <1>3 DEF Revoke, Later
<1>4. CASE Tick
  BY <1>1, <1>4 DEF Tick, Later
<1> QED
  BY <1>2, <1>3, <1>4 DEF Next, Hit, Ask, Judge, Fail, Introspect, Conclude,
                          vars

\* A sound verdict stays sound: a revocation that comes after it is later than
\* its introspection, and what was revoked stays revoked.
LEMMA SoundForGood ==
  ASSUME TypeOK, Later, NEW t \in Tokens, NEW verdict \in Verdicts,
         Sound(t, verdict)
  PROVE  Sound(t, verdict)'
<1>1. /\ now \in Nat /\ now' \in Nat /\ now' >= now
      /\ revoked[t] \in Nat \union {None}
      /\ \/ revoked'[t] = revoked[t]
         \/ revoked[t] = None /\ revoked'[t] = now
  BY DEF TypeOK, Later, Time
<1>2. verdict.sent \in Nat /\ verdict.stored \in Nat
  BY DEF Verdicts
<1> QED BY <1>1, <1>2, TokenAssumption DEF Sound

\* What a concluding call stores and returns is sound.
LEMMA ConcludeSound ==
  ASSUME TokenInv, NEW c \in Calls, pc[c] \in {"asking", "replied"},
         NEW accepted \in BOOLEAN, NEW fault \in BOOLEAN,
         accepted => pc[c] = "replied" /\ Accepts(c),
         (~accepted /\ ~fault) => pc[c] = "replied" /\ ~Accepts(c)
  PROVE  LET verdict == [accepted |-> accepted, fault |-> fault,
                         sent |-> sent[c], stored |-> now]
         IN  verdict \in Verdicts /\ Sound(token[c], verdict)
<1> DEFINE verdict == [accepted |-> accepted, fault |-> fault, sent |-> sent[c],
                       stored |-> now]
<1>1. /\ Waiting(c) /\ now \in Nat
      /\ revoked[token[c]] # None => revoked[token[c]] <= now
  BY DEF TokenInv, TypeOK, CallInv, RevokedInv, Waiting
<1>2. verdict \in Verdicts
  BY <1>1 DEF Waiting, Verdicts
<1>3. accepted => /\ token[c] \in Ours
                  /\ revoked[token[c]] = None \/ revoked[token[c]] >= sent[c]
  BY <1>1 DEF Waiting, Accepts
<1>4. (~accepted /\ token[c] \in Ours) =>
        fault \/ (revoked[token[c]] # None /\ revoked[token[c]] <= now)
  <2>1. reply[c] \in {"none", "active", "inactive"}
    BY DEF TokenInv, TypeOK
  <2> QED BY <1>1, <2>1 DEF Waiting, Accepts
<1>5. Sound(token[c], verdict)
  BY <1>1, <1>3, <1>4 DEF Sound, Waiting
<1> QED BY <1>2, <1>5
-----------------------------------------------------------------------------
(* The entries of the cache and the calls, step by step.                   *)

\* An entry that is left as it was stays right.
LEMMA EntryKept ==
  ASSUME TokenInv, Later, NEW t \in Tokens,
         entry'[t] = entry[t] \/ entry'[t] = None
  PROVE  entry'[t] # None =>
           /\ Sound(t, entry[t].verdict)' /\ entry'[t] = entry[t]
           /\ entry'[t].until = entry'[t].verdict.stored + TTL
<1> SUFFICES ASSUME entry'[t] # None
             PROVE  /\ Sound(t, entry[t].verdict)' /\ entry'[t] = entry[t]
                    /\ entry'[t].until = entry'[t].verdict.stored + TTL
  OBVIOUS
<1>1. entry'[t] = entry[t] /\ entry[t] \in Entries
  BY DEF TokenInv, TypeOK
<1>2. entry[t].verdict \in Verdicts /\ Sound(t, entry[t].verdict)
  BY <1>1 DEF TokenInv, EntryInv, Entries
<1>3. ASSUME NEW v \in Verdicts, Sound(t, v) PROVE Sound(t, v)'
  BY <1>3, SoundForGood DEF TokenInv
<1>4. PICK v \in Verdicts : v = entry[t].verdict
  BY <1>2
<1>5. Sound(t, v)'
  BY <1>2, <1>3, <1>4
<1> QED BY <1>1, <1>4, <1>5 DEF TokenInv, EntryInv, Sound

\* A call the step does not touch keeps what it knows.
LEMMA CallKept ==
  ASSUME TokenInv, Later, NEW c \in Calls,
         pc'[c] = pc[c], token'[c] = token[c], sent'[c] = sent[c],
         reply'[c] = reply[c], answer'[c] = answer[c]
  PROVE  /\ pc'[c] \in {"asking", "replied"} => Waiting(c)'
         /\ pc'[c] = "answered" => Returned(c)'
<1>1. ASSUME pc'[c] \in {"asking", "replied"} PROVE Waiting(c)'
  <2>1. Waiting(c)
    BY <1>1 DEF TokenInv, CallInv
  <2>2. /\ now \in Nat /\ now' \in Nat /\ now' >= now /\ sent[c] \in Nat
        /\ token[c] \in Tokens
        /\ revoked[token[c]] \in Nat \union {None}
        /\ \/ revoked'[token[c]] = revoked[token[c]]
           \/ revoked[token[c]] = None /\ revoked'[token[c]] = now
    BY <2>1 DEF TokenInv, TypeOK, Waiting, Later, Time
  <2> QED BY <1>1, <2>1, <2>2, TokenAssumption DEF Waiting
<1>2. ASSUME pc'[c] = "answered" PROVE Returned(c)'
  <2>1. Returned(c)
    BY <1>2 DEF TokenInv, CallInv, Answered
  <2>2. PICK v \in Verdicts : v = answer[c].verdict
    BY <2>1 DEF Returned, Answers
  <2>3. PICK t \in Tokens : t = token[c]
    BY <2>1 DEF Returned
  <2>4. Sound(t, v)
    BY <2>1, <2>2, <2>3 DEF Returned
  <2>5. Sound(t, v)'
    BY <2>4, SoundForGood DEF TokenInv
  <2> QED BY <2>1, <2>2, <2>3, <2>5 DEF Returned, Sound
<1> QED BY <1>1, <1>2
\* When a call concludes, the entry of its token may become the new verdict;
\* other entries stay or are evicted.
LEMMA ConcludeEntries ==
  ASSUME TokenInv, NEW c \in Calls, pc[c] \in {"asking", "replied"},
         NEW accepted \in BOOLEAN, NEW fault \in BOOLEAN,
         Conclude(c, accepted, fault), NEW t \in Tokens
  PROVE  \/ entry'[t] = entry[t] \/ entry'[t] = None
         \/ t = token[c] /\ entry'[t] = [verdict |->
                              [accepted |-> accepted, fault |-> fault,
                               sent |-> sent[c], stored |-> now],
                              until |-> now + TTL]
<1> DEFINE verdict == [accepted |-> accepted, fault |-> fault, sent |-> sent[c],
                       stored |-> now]
<1>1. CASE TTL > 0
  <2>1. Put(token[c], verdict)
    BY <1>1 DEF Conclude
  <2> HIDE DEF verdict
  <2>2. \/ entry'[t] = entry[t] \/ entry'[t] = None
        \/ /\ t = token[c]
           /\ entry'[t] = [verdict |-> verdict, until |-> now + TTL]
    BY <2>1 DEF Put
  <2> QED BY <2>2 DEF verdict
<1>2. CASE ~(TTL > 0)
  BY <1>2 DEF Conclude
<1> QED BY <1>1, <1>2

\* A call that concludes leaves the cache and its own answer sound, and the
\* other calls alone.
LEMMA ConcludeStep ==
  ASSUME TokenInv, Later, NEW c \in Calls, pc[c] \in {"asking", "replied"},
         NEW accepted \in BOOLEAN, NEW fault \in BOOLEAN,
         accepted => pc[c] = "replied" /\ Accepts(c),
         (~accepted /\ ~fault) => pc[c] = "replied" /\ ~Accepts(c),
         Conclude(c, accepted, fault)
  PROVE  EntryInv' /\ CallInv'
<1> DEFINE verdict == [accepted |-> accepted, fault |-> fault, sent |-> sent[c],
                       stored |-> now]
<1>1. verdict \in Verdicts /\ Sound(token[c], verdict)
  BY ConcludeSound
<1>2. /\ token[c] \in Tokens /\ now \in Nat
      /\ pc \in [Calls -> {"idle", "asking", "replied", "answered"}]
      /\ answer \in [Calls -> Answers \union {None}] /\ sent \in [Calls -> Time]
      /\ reply \in [Calls -> {"none", "active", "inactive"}]
  BY DEF TokenInv, TypeOK, CallInv, Waiting
<1>3. /\ pc' = [pc EXCEPT ![c] = "answered"]
      /\ answer' = [answer EXCEPT ![c] = [verdict |-> verdict, at |-> now,
                                          cached |-> FALSE]]
      /\ sent' = [sent EXCEPT ![c] = None]
      /\ reply' = [reply EXCEPT ![c] = "none"]
      /\ UNCHANGED <<now, revoked, token>>
  BY DEF Conclude, Return
<1>4. \A t \in Tokens : \/ entry'[t] = entry[t] \/ entry'[t] = None
                        \/ /\ t = token[c]
                           /\ entry'[t] = [verdict |-> verdict,
                                           until |-> now + TTL]
  BY ConcludeEntries
<1>5. verdict.stored = now
  OBVIOUS
<1> HIDE DEF verdict
<1>6. EntryInv'
  <2> SUFFICES ASSUME NEW t \in Tokens, entry'[t] # None
               PROVE  /\ Sound(t, entry[t].verdict)'
                      /\ entry'[t].until = entry'[t].verdict.stored + TTL
    BY DEF EntryInv
  <2>1. CASE entry'[t] = entry[t] \/ entry'[t] = None
    BY <2>1, EntryKept
  <2>2. CASE /\ t = token[c]
             /\ entry'[t] = [verdict |-> verdict, until |-> now + TTL]
    BY <1>1, <1>3, <1>5, <2>2 DEF Sound
  <2> QED BY <1>4, <2>1, <2>2
<1>7. CallInv'
  <2> SUFFICES ASSUME NEW d \in Calls
               PROVE  /\ pc'[d] \in {"asking", "replied"} => Waiting(d)'
                      /\ pc'[d] = "answered" => Returned(d)'
    BY DEF CallInv, Answered
  <2>1. CASE d = c
    <3>1. pc'[c] = "answered" /\ token'[c] = token[c]
          /\ answer'[c] = [verdict |-> verdict, at |-> now, cached |-> FALSE]
      BY <1>2, <1>3
    <3>2. answer'[c] \in Answers
      BY <1>1, <1>2, <3>1 DEF Answers
    <3>3. PICK v \in Verdicts : v = verdict
      BY <1>1
    <3>4. Sound(token[c], v) /\ v.stored = now
      BY <1>1, <1>5, <3>3
    <3>5. answer'[c].verdict = v /\ answer'[c].at = now /\ ~answer'[c].cached
      BY <3>1, <3>3
    <3> QED BY <1>2, <1>3, <2>1, <3>1, <3>2, <3>4, <3>5 DEF Returned, Sound
  <2>2. CASE d # c
    BY <1>2, <1>3, <2>2, CallKept
  <2> QED BY <2>1, <2>2
<1> QED BY <1>6, <1>7

LEMMA InvStep == TokenInv /\ [Next]_vars => TokenInv'
<1> SUFFICES ASSUME TokenInv, [Next]_vars
             PROVE  TypeOK' /\ RevokedInv' /\ EntryInv' /\ CallInv'
  BY DEF TokenInv
<1>1. TypeOK' /\ Later
  BY TypeStep, StepsGoOn DEF TokenInv
<1>2. RevokedInv'
  <2> SUFFICES ASSUME NEW t \in Tokens, revoked'[t] # None
               PROVE  revoked'[t] <= now'
    BY DEF RevokedInv
  <2>1. /\ now \in Nat /\ now' \in Nat /\ now' >= now
        /\ revoked[t] \in Nat \union {None}
        /\ revoked[t] # None => revoked[t] <= now
    BY <1>1 DEF TokenInv, TypeOK, RevokedInv, Later, Time
  <2>2. revoked'[t] = revoked[t] \/ revoked'[t] = now
    BY <1>1 DEF Later
  <2> QED BY <2>1, <2>2
<1>t. /\ pc \in [Calls -> {"idle", "asking", "replied", "answered"}]
      /\ token \in [Calls -> Tokens \union {None}]
      /\ sent \in [Calls -> Time] /\ now \in Nat
      /\ reply \in [Calls -> {"none", "active", "inactive"}]
      /\ answer \in [Calls -> Answers \union {None}]
      /\ entry \in [Tokens -> Entries \union {None}]
      /\ revoked \in [Tokens -> Time]
  BY DEF TokenInv, TypeOK
<1>e. ASSUME \A t \in Tokens : entry'[t] = entry[t] \/ entry'[t] = None
      PROVE  EntryInv'
  BY <1>1, <1>e, EntryKept DEF EntryInv
<1>3. ASSUME NEW c \in Calls, NEW t \in Tokens, Hit(c, t)
      PROVE  EntryInv' /\ CallInv'
  <2>1. EntryInv'
    BY <1>e, <1>3 DEF Hit, Touch
  <2> SUFFICES ASSUME NEW d \in Calls
               PROVE  /\ pc'[d] \in {"asking", "replied"} => Waiting(d)'
                      /\ pc'[d] = "answered" => Returned(d)'
    BY <2>1 DEF CallInv, Answered
  <2>2. CASE d = c
    <3>1. entry[t] \in Entries /\ now < entry[t].until
      BY <1>t, <1>3 DEF Hit, Fresh
    <3>2. PICK v \in Verdicts : v = entry[t].verdict
      BY <3>1 DEF Entries
    <3>3. Sound(t, v) /\ entry[t].until = v.stored + TTL
      BY <1>3, <3>2 DEF TokenInv, EntryInv, Hit, Fresh
    <3>4. /\ pc'[c] = "answered" /\ token'[c] = t /\ now' = now
          /\ revoked' = revoked
          /\ answer'[c] = [verdict |-> v, at |-> now, cached |-> TRUE]
      BY <1>t, <1>3, <3>2 DEF Hit, Return
    <3>5. answer'[c] \in Answers
      BY <1>t, <3>4 DEF Answers
    <3> QED BY <2>2, <3>1, <3>3, <3>4, <3>5 DEF Returned, Sound
  <2>3. CASE d # c
    BY <1>t, <1>1, <1>3, <2>3, CallKept DEF Hit, Return
  <2> QED BY <2>2, <2>3
<1>4. ASSUME NEW c \in Calls, NEW t \in Tokens, Ask(c, t)
      PROVE  EntryInv' /\ CallInv'
  <2>1. EntryInv'
    BY <1>t, <1>e, <1>4 DEF Ask, Purge
  <2> SUFFICES ASSUME NEW d \in Calls
               PROVE  /\ pc'[d] \in {"asking", "replied"} => Waiting(d)'
                      /\ pc'[d] = "answered" => Returned(d)'
    BY <2>1 DEF CallInv, Answered
  <2>2. CASE d = c
    <3>1. /\ pc'[c] = "asking" /\ token'[c] = t /\ sent'[c] = now /\ now' = now
          /\ revoked' = revoked /\ reply' = reply
      BY <1>t, <1>4 DEF Ask
    <3>2. revoked[t] # None => revoked[t] <= now
      BY DEF TokenInv, RevokedInv
    <3> QED BY <1>t, <2>2, <3>1, <3>2 DEF Waiting
  <2>3. CASE d # c
    BY <1>t, <1>1, <1>4, <2>3, CallKept DEF Ask
  <2> QED BY <2>2, <2>3
<1>5. ASSUME NEW c \in Calls, Judge(c) PROVE EntryInv' /\ CallInv'
  BY <1>1, <1>5, ConcludeStep DEF Judge, Accepts
<1>6. ASSUME NEW c \in Calls, Fail(c) PROVE EntryInv' /\ CallInv'
  BY <1>1, <1>6, ConcludeStep DEF Fail
<1>7. ASSUME NEW c \in Calls, Introspect(c) PROVE EntryInv' /\ CallInv'
  <2>1. EntryInv'
    BY <1>e, <1>7 DEF Introspect
  <2> SUFFICES ASSUME NEW d \in Calls
               PROVE  /\ pc'[d] \in {"asking", "replied"} => Waiting(d)'
                      /\ pc'[d] = "answered" => Returned(d)'
    BY <2>1 DEF CallInv, Answered
  <2>2. CASE d = c
    <3>1. Waiting(c)
      BY <1>7 DEF TokenInv, CallInv, Introspect
    <3>2. /\ pc'[c] = "replied" /\ now' = now /\ revoked' = revoked
          /\ token' = token /\ sent' = sent
          /\ reply'[c] = IF revoked[token[c]] = None
                         THEN "active" ELSE "inactive"
      BY <1>t, <1>7 DEF Introspect
    <3> QED BY <2>2, <3>1, <3>2 DEF Waiting
  <2>3. CASE d # c
    BY <1>t, <1>1, <1>7, <2>3, CallKept DEF Introspect
  <2> QED BY <2>2, <2>3
<1>8. CASE (\E t \in Tokens : Revoke(t)) \/ Tick \/ UNCHANGED vars
  <2>1. /\ entry' = entry /\ pc' = pc /\ token' = token /\ sent' = sent
        /\ reply' = reply /\ answer' = answer
    BY <1>8 DEF Revoke, Tick, vars
  <2>2. EntryInv'
    BY <1>e, <2>1
  <2>3. CallInv'
    BY <1>1, <2>1, CallKept DEF CallInv, Answered
  <2> QED BY <1>1, <1>2, <2>2, <2>3
<1> QED BY <1>1, <1>2, <1>3, <1>4, <1>5, <1>6, <1>7, <1>8 DEF Next

-----------------------------------------------------------------------------
(* The theorems.                                                           *)

\* The inductive invariant holds in every reachable state.
THEOREM TokenInvariant == Spec => []TokenInv
  BY InitInv, InvStep, PTL DEF Spec

\* Type correctness, with the cache within its bound.
THEOREM TypeCorrect == Spec => []TypeOK
  BY TokenInvariant, PTL DEF TokenInv

\* No token is accepted on an introspection sent after its revocation, and none
\* that is meant for another server, whatever order the answers come in.
THEOREM RevocationIsSeen == Spec => []AcceptedWasActive
<1>1. TokenInv => AcceptedWasActive
  BY DEF TokenInv, CallInv, Answered, Accepted, Returned, Sound,
         AcceptedWasActive
<1> QED BY <1>1, TokenInvariant, PTL

\* No verdict is served TTL or more after it was stored.
THEOREM VerdictsAreForgotten == Spec => []VerdictsExpire
<1>1. TokenInv => VerdictsExpire
  BY DEF TokenInv, CallInv, Answered, Returned, VerdictsExpire
<1> QED BY <1>1, TokenInvariant, PTL

\* A token of this server is turned away only for a revocation or a failed
\* introspection.
THEOREM RejectionsAreJustified == Spec => []RejectedForAReason
<1>1. TokenInv => RejectedForAReason
  <2> SUFFICES ASSUME TokenInv, NEW c \in Calls, Answered(c), ~Accepted(c),
                      token[c] \in Ours, ~answer[c].verdict.fault
               PROVE  /\ revoked[token[c]] # None
                      /\ revoked[token[c]] <= answer[c].at
    BY DEF RejectedForAReason
  <2>1. Returned(c)
    BY DEF TokenInv, CallInv
  <2>2. /\ answer[c].verdict.stored \in Nat /\ answer[c].at \in Nat
        /\ revoked[token[c]] \in Nat \union {None}
    BY <2>1 DEF TokenInv, TypeOK, Returned, Answers, Verdicts, Time
  <2>3. /\ revoked[token[c]] # None
        /\ revoked[token[c]] <= answer[c].verdict.stored
    BY <2>1 DEF Returned, Sound, Accepted
  <2> QED BY <2>1, <2>2, <2>3 DEF Returned
<1> QED BY <1>1, TokenInvariant, PTL

\* All three together, for any number of calls, tokens and cache sizes.
THEOREM VerdictsAreJustified == Spec => []VerdictsAreSound
BY RevocationIsSeen, VerdictsAreForgotten, RejectionsAreJustified, PTL
   DEF VerdictsAreSound

=============================================================================
