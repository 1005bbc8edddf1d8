------------------------ MODULE InstanceRoutingProofs ------------------------
(* Proofs about InstanceRouting: what holds whatever happens to the config   *)
(* file, and what holds while it is left alone.                              *)
EXTENDS InstanceRouting, TLAPS

USE RoutingAssumption

\* RoutingInv survives every step (get_client, _resolve_odoo, the tools).
LEMMA RoutingStep == RoutingInv /\ [Next]_vars => RoutingInv'
<1> SUFFICES ASSUME RoutingInv, [Next]_vars PROVE RoutingInv'
  OBVIOUS
<1> USE DEF RoutingInv, TypeOK, Maybe, Kinds, Cached, Call, LockInv, NamedInv,
            NamedCallsAreExact, Given, Kind, Goto, shared
<1>1. ASSUME NEW c \in Threads, NEW n \in Maybe, StartRead(c, n)
      PROVE  RoutingInv'
  <2>1. TypeOK'
    BY <1>1 DEF StartRead, Route
  <2>2. LockInv'
    BY <1>1 DEF StartRead, Route
  <2>3. NamedInv'
    BY <1>1 DEF StartRead, Route
  <2>4. NamedCallsAreExact'
    BY <1>1 DEF StartRead, Route
  <2> QED
    BY <2>1, <2>2, <2>3, <2>4 DEF RoutingInv
<1>2. ASSUME NEW c \in Threads, NEW n \in Maybe, StartValidate(c, n)
      PROVE  RoutingInv'
  <2>1. TypeOK'
    BY <1>2 DEF StartValidate, Route, Resolved
  <2>2. LockInv'
    BY <1>2 DEF StartValidate, Route, Resolved
  <2>3. NamedInv'
    BY <1>2 DEF StartValidate, Route, Resolved
  <2>4. NamedCallsAreExact'
    BY <1>2 DEF StartValidate, Route, Resolved
  <2> QED
    BY <2>1, <2>2, <2>3, <2>4 DEF RoutingInv
<1>3. ASSUME NEW c \in Threads, NEW n \in Maybe, NEW refresh \in BOOLEAN,
             StartCatalog(c, n, refresh)
      PROVE  RoutingInv'
  <2>1. TypeOK'
    BY <1>3 DEF StartCatalog, Route, Resolved
  <2>2. LockInv'
    BY <1>3 DEF StartCatalog, Route, Resolved
  <2>3. NamedInv'
    BY <1>3 DEF StartCatalog, Route, Resolved
  <2>4. NamedCallsAreExact'
    BY <1>3 DEF StartCatalog, Route, Resolved
  <2> QED
    BY <2>1, <2>2, <2>3, <2>4 DEF RoutingInv
<1>4. ASSUME NEW c \in Threads, NEW n \in Names, StartExecute(c, n)
      PROVE  RoutingInv'
  <2>1. TypeOK'
    BY <1>4 DEF StartExecute
  <2>2. LockInv'
    BY <1>4 DEF StartExecute
  <2>3. NamedInv'
    BY <1>4 DEF StartExecute
  <2>4. NamedCallsAreExact'
    BY <1>4 DEF StartExecute
  <2> QED
    BY <2>1, <2>2, <2>3, <2>4 DEF RoutingInv
<1>5. ASSUME NEW c \in Threads, UseName(c) PROVE RoutingInv'
  BY <1>5 DEF UseName, NameIt
<1>6. ASSUME NEW c \in Threads, ReadName(c) PROVE RoutingInv'
  BY <1>6 DEF ReadName, NameIt
<1>7. ASSUME NEW c \in Threads, KeepName(c) PROVE RoutingInv'
  BY <1>7 DEF KeepName
<1>8. ASSUME NEW c \in Threads, UseDefault(c) PROVE RoutingInv'
  BY <1>8 DEF UseDefault
<1>9. ASSUME NEW c \in Threads, Connect(c) PROVE RoutingInv'
  BY <1>9 DEF Connect
<1>10. ASSUME NEW c \in Threads, Connected(c) PROVE RoutingInv'
  BY <1>10 DEF Connected
<1>11. ASSUME NEW c \in Threads, UseNamed(c) PROVE RoutingInv'
  BY <1>11 DEF UseNamed
<1>12. ASSUME NEW c \in Threads, Open(c) PROVE RoutingInv'
  BY <1>12 DEF Open
<1>13. ASSUME NEW c \in Threads, Opened(c) PROVE RoutingInv'
  BY <1>13 DEF Opened
<1>14. ASSUME NEW c \in Threads, ConnectFails(c) PROVE RoutingInv'
  BY <1>14 DEF ConnectFails, Return
<1>15. ASSUME NEW c \in Threads, FindFields(c) PROVE RoutingInv'
  BY <1>15 DEF FindFields, Return
<1>16. ASSUME NEW c \in Threads, Store(c) PROVE RoutingInv'
  BY <1>16 DEF Store, Return
<1>17. ASSUME NEW c \in Threads, Approve(c) PROVE RoutingInv'
  BY <1>17 DEF Approve, Return
<1>18. ASSUME NEW c \in Threads, Write(c) PROVE RoutingInv'
  BY <1>18 DEF Write, Return
<1>19. ASSUME NEW c \in Threads, RpcFails(c) PROVE RoutingInv'
  BY <1>19 DEF RpcFails, Return
<1>20. ASSUME Edit PROVE RoutingInv'
  BY <1>20 DEF Edit
<1>21. ASSUME NEW c \in Threads, Fetch(c) PROVE RoutingInv'
  BY <1>21 DEF Fetch
<1>22. ASSUME UNCHANGED vars PROVE RoutingInv'
  BY <1>22 DEF vars
<1> QED
  BY <1>1, <1>2, <1>3, <1>4, <1>5, <1>6, <1>7, <1>8, <1>9, <1>10, <1>11,
     <1>12, <1>13, <1>14, <1>15, <1>16, <1>17, <1>18, <1>19, <1>20, <1>21, <1>22
  DEF Next, Proceed

\* RoutingInv is an invariant, however often the config file is edited.
THEOREM RoutingInvariant == Spec => []RoutingInv
<1>1. Init => RoutingInv
  BY DEF Init, RoutingInv, TypeOK, Maybe, Kinds, Cached, Call, LockInv,
         NamedInv, NamedCallsAreExact, Given, Kind
<1> QED
  BY <1>1, RoutingStep, PTL DEF Spec

THEOREM TypeCorrect == Spec => []TypeOK
BY RoutingInvariant, PTL DEF RoutingInv

\* The lock of get_client makes one connection per named instance.
THEOREM OneConnectionPerName == Spec => []OneConnection
<1>1. RoutingInv => OneConnection
  <2> SUFFICES ASSUME RoutingInv, NEW n \in Names PROVE connects[n] <= 1
    BY DEF OneConnection
  <2>1. connects[n] \in {0, 1}
    BY DEF RoutingInv, LockInv
  <2> QED
    BY <2>1
<1> QED
  BY <1>1, RoutingInvariant, PTL

\* A call that names its instance is on it, whatever happens to the file.
THEOREM NamedCalls == Spec => []NamedCallsAreExact
BY RoutingInvariant, PTL DEF RoutingInv

\* A failed connection leaves no lock behind.
THEOREM LocksAreReleased == Spec => []LockIsReleased
<1>1. RoutingInv => LockIsReleased
  <2> SUFFICES ASSUME RoutingInv, holder # None PROVE pc[holder] = "opening"
    BY DEF LockIsReleased
  <2>1. holder \in Threads
    BY DEF RoutingInv, TypeOK
  <2> QED
    BY <2>1 DEF RoutingInv, LockInv
<1> QED
  BY <1>1, RoutingInvariant, PTL

\* Together: a name stands for one client.
THEOREM ExactNames == Spec => []NamesAreExact
BY OneConnectionPerName, LocksAreReleased, NamedCalls, PTL DEF NamesAreExact

-----------------------------------------------------------------------------
(* Until the config file is edited.                                        *)

\* Settled survives every step but an edit.
LEMMA SettledStep ==
  ASSUME TypeOK, LockInv, NamedInv, Settled, [Next]_vars, edits' = 0
  PROVE  Settled'
<1> USE DEF TypeOK, Maybe, Kinds, Cached, Call, LockInv, NamedInv, Settled,
        Given, Kind, Goto, shared
<1>1. ASSUME NEW c \in Threads, NEW n \in Maybe, StartRead(c, n) PROVE Settled'
  BY <1>1 DEF StartRead, Route
<1>2. ASSUME NEW c \in Threads, NEW n \in Maybe, StartValidate(c, n) PROVE Settled'
  BY <1>2 DEF StartValidate, Route, Resolved
<1>3. ASSUME NEW c \in Threads, NEW n \in Maybe, NEW refresh \in BOOLEAN,
             StartCatalog(c, n, refresh) PROVE Settled'
  BY <1>3 DEF StartCatalog, Route, Resolved
<1>4. ASSUME NEW c \in Threads, NEW n \in Names, StartExecute(c, n) PROVE Settled'
  BY <1>4 DEF StartExecute
<1>5. ASSUME NEW c \in Threads, UseName(c) PROVE Settled'
  BY <1>5 DEF UseName, NameIt
<1>6. ASSUME NEW c \in Threads, ReadName(c) PROVE Settled'
  BY <1>6 DEF ReadName, NameIt
<1>7. ASSUME NEW c \in Threads, KeepName(c) PROVE Settled'
  BY <1>7 DEF KeepName
<1>8. ASSUME NEW c \in Threads, UseDefault(c) PROVE Settled'
  BY <1>8 DEF UseDefault
<1>9. ASSUME NEW c \in Threads, Connect(c) PROVE Settled'
  BY <1>9 DEF Connect
<1>10. ASSUME NEW c \in Threads, Connected(c) PROVE Settled'
  BY <1>10 DEF Connected
<1>11. ASSUME NEW c \in Threads, UseNamed(c) PROVE Settled'
  BY <1>11 DEF UseNamed
<1>12. ASSUME NEW c \in Threads, Open(c) PROVE Settled'
  BY <1>12 DEF Open
<1>13. ASSUME NEW c \in Threads, Opened(c) PROVE Settled'
  BY <1>13 DEF Opened
<1>14. ASSUME NEW c \in Threads, ConnectFails(c) PROVE Settled'
  BY <1>14 DEF ConnectFails, Return
<1>15. ASSUME NEW c \in Threads, FindFields(c) PROVE Settled'
  BY <1>15 DEF FindFields, Return
<1>16. ASSUME NEW c \in Threads, Store(c) PROVE Settled'
  BY <1>16 DEF Store, Return
<1>17. ASSUME NEW c \in Threads, Approve(c) PROVE Settled'
  BY <1>17 DEF Approve, Return
<1>18. ASSUME NEW c \in Threads, Write(c) PROVE Settled'
  BY <1>18 DEF Write, Return
<1>19. ASSUME NEW c \in Threads, RpcFails(c) PROVE Settled'
  BY <1>19 DEF RpcFails, Return
<1>20. ~Edit
  BY DEF Edit
<1>21. ASSUME NEW c \in Threads, Fetch(c) PROVE Settled'
  BY <1>21 DEF Fetch
<1>22. ASSUME UNCHANGED vars PROVE Settled'
  BY <1>22 DEF vars
<1> QED
  BY <1>1, <1>2, <1>3, <1>4, <1>5, <1>6, <1>7, <1>8, <1>9, <1>10, <1>11, <1>12,
     <1>13, <1>14, <1>15, <1>16, <1>17, <1>18, <1>19, <1>20, <1>21, <1>22
  DEF Next, Proceed

\* Until an edit every call is on the instance it takes itself to be on.
LEMMA StableInvariant == Spec => []StableInv
<1>1. Init => StableInv
  BY DEF Init, StableInv, Settled, Given, Cached
<1>2. RoutingInv /\ StableInv /\ [Next]_vars => StableInv'
  <2> SUFFICES ASSUME RoutingInv, StableInv, [Next]_vars, edits' = 0 PROVE Settled'
    BY DEF StableInv
  <2>1. edits = 0
    <3>1. edits \in Nat
      BY DEF RoutingInv, TypeOK
    <3>2. CASE Edit
      BY <3>1, <3>2 DEF Edit
    <3>3. CASE UNCHANGED edits
      BY <3>3
    <3>4. Edit \/ UNCHANGED edits
      BY DEF Next, Proceed, vars, shared, StartRead, StartValidate, StartCatalog,
             StartExecute, UseName, ReadName, KeepName, UseDefault, Connect,
             Connected, UseNamed, Open, Opened, ConnectFails, FindFields, Fetch, Store,
             Approve, Write, RpcFails, Return
    <3> QED
      BY <3>2, <3>3, <3>4
  <2> QED
    BY <2>1, SettledStep DEF RoutingInv, StableInv
<1> QED
  BY <1>1, <1>2, RoutingInvariant, PTL DEF Spec

\* Until the file is edited, an approved write runs on the instance of its
\* approval ...
THEOREM StableWrites == Spec => []RunsUntilEdited
<1>1. StableInv => RunsUntilEdited
  BY DEF StableInv, Settled, RunsUntilEdited, RunsWhereApproved
<1> QED
  BY <1>1, StableInvariant, PTL

\* ... which was checked against that instance's metadata, ...
THEOREM StableApprovals == Spec => []ValidatedThere
<1>1. StableInv => ValidatedThere
  BY DEF StableInv, Settled, ValidatedThere
<1> QED
  BY <1>1, StableInvariant, PTL

\* ... and cached metadata is that of the instance in its key.
THEOREM StableSchema == Spec => []SchemaPartitioned
<1>1. StableInv => SchemaPartitioned
  BY DEF StableInv, Settled, SchemaPartitioned
<1> QED
  BY <1>1, StableInvariant, PTL

\* A read's records and its field policy belong to the same instance.
THEOREM StableReads == Spec => []OwnFieldPolicy
<1>1. StableInv => OwnFieldPolicy
  BY DEF StableInv, Settled, OwnFieldPolicy
<1> QED
  BY <1>1, StableInvariant, PTL

\* All four together: until the file is edited no call leaves its instance.
THEOREM StableCalls == Spec => []CallsKeepTheirInstance
BY StableWrites, StableApprovals, StableSchema, StableReads, PTL
   DEF CallsKeepTheirInstance

=============================================================================
