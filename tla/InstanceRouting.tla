--------------------------- MODULE InstanceRouting ---------------------------
(***************************************************************************)
(* Which Odoo instance a tool call ends up on: the config file, which every *)
(* lookup reads again, the default instance's name and client, which       *)
(* AppContext caches, the named clients behind _clients_lock, and the      *)
(* per-instance schema cache they fill.                                    *)
(*                                                                         *)
(* A client is written as the instance it is connected to, metadata as the *)
(* instance it was fetched from.  Tool calls run on worker threads, each   *)
(* of which serves one call after another.  The config file may be edited  *)
(* MaxEdits times while the process runs.                                  *)
(***************************************************************************)
EXTENDS Naturals

CONSTANTS
  Names,    \* configured instances
  Threads,  \* worker threads, each with the tool call it is serving
  None,     \* "not set", and the instance argument left out
  MaxEdits  \* how often the default of the config file changes

Maybe == Names \union {None}
Kinds == {"read", "catalog", "validate", "execute"}
Cached == {"read", "catalog"}

\* The tool that is called and its instance argument.
Call == [kind: Kinds, instance: Maybe]

ASSUME RoutingAssumption ==
  MaxEdits \in Nat /\ None \notin Names \union Threads \union Call

VARIABLES
  default,        \* the "default" of the config file
  edits,          \* how often it was changed
  defaultName,    \* AppContext._default_instance_name
  defaultClient,  \* AppContext._odoo
  clients,        \* AppContext._clients
  holder,         \* who holds _clients_lock
  schema,         \* schema_cache, per tool and instance
  approved,       \* approvals: instance of the payload -> source of metadata
  call,           \* what each call was called with
  pc,             \* where each call is
  name,           \* the instance the call takes itself to be on
  seen,           \* the default it read from the config file and has not used
  client,         \* the client it was given
  connects        \* history: the clients get_client built, per instance

vars == <<default, edits, defaultName, defaultClient, clients, holder, schema,
          approved, call, pc, name, seen, client, connects>>

shared == <<default, edits, defaultName, defaultClient, clients, holder,
            schema, approved, connects>>

TypeOK ==
  /\ default \in Names /\ edits \in 0..MaxEdits
  /\ defaultName \in Maybe /\ defaultClient \in Maybe
  /\ clients \in SUBSET Names /\ holder \in Threads \union {None}
  /\ schema \in [Cached -> [Names -> Maybe]]
  /\ approved \in [Names -> Maybe]
  /\ call \in [Threads -> Call \union {None}]
  /\ pc \in [Threads -> {"idle", "naming", "keeping", "default", "connecting",
                       "named", "opening", "ready", "fetching"}]
  /\ name \in [Threads -> Maybe] /\ seen \in [Threads -> Maybe]
  /\ client \in [Threads -> Maybe]
  /\ connects \in [Names -> Nat]

Init ==
  /\ default \in Names /\ edits = 0
  /\ defaultName = None /\ defaultClient = None
  /\ clients = {} /\ holder = None
  /\ schema = [k \in Cached |-> [n \in Names |-> None]]
  /\ approved = [n \in Names |-> None]
  /\ call = [c \in Threads |-> None] /\ pc = [c \in Threads |-> "idle"]
  /\ name = [c \in Threads |-> None] /\ seen = [c \in Threads |-> None]
  /\ client = [c \in Threads |-> None]
  /\ connects = [n \in Names |-> 0]

Goto(c, label) == pc' = [pc EXCEPT ![c] = label]

\* The call is answered, well or with an error, and its thread is free.
Return(c) ==
  /\ call' = [call EXCEPT ![c] = None] /\ name' = [name EXCEPT ![c] = None]
  /\ seen' = [seen EXCEPT ![c] = None] /\ client' = [client EXCEPT ![c] = None]
  /\ Goto(c, "idle")

-----------------------------------------------------------------------------
(* A call starts.                                                          *)

\* resolve_instance_name: the argument, or the default read from the file.
Resolved(n) == IF n = None THEN default ELSE n

\* Where _resolve_odoo goes on: the cached default, or a named client.
Route(n) == IF n = None THEN "naming" ELSE "named"

\* search_records and its kin: the name comes from _resolve_odoo.
StartRead(c, n) ==
  /\ pc[c] = "idle"
  /\ call' = [call EXCEPT ![c] = [kind |-> "read", instance |-> n]]
  /\ name' = [name EXCEPT ![c] = n]
  /\ Goto(c, Route(n))
  /\ UNCHANGED <<shared, seen, client>>

\* validate_write: the name of the payload is resolved from the file.
StartValidate(c, n) ==
  /\ pc[c] = "idle"
  /\ call' = [call EXCEPT ![c] = [kind |-> "validate", instance |-> n]]
  /\ name' = [name EXCEPT ![c] = Resolved(n)]
  /\ Goto(c, Route(n))
  /\ UNCHANGED <<shared, seen, client>>

\* schema_catalog: so is the key of the cache.  What is in the cache is
\* answered at once, unless the caller asked for a refresh.
StartCatalog(c, n, refresh) ==
  /\ pc[c] = "idle"
  /\ refresh \/ schema["catalog"][Resolved(n)] = None
  /\ call' = [call EXCEPT ![c] = [kind |-> "catalog", instance |-> n]]
  /\ name' = [name EXCEPT ![c] = Resolved(n)]
  /\ Goto(c, Route(n))
  /\ UNCHANGED <<shared, seen, client>>

\* Mutant: execution ignores the instance of the approval.
StartExecute_OnDefault(c, n) ==
  /\ pc[c] = "idle" /\ approved[n] # None
  /\ call' = [call EXCEPT ![c] = [kind |-> "execute", instance |-> n]]
  /\ name' = [name EXCEPT ![c] = n]
  /\ Goto(c, "default")
  /\ UNCHANGED <<shared, seen, client>>

\* execute_approved_write of an approval for n: the cached default client when
\* n is the default of the file by now, a named client otherwise.
StartExecute(c, n) ==
  /\ pc[c] = "idle" /\ approved[n] # None
  /\ call' = [call EXCEPT ![c] = [kind |-> "execute", instance |-> n]]
  /\ name' = [name EXCEPT ![c] = n]
  /\ Goto(c, IF n = default THEN "default" ELSE "named")
  /\ UNCHANGED <<shared, seen, client>>

-----------------------------------------------------------------------------
(* _resolve_odoo without an instance: the cached name, and AppContext.odoo. *)

\* Only a read uses the name; the other tools resolved their own.
NameIt(c, n) == name' = IF call[c].kind = "read" THEN [name EXCEPT ![c] = n] ELSE name

UseName(c) ==
  /\ pc[c] = "naming" /\ defaultName # None
  /\ NameIt(c, defaultName)
  /\ Goto(c, "default")
  /\ UNCHANGED <<shared, call, seen, client>>

ReadName(c) ==
  /\ pc[c] = "naming" /\ defaultName = None
  /\ NameIt(c, default)
  /\ seen' = [seen EXCEPT ![c] = default]
  /\ Goto(c, "keeping")
  /\ UNCHANGED <<shared, call, client>>

KeepName(c) ==
  /\ pc[c] = "keeping"
  /\ defaultName' = seen[c]
  /\ Goto(c, "default")
  /\ UNCHANGED <<default, edits, defaultClient, clients, holder, schema,
                 approved, connects, call, name, seen, client>>

UseDefault(c) ==
  /\ pc[c] = "default" /\ defaultClient # None
  /\ client' = [client EXCEPT ![c] = defaultClient]
  /\ Goto(c, "ready")
  /\ UNCHANGED <<shared, call, name, seen>>

\* get_odoo_client reads the file and connects; no lock is held.
Connect(c) ==
  /\ pc[c] = "default" /\ defaultClient = None
  /\ seen' = [seen EXCEPT ![c] = default]
  /\ Goto(c, "connecting")
  /\ UNCHANGED <<shared, call, name, client>>

Connected(c) ==
  /\ pc[c] = "connecting"
  /\ defaultClient' = seen[c]
  /\ client' = [client EXCEPT ![c] = seen[c]]
  /\ Goto(c, "ready")
  /\ UNCHANGED <<default, edits, defaultName, clients, holder, schema,
                 approved, connects, call, name, seen>>

-----------------------------------------------------------------------------
(* get_client of a named instance.                                         *)

UseNamed(c) ==
  /\ pc[c] = "named" /\ holder = None /\ name[c] \in clients
  /\ client' = [client EXCEPT ![c] = name[c]]
  /\ Goto(c, "ready")
  /\ UNCHANGED <<shared, call, name, seen>>

\* Mutant: the lock is not waited for.
Open_Unlocked(c) ==
  /\ pc[c] = "named" /\ name[c] \notin clients
  /\ holder' = c
  /\ Goto(c, "opening")
  /\ UNCHANGED <<default, edits, defaultName, defaultClient, clients, schema,
                 approved, connects, call, name, seen, client>>

\* The lock is held while the client connects.
Open(c) ==
  /\ pc[c] = "named" /\ holder = None /\ name[c] \notin clients
  /\ holder' = c
  /\ Goto(c, "opening")
  /\ UNCHANGED <<default, edits, defaultName, defaultClient, clients, schema,
                 approved, connects, call, name, seen, client>>

\* Mutant: the pair get_odoo_client_for returns is kept as the client.
Opened_KeepsPair(c) ==
  /\ pc[c] = "opening"
  /\ holder' = None
  /\ clients' = clients \union {<<name[c], name[c]>>}
  /\ connects' = [connects EXCEPT ![name[c]] = @ + 1]
  /\ client' = [client EXCEPT ![c] = name[c]]
  /\ Goto(c, "ready")
  /\ UNCHANGED <<default, edits, defaultName, defaultClient, schema, approved,
                 call, name, seen>>

Opened(c) ==
  /\ pc[c] = "opening"
  /\ holder' = None
  /\ clients' = clients \union {name[c]}
  /\ connects' = [connects EXCEPT ![name[c]] = @ + 1]
  /\ client' = [client EXCEPT ![c] = name[c]]
  /\ Goto(c, "ready")
  /\ UNCHANGED <<default, edits, defaultName, defaultClient, schema, approved,
                 call, name, seen>>

\* The client raises (bad credentials, no route, timeout); a lock is released.
ConnectFails(c) ==
  /\ pc[c] \in {"connecting", "opening"}
  /\ holder' = IF pc[c] = "opening" THEN None ELSE holder
  /\ Return(c)
  /\ UNCHANGED <<default, edits, defaultName, defaultClient, clients, schema,
                 approved, connects>>

-----------------------------------------------------------------------------
(* The call does its work on the client it was given.                      *)

\* _cached_fields_metadata looks the cache up: what is there serves the call.
FindFields(c) ==
  /\ pc[c] = "ready" /\ call[c].kind = "read" /\ schema["read"][name[c]] # None
  /\ Return(c)
  /\ UNCHANGED shared

\* What is not there is fetched with the client.
Fetch(c) ==
  /\ pc[c] = "ready" /\ call[c].kind \in Cached
  /\ call[c].kind = "read" => schema["read"][name[c]] = None
  /\ Goto(c, "fetching")
  /\ UNCHANGED <<shared, call, name, seen, client>>

Store(c) ==
  /\ pc[c] = "fetching"
  /\ schema' = [schema EXCEPT ![call[c].kind][name[c]] = client[c]]
  /\ Return(c)
  /\ UNCHANGED <<default, edits, defaultName, defaultClient, clients, holder,
                 approved, connects>>

\* register_write_approval of a payload for name[c], checked against the
\* metadata of the client.
Approve(c) ==
  /\ pc[c] = "ready" /\ call[c].kind = "validate"
  /\ approved' = [approved EXCEPT ![name[c]] = client[c]]
  /\ Return(c)
  /\ UNCHANGED <<default, edits, defaultName, defaultClient, clients, holder,
                 schema, connects>>

Write(c) ==
  /\ pc[c] = "ready" /\ call[c].kind = "execute"
  /\ Return(c)
  /\ UNCHANGED shared

\* The RPC fails: nothing is stored.
RpcFails(c) ==
  /\ pc[c] \in {"ready", "fetching"}
  /\ Return(c)
  /\ UNCHANGED shared

\* The operator changes the default in the config file.
Edit ==
  /\ edits < MaxEdits
  /\ edits' = edits + 1
  /\ default' \in Names \ {default}
  /\ UNCHANGED <<defaultName, defaultClient, clients, holder, schema, approved,
                 call, pc, name, seen, client, connects>>

-----------------------------------------------------------------------------
Proceed(c) ==
  \/ UseName(c) \/ ReadName(c) \/ KeepName(c)
  \/ UseDefault(c) \/ Connect(c) \/ Connected(c)
  \/ UseNamed(c) \/ Open(c) \/ Opened(c) \/ ConnectFails(c)
  \/ FindFields(c) \/ Fetch(c) \/ Store(c) \/ Approve(c) \/ Write(c) \/ RpcFails(c)

Next ==
  \/ \E c \in Threads :
       \/ \E n \in Maybe : StartRead(c, n) \/ StartValidate(c, n)
       \/ \E n \in Maybe, refresh \in BOOLEAN : StartCatalog(c, n, refresh)
       \/ \E n \in Names : StartExecute(c, n)
       \/ Proceed(c)
  \/ Edit

Spec == Init /\ [][Next]_vars

-----------------------------------------------------------------------------
(* Properties.                                                             *)

Given(c) == pc[c] \in {"ready", "fetching"}
Kind(c) == IF call[c] = None THEN "none" ELSE call[c].kind

\* An approved write runs on the instance of its approval, as the table of
\* docs/multi-instance.md says of approval tokens.
RunsWhereApproved ==
  \A c \in Threads : Kind(c) = "execute" /\ Given(c) => client[c] = name[c]

\* The same for as long as nobody has edited the default in the config file:
\* no race on the cached name and client sends a write elsewhere
\* (_execute_approved_write_gated).
RunsUntilEdited == edits = 0 => RunsWhereApproved

\* An approval for an instance was checked against the metadata of that
\* instance (validate_write).
ValidatedThere ==
  edits = 0 => \A n \in Names : approved[n] \in {None, n}

\* Cached metadata is that of the instance in its key (schema_catalog,
\* _cached_fields_metadata).
SchemaPartitioned ==
  edits = 0 => \A k \in Cached, n \in Names : schema[k][n] \in {None, n}

\* The records a read returns come from the instance whose field policy
\* redacts them.
OwnFieldPolicy ==
  edits = 0 =>
    \A c \in Threads : Kind(c) = "read" /\ Given(c) => client[c] = name[c]

\* Whatever threads race on the cached default, on its client and on the
\* metadata, everything a call uses comes from the instance it takes itself to
\* be on, until the config file is edited.
CallsKeepTheirInstance ==
  RunsUntilEdited /\ ValidatedThere /\ SchemaPartitioned /\ OwnFieldPolicy

\* get_client connects to a named instance once, however many threads ask for
\* it first and however many attempts failed before.
OneConnection == \A n \in Names : connects[n] <= 1

\* A call that names its instance gets a client of that instance, whatever
\* happens to the config file and to the cached default.
NamedCallsAreExact ==
  \A c \in Threads :
    (Given(c) /\ Kind(c) \in {"read", "validate"} /\ call[c].instance # None)
      => client[c] = call[c].instance

\* Nobody is kept waiting: the lock is held by a call that connects, and by no
\* other, so every way out of that (ConnectFails) gives it back.
LockIsReleased == holder # None => pc[holder] = "opening"

\* A configured name stands for one client: it is connected once, under a lock
\* that every way out gives back, and every call that names it gets that client,
\* races, failures and edits of the file included.
NamesAreExact == OneConnection /\ LockIsReleased /\ NamedCallsAreExact

\* The lock belongs to the call that opens a client, and a client in the table
\* was built once.
LockInv ==
  /\ \A c \in Threads :
       /\ pc[c] = "opening" <=> holder = c
       /\ pc[c] \in {"named", "opening"} => name[c] \in Names
       /\ pc[c] = "opening" => name[c] \notin clients
  /\ \A n \in Names : connects[n] = IF n \in clients THEN 1 ELSE 0

\* A call that names its instance is on the way to it.
NamedInv ==
  \A c \in Threads :
    /\ pc[c] # "idle" => call[c] # None
    /\ (Kind(c) \in {"read", "validate"} /\ call[c].instance # None) =>
         /\ name[c] = call[c].instance
         /\ pc[c] \notin {"naming", "keeping", "default", "connecting"}

\* The inductive invariant that holds whatever happens to the config file.
RoutingInv == TypeOK /\ LockInv /\ NamedInv /\ NamedCallsAreExact

\* What holds in addition until the config file is edited: everything cached
\* agrees with the default of the file, and a call is on the instance it takes
\* itself to be on.
Settled ==
  /\ defaultName \in {None, default} /\ defaultClient \in {None, default}
  /\ \A c \in Threads :
       /\ pc[c] \in {"keeping", "connecting"} => seen[c] = default
       /\ pc[c] \in {"default", "connecting"} => name[c] = default
       /\ pc[c] \in {"naming", "keeping"} =>
            /\ Kind(c) # "execute"
            /\ Kind(c) # "read" \/ pc[c] = "keeping" => name[c] = default
       /\ Given(c) => name[c] \in Names /\ client[c] = name[c]
  /\ \A n \in Names : approved[n] \in {None, n}
  /\ \A k \in Cached, n \in Names : schema[k][n] \in {None, n}

StableInv == edits = 0 => Settled
=============================================================================
