# A verification project for mcp-odoo

TLA+ specifications of `odoo-mcp`, the MCP server under `src/src/odoo_mcp/`
that lets an agent read and, behind a gate, write Odoo: what its concurrent and
its stateless parts do, model-checked with TLC on small instances, and theorems
about them proved with TLAPS for every value of the constants.  File names below
are relative to `src/src/odoo_mcp/` unless they say otherwise.

1. The system
2. The modules
3. The runs
4. Fairness
5. The proofs
6. Divergences found
7. What is not modelled
8. Plan

## 1. The system

One process serves MCP clients over stdio or HTTP.  Three kinds of code run in
it: `async` tools and HTTP handlers on the event loop; plain (synchronous)
tools on worker threads of the MCP SDK; jobs of background tasks and fan-outs on
thread pools of their own.  The `mcp` SDK (2.x) is not part of the repository:
that it runs synchronous tools on threads is taken from the locks the code keeps
for them (`AppContext._clients_lock`, the lock of `BoundedTTLCache`, of
`AsyncTaskManager`, of the rate limiter, of `KnowledgeStore`).  All state is in
memory, except the configuration file, which is read again whenever an instance
is resolved, the policy file, and the audit log.  Odoo is reached over XML-RPC
or JSON-2.

| Component | State | Operations | Interacts with | Hard part | Covered by |
|---|---|---|---|---|---|
| Write gate (`tools_write`, `server_core` 268-345, `agent_tools` 62-276) | `write_approvals`: token -> record | validate_write, execute_approved_write, sweep | Odoo client, routing, the human, audit log | validation on threads while execution is in its RPC on the loop; expiry; lost answers; restart | `WriteGate`, `WriteReports` |
| Background tasks (`task_queue`, `tools_async`) | task table, lazy executor, futures, cancel flags | submit, status, cancel, list, purge | jobs call the Odoo client | submitters, workers and cancellers; two lock sections; cap and TTL | `TaskQueue`, `TaskLifecycle` |
| Instance routing (`server_core` 56-226, `odoo_client` 861-994) | cached default name and client, named clients and their lock, schema cache keys | resolve_instance_name, _resolve_odoo, odoo, get_client | configuration file, every tool | file re-read while the client is cached; first calls racing; lock held while connecting | `InstanceRouting` |
| Odoo RPC client (`odoo_client`) | per call: attempt, redirects | execute_method, both transports | network, Odoo | three nested retry loops, two of them not its own; late and lost requests | `OdooRpc` |
| Token introspection and TTL/LRU cache (`auth`, `schema_cache`) | verdict cache | verify_token; get, set, in, len | authorization server | verdict stored after an await; revocation; outage; eviction | `TokenCache` |
| GitHub OAuth provider (`github_oauth`) | registrations, pending sign-ins, codes, tokens, revoked digests | register, authorize, callback, the exchanges, revoke, cleanup | GitHub, the SDK's OAuth routes | one-time codes, signed tokens that survive a restart, revocations that do not | `GithubOAuth` |
| Rate limiter (`rate_limit`) | windows per key, totals | check, record, evict, report | every tool, fan-out | clock read before the lock; eviction forgets calls; wall clock steps back | `RateLimit` |
| Cross-instance fan-out (`cross_instance`, `tools_cross_instance`) | per call: selection, results, errors | select, run on a pool, merge | routing, rate limiter, field policy | one failure among many; duplicates; order of completion | `CrossInstance` (extends `RateLimit`) |
| Knowledge index (`knowledge_index`, `tools_knowledge`) | documents, frequencies, lengths, one budget | fetch, add, replace, remove, rebuild, search | Odoo client | statistics follow every replacement; fetch and store not atomic | `KnowledgeIndex` |
| Field policy, write policy, chatter (`field_policy`, `write_policy`, `tools_write` 541-789, `diagnostics`) | rules in force | load, merge, filter, redact; classify and allow methods; preview and post | all read tools, Odoo client | file edited while the server runs; a token without record, secret or expiry | `PolicyGate` |
| Server start and assembly (`remote_entrypoint`, `docker_entrypoint`, `__main__`, `auth`, `plugin_api`, `server_core`, `tools_sign`, `setup_wizard`) | mode, registered tools, config file | choose authentication, load plugins, filter, set up | all | half a configuration; arguments against environment; a plugin failing midway | `Deployment` |
| Diagnostics (`tools_diagnostics`, `diagnostics`, `access_helpers`) | none | diagnose_access, diagnose_odoo_call, upgrade log and risk, fit-gap | Odoo client | metadata that cannot be read, or only in part | `AccessDiagnosis`, `Diagnostics` |
| Reports, scanner, domains (`agent_tools`, `accounting_tools`, `data_quality`, `tool_helpers`, `field_ranking`) | none | aging, data quality, source scan, domain shapes, text queries, smart fields | Odoo client | caps and truncation; boundary arithmetic; prefix operators | `Reports`, `SourceScan`, `Domains` |

What makes each component correct:

* **Write gate.**  What reaches Odoo was validated server-side, in this
  process, for the very payload, recently, confirmed, and accepted by the human
  where a form was shown; a validation yields one success; every call is
  answered; the token binds all of the call and nothing else.
* **Background tasks.**  A task cancelled before it started never starts; a
  final status is final; live tasks are capped and keep their record; results
  stay for their TTL; every task ends.
* **Instance routing.**  Reads, cached metadata, approvals and writes belong to
  the instance the call names, or to the one default; one connection per
  instance; a failed connection gives the lock back.
* **RPC client.**  A call puts a bounded number of requests on the wire, and a
  call that may mutate is not sent again (it is, under XML-RPC: section 6).
* **Token introspection.**  No acceptance on an introspection sent after the
  revocation, no verdict older than the TTL, no rejection of a live token
  without a failure, every check returns.
* **OAuth provider.**  Every token traces to one sign-in of a listed user, no
  code or state is spent twice, what ended stays ended within a process, and a
  restart revives nothing but what had been revoked.
* **Rate limiter and fan-out.**  No window holds more than the budget, a window
  being counted from the clock of the first call to the lock of the last;
  refusals are earned; every selected instance is accounted for once, and a
  hanging instance does not hold back the answer for ever.
* **Knowledge index.**  Incremental statistics equal those of the documents, a
  search leaves out only what its limit leaves no room for, a rebuild is exact.
* **Policies.**  A field is shown when both of its rules permit it; a method
  runs only by the file as it is; the token of a preview posts what that preview
  showed, or nothing.
* **Start.**  A configured OAuth server is never dropped for a weaker guard, and
  HTTP is open only where the command line starts it so; the tools served are those
  the configuration leaves.
* **Analyses and reports.**  A denial or a clean bill is so; searches ask for
  what was meant; a clean bill holds as far as the report has looked.

`PROJECT.json` lists the hazards behind these at their lines, with the
properties that would catch them.

## 2. The modules

| Module | Models | Checked by / proved in |
|---|---|---|
| `WriteGate` | approval store, validation, gated execution, elicitation, restart, Odoo's late answers | `MCWriteGate`, `WriteGateProofs` |
| `TaskLifecycle` | what the task tools promise: stages of a task, cap, forgetting | implemented by `TaskQueue` |
| `TaskQueue` | `AsyncTaskManager` by its lock sections, the thread pools | `MCTaskQueue`, `TaskQueueProofs` |
| `InstanceRouting` | default and named clients, cached names, schema and approval keys, edits of the file | `MCInstanceRouting`, `InstanceRoutingProofs` |
| `OdooRpc` | backoff, redirects of both transports, resend, the network | `MCAnswers`, `OdooRpcProofs` |
| `TokenCache` | `verify_token` over `BoundedTTLCache`, the authorization server | `MCTokenCache`, `TokenCacheProofs` |
| `GithubOAuth` | the OAuth provider's handlers, the clock, restarts | `MCGithubOAuth`, `GithubOAuthProofs` |
| `RateLimit`, `CrossInstance` | the sliding windows; the fan-out composed with them | `MCGuards`, `MCCrossInstance`, `ToolsProofs` |
| `KnowledgeIndex` | the BM25 indexes, concurrent index_knowledge calls, edits in Odoo | `MCAnswers`, `ToolsProofs` |
| `PolicyGate` | the policy file, the tools that consult it, execute_method, chatter_post | `MCGuards`, `PolicyGateProofs` |
| `ToolCalls` | a call without state: an input, its answer, done | extended by the next seven |
| `AccessDiagnosis`, `WriteReports`, `Domains`, `Diagnostics`, `SourceScan`, `Deployment`, `Reports` | the stateless computations, each over its set of inputs | `Tools` composes them, `MCTools`, `MCAnswers`, `ToolsProofs` |

Operators named `X_Something` next to an operator `X` are mutants: the
plausible bug their comment names.  Nothing uses them; replacing `X` by one
must break the property that `PROJECT.json` pairs it with.

**WriteGate.**  A token is the hash of the payload, so a token is written as
the payload it stands for (`Token`), and a caller may send any token with any
payload (`Ask`).  `approvals` is `write_approvals`, holding which validation
stored the record, and `grant` is what that validation found.  `Validate` is
the whole of validate_write for a well-formed payload, with the sweep that
register_write_approval begins with; validation without live metadata, or with
the caller's own, stores nothing.  execute_approved_write is `Submit`, the human's
`HumanAccepts` / `HumanDeclines`, then `Send` or `Deny`, then `Succeed` or
`Fail`.  It is an `async` tool, whose gates and blocking RPC have no await
between them: so `LoopFree` keeps other executions out of the gates during an
RPC, while validations, on threads, go on.  Odoo may apply a request after the
client gave up (`OdooApplies` needs no waiting call).  `permit` is history:
the moment of the gates and the record they read.

**TaskQueue.**  Every section under the lock is an action (`Admit`, `Refuse`,
`KeepFuture`, `Start`/`Skip`, `Settle`, `Finish`, `Cancel`, `Poll`), and so is
every step between sections: `FindNoExecutor`, `BuildExecutor` and `Enqueue`
are `_ensure_executor` and `executor.submit` without the lock, `Revoke` is
`future.cancel()`.  The purge is part of each section that calls it (`Purged`
is the set of tables it may leave; ties among equally old tasks go either way).
`settled` is history: when a task really ended.  **TaskLifecycle** sees only the
stage its caller can tell; `TaskQueue!Stage` is the refinement mapping.

**InstanceRouting.**  A client is written as the instance it is connected to,
metadata as the instance it came from, so that a mix-up shows.  A call is a
thread's walk through the real order of reads: the tool resolves the name from
the file, `_resolve_odoo` uses the cached default name and the cached default
client or goes to `get_client` under its lock.  `Edit` changes the default in
the file; no document asks for a restart after that.  Execution of an approval
compares its instance with the default as it is in the file *now*.

**OdooRpc.**  `Post` puts a request on the wire; the wait for its answer ends
in `Answer`, `Refuse` (a fault), `TimeOut`, `Garbled`, `BadGateway`, `Drop` (the
connection is closed without an answer; the standard library's
`Transport.request` then sends once more), `Redirect` or `RedirectToPage`.
RedirectTransport posts again; under JSON-2 `urlopen` follows a 301, 302 or 303
with a GET and without the body, so Odoo is asked for a page (`AsksForAPage`),
which is read as the answer if it is JSON or empty.  `locations` and `redirects`
are what its handler counts: it visits at most `MaxLocations` places, each but
the last at most `MaxRepeats` times.  `current` is what Odoo did with the
request that is waited for, `late` counts those given up on that Odoo may still
process.

**TokenCache.**  The dict of `BoundedTTLCache` is its entries (`entry`) and its
key order (`order`); `Touch`, `Purge` and `Put` are its methods.  `verify_token`
runs on the event loop, so it is atomic up to the introspection's await and
after it: `Hit`, or `Ask` and then `Judge` or `Fail`.  `Introspect` is the
authorization server's reply, computed before it arrives; `Revoke` may come in
between.  A verdict carries when its introspection was sent and when it was
stored, as history.

**GithubOAuth.**  Every handler runs on the event loop and never awaits (its
two requests to GitHub block the loop), so a handler is one action, with the
`_cleanup_expired` it begins with.  Signed client ids and tokens stay in the
hands of their holders (`registered`, `issued`), so a restart empties the
process's tables and nothing else.  States, codes and tokens are numbered
by one counter.  Anything handed out may be presented again, by any client.

**RateLimit.**  `now` only moves forward; the wall clock is `now - step`, and
`ClockSetBack` increases `step`.  `record` reads the clock (`ReadClock`) before it
takes the lock, so a call is `pending` in between, with the time it read, and
others may overtake it: events are appended in the order of the lock, not of
their times.  `Record` is the locked section with its trim and its eviction: the
key whose last call is the oldest goes, on a tie any but the newcomer, and the
newcomer itself if its thread was late and every other key has a later call.
`admitted` is history: when calls of a key that were let through read the clock
and had the lock, forgotten with the key.  **CrossInstance** extends it:
`StartWorker` and `ChargeWorker` are what a pool worker does before its request
(connect, read the clock; then have the lock, and look at the field policy),
`FinishWorker` its request, which may fail: an aggregate then raises, while
search_read swallows the exception and returns no rows.

**KnowledgeIndex.**  index_knowledge is `FetchRecords` (without the lock) and
`IndexRecords` (under it).  The loop over the fetched records is a recursive function,
`Stored`, of how many were taken.  A text is the version of the record it was
taken from, and whether it has any text (`HasText`) is told apart from whether it
has terms: punctuation is indexed and found by nothing.  A search ranks by a score
that the model does not compute; `Search` is the set of answers it may give, cut
at the limit, where a document with all of another's terms of the query and more,
in a text that is no longer, scores higher whatever the other numbers
(`Outscores`).

**PolicyGate.**  The policy file is written as what its two readers make of it.
`Start` loads the field rules or fails; `EditFile` may come at any time;
`MayExecute` reads the file again.  `Shows` is what a read tool's reply
contains.  `Payload` is what the chatter token is made of, `Message` what
message_post is called with.  The server keeps no record of previews and the
token has no secret, so `ChatterPost` takes any token (`Tokens`) and compares it,
as the code does; `previewed` is history.  The default instance is chosen at each
start: a token may come to a process whose default is another.

**The stateless tools.**  A module gives one operator per step of the
computation and one per property; its inputs are a constant set, enumerated in
`MCTools` so as to combine the cases the code tells apart.  A loop is a recursive
function of how many of its elements were taken (`LoadPlugins`) or a fold.  The
properties
compare the answer with a reference definition written without looking at the
algorithm: `Matches` evaluates a prefix domain on a stack where the code puts
operators and conditions in front of each other, `Executed` is the call an approval stands for, `BuiltDomainsAreFaithful`
and `AgingAddsUp` recompute from the input.  `Action` has the table of codes
(`_ACTION_OVERRIDES`) before the severity, so a warning may need a script and an
error may not; what blocks an upgrade is the severity alone.  `Seen` is what a
data-quality check can see: a sampling check the first `sample` rows and, of the
records these refer to, the first `MaxReferenced`.  `Mode` gives a container's
arguments to whichever entry point `MCP_TRANSPORT` chose: `RemoteMode` reads the
environment only, `CliMode` the arguments first.

## 3. The runs

`tlc -config X.cfg M` with the module and file named in `PROJECT.json`.
Properties that answer the same question are conjunctions of named parts.
`guards` and `answers` each hold components that share no state: a variable
`part`, chosen in the initial state, says which of them the behaviour is one of,
so each is explored by itself and none is interleaved with another that it
cannot meet.  TLC's coverage counts a component as one action there; run one at a
time, each of its actions is taken.

| Run | Checks | Bounds |
|---|---|---|
| `gate` | types, `Authorised`, `OneSuccessPerValidation`, `CallsAreAnswered` | 2 payloads (one with a file), 2 validations, 2 executions, TTL 0, clock 0..1, 1 restart |
| `gate_upload` | `UploadWritesFile`, violated | the same, TTL 1, clock 0..2 |
| `queue` | types, `LiveTasksAreKept`, `ResultsAreRetained`, `ImplementsLifecycle`, `TasksEnd` | 2 tasks, cap 1, 1 worker per pool, TTL 1, clock 0..2 |
| `routing` | types, `CallsKeepTheirInstance` (`RunsUntilEdited`, `ValidatedThere`, `SchemaPartitioned`, `OwnFieldPolicy`), `NamesAreExact` (`OneConnection`, `LockIsReleased`, `NamedCallsAreExact`) | 2 instances, 2 threads, 1 edit |
| `token` | types, `VerdictsAreSound` (`AcceptedWasActive`, `VerdictsExpire`, `RejectedForAReason`), `CallsAreAnswered` | 2 checks at a time, a token of this server and one of another, 1 entry, TTL 2, clock 0..2 |
| `oauth` | types, `TokensTraceToASignIn`, `EndedSessionsStayEnded`, `RestartKeepsSessions` | 2 clients, an allowed and a foreign account, TTL 1 (2 for refresh tokens), clock 0..2, 6 numbers, 1 restart |
| `fleet` | `FleetTypeOK` (types, table bound), `EnvelopeIsRight`, `QueriesAreAnswered` | 3 instances (one opted out, one denied), 4 requests, 2 workers, 1 fan-out with the calls of another thread around it; 1 call per window of 2, 2 tracked keys, clock 0..1 |
| `fleet_failures` | `FailuresAreReported`, violated | the same |
| `guards` | the policies: types, `FieldsAreShownByTheRules`, `ApprovalsKeepTheirMeaning`, `TheFileDecides` | 9 policy files, 2 instances, 2 models, 3 fields, 5 methods, 3 posts |
| | the limiter: `BudgetHolds` (`WindowsHoldTheBudget`, `NewcomersAreCounted`), `RefusalsAreEarned` | 2 keys, 2 threads, 1 call per window of 2, 1 tracked key, clock 0..3, set back by 1, 2 calls of a key |
| `answers` | the RPC client: types, `PostsBounded`, `Json2MutatesOnce` | 1 call, 1 extra attempt, the code's 5 redirects, 10 locations and 4 visits of one |
| | the indexes: `IndexTypeOK` (types, shared budget), `SearchIsComplete`, `IndexesFollowOdoo` | 2 indexes, 2 records of 2 versions, 2 terms, 2 concurrent calls, budget 3 |
| | the stateless tools: `AccessVerdictsAreRight`, `ApprovalsAreExact`, `RequestsAreFaithful`, `ReportsAreComplete`, `ServersStartAsConfigured` | the inputs of `MCTools`, some 56,000 |
| `rpc_mutations` | `MutatesOnce`, violated | those of `answers` |
| `container` | `ContainersServeGuarded`, violated | the inputs of `MCTools` |

Why the bounds are enough for what they check.  A hazard here is a race of two:
two validations of one payload around one execution, two submitters around one
executor, two threads at one lock, two introspections of one token, two
index_knowledge calls on one index.  Each run has the two actors and the one
shared thing they fight for.  The clock needs to pass each TTL once: TTL 0 in
`gate` makes an approval stale at the first tick, as `now > at + TTL` does; TTL 1
with clock 2 in `queue` lets a result be retained, then expire; TTL 2 with
clock 2 in `token` lets an entry be hit in its middle and then expire, and
`MaxEntries` 1 makes every second key evict the first.  A cap of 1 with 2 tasks
reaches the cap and overflows the table.  In `routing` threads serve any number
of calls, so orders longer than one call per thread are covered, and one edit
suffices to split name and client.  The calls of a client share
no state, so `answers` has one.  In `oauth` six numbers allow two sign-ins and a
code exchanged, or one sign-in refreshed once, with a refresh token that
outlives its access token, its registration and a restart.  In the limiter of `guards` a second
key overflows the table, a second call in a window is over budget, and the clock
passes a whole window while a thread is on its way to the lock, with another one
to overtake it.  In `fleet` a third key overflows a table of two and the list
`a, a` is a duplicate; with one instance opted out and one denied every way to fail
occurs next to a success; the windows are the business of `guards`, so the clock
need only move.
In the indexes of `answers` three of four possible documents fit, one version of a record
has no text left and one has no terms.  The policy files of `guards` hold each kind of broken file and
"*" and model rules of different kinds.  `MCTools` bounds sequences so that each
cap (`MaxBatch`, `MaxFiles`, `MaxLogLines`, limits) is exceeded by one.

The bounds on counters (`MaxTime`, `MaxRestarts`, `MaxEdits`, `MaxSerial`,
`MaxQueries`, `MaxRecorded`, `MaxRefused`, `MaxStep`, `MaxVersion`) are guards
of the clock, restart, edit and new-call actions.  `gate` and `answers` declare
`CHECK_DEADLOCK FALSE`: the calls of `WriteGate` and `OdooRpc` are made once
each, and when all are answered nothing is left to do.  In the other runs something can always go on,
and TLC checks that it does.  Symmetry
is used where no liveness property is checked, over threads and names
(`MCInstanceRouting`), clients (`MCGithubOAuth`), indexes and callers (`MCAnswers`): the specifications compare
them for equality only.

## 4. Fairness

Callers, humans, operators, Odoo, the authorization server and the clock owe
nothing.  What is fair is what the process itself schedules:

* `gate`: the event loop runs a call that is ready, and a socket timeout
  (`odoo_client`'s `timeout`) ends each RPC with an answer or an error.
* `queue`: a submitter's thread and a pool's worker run when they can, and a
  job returns (its RPCs time out).  Cancelling and polling are not fair.
* `token`: a wait ends with an answer or with the HTTP client's timeout, and
  the loop then runs the call.
* `fleet`: the pool's threads run, and every connection and request has a
  timeout.

`OdooRpc` has no liveness run: that a call ends is `PostsBounded` together with
the timeout of each wait.  In `InstanceRouting` a lock that is left behind shows
as a violation of `LockIsReleased`, a safety property.

## 5. The proofs

A module `...Proofs` extends the component it is about.  All follow the same
argument: an inductive invariant (`GateInv`, `QueueInv`, `RoutingInv` and
`StableInv`, `RetentionInv`, `RpcInv`, `TokenInv`, `PolicyInv`, `OauthInv`,
`FleetInv`, `IndexInv`), its initial case, one step per action, and a `PTL` step; the properties follow from it.  The invariants
are defined beside the properties, so that TLC can check them.

* `WriteGateProofs`: `TypeCorrect`, `WritesAreAuthorised`,
  `ApprovalsAreSingleUse`.  `Authorised` alone is not inductive: one has to
  know that a record in the store is a server-side validation of this lifetime
  (`StoreInv`) and what a call has been through (`CallInv`).  For single use the
  point is `OneRpc` with `Consumed`: success pops the token, not the record that was
  used, and is right only because no second execution can be between its gates
  and its pop, and a validation is stored once.
* `TaskQueueProofs`: `TypeCorrect`, `LiveTasksAreSafe`, `ResultsAreKept`,
  `QueueImplementsLifecycle`.  `RecordInv` ties status, table, submitter and
  worker together; the refinement maps every action to a step of
  `TaskLifecycle` or a stutter.  Results are kept because `finished_at`, which the
  purge counts from, is no earlier than the real end (`EndIsKnown`): a worker that
  ends after a cancel moves it forward, never back.  Finiteness of the set of tasks is assumed (it is
  the calls of submit made so far).
* `InstanceRoutingProofs`: `ExactNames` (one connection per name, released
  locks, exact named calls) for any number of edits; `StableCalls` (writes, approvals,
  reads, metadata) until the first edit, from `Settled`: every cached name and
  client agrees with the default in the file, whatever the first calls raced.
* `OdooRpcProofs`: `RequestsAreBounded`, `JsonMutatesOnce`.  `Kept` bounds the
  requests of a call by the room its attempts and redirects have left: under JSON-2
  by the visits that the locations seen so far allow (`RedirectsBounded`), of which
  none carries the method (`PostedOncePerAttempt`).
* `TokenCacheProofs`: `VerdictsAreJustified`, `TypeCorrect` (with the cache's
  bound).  The key is that a sound verdict stays sound (`SoundForGood`): a
  revocation after the introspection was sent does not contradict it, and revoked
  stays revoked.  Lemmas about the key order show that a store evicts enough and
  that every entry keeps its key.
* `GithubOAuthProofs`: `TypeCorrect`, `TokensComeFromSignIns`,
  `SessionsStayEnded`, `RestartsKeepSessions`.  That tokens trace to a sign-in is
  not inductive: states, codes and tokens must be numbered apart
  (`NumbersInv`), what gave a code is no longer pending and what gave tokens no
  longer a code (`SpentInv`), and whoever holds anything has registered
  (`ClientsInv`).  The action properties rest on `AcceptedIsValid`: the copy in memory
  adds nothing to a signature but, for an access token, that its client need not be
  known; so a step of one process cannot make a refused token valid
  (`OneProcess`), and new tokens need a live code or token (`NewTokensNeedLive`).
* `PolicyGateProofs`: `FieldsFollowTheRules`, `FileDecides`,
  `ApprovalsPostWhatTheyShowed`, `TypeCorrect`.  `MergeKeepsWhatBothPermit` is the
  lemma about FieldPolicy._effective for any combination of lists;
  `TokensNameTheirPost` and `PostsAreNamed` strengthen the chatter property: what a
  preview shows and what is posted are both what their token is the digest of,
  the instance resolved.
* `ToolsProofs`, about the rate limiter and the fan-out: `FleetTypeCorrect`,
  `BudgetIsKept`, `RefusalsEarned`, `EnvelopeIsSound`.  In `FleetInv`, `LimitInv`
  says that the log of a key is in the order of the lock, that the events counted
  against the key are its last entries by their clock, shifted by at most `step`, that
  those no longer counted had read the clock a window ago, and that a time read by a
  thread is no later than now (`ClocksWereRead`); a call let through then keeps the
  log spaced (`RoomKeepsSpaced`), which is the budget.  `QueryInv` says that every worker that is done has filed what it came
  to, and nobody else has.
* `ToolsProofs`, about the knowledge indexes: `IndexTypeCorrect`,
  `SearchesAreComplete`, `IndexesFollow`.  `IndexInv` holds that the counters are
  those of the documents (`CountersMatchDocuments`), so that replacing and removing
  never subtract what was not added, and that no text is newer than the record
  (`NothingFromTheFuture`).  A search has an answer because the documents with a
  score can be taken best first up to the limit.
* `ToolsProofs`, about the calls without state: `ServersStartRight`,
  `AccessIsDiagnosed`, `ApprovalsAreRight`, `ReportsComplete`, `RequestsFaithful`, for
  every set of inputs.  The answer of each tool is compared with its reference definition, case by
  case.  `ReportsComplete` says that nothing is lost on the way from the input to the
  report: a log is read line by line and a finding listed once
  (`LogFindingsAreRight`), a scan opens every file up to its cap
  (`DirectoriesAreScanned`, `ScansGoThrough`), the buckets and the partners of an
  aging report are two partitions of one sum (`BucketsAddUp`, `PartnersAreRanked`),
  a worklist counts every risk once (`WorklistCountsAll`), and data quality passes
  over no field it had room for (`ScannedFields`).
  `RequestsFaithful` follows the stacks on which a prefix domain is evaluated from
  its end: a domain behind a query is evaluated first and as if it were alone
  (`TheEndIsEvaluatedFirst`), the conditions of the query are put on its stack
  (`ConditionsAreStacked`) and joined to one (`AlternativesAreJoined`), so the query
  narrows the domain and leaves no operator without its operands (`QueryNarrows`,
  `QueryIsReadable`).  The fields chosen are the first of an order that is total
  because no two fields have one name (`RankingExists`, `TheFirstAreBetter`).

Loops.  The provers cannot use the library's induction theorems, but they can use
that a non-empty set of numbers has a least element (`LeastNumber`, from the
well-foundedness of `<`).  A loop is a recursive function of the number of
turns; the turns after which its invariant fails form a set with no least
element, hence an empty one.  That the recursive definitions of `Stored` and
`LoadPlugins` define functions at all is shown in the same way, and so are the two
facts about the folds of the community modules that the reports and the requests rest on: the fold
of a sequence is that of its front, and then its last element (`FilteredInTurn`);
the sum over a finite set is that over the set without an element, plus that
element.

Assumptions are those the modules name (`GateAssumption`, `QueueAssumption`,
`RoutingAssumption`, `RpcAssumption`, `TokenAssumption`, `UsersAssumption`,
`TTLAssumption`, `PolicyAssumption`, `FilesAssumption`, `PostsAssumption`,
`LimitAssumption`, `FleetAssumption`, `IndexAssumption`, `AccessAssumption`,
`WriteAssumption`, `DomainAssumption`, `DeploymentAssumption`, `DiagnosticsAssumption`,
`ScanAssumption`, `ReportsAssumption`): types of the constants, that `None` is no
other value, and four facts about inputs: a limit is at least one (`clamp_limit`
refuses others), the groups given directly to a user are among the user's groups,
the wizard can be cancelled only at a question it asks, and the fields of a model,
like the parameters of a method, have different names.  TLC evaluates them
in every run.

Only model-checked: liveness (`CallsAreAnswered` twice, `TasksEnd`,
`QueriesAreAnswered`), which is out of the prover's reach.  Every invariant and
every action property of the passing runs is a theorem.

## 6. Divergences found

Four runs show the code doing other than what it says; all are quoted under
`findings` in `PROJECT.json`.

* `gate_upload`: validating an uploaded payload again in its returned form
  replaces the record that holds the file, and the fingerprint text is written.
* `fleet_failures`: `OdooClient.search_read` prints any exception and returns an
  empty list (`odoo_client.py:620`), so an instance whose request fails in a
  fan-out search or aging is reported as answered, with no rows and no error.
* `rpc_mutations`: under XML-RPC a mutating request whose connection is dropped is
  sent twice by the standard library (`odoo_client.py:715`), and carried out twice if
  Odoo had taken it; `odoo_client.py:222` and `src/README.md:251` say never.
* `container`: `docker_entrypoint.py:10` looks at `MCP_TRANSPORT` only, so a container
  started with `--transport streamable-http` as an argument, the command of
  `src/docs/client-configs.md:348-364`, runs `__main__` and serves HTTP without
  authentication unless `ODOO_MCP_AUTH_*` is set; `src/Dockerfile:46` and
  `docker_entrypoint.py:1` say HTTP is secured.  `HttpIsGuarded` states what does hold.

The same swallowed exception, modelled where it shows (`Reports`,
`KnowledgeIndex`): an aging report of a failed read has zero totals and no
warning, sampling data-quality checks report a clean model, search_records
succeeds with no rows, and index_knowledge with `replace` empties the index.

Divergences the models contain, without a run of their own:

* Two first submissions can build two pools (`task_queue.py:98`; line 8 promises
  a bound on threads).  A task that just succeeded can be evicted before an
  older one, by its creation time (`task_queue.py:117`).  The table holds one
  more than `max_tasks` after a submit (`task_queue.py:148`, docstring line 9).
* After an edit of the default in the config file, an approved write can run on
  the client cached for the old default (`tools_write.py:501`,
  `src/docs/multi-instance.md:67`); schema_catalog then stores the old default's models
  under the new default's name (`tools_read.py:171`).
* Under JSON-2 a redirected call is followed by GETs, at most 37 of them with
  the standard library's limits; a page that is JSON or empty then reads as the
  answer of the method, though nobody need have called it (`odoo_client.py:332-357`).
* The rate limiter reads the clock before it has the lock (`rate_limit.py:86`).
  Counted from the lock alone, or from the clock alone, a thread that is late
  lets one call more into a window; a call may be refused for calls that are a window old
  by the time it has the lock; and a late call may be the one that is evicted, and
  go uncounted, when every other key has a later one.
* A revoked token can be accepted for longer than the cache's TTL after the
  revocation, by the time of the introspection (`auth.py:143`; lines 24-25).
* A refresh token stays valid after its exchange (`github_oauth.py:518-540`;
  `src/docs/render-github-oauth.md:38` says rotating).  A restart forgets revocations.
* A record whose text became empty keeps its old text in the index
  (`IndexRecord` passes it over).
* Chatter approvals may be used again, outlive a restart and do not expire, and as
  their token is a digest without a secret (`agent_tools.py:111`) that no record is kept
  of, a caller can compute it and post without a preview (`tools_write.py:644`); the
  field rules are read once at start while the allowed methods are read at each call;
  execute_method and read_attachment apply no field rules, and
  accounting_health_across_instances none either.
* A name given twice in a list of instances is asked twice and charged twice,
  and may be both a result and an error.
* search_knowledge returns at most `limit` documents, 5 by default
  (`knowledge_index.py:135`), and does not say that more match.
* The action of a finding goes by its code before its severity
  (`diagnostics.py:955-977`), so blocking and needing a script are independent: a
  missing super call needs a script and does not block, an error in a
  `security_rule_file` blocks and needs a review only.  Severities are compared in
  lower case there, and as they are written where the report is judged: "Error"
  needs a script but does not block.
* The sampling data-quality checks see `sample_limit` rows, 500 by default
  (`data_quality.py:161-168`, `224-232`), which the report states; of the records
  these refer to, only the first 1000 are looked up (`MAX_REFERENCED_IDS`), which
  it does not.  A model is called clean whatever lies beyond.
* diagnose_access counts duplicate ids as missing records, and concludes nothing
  about a model without ACL rows.
* A domain given as the text of Python tuples, or as text that cannot be parsed,
  becomes the empty domain, and malformed conditions are dropped, among them Odoo's
  leaves for true and false, `[1, "=", 1]` and `[0, "=", 1]`
  (`tool_helpers.py`; `src/tests/test_server.py:2214` expects the first).
* The live-metadata findings of upgrade_risk_report are added after its worklist was
  counted.  A plugin that fails midway keeps the tools it registered, and one
  loaded after the sign plugin adds tools outside the sign profile.
* A write whose answer was lost is logged as denied (`tools_write.py:413`,
  `audit.py:4-5`).

## 7. What is not modelled

* In the modelled components: parsing of the configuration file and of
  environment variables beyond what `Deployment` needs; authentication when a
  client connects; the typed read helpers of `OdooClient`; the job bodies of
  `tools_async`; the claims of a token beyond "for this server"; a check of a
  token that the HTTP server cancels; a wall clock that steps back, except
  in the rate limiter; the merging of rows of a fan-out; BM25 scores beyond the order
  that holds whatever the lengths of other documents (floating point), a term that
  occurs twice in a text, and `drop`, which nothing calls; whether a problem lies
  in a sample, which Odoo's order decides; the XML part of the
  source scanner beyond parse errors; partners with one display name, which the
  aging report merges; archived records, which the orphan check may flag.
* Tools that format what they are given, or guard one Odoo call without state:
  the sign tools, lookup_model_history, inspect_model_relationships,
  business_pack, the N+1 hint, list_models, read_attachment, the employee and
  holiday searches, health_check, the unreconciled summary.
* Left out altogether: the audit log (appends lines, swallows its I/O errors,
  read by nobody), prompts, response schemas, tests, scripts (`src/scripts/`, smoke
  tests of a live Odoo), examples, the site and the skills.  Tests were read for
  what they expect.

## 8. Plan

Done: every component that keeps state, and the stateless tools whose answers can
be wrong in ways a test would hardly show.  What is left, by value:

1. `ApprovalContract`, an abstract one-time authorisation, with `WriteGate` and
   the chatter gate of `PolicyGate` compared against it.
2. The rows of a fan-out (sums per group, tags) and of the unreconciled summary,
   once failures of search_read are told apart from empty results.
3. The schema cache's check-then-use (`tools_read.py:166`) as a composition of
   `TokenCache`'s cache with `InstanceRouting`.
