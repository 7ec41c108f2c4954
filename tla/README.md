# A verification project for opencode-a2a

opencode-a2a is an adapter: it serves the A2A protocol (REST and JSON-RPC) and
turns every A2A message into a call to an OpenCode server. One asyncio event loop
runs all requests. The adapter keeps, in a database, which upstream *session* each
A2A conversation is bound to and who owns each session, and in memory the locks,
the running executions and the session creates that are under way.

This directory holds TLA+ modules that model the adapter, TLC configurations that
check small instances, and TLAPS proofs for every value of the constants.
`PROJECT.json` maps each definition to the source lines it models; paths below are
relative to `src/src/opencode_a2a/`.

## Inventory

| Component | State | Operations | Interacts with | Modelled in |
|---|---|---|---|---|
| Session manager, `execution/session_manager.py` | create registry; context, ownership and session locks | claim, get_or_create, finalize, release, pop | repository, upstream client | `SessionManager`, `SessionOwnership` |
| Session state repository, `server/state_store.py` | tables of bindings, owners, pending claims with a lease | get/set/pop/clear, pruning of expired claims | called by the manager; survives a crash | `SessionManager`, `Interrupts` |
| Execution coordinator, `execution/coordinator.py` | session id, pending-claim flag, session lock, stream task | run: bind, send, finalize, tool rounds, respond, cleanup | manager, executor's registries, event queue | `Execution`; its output in `Streaming` |
| Agent executor, `execution/executor.py` | `_running_*` registries | execute, cancel | coordinator, manager, upstream abort | `Execution`, `Streaming` |
| Event stream runtime, `execution/stream_*.py` | part states, pending deltas, output buffers, sequence number, terminal signal | consume events, reconnect with backoff, emit chunks | coordinator, interrupt repository, client | `Streaming` |
| Interrupt requests, `server/state_store.py`, `jsonrpc/handlers/interrupt_*.py` | requests with a lease, tombstones | remember, resolve, discard, list; replies | stream runtime, upstream | `Interrupts`, `InterruptRegistry`, `Endpoint` |
| A2A client manager, `server/client_manager.py` | client cache, borrow counts, pending evictions | borrow, evict, close_all | tool orchestration | `ClientManager`, `Outbound` |
| A2A client and polling, `client/` | lazily built SDK client, active requests | send, GetTask until a deadline | peer, client manager | `TaskPolling`, `Outbound` (partly) |
| Upstream client, `opencode_upstream_client.py` | two concurrency budgets, the event reader's block | reserve, every endpoint, stream_events | everything that calls upstream | `UpstreamClient`, `Outbound` |
| Task store and request handler, `server/task_store.py`, `server/request_handler.py`, `output_modes.py` | tasks, accepted output modes | send, save, get, cancel | SDK, executor | `TaskService` (partly) |
| Runtime limits, `server/runtime_limits.py` | rate windows, stream budgets | check_and_record, retry_after, apply_stream_budget | middleware, request handler | `RateLimiter`, `StreamBudget`, `Edge` |
| HTTP middleware and application, `server/middleware.py`, `server/application.py` | per request: principal, buffered body, response | boundary, auth, quota, body, shape, card, version, routes | rate limiter | `HttpAdmission`, `Edge` (partly) |
| JSON-RPC dispatch and handlers, `jsonrpc/` | per request: scope, claim, call | dispatch, params, capability, routing, claim, call, settle | session manager, upstream | `JsonRpc`, `RpcParams`, `Endpoint` (dispatch partly) |
| Policies and contracts, `sandbox_policy.py`, `auth.py`, `contracts/extensions/` | none | pure decisions, published params | requests | `JsonRpc`, `RpcParams`, `HttpAdmission` (partly) |
| Database, migrations, lifespan, `server/` | SQLite file, schema version, open resources | harden, migrate, start, stop | repositories | `DatabaseFile`, `Migrations`, `Lifespan`, `Startup` |
| Tool orchestration, `execution/tool_orchestration.py` | - | the loop of a tool round | coordinator, client manager | its place only: `ToolRound`, `Calls` |
| Configuration and CLI; parts, parsing, metrics, redaction | none that outlives a request | parsing, formatting | - | not modelled |

What is hard in this code: many executions and JSON-RPC calls interleave at every
`await`; a cancel interrupts an execution at any of them and may hit a task that
others share; database writes that belong together are separate commits; leases of
claims and interrupts end at any time; a crash keeps the database and loses
everything else; event streams drop and reconnect while a turn goes on; a cached
client is evicted under a call; a window, a body or a budget is met exactly.
`PROJECT.json` lists each of these hazards at its line with the properties about it.

What makes the system correct: a session never changes owner and a caller only talks
to, or is bound to, sessions it owns; messages to one session are serialized; a
conversation creates one session; a claim is always settled or left to its lease; a
cancel stays inside its conversation; a client told COMPLETED holds the whole answer;
a terminal task stays as it is; an interrupt is answered once and not forgotten early;
nothing is sent upstream that was not authorized; every slot, client and
handler is given back; the schema version tells the truth; and what starts ends.

## The modules

`SessionManager` has one action per stretch of code between two suspension points of
a manager method. The event loop runs nothing else in between, so such a stretch
is atomic; where a lock protects several reads, they are one action, because every
writer of what is read holds the same lock (claims are the exception: they may
expire at any moment, which is why the checks and the writes are separate actions).
The registry lock and the executor's `_lock` are never held across a suspension
point and are left out. `bindings`, `owners` and `claims` are the tables;
`inflight`, `create`, `made` and `joined` the shared create tasks, named after the
execution that started them; `ctxLock` and `ownLock` say who is inside a locked
block. A pending claim is in `claims` exactly until its lease ends.

`Execution` extends it with `ExecutionCoordinator.run`, the delivery of
`CancelledError`, `OpencodeAgentExecutor.cancel`, the calls under a
`SessionClaimGuard`, and a crash. The program counter `pc` names the suspension
point each process is at:

| `pc` | Code |
|---|---|
| `claim`, `claiming`, `claimed` | `claim_preferred_session`: before its checks, holding the lock, row committed |
| `rebind` | `get_or_create_session`, an owned session is bound to the context |
| `lookup`, `await`, `own`, `setowner`, `recorded` | `get_or_create_session` without a preferred session |
| `bound` | waits in `_session_lock.acquire()` |
| `send`, `respond` | the turn: `send_message`, then tools or the response |
| `call` | a guard's upstream call |
| `finalize`, `finalizing`, `unclaim`, `bind` | `finalize_session_claim`, `finalize_preferred_session_binding` |
| `raised`, `cancelled` | an exception or a `CancelledError` is on its way out |
| `cleanup`, `unlock` | the two halves of `_cleanup` |

`locked` is what `asyncio.Lock.locked()` tells: no owner. That is how the code sees
it, and why one of the findings exists. `registered` says that the execution is in
`_running_session_ids`, which happens once it holds its session lock.
`CollectLock` is the `WeakValueDictionary` dropping a lock nobody refers to.

History variables record what the properties have to excuse: `lapsed` (a claim went
away under a process relying on it), `torn` (recording stopped between
`set_session` and `set_owner`), `foreign` (a lock was released by a non-holder),
`stuck` (a lock was abandoned locked), `orphaned` (a claim left to its lease),
`popped` and `killed` (what cancels did). No action reads them except to update
them, but for `Quiescent`, which only tells a legitimate end from a deadlock.

`SessionOwnership` is the abstract specification of the session manager: a session is free,
reserved for a caller or owned by one, and a conversation is bound to a session of its
caller. There is no lock, lease or program counter in it, and none of its actions takes a
session from its owner. `Execution` implements it under `status <- Status` (owner rows
count before claims), `bound <- bindings`. A session that the adapter creates is bound
before its owner row is written; the abstract `Take` and `Bind` make that exception, and
only for sessions that did not exist before the adapter (`Known`).

`Interrupts` models the registry of permission and question prompts: the event stream
hears them asked and closed (`MissAsked` for the gap of a reconnect), both
repositories keep an expiry (`exp`) and a tombstone (`tomb`) and sweep them in their
own way (`backend` says which is deployed), `List` is the recovery query, and a reply
is `Check`, `Send` or `SendFails`, and `DiscardSent`, with an await between any two.
`InterruptRegistry` is the abstract specification: `answer[r]`, what `resolve()` would
say now. A request becomes active only by being asked and grows older only in one
direction, whatever the backend; `Interrupts` implements it under
`answer <- Status`.

`Streaming` is one turn: upstream writes parts (`truth`) and puts events on the `wire`,
the stream task consumes them (`st`, `buffer`, `pend`, `todo`, `held` are what
`consume()` keeps), the output state (`abuf`, `emitted`, `seq`) is shared with the
coordinator (`pc`), which waits for the response and then the terminal signal
(`sig`, `stop`) and sends the final snapshot. `client` is what the client has
assembled from the artifacts. The stream fails and is opened again with what happened
meanwhile lost; a cancel stops it at any point.

`ClientManager` has one action per section under the manager's lock (none of them
awaits) and one per closing of a client, which does. Entries are numbered by their age.
`EvictDue` and `EvictOldest` compute the two loops of `_evict_locked`, marks included,
and `Evict` is one after the other; in which order the evicted clients are closed is left
open. A call may be interrupted wherever it awaits; `leaked` and `orphans` record the two
cases in which an interruption is known to leave something behind.

`TaskPolling` is `A2AClient.send()` with its fallback: the peer's task moves by itself,
`deadline`, `interval` and `due` are the loop's clocks, timers are up to `Jitter` late
and requests take up to `Latency`.

`UpstreamClient` has the two fast-fail budgets (`inflight`), one action for the start of
any endpoint's call (`Endpoints` says which budget it reserves from and what shape of
answer it demands), one for each way it ends, and the reader of `stream_events`, one
action per line. A dropped generator keeps its slot until `Finalize`. `Outbound` puts
the three outbound sides beside each other (INSTANCEs of `UpstreamClient` and
`ClientManager` next to `TaskPolling`): a step of it is a step of one of them.

`TaskService` is the request handler over the negotiating store. The SDK's active task
is external: it queues the executor's events, applies them to its own copy (`active`) and
saves it through the wrapper. An event is an update, a copy of the task the run began
with (`"snapshot"`), or a whole task made from scratch (`Afresh`), as the path of one
reply enqueues it for a response (`execution/coordinator.py:466`) and every path but an
open stream for an error (`execution/executor.py:476`); such a task takes the copy's
place and has neither its output modes nor its data. `working` says which kind of run
the task has and so what it may emit (`Emits`). `registry` is the in-memory
`TaskOutputModeRegistry`, lost in `Restart`; `store` survives.

`RateLimiter` is the sliding window with its capped table; a refusal and its
`Retry-After` hint are two steps, as the lock is released in between. `StillIn` is what
the `popleft` loop of `_prune` leaves: it stops at the first entry that is new enough.
`StreamBudget` is the generator of `apply_stream_budget`. `HttpAdmission` is a request's
way through the middlewares, outermost first, with the body read in chunks by the
first layer that wants it; its limiter is an INSTANCE of `RateLimiter`, shared by all
requests. `Edge` puts the two together: requests in the layers, and a response streamed
under its budgets (an INSTANCE of `StreamBudget`) after its request has passed them.

`JsonRpc` takes one request from its body to its answer: `Steps` is the order of checks
of its handler, and each check is an action that passes the request on or answers it.
`RpcParams` holds what the handlers ask of their params, beside what the extension
contracts publish (`Contract`). The claims that concurrent requests contend for are in
`Execution`; here any of their outcomes may come back. `Endpoint` puts it beside the
registry of interrupt requests that its callbacks settle (an INSTANCE of `Interrupts`,
whose requests are called prompts there).

`Migrations` has a step per catalogue lookup and per statement, since other processes
run between the two; `db` is committed, `work` is what the open transaction sees. The
SQLite driver opens a transaction at the first row written, and DDL before that
commits by itself or not. `DatabaseFile` is the database's file and the sidecars beside
it (`node`), and a step of a process is at most one system call on them: the lstat of
each place and its verdict (`Look`), the exclusive `Create`, the lstat after it
(`Relook`), one `os.chmod` (`Chmod`, which follows a link and fails on a file that is
gone or another's), and `Open`, which is SQLite's. The same check is made before the engine
is built, in `do_connect` and in `connect` (`check`), and only after the last is the
connection in use. Between any two steps other processes check, SQLite makes and
deletes sidecars (`Use`), a process ends or crashes (`Stop`), and the environment puts a
file, a link, a directory or nothing in any place (`Replace`); `touched` remembers which
places were replaced behind a check's lstat. `Lifespan` is start-up and closing with the exit stack as a sequence.
`Startup` composes the three, with `Migrations` extended and the others as INSTANCEs.

Definitions whose comment begins with "Mutant" or "Defect" are plausible bugs of the
definition that follows them; `PROJECT.json` says which property finds each. They are
not part of the specification.

### Abstractions

- Sessions: the database backend is modelled (the default). In the in-memory backend a
  repository call does not suspend, bindings expire, and nothing survives a crash.
  Interrupts: both backends.
- Database errors are not modelled in `Execution`; a cancelled or crashed database call
  either did not happen or is over. `TaskService` has failing saves, `Migrations`
  failing and interrupted statements.
- The directory of the database file is there, and making it is left out; in
  `DatabaseFile` a process is an ordinary user's, so the owner of a file is this user or
  another.
- A cancel of a finished execution comes from that execution's caller.
- Guarded calls are not interrupted: nothing in the code cancels a JSON-RPC handler.
- A workspace and a directory are both a `scope` in `Execution`: the binding key treats
  them alike. `UpstreamClient` and `JsonRpc` tell them apart.
- `asyncio.Lock` wakes its waiters in order; the model lets any waiter take a free
  lock, which allows more.
- Text is a sequence of tokens, one of them blank; the parsing of an event's fields is
  its kind. Message ids and token usage are left out of `Streaming`.
- A body is a size, a declared size and a shape; an origin is a site and the form it is
  spelled in; times and sizes are small integers compared as the code compares them.
- A JSON value in `RpcParams` is its type and what it holds; a text is the
  sequence of its pieces (path components, for a path).
- Error texts, logging, traces and metrics are left out everywhere.

## Runs

An MC module instantiates the specification; where a question needs several small
instances, they are explored in one run: a variable that never changes says which one a
behaviour is about (`instance` in `MCExecution`, `turn` in `Streaming`, `backend` in
`Interrupts`). Of the compositions `Edge`, `Outbound`, `Startup` and `Endpoint`, the MC
modules let one component at a time move: `part` names it, the others stand still, since
their steps share nothing that a property relates. A property about another part than the
one that moves says nothing there; every part has mutants of its own.

| Run | Instance | Shows |
|---|---|---|
| `claims` | 2 callers, 1 existing session or one the adapter creates, 2 executions, 1 guard, and 1 cancel or 1 crash | `TypeOK`, `CheckedStillTrue`, `PendingProtected`, `ClaimAccounted`, `BindingOwned`, `TurnByOwner`, `RefinesOwnership` |
| `turns` | 3 executions: of 1 session with 2 cancels; of 2 callers, 2 contexts, with and without workspace, 1 cancel | `TurnExclusiveUnlessForeignRelease`, `NoDuplicateCreate`, `PoisonOnlyUnderScope`, `CancelIsolation` |
| `execution_live` | creates and an existing session; 2 cancels of one of 2 executions; 1 execution and 1 guard of 2 callers | `Terminates` |
| `foreign_release` | as `turns` | `TurnExclusive` is violated |
| `poison` | as `turns` | `NoPoisonedCreate` is violated |
| `endpoint` | 2 prompts, 2 replies of 8 kinds, both backends; every method, good and with one or two things wrong, 10 configurations, every shape of reply | `RepliesSettle`, `OpenUntilAnswered`, `RefinesRegistry`, `EffectsAllowed`, `OutcomesTold`, `ContractsHold` |
| `streaming` | 3 kinds of turn: text and tool part, rewritten text, deltas | `TextDelivered`, `StreamedText`, `EventsInOrder`, `TurnEnds` |
| `tasks` | 1 task, 3 calls, streamed or replied to, 2 chunks, 2 events waiting, 1 restart (not with two sends and a cancel together) | `CancelVerdict`, `AnswersAreWhole`, `RowIsKept`, `CancelAnswered` |
| `modes_lost` | as `tasks` | `RestrictionNeverLost` is violated |
| `edge` | every kind of request alone; 3 that differ to the limiter, time passing with 2 of them; 6 requests of 3 keys at a limiter that holds 2; a stream with all budgets | `RequestsCleared`, `QuotaIsFair`, `StreamWithinBudget`, `SilenceEnds` |
| `outbound` | 3 callers of 2 budgets; every endpoint and scope; 5 lines of 8 kinds; 3 calls, 2 agents, room for 1 client; 1 polled send | `BudgetsKept`, `ExchangeFaithful`, `ClientsKept`, `PollingTells`, `OutboundEnds` |
| `startup` | 2 starters on 8 old databases, 1 crash or stop; 2 processes, a database and 2 sidecars of 6 kinds, 1 replaced; every failure of start and stop | `SchemaTrue`, `SchemaKept`, `StartsInTheEnd`, `ClosedInOrder`, `FileIsPrivate` |

Properties of these runs that are conjunctions, each conjunct stated and commented on
its own in its module:

| Property | Of |
|---|---|
| `RepliesSettle` | `TypeOK`, `AnsweredIsGone`, `OneReplyWins` |
| `OpenUntilAnswered` | `OpenIsAnswerable`, `ExpiredThroughWindow` |
| `StreamedText` | `TypeOK`, `BufferIsClientView`, `StreamFaithful` |
| `EventsInOrder` | `SequenceIncreasing`, `NoArtifactAfterCompleted` |
| `AnswersAreWhole` | `TypeOK`, `TextIsWhole`, `OnlyAcceptedModes` |
| `RowIsKept` | `TerminalIsFinal`, `RestrictionSticks` |
| `RequestsCleared` | `TypeOK`, `RouteIsCleared`, `BufferBounded`, `ExtendedCardIsPrivate` |
| `QuotaIsFair` | `ChargedToSender`, `WithinQuota`, `RefusalIsDeserved`, `HintIsHonest` |
| `StreamWithinBudget` | `TypeOK`, `SentWithinBudget`, `HandlerIsClosed`, `LastsNoLonger` |
| `EffectsAllowed` | `TypeOK`, `EffectsAuthorized`, `RefusedIsUnsent`, `ScopeContained` |
| `OutcomesTold` | `ClaimSettled`, `AnswerTellsOutcome`, `ListingWithinLimit` |
| `ContractsHold` | `RequiredIsRequired`, `ModelsAreComplete`, `SupportedIsDispatched` |
| `BudgetsKept` | `TypeOK`, `SlotsAccounted`, `WithinLimit`, `RefusedIsUnsent` |
| `ExchangeFaithful` | `ScopeIsServers`, `EventsOfTheStream`, `StoppedIsQuiet` |
| `ClientsKept` | `TypeOK`, `NotClosedInUse`, `SettledWithinBound`, `EvictedIsClosed` |
| `PollingTells` | `TypeOK`, `TimeoutIsFresh`, `EndsInTime`, `SettledIsTrue` |
| `OutboundEnds` | `DroppedIsReleased`, `PollingEnds` |
| `SchemaTrue` | `TypeOK`, `VersionTellsTruth`, `UpMeansMigrated` |
| `SchemaKept` | `VersionNeverRegresses`, `NothingLost`, `VersionWritesSucceed` |
| `ClosedInOrder` | `EverythingClosed`, `UsersCloseFirst`, `OnlyStartedIsClosed` |
| `FileIsPrivate` | `ReadyIsPrivate`, `RefusedForCause` |

The type invariant of each module is the first conjunct of one of them. Every other
conjunct has a mutant that breaks it.

Bounds. Processes, callers, contexts and sessions are finite sets; `MaxCrashes`,
`MaxRestarts` and `MaxFaults` bound what fails; `MaxQueued` bounds the events that wait
for the SDK while the executor goes on; `MaxTime` bounds each clock, one to three windows
long; `MaxClients`, `MaxLines`, `MaxReplaced`, `MaxChunks` and
`turn.max` bound what would grow for ever. Two callers are enough for a conflict about a
session, since the manager only compares identities. Three executions are the least for a
foreign release (holder, cancelled waiter, next holder) and for a second create beside a
shared one. Two cancels are the least to interrupt a cleanup, one crash to interrupt any
step; tool rounds of `Execution` are unbounded. The limiter admits 2 requests of a key
and holds 2 keys: six requests of three kinds, which start in front of it, fill every
quota, make it evict a full bucket and refill it before the hint is given; a second agent
with room for one client does the same to the client cache. Two prompts and two replies
let every pair of repository operations race; time 3 is an expiry of 1 and then a
tombstone of 2. Two sidecars are the least for one to be passed while another is still
to come, and the one replacement may fall between any two steps of both processes; the
proof has any number of either. Time 1 of the client cache is one lifetime. A second crash of a starter adds nothing new: a crash
before the other one starts leaves both to race on the half-migrated database, and a
starter that fails begins again any number of times. In `claims` a behaviour has a cancel
or a crash; that the properties hold with both, and beyond the other bounds, is proved.

Symmetry permutes executions, sessions that no request names, or replies, in safety runs
only. Where a run checks liveness, those who are alike begin in their order, or the one
that is cancelled is fixed; no fairness condition is about the steps this leaves out.

Deadlock is checked where the system is a fixed set of processes (the five
`MCExecution` runs): `InstanceQuiescent` is the only way to stop, when all have ended or
wait for an abandoned lock. The others really stop: a turn is over, every request has
arrived and is answered, or a clock has reached its bound.

Fairness.

- `Execution`: the event loop runs every runnable task, and a lock is handed to its
  waiters in order, so a waiter is not passed over for ever: strong fairness of each
  execution and each guard. Every upstream call returns, fails or times out (weak
  fairness of the create task; send and call are steps of their process). Strong
  fairness of `Respond` says that the upstream does not ask for tool calls for ever:
  the code has no bound of its own there. Nothing obliges requests or cancels to arrive,
  claims to expire, or the process to crash.
- `Streaming`: the stream task, the coordinator and a cancel that has begun run on; the
  send ends by its HTTP timeout; upstream goes idle after a turn. Connections may drop
  as often as the bound allows.
- `TaskService`: handlers and the SDK's consumer run on. The executor owes nothing.
- `TaskPolling`: clock, timers and the HTTP timeout. Nothing is assumed of the peer.
- `StreamBudget`: the generator's own steps, its idle timer, the clock, and a client that
  keeps reading. Nothing is assumed of the handler.
- `UpstreamClient`: the event loop closes a dropped generator (asyncgen hooks).
- `Migrations`: strong fairness of each starter's steps: a supervisor starts again what
  has failed, and SQLite's write lock is granted in the end.

### Findings

- *Foreign release.* `_cleanup` releases the session lock when it is `locked()`,
  whoever holds it (`execution/coordinator.py:510`). An execution cancelled while
  it waits for its turn frees the lock of the one in its turn, and a third one starts
  sending. `tests/execution/test_streaming_output_contract_core.py:432` expects
  messages of one session to be serialized. `TurnsAreExclusive` proves that this
  is the only way turns can overlap.
- *Poisoned create.* A cancel that arrives before the execution holds its session
  lock does not know the workspace- or directory-specific binding key and pops the
  plain one (`execution/executor.py:344`). The create it cancels stays registered
  (`CancelledError` is not an `Exception`, `execution/session_manager.py:106`), and
  later requests of that conversation and workspace join a cancelled task, although
  `docs/guide.md:548` promises them a session. `PoisonOnlyUnderScope` shows that
  conversations without workspace or directory are safe.

- *Restriction lost.* A client's restriction of the output modes is saved with its task.
  After a restart the registry is empty, and a later message without a restriction that
  is answered in one reply enqueues a task made from scratch, without the saved modes
  (`execution/coordinator.py:466`; an error does the same, `execution/executor.py:476`).
  `save` finds modes neither in the registry nor in that task (`server/task_store.py:107`)
  and overwrites the row, so later reads are unfiltered, although `docs/guide.md:287`
  promises that the negotiation is persisted. `RestrictionSticks` shows that this is the
  only way: without a restart, and by any update, snapshot or cancel, it is not lost.

### Differences noted while modelling

The models follow the code in each of these; no run is about them.

- `docs/guide.md:1344`: producers must emit artifacts before the terminal event. A
  cancel enqueues CANCELED (`execution/executor.py:335`) before it stops the execution
  (`:403`), and a failed execution emits FAILED while its stream task still runs
  (`execution/coordinator.py:498`): chunks may follow. `NoArtifactAfterCompleted` holds
  for COMPLETED.
- `server/client_manager.py:146`: while any entry is pending eviction the LRU pass is
  skipped, so idle clients exceed the bound that
  `tests/server/test_a2a_client_manager.py:57` asserts. `SettledWithinBound` shows that
  the cache is within its bound again once the calls are over.
- `server/runtime_limits.py:127`: a full table gives up its oldest bucket, whose caller
  then starts a fresh window; `docs/guide.md:331` states the quota without exception.
- `server/runtime_limits.py:195`: the duration budget is looked at only when an event
  arrives; `docs/guide.md:332` says that a stream is bounded by it. With the idle budget
  off, a silent stream stays open.
- `server/middleware.py:255`: an origin of the allowlist that is not normalized matches
  as written; the warning at `:260` says that only its normalized form will.
- `server/request_handler.py:98`: output modes are remembered before the SDK has
  accepted the message, so a late message can change what later reads return, while
  `docs/compatibility.md:118` promises the same filtered contract.
- `docs/guide.md:682`: requests without `id` return HTTP 204. An error of such a request
  is answered with a body whose id is null (`jsonrpc/application.py:235`).
- `docs/guide.md:1041`: a disabled shell is METHOD_DISABLED. The method is not registered
  and is answered as unsupported, like an unknown one (`jsonrpc/application.py:363`).
- `jsonrpc/handlers/workspace_control.py:307` accepts a worktree request without the
  payload `contracts/extensions/catalog.py:529` requires, and `:360` raises outside its
  `try` for a null item (`catalog.py:518`).

## Theorems

A component's theorems are in a module of their own (`ExecutionProofs`,
`EndpointProofs`, `StreamProofs`, `TaskProofs`, `EdgeProofs`, `OutboundProofs`,
`StartupProofs`). The inductive invariants are stated in the component's module, so that
TLC can check them too, under the heading "What makes these properties inductive", or,
for `Outbound`, for the requests of `Endpoint` and for the file and the lifespan of
`Startup`, at the head of their proof.
Those with more than types and a handful of facts were checked on the component's run
before they were proved.

Assumptions, all evaluated by TLC on the runs: requests are well formed and executions
and guards are different processes (`ConstantsAssumption`, `MaxCrashesAssumption`); every
prompt has an owner and a kind, a TTL is positive, a call names a prompt
(`PromptAssumption`); no two handlers claim a method, as the registry's constructor
demands, the limits of listings are in order, a request has its fields, an array of an
answer is finite, the base directory is resolved, as the application does when it is
built, and `Links` maps a symbolic link to the resolved path it leads to in the end, which
leaves out only links that loop (`RegistryIsUnambiguous`, `JsonRpcAssumption`); what clients ask for are sets of modes (`TaskAssumption`); a
starter finds a database whose columns and indexes have their tables and whose version
row is true, the ones earlier releases wrote (`DatabasesAssumption`); the parts, texts
and flags of a turn are typed and a part is not called "text" or "reasoning"
(`StreamingAssumption`); sizes are numbers, quota, window and table size are positive, as
the limiter's constructor demands, and a credential has a principal (`HttpAssumption`,
`BudgetAssumption`); limits and times are numbers, a polling policy is one its validation
accepts, the client cache has room for a client (a size of 0 turns the cache off) and
"remote", which marks what a remote caller put in its params, is no scope of the
server's (`UpstreamAssumption`, `CacheAssumption`, `ValidPolicy`, `EnvironmentBounds`);
whatever is, or is put, at the path of the database or of a sidecar is a file of some kind
(`FilesAssumption`); and
`None`, `NoStarter`, `AnyMode` are none of the values they stand beside. No set of callers,
sessions, executions, requests, tasks, starters or tokens needs to be finite, except that
finitely many HTTP requests, upstream calls and borrows of a client are under way at a time.

Sessions and executions.

- `TypeCorrect`: `TypeOK` is inductive as stated. Besides types it says what each
  program point relies on having been assigned.
- `ChecksHold`: `CheckedStillTrue` is inductive with `TypeOK`. Inside a
  check-then-write section the process holds the ownership lock, and each writer of
  an owner or a claim holds it as well; expiry only removes claims, which no check
  minds.
- `OwnersAreNeverStolen` follows: an owner row is written in two places, and in both
  the check that the row is free or the caller's still holds.
- `BindingsAreOwned`, `TurnsAreByOwners`: from the inductive invariant `OwnershipInv`.
  It adds `ContextHeld` (who records a created session holds the context lock, so
  nobody rebinds the context between its two writes) and `OwnedWhenBound` (ownership is
  settled already when a process queues for its turn), without which a lookup could hand
  out a session that is only about to be owned.
- `OwnershipImplemented`: under the invariants above and below, every step is a step of
  `SessionOwnership` or changes nothing it shows. Only nine actions write an owner, a claim
  or a binding. A written owner row needs what was checked under the lock
  (`CheckedStillTrue`), a written binding needs the owner (`OwnershipInv`), and the
  exceptions need that a session the adapter created is not one of `Preexisting`
  (`CreatedAfter`).
- `ClaimsAreAccounted`, `PendingClaimsProtect`: from `ClaimInv`. A claim row names a caller
  and not a process, so the invariant says of the processes where a claim may be pending
  (`PendingTrue`), and that who relies on a claim has it or owns the session by now
  (`ClaimProtects`), unless it lapsed or the adapter created the session (`CreatedAfter`).
- `TurnsAreExclusive`: from `TurnInv`. `InTurn` alone is not inductive, since
  an execution still holds its lock during cleanup; `TurnInv` counts holders, and says
  that the lock of a holder is locked unless the session is `foreign`.
- `CreatesAreNotDuplicated`, `PoisonNeedsScope`, `CancelsAreIsolated`: from `CreateInv`. A
  cancel works on a snapshot of the registries and pops and aborts after awaits, so the
  invariant has to say what the snapshot still means (`SnapshotTrue`) and to follow an
  interrupt from the task that was cancelled to everybody who awaits it (`CancelReaches`).

The endpoint, of `EndpointSpec`. Its requests:

- `EffectsAreAllowed`, `OutcomesAreTold`, `ContractsAreHeld`: from `RpcInv`. A request in
  its handler has passed a prefix of the handler's checks and has everything those
  checks grant (`Granted`): its params are well formed, its capabilities are there, its
  scope is the one that routing settled, its claim is one that may be used. `StepsOrder`
  says of each list of checks what comes in front of what (`InOrder`), so at the call
  all of it is there; the list with the claim behind the call, a mutant, has no such
  order. None of the three properties is inductive: each speaks of a request that was
  called or answered, and holds because of what was checked, steps before, when it was
  neither.
- What the properties ask of the data comes from lemmas about the operators.
  `Path.resolve()` and the lookup of a field along a path are folds (`RealPath`,
  `GetPath`), taken one piece at a time (`FoldsAt`): what `RealPath` returns is resolved,
  and what is resolved `RealPath` leaves alone, so a directory that passed the containment
  test is the one that is sent (`ScopeContained`). What a validator lets through has what
  the contract of the method requires.

Its prompts:

- `RepliesSettleOnce`, `OpenPromptsAreAnswerable`: from `SettleInv`, which relates the
  row of either repository to the history of its prompt (`BindingTrue`) and says what a
  reply between its check, its send and its discard knows (`ReplyTrue`). `SameStatus` is
  the lemma that both repositories give the same answer for the same row, although
  they sweep it in different ways.
- `RegistryImplemented`: initial states map to initial states, and under `SettleInv`
  every step is a step of `InterruptRegistry` or leaves every answer alone.

Streaming, from `StreamInvariant` (`Spec => []StreamInv`), whose parts are proved one on
the other:

- types, and that only an emitting stream task holds chunks (`Shapes`);
- order: who has heard the terminal signal emits nothing more (`Settled`), and sequence
  numbers taken but not sent are ahead of those the client has (`Numbered`). Hence
  `EventsStayInOrder`;
- the view: the adapter's buffer of a lane is what the client will hold once the chunk
  under way arrives (`ViewTrue`), and a turn about to complete has delivered its text
  (`DeliveryTrue`). Hence `TextIsDelivered`;
- the text: the events on the wire take what was consumed to what upstream wrote, one
  prefix after the other (`Chain`), and what was emitted with what is still to be emitted
  is what was consumed (`FaithTrue`). Hence `StreamedTextIsTrue`.

Tasks, from `TaskInv`: nobody works on a task that has ended (`EndedIsIdle`), a
restriction is known to the registry or to the SDK's copy, and before the first restart
to the registry (`RestrictionKnown`), and that copy is a prefix of what was emitted
(`CopyIsWhole`). Hence `CancelsTellTheTruth`, `AnswersHoldTheText`, and `RowsAreKept` of
every step. The latter is `RestrictionSticks` and not `RestrictionNeverLost`, which the
code violates: a copy that has the modes keeps them through every event but a whole task
made afresh, and such a task is annotated from the registry, unless a restart emptied it.

Start-up. The schema, from `MigrationInv`: what the open transaction sees only adds to what is
committed (`WorkTrue`), and a starter's program counter tells the truth of the database
as it sees it (`CreateTrue`, `StepTrue`), although others committed since it looked. Hence
`SchemaIsTrue`, and `SchemaIsKept` of every step. The file and the lifespan, of
`StartupSpec`:

- `FilesArePrivate`, for any number of processes, sidecars and replacements: the invariant
  (`FileInv`) says of each process in a check what it has found and done so far
  (`CheckTrue`): the database it has looked at is still acceptable, the places it has
  passed are private files or empty, except those that were replaced behind its lstat
  (`touched`). What other processes and SQLite do takes none of it back (`Harmless`): a
  chmod only makes private, and a new sidecar has the mode of the database, which is
  private by then. So a check that gets through leaves private files (`ReadyIsPrivate`),
  and a process is refused only for what is there, for a database that was taken away
  in the middle of the check, or for a sidecar that went between its lstat and its chmod
  (`RefusedForCause`; SQLite deleting a sidecar there makes `os.chmod` raise, so a good
  database may be refused once). What is excused is what a check of paths cannot see: a
  file swapped behind the last lstat of its place, also one that was swapped in before
  `Open` and out again before the third check.
- `ClosesInOrder`: what is left on the exit stack is exactly what is open, sorted by the
  order in which things may use each other (`LifeInv`), so taking the last one off never
  closes what another still needs, whichever closing fails.

The edge, from `EdgeInv`, which is `HttpInv` of the layers and `BudgetInv` of the stream:

- `RequestsAreCleared`: a request has passed exactly the layers in front of the one it is
  at (`InOrderPassed`), and what a layer made sure of still holds behind it
  (`LayersHold`), since request and principal are fixed by then and a body that was read
  stays read. A body is opened only behind the limiter (`BodiesCounted`).
- `QuotasAreFair`: the admissions on record are what the bucket holds after pruning
  (`AdmittedIsKept`) and the end of all the key's admissions (`AdmittedIsLast`), so a refusal
  is deserved; a hint promises that at its time fewer than the quota are left, and keeps
  promising it as the clock moves and the bucket is pruned (`HintHolds`). The lemmas
  about windows (`StillInTwice`, `StillInAppend`, `StillInEnds`) say that pruning at
  two times is pruning at the later one, spares a new entry, and keeps ends ends.
  `ChargedToSender` counts the requests behind the limiter, which keep their identity.
- `StreamsKeepTheirBudget`: an open stream has been at its present await no longer than
  the idle timer or the consumer takes (`Clocked`), whence the bound on its length; what
  the byte budget counts is what was sent.

The outbound sides, of `OutboundSpec`:

- `BudgetsAreKept`, `ExchangesAreFaithful`: from `UpstreamInv`. A budget's counter is the
  cardinality of the set of calls that are inside it (`Counted`), whatever way they came
  in or went out; a call's query is that of the directory and workspace its caller asked for
  (`CallTrue`), and whatever a remote caller adds, such a query never takes its scope from
  there; and the data collected by the reader is that of the lines since
  the last blank one (`ReaderTrue`), so a block is passed on as it was sent.
- `ClientsAreKept`: from `CacheInv`. The borrow count of a cached entry is the number of
  calls that hold it, unless an interruption leaked one (`CacheCounts`), an entry in the
  table is open (`CacheOpen`), and between two locked sections the cache is within its
  bound or something in it is borrowed (`CacheBound`). `EvictTakes` says that an eviction
  takes only what is not held and not kept; `EvictFits` that it takes enough. The latter
  needs that all but the n least recently used of k entries are at most k - n
  (`OldestFit`): ranks of distinct entries are distinct and below k (`RankGrows`), so the
  ranks from n on are an injection into n..k-1.
- `PollsTellTheTruth`: from `PollInv`. While `send()` waits, its timer ends in front of the
  deadline, up to the lateness of timers and requests, and what it saw settled stays settled.

`FlattenLemmas` has what these proofs need of joined texts. The library's induction rules
take a predicate as a parameter, which the provers cannot instantiate; there induction
is over a *set* of numbers or sequences instead (`SetInduction`, `SequenceInduction`),
from which the facts about `FlattenSeq` of the community modules follow.

Every safety invariant and every action property of the runs is proved but three
(`TurnExclusive`, `NoPoisonedCreate` and `RestrictionNeverLost`, which the code violates). Only model-checked:

- liveness (`Terminates`, `TurnEnds`, `CancelAnswered`, `SilenceEnds`, `OutboundEnds`,
  `StartsInTheEnd`): the proof system has no rules for fairness.

## Not modelled

- Tool orchestration (`execution/tool_orchestration.py`): a tool round is a step of
  `Execution`, and its outbound calls are the callers of `ClientManager`; what it maps
  between the two has no state.
- Configuration and command line: settings are constants of the models.
- Parts, parsing, metrics, traces, redaction, the agent card and OpenAPI documents:
  formatting of values the properties do not tell apart.
- The A2A client's `cancel_task` and `subscribe_to_task`, and the task store's `list`:
  the same shape as `send` and `get`.
- The network policy and `validate_configuration`: decided once, at configuration time.
- The SDK's active task and task manager, SQLAlchemy and SQLite are external: modelled
  from how the code uses them.

## Plan

1. Done: session manager, executions, cancels and guards, with the ownership and turn
   proofs; interrupts with their abstract specification; streaming; tasks; the edge;
   JSON-RPC; the outbound clients; start-up.
2. Done: proofs of everything the runs check of these, liveness excepted, and of the
   refinement of the two abstract specifications, `SessionOwnership` and
   `InterruptRegistry`.
