------------------------------ MODULE Outbound ------------------------------
(* The server's outbound sides: the HTTP client of OpenCode (UpstreamClient), *)
(* the cache of A2A clients its tool calls borrow (ClientManager), and one    *)
(* send of such a client that falls back to polling (TaskPolling).            *)
EXTENDS TaskPolling, FiniteSets

CONSTANTS
  None,
  Callers, Operations, Limit, Directory, Directories, Workspaces, ExtraKeys,
  LineKinds, MaxLines,                                    \* UpstreamClient
  Urls, Calls, MaxSize, TTL, MaxClients, MaxTime          \* ClientManager

VARIABLES
  inflight, call, reader,                                 \* UpstreamClient
  clock, table, ent, open, borrower, mine, todo, leaked, orphans, down

upstream == <<inflight, call, reader>>
cache == <<clock, table, ent, open, borrower, mine, todo, leaked, orphans, down>>

Upstream == INSTANCE UpstreamClient WITH NoValue <- None
Cache == INSTANCE ClientManager WITH now <- clock, pc <- borrower

\* The words of a model are none of the values it is about.
ASSUME UpstreamAssumption ==
  /\ IsFiniteSet(Callers) /\ Limit \in [Upstream!Categories -> Nat] /\ MaxLines \in Nat
  /\ Operations \subseteq DOMAIN Upstream!Endpoints
  /\ None \notin Operations
  /\ "remote" \notin Directories \cup Workspaces \cup {Directory}
  /\ None \notin {"busy", "value_error"}

ASSUME CacheAssumption ==
  /\ IsFiniteSet(Calls) /\ Cache!Shutdown \notin Calls
  /\ None \notin Nat
  /\ MaxSize \in Nat \ {0} /\ TTL \in Nat /\ MaxClients \in Nat /\ MaxTime \in Nat

OutboundInit == Init /\ Upstream!Init /\ Cache!Init

OutboundNext ==
  \/ Upstream!Next /\ UNCHANGED <<cache, vars>>
  \/ Cache!Next /\ UNCHANGED <<upstream, vars>>
  \/ Next /\ UNCHANGED <<upstream, cache>>

OutboundSpec ==
  /\ OutboundInit /\ [][OutboundNext]_<<vars, upstream, cache>>
  /\ Fairness /\ Upstream!Fairness

-----------------------------------------------------------------------------
\* Whatever way its calls end - an answer of any shape, a timeout, a
\* cancellation, an abandoned stream - a budget counts exactly the calls that
\* are inside it and admits no more than its limit, and what it turns away has
\* not been sent (_FastFailConcurrencyBudget in opencode_upstream_client.py).
BudgetsKept ==
  /\ Upstream!TypeOK
  /\ Upstream!SlotsAccounted
  /\ Upstream!WithinLimit
  /\ Upstream!RefusedIsUnsent

\* A request goes to the server's scope whatever a remote caller asks for, an
\* event stream is passed on block for block, and not after its turn has told it
\* to stop (_query_params, _merge_params, stream_events).
ExchangeFaithful ==
  /\ []Upstream!ScopeIsServers
  /\ []Upstream!EventsOfTheStream
  /\ Upstream!StoppedIsQuiet

\* A cached A2A client is open while a call holds it and closed when it has left
\* the cache, and the cache comes back to its bound once nobody holds one
\* (client_manager.py).
ClientsKept ==
  /\ Cache!TypeOK
  /\ Cache!NotClosedInUse
  /\ Cache!SettledWithinBound
  /\ Cache!EvictedIsClosed

\* The polling fallback ends in time and tells the truth: a time-out only of a
\* task seen running at the last moment it could look (client/client.py).
PollingTells == TypeOK /\ TimeoutIsFresh /\ EndsInTime /\ SettledIsTrue

\* What was dropped gets out of the way and a poll ends, whatever the other side
\* does.
OutboundEnds == Upstream!DroppedIsReleased /\ PollingEnds
=============================================================================
