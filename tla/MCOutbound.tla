----------------------------- MODULE MCOutbound -----------------------------
(* The server's outbound sides for TLC.  A behaviour is about one part, the   *)
(* others stand still: three callers and the concurrency budgets; one caller, *)
(* every endpoint and every scope; one event stream and every sequence of     *)
(* lines; the cache of A2A clients; one send that falls back to polling.      *)
EXTENDS Outbound, Sequences, TLC

CONSTANTS u1, u2, b1, b2, b3, c1, c2, c3

VARIABLE part

MCCallers == {c1, c2, c3}

\* The endpoints there are, from an instance that offers none of them.
Api == INSTANCE UpstreamClient WITH NoValue <- None, Operations <- {}
MCOperations == DOMAIN Api!Endpoints

\* A request budget of one and a stream budget of two.
MCLimit == [request |-> 1, stream |-> 2]

MCScopes == {None, "", "here"}
MCUrls == {u1, u2}
MCCalls == {b1, b2, b3}

-----------------------------------------------------------------------------
MCInit == part \in {"budget", "scope", "lines", "cache", "polling"} /\ OutboundInit

\* Calls, which are alike, begin in their order, and the first one with u1.
InOrder ==
  /\ borrower'[b2] # "idle" => borrower'[b1] # "idle"
  /\ borrower'[b3] # "idle" => borrower'[b2] # "idle"
  /\ borrower[b1] = "idle" => table'[u2] = None

Budgets ==
  /\ Upstream!Within(Callers, {"send_message", "session_prompt_async", "stream_events"},
                     {None}, {None}, {}, {"blank", "data_object"})
  /\ \A c \in Callers : Len(reader'[c].lines) <= 2

Scopes ==
  Upstream!Within({c1}, Operations \ {"stream_events"}, Directories, Workspaces, ExtraKeys, {})

Lines == Upstream!Within({c1}, {"stream_events"}, {None}, {None}, {}, LineKinds)

MCNext ==
  /\ UNCHANGED part
  /\ \/ part = "budget" /\ Budgets /\ UNCHANGED <<cache, vars>>
     \/ part = "scope" /\ Scopes /\ UNCHANGED <<cache, vars>>
     \/ part = "lines" /\ Lines /\ UNCHANGED <<cache, vars>>
     \/ part = "cache" /\ Cache!Next /\ InOrder /\ UNCHANGED <<upstream, vars>>
     \/ part = "polling" /\ Next /\ UNCHANGED <<upstream, cache>>

MCSpec ==
  /\ MCInit /\ [][MCNext]_<<part, vars, upstream, cache>>
  /\ Fairness /\ Upstream!Fairness
=============================================================================
