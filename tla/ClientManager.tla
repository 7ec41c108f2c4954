---------------------------- MODULE ClientManager ----------------------------
(***************************************************************************)
(* The cache of outbound A2A clients (server/client_manager.py) under the  *)
(* tool calls that borrow them (execution/tool_orchestration.py), the      *)
(* operations that make a client busy (client/client.py) and shutdown      *)
(* (server/lifespan.py).                                                   *)
(*                                                                         *)
(* The sections under the manager's lock contain no await, so each is one  *)
(* step.  Closing a client awaits, and a call can be cancelled at every    *)
(* await.  Entries are numbered in the order of their creation, which is   *)
(* the order of the dictionary and breaks ties of last_used.               *)
(***************************************************************************)
EXTENDS Integers, FiniteSets

CONSTANTS
    None,
    Urls,          \* agent urls
    Calls,         \* tool calls
    MaxSize,       \* a2a_client_cache_maxsize (0 would disable the cache)
    TTL,           \* a2a_client_cache_ttl_seconds, 0 for none
    MaxClients,    \* bound: clients ever created
    MaxTime        \* bound: how far the clock runs

VARIABLES
    now,
    table,     \* clients: url -> entry, None without one
    ent,       \* the entries: url, last_used, expires_at, borrow_count, pending_eviction
    open,      \* entries whose client is not closed
    pc, mine,  \* the calls and the entry each one borrows
    todo,      \* clients a call (or shutdown) has still to close
    leaked,    \* history: entries whose borrow was never given back
    orphans,   \* history: evicted clients whose close was interrupted
    down       \* close_all has run

vars == <<now, table, ent, open, pc, mine, todo, leaked, orphans, down>>

Ids == 1..Cardinality(DOMAIN ent)
Shutdown == "shutdown"

Init ==
    /\ now = 0
    /\ table = [u \in Urls |-> None] /\ ent = [i \in {} |-> None] /\ open = {}
    /\ pc = [b \in Calls |-> "idle"] /\ mine = [b \in Calls |-> None]
    /\ todo = [b \in Calls \cup {Shutdown} |-> {}]
    /\ leaked = {} /\ orphans = {} /\ down = FALSE

-----------------------------------------------------------------------------
(* _evict_locked *)

Cached(t) == {t[u] : u \in Urls} \ {None}
Expiry == IF TTL <= 0 THEN None ELSE now + TTL
Expired(e, i) == e[i].expires # None /\ e[i].expires <= now

\* is_busy: an operation is running on the client of the entry.
Busy(i) == \E b \in Calls : mine[b] = i /\ pc[b] = "active"
Held(e, i) == e[i].borrow > 0 \/ Busy(i)

Older(e, i, j) == e[i].used < e[j].used \/ (e[i].used = e[j].used /\ i < j)
Rank(e, S, i) == Cardinality({j \in S : Older(e, j, i)})

Drop(t, gone) == [u \in Urls |-> IF t[u] \in gone THEN None ELSE t[u]]
Mark(e, S) == [i \in DOMAIN e |-> IF i \in S THEN [e[i] EXCEPT !.pending = TRUE] ELSE e[i]]

\* Mutant of EvictDue: a client in use is evicted.
EvictDueBusy(t, e, keep) ==
    LET gone == {i \in Cached(t) : (Expired(e, i) \/ e[i].pending) /\ i \notin keep}
    IN  [table |-> Drop(t, gone), ent |-> e, gone |-> gone]

\* The first loop: the expired and the pending entries.  Those in use are
\* marked instead, and keep is protected.
EvictDue(t, e, keep) ==
    LET late == {i \in Cached(t) : Expired(e, i) \/ e[i].pending}
        gone == {i \in late : i \notin keep /\ ~ Held(e, i)}
    IN  [table |-> Drop(t, gone), ent |-> Mark(e, late \ gone), gone |-> gone]

\* The second one, when the table is still too large and nothing is pending:
\* the least recently used entries, those in use passed over and marked.
EvictOldest(t, e, keep) ==
    LET excess == Cardinality(Cached(t)) - MaxSize
        idle   == {i \in Cached(t) : i \notin keep /\ ~ Held(e, i)}
        gone   == {i \in idle : Rank(e, idle, i) < excess}
        passed == {i \in Cached(t) \ (idle \cup keep) :
                      Cardinality(gone) < excess \/ \E j \in gone : Older(e, i, j)}
    IN  IF excess <= 0 \/ \E i \in Cached(t) : e[i].pending
        THEN [table |-> t, ent |-> e, gone |-> {}]
        ELSE [table |-> Drop(t, gone), ent |-> Mark(e, passed), gone |-> gone]

Evict(t, e, keep) ==
    LET r1 == EvictDue(t, e, keep)
        r2 == EvictOldest(r1.table, r1.ent, keep)
    IN  [table |-> r2.table, ent |-> r2.ent, gone |-> r1.gone \cup r2.gone]

-----------------------------------------------------------------------------
(* borrow_client *)

\* validate_agent_url refuses, before anything is cached.
Refuse(b) ==
    /\ pc[b] = "idle"
    /\ pc' = [pc EXCEPT ![b] = "done"]
    /\ UNCHANGED <<now, table, ent, open, mine, todo, leaked, orphans, down>>

\* The first locked section: an expired entry of the url is replaced if it is
\* free; eviction; the entry is created or renewed; the borrow; eviction.
Borrow(b, u) ==
    LET i0   == table[u]
        old  == IF i0 # None /\ Expired(ent, i0) /\ ~ Held(ent, i0) THEN {i0} ELSE {}
        r1   == Evict(Drop(table, old), ent, {i0} \ old)
        i    == IF i0 = None \/ old # {} THEN Cardinality(DOMAIN ent) + 1 ELSE i0
        n    == IF i \in DOMAIN ent THEN r1.ent[i].borrow ELSE 0
        e2   == [j \in DOMAIN ent \cup {i} |->
                    IF j = i THEN [url |-> u, used |-> now, expires |-> Expiry,
                                   borrow |-> n + 1, pending |-> FALSE]
                    ELSE r1.ent[j]]
        r2   == Evict([r1.table EXCEPT ![u] = i], e2, {i})
    IN  /\ pc[b] = "idle" /\ i <= MaxClients
        /\ table' = r2.table /\ ent' = r2.ent
        /\ open' = open \cup ({i} \ DOMAIN ent)
        /\ mine' = [mine EXCEPT ![b] = i]
        /\ todo' = [todo EXCEPT ![b] = old \cup r1.gone \cup r2.gone]
        /\ pc' = [pc EXCEPT ![b] = "closing"]
        /\ UNCHANGED <<now, leaked, orphans, down>>

\* _close_clients, before the client is handed out and after it came back.  The
\* order, which is that of the eviction, is left open.
CloseOne(b) ==
    /\ pc[b] \in {"closing", "returning"}
    /\ \E i \in todo[b] : /\ open' = open \ {i}
                         /\ todo' = [todo EXCEPT ![b] = @ \ {i}]
    /\ UNCHANGED <<now, table, ent, pc, mine, leaked, orphans, down>>

HandOut(b) ==
    /\ pc[b] = "closing" /\ todo[b] = {}
    /\ pc' = [pc EXCEPT ![b] = "using"]
    /\ UNCHANGED <<now, table, ent, open, mine, todo, leaked, orphans, down>>

\* send_message: _acquire_operation, the exchange, _release_operation.
Operate(b) ==
    /\ pc[b] = "using"
    /\ pc' = [pc EXCEPT ![b] = "active"]
    /\ UNCHANGED <<now, table, ent, open, mine, todo, leaked, orphans, down>>

Operated(b) ==
    /\ pc[b] = "active"
    /\ pc' = [pc EXCEPT ![b] = "leaving"]
    /\ UNCHANGED <<now, table, ent, open, mine, todo, leaked, orphans, down>>

\* The second locked section, in the finally of the context manager.  An entry
\* that is no longer the one of its url is left alone.
Return(b) ==
    LET i  == mine[b]
        e1 == IF table[ent[i].url] # i THEN ent
              ELSE [ent EXCEPT ![i].borrow = @ - 1, ![i].used = now, ![i].expires = Expiry]
        r  == Evict(table, e1, {})
    IN  /\ pc[b] = "leaving"
        /\ table' = r.table /\ ent' = r.ent
        /\ todo' = [todo EXCEPT ![b] = r.gone]
        /\ mine' = [mine EXCEPT ![b] = None]
        /\ pc' = [pc EXCEPT ![b] = "returning"]
        /\ UNCHANGED <<now, open, leaked, orphans, down>>

Returned(b) ==
    /\ pc[b] = "returning" /\ todo[b] = {}
    /\ pc' = [pc EXCEPT ![b] = "done"]
    /\ UNCHANGED <<now, table, ent, open, mine, todo, leaked, orphans, down>>

\* The call is cancelled, or a close raises.  Between the borrow and the try
\* nothing gives the borrow back.
Interrupt(b) ==
    /\ CASE pc[b] = "closing" ->
              /\ pc' = [pc EXCEPT ![b] = "done"]
              /\ leaked' = leaked \cup {mine[b]} /\ mine' = [mine EXCEPT ![b] = None]
         [] pc[b] \in {"using", "active"} ->
              pc' = [pc EXCEPT ![b] = "leaving"] /\ UNCHANGED <<mine, leaked>>
         [] pc[b] = "returning" ->
              pc' = [pc EXCEPT ![b] = "done"] /\ UNCHANGED <<mine, leaked>>
         [] OTHER -> FALSE
    /\ orphans' = orphans \cup todo[b]
    /\ todo' = [todo EXCEPT ![b] = {}]
    /\ UNCHANGED <<now, table, ent, open, down>>

-----------------------------------------------------------------------------
(* close_all, which lifespan runs after the request handler is closed *)

\* Mutant of CloseAll: the table is cleared before its clients are listed.
CloseAllCleared ==
    /\ ~ down
    /\ down' = TRUE
    /\ table' = [u \in Urls |-> None]
    /\ UNCHANGED <<now, ent, open, pc, mine, todo, leaked, orphans>>

CloseAll ==
    /\ ~ down
    /\ down' = TRUE
    /\ todo' = [todo EXCEPT ![Shutdown] = Cached(table)]
    /\ table' = [u \in Urls |-> None]
    /\ UNCHANGED <<now, ent, open, pc, mine, leaked, orphans>>

ShutdownClose ==
    /\ \E i \in todo[Shutdown] : /\ open' = open \ {i}
                                /\ todo' = [todo EXCEPT ![Shutdown] = @ \ {i}]
    /\ UNCHANGED <<now, table, ent, pc, mine, leaked, orphans, down>>

Tick ==
    /\ now < MaxTime
    /\ now' = now + 1
    /\ UNCHANGED <<table, ent, open, pc, mine, todo, leaked, orphans, down>>

Next ==
    \/ \E b \in Calls : \/ Refuse(b) \/ \E u \in Urls : Borrow(b, u)
                        \/ CloseOne(b) \/ HandOut(b) \/ Operate(b) \/ Operated(b)
                        \/ Return(b) \/ Returned(b) \/ Interrupt(b)
    \/ CloseAll \/ ShutdownClose \/ Tick

Spec == Init /\ [][Next]_vars

-----------------------------------------------------------------------------
(* Properties *)

Borrowed(i) == {b \in Calls : mine[b] = i}

\* Types; the count of a cached entry is the number of calls that hold it and
\* of the borrows that leaked.
TypeOK ==
    /\ now \in 0..MaxTime /\ down \in BOOLEAN
    /\ DOMAIN ent = Ids /\ open \subseteq Ids /\ Cached(table) \subseteq Ids
    /\ pc \in [Calls -> {"idle", "closing", "using", "active", "leaving", "returning", "done"}]
    /\ \A b \in Calls : mine[b] \in Ids <=> pc[b] \in {"closing", "using", "active", "leaving"}
    /\ \A u \in Urls : table[u] # None => ent[table[u]].url = u
    /\ \A i \in Cached(table) :
         /\ ent[i].borrow >= Cardinality(Borrowed(i))
         /\ i \notin leaked => ent[i].borrow = Cardinality(Borrowed(i))

\* A client is never closed under a call that holds it, however it expired,
\* was evicted or renewed meanwhile; only shutdown does that.
NotClosedInUse == \A b \in Calls : mine[b] # None => mine[b] \in open \/ down

\* Once every call has given its client back the cache is within its bound,
\* and nothing waits for an eviction that no one is left to do; a borrow
\* that an interrupted close leaked is the exception.
SettledWithinBound ==
    (\A b \in Calls : mine[b] = None) /\ leaked = {} =>
        /\ Cardinality(Cached(table)) <= MaxSize
        /\ \A i \in Cached(table) : ~ ent[i].pending

\* Every client that left the cache is closed, or about to be closed by the
\* call that evicted it, unless that call was interrupted while closing.
EvictedIsClosed ==
    \A i \in open : \/ i \in Cached(table)
                    \/ i \in orphans
                    \/ \E b \in Calls \cup {Shutdown} : i \in todo[b]
=============================================================================
