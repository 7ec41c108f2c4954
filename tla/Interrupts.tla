------------------------------ MODULE Interrupts ------------------------------
(***************************************************************************)
(* Interrupt requests (permission and question prompts of the upstream     *)
(* agent): the event stream remembers and discards them                    *)
(* (execution/stream_runtime.py), the repositories of server/state_store.py*)
(* keep them with their expiry and a tombstone, the recovery queries list  *)
(* them (interrupt_queries.py) and the callbacks reply to them             *)
(* (interrupt_callbacks.py).                                               *)
(*                                                                         *)
(* Every repository operation is one step: the in-memory one does not      *)
(* await, the database one is a transaction.  Between two operations of a  *)
(* handler anything may happen, the clock and upstream included.           *)
(***************************************************************************)
EXTENDS Integers, FiniteSets

CONSTANTS
    None,
    Requests,        \* request ids, unique upstream
    Owner,           \* Owner[r]: identity of the execution that hears r asked
    Kind,            \* Kind[r] \in {"permission", "question"}
    Identities,      \* callers
    Repliers,        \* callback calls
    Calls,           \* what they may be: [request, method, caller, defect]
    RequestTTL,      \* a2a_interrupt_request_ttl_seconds
    TombstoneTTL,    \* a2a_interrupt_request_tombstone_ttl_seconds, 0 for none
    MaxTime          \* bound: how far the clock runs

VARIABLES
    backend,    \* "memory" or "database": a2a_task_store_backend
    now,        \* the clock
    exp,        \* expires_at of the binding of a request, None without one
    tomb,       \* tombstone_expires_at, None without one
    up,         \* upstream: "unasked", "open" or "closed" (replied to)
    heard,      \* what the event stream made of it, see Hearing
    pc, call,   \* the callback calls; call is None until it arrives
    verdict,    \* the response of a finished call
    due         \* history: expiry of the last ask that was not withdrawn

repo == <<exp, tomb>>
vars == <<backend, now, exp, tomb, up, heard, pc, call, verdict, due>>

\* "announced": the client was told (INPUT_REQUIRED); "gap": the event was lost;
\* "resolved": the client was told (WORKING); "dropped": it was not.
Hearing == {"nothing", "gap", "asked", "announced", "resolved", "dropped"}

Init ==
    /\ backend \in {"memory", "database"}
    /\ now = 0
    /\ exp = [r \in Requests |-> None]
    /\ tomb = [r \in Requests |-> None]
    /\ up = [r \in Requests |-> "unasked"]
    /\ heard = [r \in Requests |-> "nothing"]
    /\ pc = [p \in Repliers |-> "idle"]
    /\ call = [p \in Repliers |-> None]
    /\ verdict = [p \in Repliers |-> "none"]
    /\ due = [r \in Requests |-> None]

-----------------------------------------------------------------------------
(* The repositories *)

Past(t) == t # None /\ t <= now
Overdue == {r \in Requests : Past(exp[r])}

\* The tombstone an expired request leaves, none when the setting is 0.
Tombstone == IF TombstoneTTL <= 0 THEN None ELSE now + TombstoneTTL

\* Mutants of Pruned: an expired request leaves no tombstone; it stays bound.
PrunedNoTombstone(R) ==
    [exp  |-> [r \in Requests |-> IF r \in R THEN None ELSE exp[r]],
     tomb |-> [r \in Requests |-> IF r \in R \/ Past(tomb[r]) THEN None ELSE tomb[r]]]
PrunedStaysBound(R) ==
    [exp  |-> exp,
     tomb |-> [r \in Requests |-> IF r \in R THEN Tombstone
                                  ELSE IF Past(tomb[r]) THEN None ELSE tomb[r]]]

\* The repository once the requests R are buried and past tombstones dropped.
Pruned(R) ==
    [exp  |-> [r \in Requests |-> IF r \in R THEN None ELSE exp[r]],
     tomb |-> [r \in Requests |-> IF r \in R THEN Tombstone
                                  ELSE IF Past(tomb[r]) THEN None ELSE tomb[r]]]

Become(s) == exp' = s.exp /\ tomb' = s.tomb

\* remember(): the in-memory repository sweeps every expired request, the
\* database one only drops old tombstones; both replace what r had.
MemoryRemember(r) ==
    LET s == Pruned(Overdue)
    IN  Become([exp |-> [s.exp EXCEPT ![r] = now + RequestTTL],
                tomb |-> [s.tomb EXCEPT ![r] = None]])

DatabaseRemember(r) ==
    LET s == Pruned({})
    IN  Become([exp |-> [s.exp EXCEPT ![r] = now + RequestTTL],
                tomb |-> [s.tomb EXCEPT ![r] = None]])

\* resolve(): status of r, and what the call leaves behind.
MemoryStatus(r) ==
    IF exp[r] = None
    THEN IF tomb[r] # None /\ ~ Past(tomb[r]) THEN "expired" ELSE "missing"
    ELSE IF Past(exp[r]) THEN "expired" ELSE "active"

MemoryResolve(r) == Become(Pruned(IF exp[r] = None THEN {} ELSE Overdue))

DatabaseStatus(r) ==
    IF tomb[r] # None /\ ~ Past(tomb[r]) THEN "expired"
    ELSE IF exp[r] = None THEN "missing"
    ELSE IF Past(exp[r]) THEN "expired" ELSE "active"

DatabaseResolve(r) == Become(Pruned(Overdue \cap {r}))

\* Mutant of Discard: the delete has lost its condition on the request.
DiscardAll(r) == Become([exp |-> [q \in Requests |-> None], tomb |-> [q \in Requests |-> None]])

Discard(r) == Become([exp |-> [exp EXCEPT ![r] = None], tomb |-> [tomb EXCEPT ![r] = None]])

\* list_pending(): which requests it returns does not change the state.
MemoryList == Become(Pruned(Overdue))
DatabaseList == Become(Pruned({}))

Remember(r) == IF backend = "memory" THEN MemoryRemember(r) ELSE DatabaseRemember(r)
Status(r) == IF backend = "memory" THEN MemoryStatus(r) ELSE DatabaseStatus(r)
Resolve(r) == IF backend = "memory" THEN MemoryResolve(r) ELSE DatabaseResolve(r)
ListPending == IF backend = "memory" THEN MemoryList ELSE DatabaseList

-----------------------------------------------------------------------------
(* Upstream (external) and the clock *)

UpstreamAsks(r) ==
    /\ up[r] = "unasked"
    /\ up' = [up EXCEPT ![r] = "open"]
    /\ UNCHANGED <<now, repo, heard, pc, call, verdict, due>>

\* Somebody else answers it, at the terminal of the upstream agent.
UpstreamClosed(r) ==
    /\ up[r] = "open"
    /\ up' = [up EXCEPT ![r] = "closed"]
    /\ UNCHANGED <<now, repo, heard, pc, call, verdict, due>>

Tick ==
    /\ now < MaxTime
    /\ now' = now + 1
    /\ UNCHANGED <<repo, up, heard, pc, call, verdict, due>>

-----------------------------------------------------------------------------
(* The event stream: mark_interrupt_pending and remember_request; then the *)
(* status update; clear_interrupt_pending and discard_request.  The events *)
(* of a request arrive in order, those of a reconnect gap never.           *)

\* mark_interrupt_pending and clear_interrupt_pending
NotPending(r) == heard[r] = "nothing"
WasPending(r) == heard[r] = "announced"

Asked(r) ==
    /\ up[r] # "unasked" /\ NotPending(r)
    /\ heard' = [heard EXCEPT ![r] = "asked"]
    /\ Remember(r)
    /\ due' = [due EXCEPT ![r] = now + RequestTTL]
    /\ UNCHANGED <<now, up, pc, call, verdict>>

Announce(r) ==
    /\ heard[r] = "asked"
    /\ heard' = [heard EXCEPT ![r] = "announced"]
    /\ UNCHANGED <<now, repo, up, pc, call, verdict, due>>

Resolved(r) ==
    /\ up[r] = "closed" /\ heard[r] \in {"gap", "announced"}
    /\ heard' = [heard EXCEPT ![r] = IF WasPending(r) THEN "resolved" ELSE "dropped"]
    /\ Discard(r)
    /\ due' = [due EXCEPT ![r] = None]
    /\ UNCHANGED <<now, up, pc, call, verdict>>

MissAsked(r) ==
    /\ up[r] # "unasked" /\ heard[r] = "nothing"
    /\ heard' = [heard EXCEPT ![r] = "gap"]
    /\ UNCHANGED <<now, repo, up, pc, call, verdict, due>>

-----------------------------------------------------------------------------
(* handle_interrupt_callback_request *)

Finish(p, v) == /\ pc' = [pc EXCEPT ![p] = "done"]
                /\ verdict' = [verdict EXCEPT ![p] = v]

Expected(m) == IF m = "permission_reply" THEN "permission" ELSE "question"

\* The identity is compared only when both sides have one; the stream never
\* passes a credential id to remember, so that comparison cannot fail.
Mine(c) == c.caller = None \/ c.caller = Owner[c.request]

\* Up to the upstream call: resolve, then the checks of the binding, then
\* those of the fields.
Check(p, c) ==
    /\ pc[p] = "idle"
    /\ call' = [call EXCEPT ![p] = c]
    /\ IF c.defect = "request_id"
       THEN Finish(p, "invalid") /\ UNCHANGED repo
       ELSE /\ Resolve(c.request)
            /\ CASE Status(c.request) = "expired" -> Finish(p, "expired")
                 [] Status(c.request) = "missing" -> Finish(p, "not_found")
                 [] Kind[c.request] # Expected(c.method) -> Finish(p, "type_mismatch")
                 [] ~ Mine(c) -> Finish(p, "not_found")
                 [] c.defect = "fields" -> Finish(p, "invalid")
                 [] OTHER -> pc' = [pc EXCEPT ![p] = "send"] /\ UNCHANGED verdict
    /\ UNCHANGED <<now, up, heard, due>>

\* Mutant of Send: a 404 counts as accepted.
SendIgnores404(p) ==
    LET r == call[p].request IN
    /\ pc[p] = "send"
    /\ call[p].defect = "none"
    /\ pc' = [pc EXCEPT ![p] = "discard"]
    /\ up' = [up EXCEPT ![r] = "closed"]
    /\ UNCHANGED <<now, repo, heard, call, verdict, due>>

\* permission_reply, question_reply or question_reject reaches upstream; a
\* request that is closed there is a 404 (the call ends as "gone", which is
\* INTERRUPT_REQUEST_NOT_FOUND too).  Both lead to discard_request.
Send(p) ==
    LET r == call[p].request IN
    /\ pc[p] = "send"
    /\ call[p].defect = "none"
    /\ pc' = [pc EXCEPT ![p] = IF up[r] = "open" THEN "discard" ELSE "forget"]
    /\ up' = [up EXCEPT ![r] = "closed"]
    /\ UNCHANGED <<now, repo, heard, call, verdict, due>>

\* Mutant of SendFails: the request is discarded on an upstream error too.
SendFailsDiscards(p) ==
    LET r == call[p].request IN
    /\ pc[p] = "send"
    /\ Finish(p, "upstream_error")
    /\ Discard(r)
    /\ UNCHANGED <<now, up, heard, call, due>>

\* The ValueError of a reply or answer that is malformed, before the call;
\* an upstream error, a refused slot or a lost response.  Upstream may have
\* accepted the reply whose response was lost.
SendFails(p) ==
    LET r == call[p].request IN
    /\ pc[p] = "send"
    /\ IF call[p].defect = "value" THEN Finish(p, "invalid") /\ UNCHANGED up
       ELSE /\ Finish(p, "upstream_error")
            /\ up' \in {up, [up EXCEPT ![r] = "closed"]}
    /\ UNCHANGED <<now, repo, heard, call, due>>

\* Mutant of DiscardSent: the 404 branch forgets to discard.
DiscardSentKeeps(p) ==
    LET r == call[p].request IN
    /\ pc[p] \in {"discard", "forget"}
    /\ IF pc[p] = "discard" THEN Discard(r) ELSE UNCHANGED repo
    /\ due' = [due EXCEPT ![r] = None]
    /\ Finish(p, IF pc[p] = "discard" THEN "ok" ELSE "gone")
    /\ UNCHANGED <<now, up, heard, call>>

DiscardSent(p) ==
    LET r == call[p].request IN
    /\ pc[p] \in {"discard", "forget"}
    /\ Discard(r)
    /\ due' = [due EXCEPT ![r] = None]
    /\ Finish(p, IF pc[p] = "discard" THEN "ok" ELSE "gone")
    /\ UNCHANGED <<now, up, heard, call>>

\* handle_interrupt_query_request of a caller with an identity.
List ==
    /\ ListPending
    /\ UNCHANGED <<now, up, heard, pc, call, verdict, due>>

Next ==
    /\ \/ Tick \/ List
       \/ \E r \in Requests : \/ UpstreamAsks(r) \/ UpstreamClosed(r) \/ MissAsked(r)
                              \/ Asked(r) \/ Announce(r) \/ Resolved(r)
       \/ \E p \in Repliers : \/ \E c \in Calls : Check(p, c)
                              \/ Send(p) \/ SendFails(p) \/ DiscardSent(p)
    /\ UNCHANGED backend

Spec == Init /\ [][Next]_vars

-----------------------------------------------------------------------------
(* Properties *)

\* Types; a request has a binding or a tombstone, never both.
TypeOK ==
    /\ now \in 0..MaxTime
    /\ exp \in [Requests -> Nat \cup {None}] /\ tomb \in [Requests -> Nat \cup {None}]
    /\ \A r \in Requests : exp[r] = None \/ tomb[r] = None
    /\ up \in [Requests -> {"unasked", "open", "closed"}]
    /\ heard \in [Requests -> Hearing]
    /\ pc \in [Repliers -> {"idle", "send", "discard", "forget", "done"}]
    /\ call \in [Repliers -> Calls \cup {None}]
    /\ verdict \in [Repliers -> {"none", "invalid", "expired", "not_found", "type_mismatch",
                                 "upstream_error", "ok", "gone"}]
    /\ due \in [Requests -> Nat \cup {None}]

\* No reply is lost to a failed or rejected one: while upstream waits for an
\* answer to a request that the stream remembered and that has not expired,
\* a callback still finds it active, whatever replies failed, raced or were
\* refused before (interrupt_callbacks.py discards only what upstream took
\* or does not know).
OpenIsAnswerable ==
    \A r \in Requests :
        up[r] = "open" /\ heard[r] \in {"asked", "announced"}
        => due[r] # None /\ (Past(due[r]) \/ Status(r) = "active")

\* For the whole tombstone window after its expiry a request that was not
\* withdrawn is answered as expired, whichever other operations swept the
\* registry in between (state_store.py; docs/guide.md promises it).
ExpiredThroughWindow ==
    \A r \in Requests :
        due[r] # None /\ Past(due[r]) /\ now < due[r] + TombstoneTTL => Status(r) = "expired"

\* A call that was told ok, or that upstream did not know the request, leaves
\* no binding behind: two replies that both found it active, and the stream's
\* own discard, do not bring it back.
AnsweredIsGone ==
    \A p \in Repliers :
        verdict[p] \in {"ok", "gone"} => Status(call[p].request) # "active"

\* Of the replies to one request at most one is told ok, although two may
\* both have resolved it as active (interrupt_callbacks.py awaits in between).
OneReplyWins ==
    \A p, q \in Repliers :
        verdict[p] = "ok" /\ verdict[q] = "ok" /\ p # q => call[p].request # call[q].request

\* The registry of both backends keeps the abstract promise.
Answer == [r \in Requests |-> Status(r)]
Registry == INSTANCE InterruptRegistry WITH answer <- Answer
RefinesRegistry == Registry!Spec

\* A reply settles its request once: whatever other replies, sweeps and closings
\* raced with it, at most one caller is told ok, and nothing brings back what was
\* answered (interrupt_callbacks.py).
RepliesSettle == TypeOK /\ AnsweredIsGone /\ OneReplyWins

\* A request that was not withdrawn can be answered until it expires and is known
\* as expired for the tombstone window, whoever fails a reply or sweeps the
\* registry meanwhile (state_store.py).
OpenUntilAnswered == OpenIsAnswerable /\ ExpiredThroughWindow

-----------------------------------------------------------------------------
(* The inductive invariant behind the properties, see EndpointProofs *)

\* A request is remembered once; until it is withdrawn its binding carries
\* the expiry, and after the expiry its tombstone outlasts the window.
BindingTrue(r) ==
    /\ up[r] = "unasked" => heard[r] = "nothing"
    /\ heard[r] \in {"nothing", "gap"} => due[r] = None
    /\ due[r] = None => exp[r] = None /\ tomb[r] = None
    /\ exp[r] # None => exp[r] = due[r]
    /\ due[r] # None /\ exp[r] = None
       => Past(due[r]) /\ (IF tomb[r] = None THEN now ELSE tomb[r]) >= due[r] + TombstoneTTL
    /\ heard[r] \in {"asked", "announced"} /\ due[r] = None => up[r] = "closed"

\* Upstream took the reply of p, or did not know the request any more.
Delivered(p) == pc[p] \in {"discard", "forget"} \/ verdict[p] \in {"ok", "gone"}

\* A call gets to upstream only for a remembered request, and one that got
\* there leaves it closed; once it has discarded it nothing remembers it.
ReplyTrue(p) ==
    /\ pc[p] # "done" => verdict[p] = "none"
    /\ pc[p] = "send" \/ Delivered(p)
       => call[p] \in Calls /\ heard[call[p].request] \notin {"nothing", "gap"}
    /\ Delivered(p) => up[call[p].request] = "closed"
    /\ verdict[p] \in {"ok", "gone"} => due[call[p].request] = None

\* The reply that upstream accepted.
Accepted(p) == pc[p] = "discard" \/ verdict[p] = "ok"

OneAccepted ==
    \A p, q \in Repliers :
        Accepted(p) /\ Accepted(q) /\ p # q => call[p].request # call[q].request

SettleInv ==
    /\ TypeOK
    /\ \A r \in Requests : BindingTrue(r)
    /\ \A p \in Repliers : ReplyTrue(p)
    /\ OneAccepted

=============================================================================
