--------------------------- MODULE SessionManager ---------------------------
(***************************************************************************)
(* The session manager (execution/session_manager.py) on the database      *)
(* state repository (server/state_store.py): who owns an upstream OpenCode *)
(* session, which session an A2A conversation is bound to, the pending     *)
(* claims that reserve a session while a message is being sent, and the    *)
(* deduplication of concurrent session creates.                            *)
(*                                                                         *)
(* Everything runs on one asyncio event loop, so a step of this module is  *)
(* the code between two suspension points: a repository call, the wait for *)
(* an asyncio lock, the wait for an upstream call.  The registry lock of   *)
(* the manager is never held across a suspension point and is left out.    *)
(* A method returns by moving its caller's pc on, and raises by moving it  *)
(* to "raised" (an Exception) or "cancelled" (asyncio.CancelledError).     *)
(***************************************************************************)
EXTENDS Naturals, FiniteSets

CONSTANTS
    Identities,   \* authenticated callers
    Contexts,     \* A2A context ids
    Scopes,       \* explicit workspaces or directories of a request
    Sessions,     \* upstream session ids
    Preexisting,  \* the sessions that exist before the adapter starts
    Execs,        \* message executions (ExecutionCoordinator.run)
    Guards,       \* JSON-RPC calls that mutate a session (SessionClaimGuard)
    Requests,     \* the requests the processes may carry
    None          \* no value

Procs == Execs \cup Guards

\* What a request carries: its caller, its A2A context, the workspace or
\* directory it asks for, and the session it names in
\* metadata.shared.session.id.
Request == [identity : Identities, context : Contexts,
            scope : Scopes \cup {None}, preferred : Sessions \cup {None}]

\* The key of a binding: (identity, session binding context id).
Key == Identities \X Contexts \X (Scopes \cup {None})

ASSUME ConstantsAssumption ==
    /\ Requests \subseteq Request
    /\ Preexisting \subseteq Sessions
    /\ Execs \cap Guards = {}
    /\ None \notin Identities \cup Scopes \cup Sessions \cup Procs

VARIABLES
    bindings,  \* a2a_session_bindings: key -> session
    owners,    \* a2a_session_owners: session -> identity
    claims,    \* a2a_pending_session_claims that have not expired
    born,      \* the sessions that exist upstream
    inflight,  \* _inflight_session_creates: key -> the execution that created the task
    create,    \* the state of the create task each execution started
    made,      \* the session a create task, or a fork, returned
    ctxLock,   \* _context_locks: who holds the lock of a key
    ownLock,   \* _ownership_locks: who holds the lock of a session
    pc,        \* where each process is
    req,       \* the request each process carries
    sess,      \* the session a process works on (_session_id)
    pending,   \* _pending_preferred_claim of an execution, _pending of a guard
    joined,    \* the create task an execution awaits
    lapsed     \* history: sessions whose claim went away under a process relying on it

store   == <<bindings, owners, claims, born>>
tasks   == <<inflight, create, made, joined>>
locks   == <<ctxLock, ownLock>>
managerVars == <<bindings, owners, claims, born, inflight, create, made, ctxLock,
                 ownLock, pc, req, sess, pending, joined, lapsed>>

CreateStates == {"unused", "running", "done", "failed", "cancelled"}

PC == {"idle", "claim", "claiming", "claimed", "rebind", "lookup", "await", "own",
       "setowner", "recorded", "bound", "send", "call", "finalize", "finalizing", "unclaim",
       "bind", "respond", "raised", "cancelled", "cleanup", "unlock", "done"}

Ident(p) == req[p].identity

\* Mutant: the binding does not depend on the conversation.
BindingKeyPerCaller(p) == <<req[p].identity, CHOOSE c \in Contexts : TRUE, req[p].scope>>

\* build_session_binding_context_id: an explicit workspace or directory
\* gives a conversation a binding of its own.
BindingKey(p) == <<req[p].identity, req[p].context, req[p].scope>>

Goto(p, where) == pc' = [pc EXCEPT ![p] = where]

-----------------------------------------------------------------------------
(* claim_preferred_session *)

\* Mutant: only the owner is checked.
PermittedByOwner(s, i) == owners[s] \in {None, i}

\* The two ownership checks that claim_preferred_session and
\* finalize_session_claim share.
Permitted(s, i) == owners[s] \in {None, i} /\ claims[s] \in {None, i}

ClaimRefused(p) ==
    LET s == req[p].preferred IN
    /\ pc[p] = "claim"
    /\ ownLock[s] = None
    /\ ~ Permitted(s, Ident(p))
    /\ Goto(p, "raised")
    /\ UNCHANGED <<store, tasks, locks, req, sess, pending, lapsed>>

\* The caller already owns the session: nothing to reserve.  A message
\* execution goes on to bind its context to the session.
ClaimOwned(p) ==
    LET s == req[p].preferred IN
    /\ pc[p] = "claim"
    /\ ownLock[s] = None
    /\ Permitted(s, Ident(p))
    /\ owners[s] = Ident(p)
    /\ sess' = [sess EXCEPT ![p] = s]
    /\ Goto(p, IF p \in Guards THEN "call" ELSE "rebind")
    /\ UNCHANGED <<store, tasks, locks, req, pending, lapsed>>

\* Mutant: the ownership lock is not kept until the claim is written.
ClaimCheckedUnlocked(p) ==
    LET s == req[p].preferred IN
    /\ pc[p] = "claim"
    /\ ownLock[s] = None
    /\ Permitted(s, Ident(p))
    /\ owners[s] = None
    /\ Goto(p, "claiming")
    /\ UNCHANGED <<store, tasks, locks, req, sess, pending, lapsed>>

\* Nobody else owns or claims the session; the caller keeps the ownership
\* lock until its claim is written.
ClaimChecked(p) ==
    LET s == req[p].preferred IN
    /\ pc[p] = "claim"
    /\ ownLock[s] = None
    /\ Permitted(s, Ident(p))
    /\ owners[s] = None
    /\ ownLock' = [ownLock EXCEPT ![s] = p]
    /\ Goto(p, "claiming")
    /\ UNCHANGED <<store, tasks, ctxLock, req, sess, pending, lapsed>>

\* set_pending_claim: the row is committed, the caller does not know it yet.
ClaimPending(p) ==
    LET s == req[p].preferred IN
    /\ pc[p] = "claiming"
    /\ claims' = [claims EXCEPT ![s] = Ident(p)]
    /\ ownLock' = [ownLock EXCEPT ![s] = None]
    /\ Goto(p, "claimed")
    /\ UNCHANGED <<bindings, owners, born, tasks, ctxLock, req, sess, pending, lapsed>>

\* Mutant: the session id is not kept.
ClaimReturnedWithoutSession(p) ==
    /\ pc[p] = "claimed"
    /\ pending' = [pending EXCEPT ![p] = TRUE]
    /\ Goto(p, IF p \in Guards THEN "call" ELSE "bound")
    /\ UNCHANGED <<store, tasks, locks, req, sess, lapsed>>

\* Mutant: the context is bound before the claim is finalized.
ClaimReturnedThenRebind(p) ==
    /\ pc[p] = "claimed"
    /\ sess' = [sess EXCEPT ![p] = req[p].preferred]
    /\ pending' = [pending EXCEPT ![p] = TRUE]
    /\ Goto(p, IF p \in Guards THEN "call" ELSE "rebind")
    /\ UNCHANGED <<store, tasks, locks, req, lapsed>>

ClaimReturned(p) ==
    /\ pc[p] = "claimed"
    /\ sess' = [sess EXCEPT ![p] = req[p].preferred]
    /\ pending' = [pending EXCEPT ![p] = TRUE]
    /\ Goto(p, IF p \in Guards THEN "call" ELSE "bound")
    /\ UNCHANGED <<store, tasks, locks, req, lapsed>>

-----------------------------------------------------------------------------
(* get_or_create_session *)

Rebind(p) ==
    LET k == BindingKey(p) IN
    /\ pc[p] = "rebind"
    /\ ctxLock[k] = None
    /\ bindings' = [bindings EXCEPT ![k] = req[p].preferred]
    /\ Goto(p, "bound")
    /\ UNCHANGED <<owners, claims, born, tasks, locks, req, sess, pending, lapsed>>

LookupHit(p) ==
    LET k == BindingKey(p) IN
    /\ pc[p] = "lookup"
    /\ ctxLock[k] = None
    /\ bindings[k] # None
    /\ sess' = [sess EXCEPT ![p] = bindings[k]]
    /\ Goto(p, "bound")
    /\ UNCHANGED <<store, tasks, locks, req, pending, lapsed>>

LookupJoin(p) ==
    LET k == BindingKey(p) IN
    /\ pc[p] = "lookup"
    /\ ctxLock[k] = None
    /\ bindings[k] = None
    /\ inflight[k] # None
    /\ joined' = [joined EXCEPT ![p] = inflight[k]]
    /\ Goto(p, "await")
    /\ UNCHANGED <<store, inflight, create, made, locks, req, sess, pending, lapsed>>

\* Mutant: a request does not join the create task of another one.
LookupCreateAlways(p) ==
    LET k == BindingKey(p) IN
    /\ pc[p] = "lookup"
    /\ ctxLock[k] = None
    /\ bindings[k] = None
    /\ inflight' = [inflight EXCEPT ![k] = p]
    /\ create' = [create EXCEPT ![p] = "running"]
    /\ joined' = [joined EXCEPT ![p] = p]
    /\ Goto(p, "await")
    /\ UNCHANGED <<store, made, locks, req, sess, pending, lapsed>>

LookupCreate(p) ==
    LET k == BindingKey(p) IN
    /\ pc[p] = "lookup"
    /\ ctxLock[k] = None
    /\ bindings[k] = None
    /\ inflight[k] = None
    /\ inflight' = [inflight EXCEPT ![k] = p]
    /\ create' = [create EXCEPT ![p] = "running"]
    /\ joined' = [joined EXCEPT ![p] = p]
    /\ Goto(p, "await")
    /\ UNCHANGED <<store, made, locks, req, sess, pending, lapsed>>

\* The create task is a task of its own: it ends whoever still awaits it.
CreateDone(e) ==
    /\ create[e] = "running"
    /\ \E s \in Sessions \ born :
          /\ born' = born \cup {s}
          /\ made' = [made EXCEPT ![e] = s]
    /\ create' = [create EXCEPT ![e] = "done"]
    /\ UNCHANGED <<bindings, owners, claims, inflight, joined, locks, pc, req, sess,
                   pending, lapsed>>

CreateFailed(e) ==
    /\ create[e] = "running"
    /\ create' = [create EXCEPT ![e] = "failed"]
    /\ UNCHANGED <<store, inflight, made, joined, locks, pc, req, sess, pending, lapsed>>

\* "if self._inflight_session_creates.get(cache_key) is task: pop"
ForgetCreate(p) ==
    LET k == BindingKey(p) IN
    inflight' = IF inflight[k] = joined[p] THEN [inflight EXCEPT ![k] = None]
                                           ELSE inflight

\* Mutant: a failed create is retried without forgetting the failed task.
AwaitFailedRetries(p) ==
    /\ pc[p] = "await"
    /\ create[joined[p]] = "failed"
    /\ Goto(p, "lookup")
    /\ UNCHANGED <<store, tasks, locks, req, sess, pending, lapsed>>

AwaitFailed(p) ==
    /\ pc[p] = "await"
    /\ create[joined[p]] = "failed"
    /\ ForgetCreate(p)
    /\ Goto(p, "raised")
    /\ UNCHANGED <<store, create, made, joined, locks, req, sess, pending, lapsed>>

\* The awaited create task was cancelled: CancelledError is not an
\* Exception, so the entry of the task stays registered.
AwaitCancelled(p) ==
    /\ pc[p] = "await"
    /\ create[joined[p]] = "cancelled"
    /\ Goto(p, "cancelled")
    /\ UNCHANGED <<store, tasks, locks, req, sess, pending, lapsed>>

AwaitDone(p) ==
    LET k == BindingKey(p) IN
    /\ pc[p] = "await"
    /\ create[joined[p]] = "done"
    /\ ctxLock[k] = None
    /\ ctxLock' = [ctxLock EXCEPT ![k] = p]
    /\ Goto(p, "own")
    /\ UNCHANGED <<store, tasks, ownLock, req, sess, pending, lapsed>>

RecordRefused(p) ==
    LET k == BindingKey(p)
        s == made[joined[p]] IN
    /\ pc[p] = "own"
    /\ ownLock[s] = None
    /\ owners[s] \notin {None, Ident(p)}
    /\ ForgetCreate(p)
    /\ ctxLock' = [ctxLock EXCEPT ![k] = None]
    /\ Goto(p, "raised")
    /\ UNCHANGED <<store, create, made, joined, ownLock, req, sess, pending, lapsed>>

\* Mutant: the created session is recorded whoever owns it.
RecordBindingUnchecked(p) ==
    LET k == BindingKey(p)
        s == made[joined[p]] IN
    /\ pc[p] = "own"
    /\ ownLock[s] = None
    /\ ownLock' = [ownLock EXCEPT ![s] = p]
    /\ bindings' = [bindings EXCEPT ![k] = s]
    /\ Goto(p, IF owners[s] = None THEN "setowner" ELSE "recorded")
    /\ UNCHANGED <<owners, claims, born, tasks, ctxLock, req, sess, pending, lapsed>>

\* get_owner and set_session; whether set_owner follows is decided by the
\* owner that was read here.
RecordBinding(p) ==
    LET k == BindingKey(p)
        s == made[joined[p]] IN
    /\ pc[p] = "own"
    /\ ownLock[s] = None
    /\ owners[s] \in {None, Ident(p)}
    /\ ownLock' = [ownLock EXCEPT ![s] = p]
    /\ bindings' = [bindings EXCEPT ![k] = s]
    /\ Goto(p, IF owners[s] = None THEN "setowner" ELSE "recorded")
    /\ UNCHANGED <<owners, claims, born, tasks, ctxLock, req, sess, pending, lapsed>>

RecordOwner(p) ==
    /\ pc[p] = "setowner"
    /\ owners' = [owners EXCEPT ![made[joined[p]]] = Ident(p)]
    /\ Goto(p, "recorded")
    /\ UNCHANGED <<bindings, claims, born, tasks, locks, req, sess, pending, lapsed>>

Recorded(p) ==
    LET k == BindingKey(p)
        s == made[joined[p]] IN
    /\ pc[p] = "recorded"
    /\ ctxLock' = [ctxLock EXCEPT ![k] = None]
    /\ ownLock' = [ownLock EXCEPT ![s] = None]
    /\ ForgetCreate(p)
    /\ sess' = [sess EXCEPT ![p] = s]
    /\ Goto(p, "bound")
    /\ UNCHANGED <<store, create, made, joined, req, pending, lapsed>>

-----------------------------------------------------------------------------
(* finalize_preferred_session_binding, finalize_session_claim *)

\* Mutant: a refused caller keeps the ownership lock.
FinalizeRefusedKeepingLock(p) ==
    /\ pc[p] = "finalize"
    /\ ownLock[sess[p]] = None
    /\ ~ Permitted(sess[p], Ident(p))
    /\ ownLock' = [ownLock EXCEPT ![sess[p]] = p]
    /\ Goto(p, "raised")
    /\ UNCHANGED <<store, tasks, ctxLock, req, sess, pending, lapsed>>

FinalizeRefused(p) ==
    /\ pc[p] = "finalize"
    /\ ownLock[sess[p]] = None
    /\ ~ Permitted(sess[p], Ident(p))
    /\ Goto(p, "raised")
    /\ UNCHANGED <<store, tasks, locks, req, sess, pending, lapsed>>

\* Mutant: the ownership lock is not kept between the check and set_owner.
FinalizeCheckedUnlocked(p) ==
    /\ pc[p] = "finalize"
    /\ ownLock[sess[p]] = None
    /\ Permitted(sess[p], Ident(p))
    /\ Goto(p, "finalizing")
    /\ UNCHANGED <<store, tasks, locks, req, sess, pending, lapsed>>

FinalizeChecked(p) ==
    /\ pc[p] = "finalize"
    /\ ownLock[sess[p]] = None
    /\ Permitted(sess[p], Ident(p))
    /\ ownLock' = [ownLock EXCEPT ![sess[p]] = p]
    /\ Goto(p, "finalizing")
    /\ UNCHANGED <<store, tasks, ctxLock, req, sess, pending, lapsed>>

\* set_owner overwrites the row.
FinalizeOwner(p) ==
    /\ pc[p] = "finalizing"
    /\ owners' = [owners EXCEPT ![sess[p]] = Ident(p)]
    /\ Goto(p, "unclaim")
    /\ UNCHANGED <<bindings, claims, born, tasks, locks, req, sess, pending, lapsed>>

\* clear_pending_claim deletes the row of this identity only.
Cleared(s, i) == IF claims[s] = i THEN [claims EXCEPT ![s] = None] ELSE claims

\* The end of finalize_session_claim.  A guard that forked the session goes
\* on to finalize the ownership of the fork.
ClearClaim(p) ==
    /\ pc[p] = "unclaim"
    /\ claims' = Cleared(sess[p], Ident(p))
    /\ ownLock' = [ownLock EXCEPT ![sess[p]] = None]
    /\ \/ /\ p \in Execs
          /\ Goto(p, "bind")
          /\ UNCHANGED <<sess, pending>>
       \/ /\ p \in Guards
          /\ pending' = [pending EXCEPT ![p] = FALSE]
          /\ \/ /\ made[p] \in {None, sess[p]}
                /\ Goto(p, "done")
                /\ UNCHANGED sess
             \/ /\ made[p] \notin {None, sess[p]}
                /\ sess' = [sess EXCEPT ![p] = made[p]]
                /\ Goto(p, "finalize")
    /\ UNCHANGED <<bindings, owners, born, tasks, ctxLock, req, lapsed>>

Bind(p) ==
    LET k == BindingKey(p) IN
    /\ pc[p] = "bind"
    /\ ctxLock[k] = None
    /\ bindings' = [bindings EXCEPT ![k] = sess[p]]
    /\ pending' = [pending EXCEPT ![p] = FALSE]
    /\ Goto(p, "respond")
    /\ UNCHANGED <<owners, claims, born, tasks, locks, req, sess, lapsed>>

-----------------------------------------------------------------------------
(* release_preferred_session_claim, and the expiry of a claim *)

\* Process q still counts on the claim of its identity on session s.
ReliesOn(q, s) ==
    \/ pc[q] = "claimed" /\ req[q].preferred = s
    \/ pending[q] /\ sess[q] = s

\* The claim of session s goes away.  Claims are per (session, identity),
\* not per process: another process may still rely on this one.
Lapse(s, others) ==
    lapsed' = IF claims'[s] # claims[s] /\ \E q \in others : ReliesOn(q, s)
                THEN lapsed \cup {s} ELSE lapsed

ReleaseClaim(p) ==
    /\ pc[p] = "cleanup"
    /\ ownLock[sess[p]] = None
    /\ claims' = Cleared(sess[p], Ident(p))
    /\ Lapse(sess[p], {q \in Procs \ {p} : Ident(q) = Ident(p)})
    /\ pending' = [pending EXCEPT ![p] = FALSE]
    /\ Goto(p, IF p \in Guards THEN "done" ELSE "unlock")
    /\ UNCHANGED <<bindings, owners, born, tasks, locks, req, sess>>

\* The lease of a claim ends (expires_at <= now): every later read prunes it.
ExpireClaim(s) ==
    /\ claims[s] # None
    /\ claims' = [claims EXCEPT ![s] = None]
    /\ Lapse(s, {q \in Procs : Ident(q) = claims[s]})
    /\ UNCHANGED <<bindings, owners, born, tasks, locks, pc, req, sess, pending>>

=============================================================================
