------------------------------ MODULE Execution ------------------------------
(***************************************************************************)
(* The life of a message execution (execution/coordinator.py), of a cancel *)
(* (OpencodeAgentExecutor.cancel in execution/executor.py) and of a        *)
(* JSON-RPC call under a SessionClaimGuard (jsonrpc/handlers/common.py),   *)
(* running over the shared session manager, with asyncio cancellation,     *)
(* the expiry of claims and crashes of the adapter process.                *)
(***************************************************************************)
EXTENDS SessionManager

CONSTANTS
    Cancellers,   \* cancel requests
    MaxCrashes    \* bound: how often the adapter process restarts

ASSUME MaxCrashesAssumption == MaxCrashes \in Nat

VARIABLES
    locked,       \* _session_locks: an asyncio.Lock knows no owner, only locked()
    registered,   \* the execution is in _running_session_ids (it got its lock)
    interrupted,  \* Task.cancel() was called, the CancelledError is not delivered
    outcome,      \* how the process ended
    cpc,          \* where each cancel request is
    target,       \* the execution it cancels
    snapKey,      \* its snapshot: the key it pops
    snapBound,    \* its snapshot: whether a session was registered
    taken,        \* the create task it popped
    crashes,
    killed,       \* history: executions a cancel request interrupted
    popped,       \* history: keys a cancel request popped
    foreign,      \* history: sessions whose lock was released by a non-holder
    stuck,        \* history: sessions whose lock was abandoned locked
    torn,         \* history: sessions bound without the owner row
    orphaned      \* sessions with a claim no process will release

runVars    == <<locked, registered, interrupted, outcome>>
cancelVars == <<cpc, target, snapKey, snapBound, taken>>
history    == <<killed, popped, foreign, stuck, torn>>
vars == <<managerVars, runVars, cancelVars, crashes, history, orphaned>>

Outcomes == {"none", "completed", "failed", "cancelled", "crashed"}
CancelPC == {"idle", "pop", "abort", "done", "error"}

Live(p) == pc[p] \notin {"idle", "done"}

\* An execution is in its turn between acquiring the session lock and
\* leaving run(): it may send messages to the upstream session.
InTurn(e) == pc[e] \in {"send", "finalize", "finalizing", "unclaim", "bind", "respond"}

Init ==
    /\ bindings = [k \in Key |-> None]
    /\ owners = [s \in Sessions |-> None]
    /\ claims = [s \in Sessions |-> None]
    /\ born = Preexisting
    /\ inflight = [k \in Key |-> None]
    /\ create = [e \in Execs |-> "unused"]
    /\ made = [p \in Procs |-> None]
    /\ ctxLock = [k \in Key |-> None]
    /\ ownLock = [s \in Sessions |-> None]
    /\ pc = [p \in Procs |-> "idle"]
    /\ req \in [Procs -> Requests]
    /\ \A g \in Guards : req[g].preferred # None
    /\ sess = [p \in Procs |-> None]
    /\ pending = [p \in Procs |-> FALSE]
    /\ joined = [e \in Execs |-> None]
    /\ lapsed = {}
    /\ locked = [s \in Sessions |-> FALSE]
    /\ registered = [e \in Execs |-> FALSE]
    /\ interrupted = [e \in Execs |-> FALSE]
    /\ outcome = [p \in Procs |-> "none"]
    /\ cpc = [x \in Cancellers |-> "idle"]
    /\ target = [x \in Cancellers |-> None]
    /\ snapKey = [x \in Cancellers |-> None]
    /\ snapBound = [x \in Cancellers |-> FALSE]
    /\ taken = [x \in Cancellers |-> None]
    /\ crashes = 0
    /\ killed = {}
    /\ popped = {}
    /\ foreign = {}
    /\ stuck = {}
    /\ torn = {}
    /\ orphaned = {}

-----------------------------------------------------------------------------
(* ExecutionCoordinator.run *)

\* _register_running_request, then _bind_session; a guard enters its block.
Start(p) ==
    /\ pc[p] = "idle"
    /\ Goto(p, IF req[p].preferred # None THEN "claim" ELSE "lookup")
    /\ UNCHANGED <<store, tasks, locks, req, sess, pending, lapsed, runVars,
                   cancelVars, crashes, history, orphaned>>

\* await session_lock.acquire(), then the session id, directory, workspace
\* and binding context of the execution are registered.
Acquire(e) ==
    /\ pc[e] = "bound"
    /\ ~ locked[sess[e]]
    /\ locked' = [locked EXCEPT ![sess[e]] = TRUE]
    /\ registered' = [registered EXCEPT ![e] = TRUE]
    /\ Goto(e, "send")
    /\ UNCHANGED <<store, tasks, locks, req, sess, pending, lapsed, interrupted,
                   outcome, cancelVars, crashes, history, orphaned>>

\* send_message returned; a pending claim is finalized next.
SendOk(e) ==
    /\ pc[e] = "send"
    /\ sess[e] \in born
    /\ Goto(e, IF pending[e] THEN "finalize" ELSE "respond")
    /\ UNCHANGED <<store, tasks, locks, req, sess, pending, lapsed, runVars,
                   cancelVars, crashes, history, orphaned>>

\* maybe_handle_tools produced results: they are sent as the next message.
ToolRound(e) ==
    /\ pc[e] = "respond"
    /\ Goto(e, "send")
    /\ UNCHANGED <<store, tasks, locks, req, sess, pending, lapsed, runVars,
                   cancelVars, crashes, history, orphaned>>

\* Mutant: _cleanup forgets the pending claim.
LeaveKeepingClaim(p, how) ==
    /\ outcome' = [outcome EXCEPT ![p] = how]
    /\ Goto(p, IF p \in Guards THEN "done" ELSE "unlock")

\* The finally block: _cleanup first releases a claim that is still pending.
Leave(p, how) ==
    /\ outcome' = [outcome EXCEPT ![p] = how]
    /\ Goto(p, IF pending[p] THEN "cleanup" ELSE IF p \in Guards THEN "done" ELSE "unlock")

Respond(e) ==
    /\ pc[e] = "respond"
    /\ \E how \in {"completed", "failed"} : Leave(e, how)
    /\ UNCHANGED <<store, tasks, locks, req, sess, pending, lapsed, locked, registered,
                   interrupted, cancelVars, crashes, history, orphaned>>

SendFailed(e) ==
    /\ pc[e] = "send"
    /\ Leave(e, "failed")
    /\ UNCHANGED <<store, tasks, locks, req, sess, pending, lapsed, locked, registered,
                   interrupted, cancelVars, crashes, history, orphaned>>

\* An exception of the session manager: run emits a failed status, a guard
\* leaves its block.
Raised(p) ==
    /\ pc[p] = "raised"
    /\ Leave(p, "failed")
    /\ UNCHANGED <<store, tasks, locks, req, sess, pending, lapsed, locked, registered,
                   interrupted, cancelVars, crashes, history, orphaned>>

\* Mutant: only the locks of executions that were not cancelled are released.
UnlockUnlessCancelled(e) ==
    LET s == sess[e]
        releases == s # None /\ locked[s] /\ outcome[e] # "cancelled" IN
    /\ pc[e] = "unlock"
    /\ locked' = IF releases THEN [locked EXCEPT ![s] = FALSE] ELSE locked
    /\ foreign' = IF releases /\ ~ registered[e] THEN foreign \cup {s} ELSE foreign
    /\ registered' = [registered EXCEPT ![e] = FALSE]
    /\ Goto(e, "done")
    /\ UNCHANGED <<store, tasks, locks, req, sess, pending, lapsed, interrupted, outcome,
                   cancelVars, crashes, killed, popped, stuck, torn, orphaned>>

\* The rest of _cleanup: "if self._session_lock and
\* self._session_lock.locked(): self._session_lock.release()", then the
\* execution is deregistered.  locked() does not tell who holds the lock.
Unlock(e) ==
    LET s == sess[e]
        releases == s # None /\ locked[s] IN
    /\ pc[e] = "unlock"
    /\ locked' = IF releases THEN [locked EXCEPT ![s] = FALSE] ELSE locked
    /\ foreign' = IF releases /\ ~ registered[e] THEN foreign \cup {s} ELSE foreign
    /\ registered' = [registered EXCEPT ![e] = FALSE]
    /\ Goto(e, "done")
    /\ UNCHANGED <<store, tasks, locks, req, sess, pending, lapsed, interrupted, outcome,
                   cancelVars, crashes, killed, popped, stuck, torn, orphaned>>

\* Mutant: the registry drops a lock that is in use.
CollectLockInUse(s) ==
    /\ locked[s]
    /\ locked' = [locked EXCEPT ![s] = FALSE]
    /\ stuck' = stuck \ {s}
    /\ UNCHANGED <<managerVars, registered, interrupted, outcome, cancelVars, crashes,
                   killed, popped, foreign, torn, orphaned>>

\* The lock registry is a WeakValueDictionary: a lock that no coordinator
\* refers to any more is collected, and the next user gets a fresh one.
CollectLock(s) ==
    /\ locked[s]
    /\ \A e \in Execs : sess[e] = s => ~ Live(e)
    /\ locked' = [locked EXCEPT ![s] = FALSE]
    /\ stuck' = stuck \ {s}
    /\ UNCHANGED <<managerVars, registered, interrupted, outcome, cancelVars, crashes,
                   killed, popped, foreign, torn, orphaned>>

-----------------------------------------------------------------------------
(* Cancellation of an execution *)

\* The locks a process holds when a CancelledError leaves its async with
\* blocks.
FreeLocks(p) ==
    /\ ctxLock' = [k \in Key |-> IF ctxLock[k] = p THEN None ELSE ctxLock[k]]
    /\ ownLock' = [s \in Sessions |-> IF ownLock[s] = p THEN None ELSE ownLock[s]]

\* Process p stops after set_session and before set_owner.
Torn(p) == IF pc[p] = "setowner" THEN {made[joined[p]]} ELSE {}

\* The claim of identity i on session s is left to its lease.
Orphan(s, i) == IF claims[s] = i THEN orphaned \cup {s} ELSE orphaned

\* CancelledError is raised in run at its suspension point, or by the
\* cancelled create task it awaits; no except clause catches it.
Unwind(e) ==
    /\ \/ interrupted[e] /\ pc[e] \notin {"idle", "cleanup", "unlock", "done"}
       \/ pc[e] = "cancelled"
    /\ interrupted' = [interrupted EXCEPT ![e] = FALSE]
    /\ FreeLocks(e)
    /\ torn' = torn \cup Torn(e)
    /\ orphaned' = IF pc[e] = "claimed" THEN Orphan(req[e].preferred, Ident(e)) ELSE orphaned
    /\ Leave(e, "cancelled")
    /\ UNCHANGED <<store, tasks, req, sess, pending, lapsed, locked, registered, cancelVars,
                   crashes, killed, popped, foreign, stuck>>

\* A second CancelledError while _cleanup releases the claim escapes
\* suppress(Exception): the rest of _cleanup is skipped.
UnwindCleanup(e) ==
    LET s == sess[e] IN
    /\ interrupted[e]
    /\ pc[e] = "cleanup"
    /\ interrupted' = [interrupted EXCEPT ![e] = FALSE]
    /\ orphaned' = Orphan(s, Ident(e))
    /\ pending' = [pending EXCEPT ![e] = FALSE]
    /\ stuck' = IF registered[e] /\ locked[s] THEN stuck \cup {s} ELSE stuck
    /\ Goto(e, "done")
    /\ UNCHANGED <<store, tasks, locks, req, sess, lapsed, locked, registered, outcome,
                   cancelVars, crashes, killed, popped, foreign, torn>>

\* A CancelledError while _cleanup awaits the stream task is suppressed.
Swallow(e) ==
    /\ interrupted[e]
    /\ pc[e] = "unlock"
    /\ interrupted' = [interrupted EXCEPT ![e] = FALSE]
    /\ UNCHANGED <<managerVars, locked, registered, outcome, cancelVars, crashes, history,
                   orphaned>>

-----------------------------------------------------------------------------
(* OpencodeAgentExecutor.cancel *)

\* The snapshot of the running_* maps.  The binding context is registered
\* only once the execution holds its session lock: until then the cancel
\* falls back to the plain context id.
CancelKey(e) == <<req[e].identity, req[e].context,
                  IF registered[e] THEN req[e].scope ELSE None>>

CancelBegin(x) ==
    /\ cpc[x] = "idle"
    /\ \E e \in Execs :
          /\ pc[e] # "idle"
          /\ target' = [target EXCEPT ![x] = e]
          /\ snapKey' = [snapKey EXCEPT ![x] = CancelKey(e)]
          /\ snapBound' = [snapBound EXCEPT ![x] = registered[e]]
    /\ cpc' = [cpc EXCEPT ![x] = "pop"]
    /\ UNCHANGED <<managerVars, runVars, taken, crashes, history, orphaned>>

\* running_task.cancel() on a task that is not done, and inflight.cancel().
\* Task.cancel() on an execution that awaits a create task cancels the
\* create task, which other executions may await too.
Interrupt(e, inflightTask) ==
    LET hit   == IF Live(e) THEN {e} ELSE {}
        tsks  == {joined[f] : f \in {f \in hit : pc[f] = "await"}} \cup {inflightTask}
    IN
    /\ interrupted' = [f \in Execs |-> interrupted[f] \/ f \in hit]
    /\ killed' = killed \cup hit
    /\ create' = [f \in Execs |->
                    IF f \in tsks /\ create[f] = "running" THEN "cancelled" ELSE create[f]]

\* A popped create task that had already failed raises out of the await:
\* the cancel ends with "Cancel failed".
CancelEnd(x, inflightTask) ==
    cpc' = [cpc EXCEPT ![x] =
              IF inflightTask # None /\ create'[inflightTask] = "failed" THEN "error" ELSE "done"]

\* Mutant: the create task stays registered.
PopInflightForgotten(k) == inflight' = inflight

PopInflight(k) == inflight' = [inflight EXCEPT ![k] = None]

\* pop_cached_session; without a registered session there is no suspension
\* point between the pop and the cancellation.
CancelPop(x) ==
    LET k == snapKey[x] IN
    /\ cpc[x] = "pop"
    /\ ctxLock[k] = None
    /\ bindings' = [bindings EXCEPT ![k] = None]
    /\ PopInflight(k)
    /\ popped' = popped \cup {k}
    /\ \/ /\ snapBound[x] /\ Live(target[x])
          /\ taken' = [taken EXCEPT ![x] = inflight[k]]
          /\ cpc' = [cpc EXCEPT ![x] = "abort"]
          /\ UNCHANGED <<create, interrupted, killed>>
       \/ /\ ~ (snapBound[x] /\ Live(target[x]))
          /\ Interrupt(target[x], inflight[k])
          /\ CancelEnd(x, inflight[k])
          /\ UNCHANGED taken
    /\ UNCHANGED <<owners, claims, born, made, joined, locks, pc, req, sess, pending, lapsed,
                   locked, registered, outcome, target, snapKey, snapBound, crashes,
                   foreign, stuck, torn, orphaned>>

\* abort_session answered, failed or timed out.
CancelAbort(x) ==
    /\ cpc[x] = "abort"
    /\ Interrupt(target[x], taken[x])
    /\ CancelEnd(x, taken[x])
    /\ UNCHANGED <<store, inflight, made, joined, locks, pc, req, sess, pending, lapsed,
                   locked, registered, outcome, target, snapKey, snapBound, taken, crashes,
                   popped, foreign, stuck, torn, orphaned>>

-----------------------------------------------------------------------------
(* The upstream call inside a SessionClaimGuard *)

CallOk(g) ==
    /\ pc[g] = "call"
    /\ sess[g] \in born
    /\ Goto(g, IF pending[g] THEN "finalize" ELSE "done")
    /\ UNCHANGED <<store, tasks, locks, req, sess, pending, lapsed, runVars, cancelVars,
                   crashes, history, orphaned>>

\* session fork: the new session is owned by the caller as well.
CallForked(g) ==
    /\ pc[g] = "call"
    /\ sess[g] \in born
    /\ \E s \in Sessions \ born :
          /\ born' = born \cup {s}
          /\ made' = [made EXCEPT ![g] = s]
          /\ sess' = IF pending[g] THEN sess ELSE [sess EXCEPT ![g] = s]
    /\ Goto(g, "finalize")
    /\ UNCHANGED <<bindings, owners, claims, inflight, create, joined, locks, req, pending,
                   lapsed, runVars, cancelVars, crashes, history, orphaned>>

CallFailed(g) ==
    /\ pc[g] = "call"
    /\ Leave(g, "failed")
    /\ UNCHANGED <<store, tasks, locks, req, sess, pending, lapsed, locked, registered,
                   interrupted, cancelVars, crashes, history, orphaned>>

-----------------------------------------------------------------------------
(* A crash of the adapter: only the database survives *)

Crash ==
    /\ crashes < MaxCrashes
    /\ crashes' = crashes + 1
    /\ torn' = torn \cup UNION {Torn(e) : e \in Execs}
    /\ orphaned' = {s \in Sessions : claims[s] # None}
    /\ inflight' = [k \in Key |-> None]
    /\ create' = [e \in Execs |-> IF create[e] = "running" THEN "cancelled" ELSE create[e]]
    /\ ctxLock' = [k \in Key |-> None]
    /\ ownLock' = [s \in Sessions |-> None]
    /\ locked' = [s \in Sessions |-> FALSE]
    /\ stuck' = {}
    /\ outcome' = [p \in Procs |-> IF Live(p) THEN "crashed" ELSE outcome[p]]
    /\ pc' = [p \in Procs |-> IF Live(p) THEN "done" ELSE pc[p]]
    /\ pending' = [p \in Procs |-> FALSE]
    /\ registered' = [e \in Execs |-> FALSE]
    /\ interrupted' = [e \in Execs |-> FALSE]
    /\ cpc' = [x \in Cancellers |-> IF cpc[x] = "idle" THEN "idle" ELSE "done"]
    /\ UNCHANGED <<store, made, req, sess, joined, lapsed, target, snapKey, snapBound, taken,
                   killed, popped, foreign>>

-----------------------------------------------------------------------------
\* A claim that is gone has no process left to release it.
Settle == orphaned' = {s \in orphaned : claims'[s] # None}

\* A step of the session manager on behalf of an execution.
ExecManagerStep(e) ==
    \/ ClaimRefused(e) \/ ClaimOwned(e) \/ ClaimChecked(e) \/ ClaimPending(e)
    \/ ClaimReturned(e)
    \/ Rebind(e) \/ LookupHit(e) \/ LookupJoin(e) \/ LookupCreate(e)
    \/ AwaitFailed(e) \/ AwaitCancelled(e) \/ AwaitDone(e)
    \/ RecordRefused(e) \/ RecordBinding(e) \/ RecordOwner(e) \/ Recorded(e)
    \/ FinalizeRefused(e) \/ FinalizeChecked(e) \/ FinalizeOwner(e) \/ ClearClaim(e)
    \/ Bind(e) \/ ReleaseClaim(e)

\* A step of the session manager on behalf of a guard.
GuardManagerStep(g) ==
    \/ ClaimRefused(g) \/ ClaimOwned(g) \/ ClaimChecked(g) \/ ClaimPending(g)
    \/ ClaimReturned(g)
    \/ FinalizeRefused(g) \/ FinalizeChecked(g) \/ FinalizeOwner(g) \/ ClearClaim(g)
    \/ ReleaseClaim(g)

ManagerFrame == Settle /\ UNCHANGED <<runVars, cancelVars, crashes, history>>

ExecStep(e) ==
    \/ /\ ~ interrupted[e]
       /\ \/ ExecManagerStep(e) /\ ManagerFrame
          \/ Acquire(e) \/ SendOk(e) \/ SendFailed(e) \/ ToolRound(e) \/ Respond(e)
          \/ Raised(e) \/ Unlock(e)
    \/ Unwind(e) \/ UnwindCleanup(e) \/ Swallow(e)

GuardStep(g) ==
    \/ GuardManagerStep(g) /\ ManagerFrame
    \/ CallOk(g) \/ CallForked(g) \/ CallFailed(g) \/ Raised(g)

CreateStep(e) == (CreateDone(e) \/ CreateFailed(e)) /\ ManagerFrame

CancelStep(x) == CancelBegin(x) \/ CancelPop(x) \/ CancelAbort(x)

\* Every process has ended, or waits for a lock that nobody will release.
Quiescent ==
    /\ \A p \in Procs : pc[p] = "done" \/ (pc[p] = "bound" /\ sess[p] \in stuck)
    /\ \A x \in Cancellers : cpc[x] \in {"done", "error"}
    /\ UNCHANGED vars

Next ==
    \/ \E p \in Procs : Start(p)
    \/ \E e \in Execs : ExecStep(e)
    \/ \E g \in Guards : GuardStep(g)
    \/ \E e \in Execs : CreateStep(e)
    \/ \E x \in Cancellers : CancelStep(x)
    \/ \E s \in Sessions : ExpireClaim(s) /\ ManagerFrame
    \/ \E s \in Sessions : CollectLock(s)
    \/ Crash
    \/ Quiescent

Spec == Init /\ [][Next]_vars

\* What the event loop and the upstream guarantee: a runnable task runs, a
\* lock is handed to its waiters in turn (asyncio.Lock is FIFO), every
\* upstream call returns, fails or times out, and the upstream does not ask
\* for tool calls for ever.  No request is obliged to arrive, to be cancelled
\* or to have its claim expire.
Fairness ==
    /\ \A e \in Execs : SF_vars(ExecStep(e)) /\ SF_vars(Respond(e)) /\ WF_vars(CreateStep(e))
    /\ \A g \in Guards : SF_vars(GuardStep(g))

FairSpec == Spec /\ Fairness

-----------------------------------------------------------------------------
(* Properties *)

\* The types of the manager's state.
ManagerTypes ==
    /\ bindings \in [Key -> Sessions \cup {None}]
    /\ owners \in [Sessions -> Identities \cup {None}]
    /\ claims \in [Sessions -> Identities \cup {None}]
    /\ born \subseteq Sessions
    /\ inflight \in [Key -> Execs \cup {None}]
    /\ create \in [Execs -> CreateStates]
    /\ made \in [Procs -> Sessions \cup {None}]
    /\ ctxLock \in [Key -> Procs \cup {None}]
    /\ ownLock \in [Sessions -> Procs \cup {None}]
    /\ pc \in [Procs -> PC]
    /\ req \in [Procs -> Requests]
    /\ sess \in [Procs -> Sessions \cup {None}]
    /\ pending \in [Procs -> BOOLEAN]
    /\ joined \in [Execs -> Execs \cup {None}]
    /\ lapsed \subseteq Sessions

\* The types of the state of executions and cancels.
RunTypes ==
    /\ locked \in [Sessions -> BOOLEAN]
    /\ registered \in [Execs -> BOOLEAN]
    /\ interrupted \in [Execs -> BOOLEAN]
    /\ outcome \in [Procs -> Outcomes]
    /\ cpc \in [Cancellers -> CancelPC]
    /\ target \in [Cancellers -> Execs \cup {None}]
    /\ snapKey \in [Cancellers -> Key \cup {None}]
    /\ snapBound \in [Cancellers -> BOOLEAN]
    /\ taken \in [Cancellers -> Execs \cup {None}]
    /\ crashes \in 0 .. MaxCrashes
    /\ killed \subseteq Execs
    /\ popped \subseteq Key
    /\ foreign \subseteq Sessions
    /\ stuck \subseteq Sessions
    /\ torn \subseteq Sessions
    /\ orphaned \subseteq Sessions

\* Where each process may be, and what each point of the code relies on
\* having been assigned: the session id once a session is bound, the awaited
\* create task and its result while the created session is recorded.
Assigned ==
    /\ \A p \in Procs :
          /\ pc[p] \in {"claim", "claiming", "claimed", "rebind"} => req[p].preferred \in Sessions
          /\ pc[p] \in {"bound", "send", "call", "finalize", "finalizing", "unclaim", "bind",
                        "respond", "cleanup"} => sess[p] \in Sessions
          /\ pc[p] = "rebind" => sess[p] = req[p].preferred
          /\ pending[p] => sess[p] \in Sessions
    /\ \A e \in Execs :
          /\ pc[e] # "call"
          /\ pc[e] \in {"idle", "lookup"} => create[e] = "unused"
          /\ pc[e] \in {"await", "own", "setowner", "recorded"} => joined[e] \in Execs
          /\ pc[e] \in {"own", "setowner", "recorded"} => create[joined[e]] = "done"
          /\ create[e] = "done" => made[e] \in Sessions
    /\ \A g \in Guards :
          /\ req[g].preferred \in Sessions
          /\ pc[g] \notin {"rebind", "lookup", "await", "own", "setowner", "recorded", "bound",
                           "send", "bind", "respond", "cancelled", "unlock"}
    /\ \A x \in Cancellers :
          cpc[x] \in {"pop", "abort"} => target[x] \in Execs /\ snapKey[x] \in Key

\* Types, and no point of the code uses a value that was never assigned.
TypeOK == ManagerTypes /\ RunTypes /\ Assigned

\* get_or_create_session, between get_owner and the release of its locks.
RecordChecked ==
    \A e \in Execs :
        /\ pc[e] = "setowner" => /\ ownLock[made[joined[e]]] = e
                                /\ owners[made[joined[e]]] = None
        /\ pc[e] = "recorded" => /\ ownLock[made[joined[e]]] = e
                                /\ owners[made[joined[e]]] = Ident(e)

\* claim_preferred_session, between its checks and set_pending_claim.
ClaimStillFree ==
    \A p \in Procs :
        pc[p] = "claiming" => /\ ownLock[req[p].preferred] = p
                              /\ owners[req[p].preferred] = None
                              /\ claims[req[p].preferred] \in {None, Ident(p)}

\* finalize_session_claim, between its checks and clear_pending_claim.
FinalizeStillPermitted ==
    \A p \in Procs :
        /\ pc[p] = "finalizing" => ownLock[sess[p]] = p /\ Permitted(sess[p], Ident(p))
        /\ pc[p] = "unclaim" => ownLock[sess[p]] = p /\ owners[sess[p]] = Ident(p)

\* What a method of the manager checked under the ownership lock still holds
\* when it writes: it has kept the lock, and nobody wrote an owner or a claim
\* of that session in between.
CheckedStillTrue == RecordChecked /\ ClaimStillFree /\ FinalizeStillPermitted

\* The owner of a session never changes: no interleaving of claims, expiries,
\* finalizations and session creates lets set_owner overwrite another owner.
OwnerNeverStolen ==
    [][\A s \in Sessions : owners[s] # None => owners'[s] = owners[s]]_vars

\* Owner rows count before claims: a claim whose owner row is written is only
\* still to be deleted.
Status ==
    [s \in Sessions |->
       IF owners[s] # None THEN [is |-> "owned", by |-> owners[s]]
       ELSE IF claims[s] # None THEN [is |-> "reserved", by |-> claims[s]]
       ELSE [is |-> "free", by |-> None]]

Ownership == INSTANCE SessionOwnership
               WITH Known <- Preexisting, Keys <- Key, status <- Status, bound <- bindings

\* The manager's tables, written one row at a time between suspension points,
\* interrupted anywhere and left behind by crashes, keep what it promises about
\* who may have a session: a caller only takes one that nobody else owns or has
\* reserved, and only binds its conversations to one that it owns.
RefinesOwnership == Ownership!Spec

\* send_message is serialized per session (the session lock), unless the
\* lock was once released by an execution that did not hold it.
TurnExclusiveUnlessForeignRelease ==
    \A e, f \in Execs :
        InTurn(e) /\ InTurn(f) /\ sess[e] = sess[f] /\ e # f => sess[e] \in foreign

\* send_message is serialized per session, whoever is cancelled when.
TurnExclusive ==
    \A e, f \in Execs : InTurn(e) /\ InTurn(f) /\ sess[e] = sess[f] => e = f

\* A binding of an identity names a session that identity owns, except for
\* the moment get_or_create_session is between set_session and set_owner, or
\* when it was stopped there.
BindingOwned ==
    \A k \in Key : bindings[k] # None =>
        \/ owners[bindings[k]] = k[1]
        \/ bindings[k] \in torn
        \/ \E e \in Execs : /\ pc[e] = "setowner"
                            /\ BindingKey(e) = k
                            /\ made[joined[e]] = bindings[k]

\* Past its claim, an execution only talks to a session its caller owns.
TurnByOwner ==
    \A e \in Execs : InTurn(e) /\ ~ pending[e] =>
        owners[sess[e]] = Ident(e) \/ sess[e] \in torn

\* Past binding, whether or not it has its turn yet.
Bound(e) == pc[e] = "bound" \/ InTurn(e)

\* Who records a created session holds the lock of the context.
ContextHeld ==
    \A e \in Execs : pc[e] \in {"own", "setowner", "recorded"} => ctxLock[BindingKey(e)] = e

\* Who is about to bind a context to a session it did not create has the
\* owner row, and TurnByOwner holds from binding on.
OwnedWhenBound ==
    \A e \in Execs :
        /\ pc[e] \in {"rebind", "bind"} => owners[sess[e]] = Ident(e)
        /\ Bound(e) /\ ~ pending[e] => owners[sess[e]] = Ident(e) \/ sess[e] \in torn

\* BindingOwned and TurnByOwner, with what makes them inductive.
OwnershipInv == BindingOwned /\ ContextHeld /\ OwnedWhenBound

\* An execution that acquired its session lock and has not ended.
Holder(e) == registered[e] /\ Live(e)

\* Turns are taken by holders, and the lock of a holder is locked.
HolderLocked ==
    \A e \in Execs :
        /\ InTurn(e) => registered[e]
        /\ pc[e] \in {"idle", "claim", "claiming", "claimed", "rebind", "lookup", "await", "own",
                      "setowner", "recorded", "bound"} => ~ registered[e]
        /\ Holder(e) => sess[e] \in Sessions /\ (locked[sess[e]] \/ sess[e] \in foreign)

\* Two holders of one lock are the mark of a foreign release.
OneHolder ==
    \A e, f \in Execs :
        Holder(e) /\ Holder(f) /\ sess[e] = sess[f] /\ e # f => sess[e] \in foreign

\* TurnExclusiveUnlessForeignRelease, with what makes it inductive.
TurnInv == HolderLocked /\ OneHolder

\* While a process waits for its turn or for the upstream under a pending
\* claim, nobody else becomes the owner of the session, unless the claim
\* lapsed (its lease ended, or another process of the same caller released
\* it) or the session is one the adapter created itself.
PendingProtected ==
    \A p \in Procs : pending[p] =>
        \/ owners[sess[p]] \in {None, Ident(p)}
        \/ sess[p] \in lapsed
        \/ sess[p] \notin Preexisting

\* Every pending claim in the database has a process that will finalize or
\* release it, or has been orphaned by a cancellation or a crash and waits
\* for its lease.
ClaimAccounted ==
    \A s \in Sessions : claims[s] # None =>
        s \in orphaned \/ \E p \in Procs : Live(p) /\ Ident(p) = claims[s] /\ ReliesOn(p, s)

\* Where a process may still have its claim pending.
PendingPoints == {"bound", "send", "call", "finalize", "finalizing", "unclaim", "bind", "raised",
                  "cleanup"}

\* A claim that is marked pending is still before its finalization or release,
\* and the claim of who is about to bind is gone already.
PendingTrue ==
    \A p \in Procs : pending[p] =>
        /\ pc[p] \in PendingPoints
        /\ pc[p] = "bind" => claims[sess[p]] # Ident(p)

\* Who relies on its claim has it, or the caller owns the session by now; in
\* both cases no other caller does.
ClaimProtects ==
    \A p \in Procs, s \in Sessions : ReliesOn(p, s) =>
        \/ owners[s] \in {None, Ident(p)} /\ Ident(p) \in {claims[s], owners[s]}
        \/ s \in lapsed
        \/ s \notin Preexisting

\* The sessions the adapter creates are new.
CreatedAfter ==
    /\ Preexisting \subseteq born
    /\ \A e \in Execs : create[e] = "done" => made[e] \notin Preexisting

\* ClaimAccounted and PendingProtected, with what makes them inductive.
ClaimInv == ClaimAccounted /\ PendingTrue /\ ClaimProtects /\ CreatedAfter

\* Concurrent requests of one conversation share one session create, unless
\* a cancel removed the running create from the registry.
NoDuplicateCreate ==
    \A e, f \in Execs :
        create[e] = "running" /\ create[f] = "running" /\ BindingKey(e) = BindingKey(f) /\ e # f
            => BindingKey(e) \in popped

\* A cancelled create task stays registered only under a key with an
\* explicit workspace or directory, which the cancel did not pop.
PoisonOnlyUnderScope ==
    \A k \in Key : inflight[k] # None /\ create[inflight[k]] = "cancelled" => k[3] # None

\* A request that names no session gets a session: the registry never hands
\* out a create task that is already cancelled.
NoPoisonedCreate ==
    \A k \in Key : inflight[k] # None => create[inflight[k]] # "cancelled"

\* Somebody cancelled an execution of the caller and context of e.
Reached(e) ==
    \E x \in Cancellers : /\ target[x] # None
                          /\ Ident(target[x]) = Ident(e)
                          /\ req[target[x]].context = req[e].context

\* A cancel only ever ends executions of its target's caller and context.
CancelIsolation == \A e \in Execs : outcome[e] = "cancelled" => Reached(e)

\* A create task is registered and joined under one key, that of the request
\* that started it, and a running one stays registered until it is popped.
SharedByKey ==
    /\ \A k \in Key : inflight[k] # None =>
          BindingKey(inflight[k]) = k /\ create[inflight[k]] # "unused"
    /\ \A e \in Execs : joined[e] # None => BindingKey(joined[e]) = BindingKey(e)
    /\ \A e \in Execs : create[e] = "running" =>
          inflight[BindingKey(e)] = e \/ BindingKey(e) \in popped

\* The execution is past the point where it got its session lock.
PastAcquire(e) == InTurn(e) \/ pc[e] \in {"raised", "cancelled", "cleanup", "unlock", "done"}

\* A cancel request works on a key of its target's caller and context, and
\* the create task it popped is not registered again.
SnapshotTrue(x) ==
    /\ cpc[x] = "idle" => target[x] = None
    /\ cpc[x] \in {"pop", "abort"} =>
          /\ snapKey[x] \in {BindingKey(target[x]),
                             <<Ident(target[x]), req[target[x]].context, None>>}
          /\ snapBound[x] => PastAcquire(target[x])
    /\ cpc[x] = "abort" =>
          /\ snapBound[x]
          /\ taken[x] # None => /\ BindingKey(taken[x]) = snapKey[x]
                               /\ create[taken[x]] # "unused"
                               /\ inflight[snapKey[x]] # taken[x]

\* Who is interrupted, or waits for a cancelled create task, or could join
\* one, is of the caller and context of a cancelled execution.
CancelReaches ==
    /\ \A e \in Execs :
          \/ interrupted[e]
          \/ pc[e] = "cancelled"
          \/ outcome[e] = "cancelled"
          \/ pc[e] = "await" /\ create[joined[e]] = "cancelled"
          => Reached(e)
    /\ \A k \in Key : inflight[k] # None /\ create[inflight[k]] = "cancelled" => Reached(inflight[k])

\* NoDuplicateCreate, PoisonOnlyUnderScope and CancelIsolation, with what
\* makes them inductive.
CreateInv ==
    SharedByKey /\ (\A x \in Cancellers : SnapshotTrue(x)) /\ CancelReaches /\ PoisonOnlyUnderScope

\* Every execution and every guarded call that started ends, unless it waits
\* for a session lock that an interrupted cleanup abandoned.
Terminates ==
    \A p \in Procs : Live(p) ~> (pc[p] = "done" \/ sess[p] \in stuck)

=============================================================================
