-------------------------- MODULE ExecutionProofs ---------------------------
(*****************************************************************************)
(* Theorems about Execution, for every value of the constants.  Turns: the   *)
(* holders of a session lock are counted, and two of them at once are traced *)
(* back to a foreign release.  Creates and cancels: a create is not          *)
(* duplicated, a cancelled one is only left registered under a key with a    *)
(* scope, and a cancel stays within its caller and context.  Ownership: the  *)
(* sections that check and then write are protected by the ownership lock    *)
(* (CheckedStep), so an owner row is never overwritten (OwnerStep), so       *)
(* bindings and turns stay with the owner (OwnershipStep), and a pending     *)
(* claim that has not lapsed keeps others from the session (ClaimStep).      *)
(* All of that together makes every step one that SessionOwnership promises  *)
(* (StepPromised).                                                           *)
(* Each proof has one step per action of Execution, and under it one step    *)
(* for each part of the invariant.                                           *)
(*****************************************************************************)
EXTENDS Execution, TLAPS

\* What a request carries: an identity, a binding key of that identity, and
\* perhaps a session.
LEMMA RequestFacts ==
    ASSUME TypeOK, NEW p \in Procs
    PROVE  /\ req[p] \in Request
           /\ Ident(p) \in Identities
           /\ BindingKey(p) \in Key
           /\ BindingKey(p)[1] = Ident(p)
           /\ req[p].preferred \in Sessions \cup {None}
  BY ConstantsAssumption DEF TypeOK, ManagerTypes, Request, Ident, BindingKey, Key

\* No step changes the request of a process.
LEMMA RequestKept ==
    ASSUME TypeOK, [Next]_vars
    PROVE  \A p \in Procs : Ident(p)' = Ident(p) /\ BindingKey(p)' = BindingKey(p)
  <1>1. req' = req
    <2>1. CASE UNCHANGED vars BY <2>1 DEF vars, managerVars
    <2>2. CASE \E p \in Procs : Start(p) BY <2>2 DEF Start
    <2>3. CASE \E e \in Execs : ExecStep(e)
      BY <2>3 DEF ExecStep, ExecManagerStep, ClaimRefused, ClaimOwned, ClaimChecked, ClaimPending,
         ClaimReturned, Rebind, LookupHit, LookupJoin, LookupCreate, AwaitFailed, AwaitCancelled,
         AwaitDone, RecordRefused, RecordBinding, RecordOwner, Recorded, FinalizeRefused,
         FinalizeChecked, FinalizeOwner, ClearClaim, Bind, ReleaseClaim, Acquire, SendOk,
         SendFailed, ToolRound, Respond, Raised, Unlock, Unwind, UnwindCleanup, Swallow,
         managerVars
    <2>4. CASE \E g \in Guards : GuardStep(g)
      BY <2>4 DEF GuardStep, GuardManagerStep, ClaimRefused, ClaimOwned, ClaimChecked,
         ClaimPending, ClaimReturned, FinalizeRefused, FinalizeChecked, FinalizeOwner, ClearClaim,
         ReleaseClaim, CallOk, CallForked, CallFailed, Raised
    <2>5. CASE \E e \in Execs : CreateStep(e)
      BY <2>5 DEF CreateStep, CreateDone, CreateFailed
    <2>6. CASE \E x \in Cancellers : CancelStep(x)
      BY <2>6 DEF CancelStep, CancelBegin, CancelPop, CancelAbort, managerVars
    <2>7. CASE \E s \in Sessions : (ExpireClaim(s) /\ ManagerFrame) \/ CollectLock(s)
      BY <2>7 DEF ExpireClaim, CollectLock, managerVars
    <2>8. CASE Crash BY <2>8 DEF Crash
    <2> QED BY <2>1, <2>2, <2>3, <2>4, <2>5, <2>6, <2>7, <2>8 DEF Next, Quiescent
  <1> QED BY <1>1 DEF Ident, BindingKey

\* Every step of an execution, a guard, a cancel or the environment keeps the
\* types, and assigns what the next point of the code relies on.
LEMMA TypeStep == TypeOK /\ [Next]_vars => TypeOK'
  <1> SUFFICES ASSUME TypeOK, [Next]_vars PROVE TypeOK' OBVIOUS
  <1> USE ConstantsAssumption, RequestFacts DEF TypeOK, ManagerTypes, RunTypes, Assigned, Procs,
         PC, CreateStates, Outcomes, CancelPC, Goto, vars, managerVars, runVars, cancelVars,
         history, store, tasks, locks, ManagerFrame, Settle
  <1>1. ASSUME NEW p \in Procs, Start(p) PROVE TypeOK'
    <2>1. ManagerTypes' BY <1>1 DEF Start
    <2>2. RunTypes' BY <1>1 DEF Start
    <2>3. Assigned' BY <1>1 DEF Start
    <2> QED BY <2>1, <2>2, <2>3
  <1>2. ASSUME NEW p \in Procs, ClaimRefused(p), ManagerFrame PROVE TypeOK'
    <2>1. ManagerTypes' BY <1>2 DEF ClaimRefused
    <2>2. RunTypes' BY <1>2 DEF ClaimRefused
    <2>3. Assigned' BY <1>2 DEF ClaimRefused
    <2> QED BY <2>1, <2>2, <2>3
  <1>3. ASSUME NEW p \in Procs, ClaimOwned(p), ManagerFrame PROVE TypeOK'
    <2>1. ManagerTypes' BY <1>3 DEF ClaimOwned, Permitted
    <2>2. RunTypes' BY <1>3 DEF ClaimOwned, Permitted
    <2>3. Assigned' BY <1>3 DEF ClaimOwned, Permitted
    <2> QED BY <2>1, <2>2, <2>3
  <1>4. ASSUME NEW p \in Procs, ClaimChecked(p), ManagerFrame PROVE TypeOK'
    <2>1. ManagerTypes' BY <1>4 DEF ClaimChecked, Permitted
    <2>2. RunTypes' BY <1>4 DEF ClaimChecked, Permitted
    <2>3. Assigned' BY <1>4 DEF ClaimChecked, Permitted
    <2> QED BY <2>1, <2>2, <2>3
  <1>5. ASSUME NEW p \in Procs, ClaimPending(p), ManagerFrame PROVE TypeOK'
    <2>1. ManagerTypes' BY <1>5 DEF ClaimPending
    <2>2. RunTypes' BY <1>5 DEF ClaimPending
    <2>3. Assigned' BY <1>5 DEF ClaimPending
    <2> QED BY <2>1, <2>2, <2>3
  <1>6. ASSUME NEW p \in Procs, ClaimReturned(p), ManagerFrame PROVE TypeOK'
    <2>1. ManagerTypes' BY <1>6 DEF ClaimReturned
    <2>2. RunTypes' BY <1>6 DEF ClaimReturned
    <2>3. Assigned' BY <1>6 DEF ClaimReturned
    <2> QED BY <2>1, <2>2, <2>3
  <1>7. ASSUME NEW p \in Execs, Rebind(p), ManagerFrame PROVE TypeOK'
    <2>1. ManagerTypes' BY <1>7 DEF Rebind
    <2>2. RunTypes' BY <1>7 DEF Rebind
    <2>3. Assigned' BY <1>7 DEF Rebind
    <2> QED BY <2>1, <2>2, <2>3
  <1>8. ASSUME NEW p \in Execs, LookupHit(p), ManagerFrame PROVE TypeOK'
    <2>1. ManagerTypes' BY <1>8 DEF LookupHit
    <2>2. RunTypes' BY <1>8 DEF LookupHit
    <2>3. Assigned' BY <1>8 DEF LookupHit
    <2> QED BY <2>1, <2>2, <2>3
  <1>9. ASSUME NEW p \in Execs, LookupJoin(p), ManagerFrame PROVE TypeOK'
    <2>1. ManagerTypes' BY <1>9 DEF LookupJoin
    <2>2. RunTypes' BY <1>9 DEF LookupJoin
    <2>3. Assigned' BY <1>9 DEF LookupJoin
    <2> QED BY <2>1, <2>2, <2>3
  <1>10. ASSUME NEW p \in Execs, LookupCreate(p), ManagerFrame PROVE TypeOK'
    <2>1. ManagerTypes' BY <1>10 DEF LookupCreate
    <2>2. RunTypes' BY <1>10 DEF LookupCreate
    <2>3. Assigned' BY <1>10 DEF LookupCreate
    <2> QED BY <2>1, <2>2, <2>3
  <1>11. ASSUME NEW p \in Execs, AwaitFailed(p), ManagerFrame PROVE TypeOK'
    <2>1. ManagerTypes' BY <1>11 DEF AwaitFailed, ForgetCreate
    <2>2. RunTypes' BY <1>11 DEF AwaitFailed, ForgetCreate
    <2>3. Assigned' BY <1>11 DEF AwaitFailed, ForgetCreate
    <2> QED BY <2>1, <2>2, <2>3
  <1>12. ASSUME NEW p \in Execs, AwaitCancelled(p), ManagerFrame PROVE TypeOK'
    <2>1. ManagerTypes' BY <1>12 DEF AwaitCancelled
    <2>2. RunTypes' BY <1>12 DEF AwaitCancelled
    <2>3. Assigned' BY <1>12 DEF AwaitCancelled
    <2> QED BY <2>1, <2>2, <2>3
  <1>13. ASSUME NEW p \in Execs, AwaitDone(p), ManagerFrame PROVE TypeOK'
    <2>1. ManagerTypes' BY <1>13 DEF AwaitDone
    <2>2. RunTypes' BY <1>13 DEF AwaitDone
    <2>3. Assigned' BY <1>13 DEF AwaitDone
    <2> QED BY <2>1, <2>2, <2>3
  <1>14. ASSUME NEW p \in Execs, RecordRefused(p), ManagerFrame PROVE TypeOK'
    <2>1. ManagerTypes' BY <1>14 DEF RecordRefused, ForgetCreate
    <2>2. RunTypes' BY <1>14 DEF RecordRefused, ForgetCreate
    <2>3. Assigned' BY <1>14 DEF RecordRefused, ForgetCreate
    <2> QED BY <2>1, <2>2, <2>3
  <1>15. ASSUME NEW p \in Execs, RecordBinding(p), ManagerFrame PROVE TypeOK'
    <2>1. ManagerTypes' BY <1>15 DEF RecordBinding
    <2>2. RunTypes' BY <1>15 DEF RecordBinding
    <2>3. Assigned' BY <1>15 DEF RecordBinding
    <2> QED BY <2>1, <2>2, <2>3
  <1>16. ASSUME NEW p \in Execs, RecordOwner(p), ManagerFrame PROVE TypeOK'
    <2>1. ManagerTypes' BY <1>16 DEF RecordOwner
    <2>2. RunTypes' BY <1>16 DEF RecordOwner
    <2>3. Assigned' BY <1>16 DEF RecordOwner
    <2> QED BY <2>1, <2>2, <2>3
  <1>17. ASSUME NEW p \in Execs, Recorded(p), ManagerFrame PROVE TypeOK'
    <2>1. ManagerTypes' BY <1>17 DEF Recorded, ForgetCreate
    <2>2. RunTypes' BY <1>17 DEF Recorded, ForgetCreate
    <2>3. Assigned' BY <1>17 DEF Recorded, ForgetCreate
    <2> QED BY <2>1, <2>2, <2>3
  <1>18. ASSUME NEW p \in Procs, FinalizeRefused(p), ManagerFrame PROVE TypeOK'
    <2>1. ManagerTypes' BY <1>18 DEF FinalizeRefused
    <2>2. RunTypes' BY <1>18 DEF FinalizeRefused
    <2>3. Assigned' BY <1>18 DEF FinalizeRefused
    <2> QED BY <2>1, <2>2, <2>3
  <1>19. ASSUME NEW p \in Procs, FinalizeChecked(p), ManagerFrame PROVE TypeOK'
    <2>1. ManagerTypes' BY <1>19 DEF FinalizeChecked, Permitted
    <2>2. RunTypes' BY <1>19 DEF FinalizeChecked, Permitted
    <2>3. Assigned' BY <1>19 DEF FinalizeChecked, Permitted
    <2> QED BY <2>1, <2>2, <2>3
  <1>20. ASSUME NEW p \in Procs, FinalizeOwner(p), ManagerFrame PROVE TypeOK'
    <2>1. ManagerTypes' BY <1>20 DEF FinalizeOwner
    <2>2. RunTypes' BY <1>20 DEF FinalizeOwner
    <2>3. Assigned' BY <1>20 DEF FinalizeOwner
    <2> QED BY <2>1, <2>2, <2>3
  <1>21. ASSUME NEW p \in Procs, ClearClaim(p), ManagerFrame PROVE TypeOK'
    <2>0. claims' \in [Sessions -> Identities \cup {None}]
      BY <1>21 DEF ClearClaim, Cleared
    <2>a. ownLock' \in [Sessions -> Procs \cup {None}]
      BY <1>21 DEF ClearClaim
    <2>b. UNCHANGED <<bindings, owners, born, tasks, ctxLock, req, lapsed, cancelVars>>
      BY <1>21 DEF ClearClaim
    <2>c. CASE p \in Execs
      <3>1. Goto(p, "bind") /\ UNCHANGED <<sess, pending>>
        BY <1>21, <2>c DEF ClearClaim
      <3> QED BY <1>21, <2>0, <2>a, <2>b, <2>c, <3>1 DEF ClearClaim
    <2>d. CASE p \in Guards /\ made[p] \in {None, sess[p]}
      <3>1. pending' = [pending EXCEPT ![p] = FALSE] /\ Goto(p, "done") /\ UNCHANGED sess
        BY <1>21, <2>d DEF ClearClaim
      <3>2. ManagerTypes' BY <2>0, <2>a, <2>b, <2>d, <3>1
      <3>3. RunTypes' BY <1>21, <2>b
      <3>4. Assigned' BY <1>21, <2>b, <2>d, <3>1
      <3> QED BY <3>2, <3>3, <3>4
    <2>e. CASE p \in Guards /\ made[p] \notin {None, sess[p]}
      <3>1. /\ pending' = [pending EXCEPT ![p] = FALSE]
            /\ sess' = [sess EXCEPT ![p] = made[p]]
            /\ Goto(p, "finalize")
        BY <1>21, <2>e DEF ClearClaim
      <3>2. ManagerTypes' BY <2>0, <2>a, <2>b, <2>e, <3>1
      <3>3. RunTypes' BY <1>21, <2>b
      <3>4. Assigned' BY <1>21, <2>b, <2>e, <3>1
      <3> QED BY <3>2, <3>3, <3>4
    <2> QED BY <2>c, <2>d, <2>e
  <1>22. ASSUME NEW p \in Execs, Bind(p), ManagerFrame PROVE TypeOK'
    <2>1. ManagerTypes' BY <1>22 DEF Bind
    <2>2. RunTypes' BY <1>22 DEF Bind
    <2>3. Assigned' BY <1>22 DEF Bind
    <2> QED BY <2>1, <2>2, <2>3
  <1>23. ASSUME NEW p \in Procs, ReleaseClaim(p), ManagerFrame PROVE TypeOK'
    <2>1. ManagerTypes' BY <1>23 DEF ReleaseClaim, Cleared, Lapse
    <2>2. RunTypes' BY <1>23 DEF ReleaseClaim, Cleared, Lapse
    <2>3. Assigned' BY <1>23 DEF ReleaseClaim, Cleared, Lapse
    <2> QED BY <2>1, <2>2, <2>3
  <1>24. ASSUME NEW e \in Execs, Acquire(e) PROVE TypeOK'
    <2>1. ManagerTypes' BY <1>24 DEF Acquire
    <2>2. RunTypes' BY <1>24 DEF Acquire
    <2>3. Assigned' BY <1>24 DEF Acquire
    <2> QED BY <2>1, <2>2, <2>3
  <1>25. ASSUME NEW e \in Execs, SendOk(e) PROVE TypeOK'
    <2>1. ManagerTypes' BY <1>25 DEF SendOk
    <2>2. RunTypes' BY <1>25 DEF SendOk
    <2>3. Assigned' BY <1>25 DEF SendOk
    <2> QED BY <2>1, <2>2, <2>3
  <1>26. ASSUME NEW e \in Execs, SendFailed(e) PROVE TypeOK'
    <2>1. ManagerTypes' BY <1>26 DEF SendFailed, Leave
    <2>2. RunTypes' BY <1>26 DEF SendFailed, Leave
    <2>3. Assigned' BY <1>26 DEF SendFailed, Leave
    <2> QED BY <2>1, <2>2, <2>3
  <1>27. ASSUME NEW e \in Execs, ToolRound(e) PROVE TypeOK'
    <2>1. ManagerTypes' BY <1>27 DEF ToolRound
    <2>2. RunTypes' BY <1>27 DEF ToolRound
    <2>3. Assigned' BY <1>27 DEF ToolRound
    <2> QED BY <2>1, <2>2, <2>3
  <1>28. ASSUME NEW e \in Execs, Respond(e) PROVE TypeOK'
    <2>1. ManagerTypes' BY <1>28 DEF Respond, Leave
    <2>2. RunTypes' BY <1>28 DEF Respond, Leave
    <2>3. Assigned' BY <1>28 DEF Respond, Leave
    <2> QED BY <2>1, <2>2, <2>3
  <1>29. ASSUME NEW p \in Procs, Raised(p) PROVE TypeOK'
    <2>1. ManagerTypes' BY <1>29 DEF Raised, Leave
    <2>2. RunTypes' BY <1>29 DEF Raised, Leave
    <2>3. Assigned' BY <1>29 DEF Raised, Leave
    <2> QED BY <2>1, <2>2, <2>3
  <1>30. ASSUME NEW e \in Execs, Unlock(e) PROVE TypeOK'
    <2>1. ManagerTypes' BY <1>30 DEF Unlock
    <2>2. RunTypes' BY <1>30 DEF Unlock
    <2>3. Assigned' BY <1>30 DEF Unlock
    <2> QED BY <2>1, <2>2, <2>3
  <1>31. ASSUME NEW e \in Execs, Unwind(e) PROVE TypeOK'
    <2>1. ManagerTypes' BY <1>31 DEF Unwind, Leave, FreeLocks, Torn, Orphan
    <2>2. RunTypes' BY <1>31 DEF Unwind, Leave, FreeLocks, Torn, Orphan
    <2>3. Assigned' BY <1>31 DEF Unwind, Leave, FreeLocks, Torn, Orphan
    <2> QED BY <2>1, <2>2, <2>3
  <1>32. ASSUME NEW e \in Execs, UnwindCleanup(e) PROVE TypeOK'
    <2>1. ManagerTypes' BY <1>32 DEF UnwindCleanup, Orphan
    <2>2. RunTypes' BY <1>32 DEF UnwindCleanup, Orphan
    <2>3. Assigned' BY <1>32 DEF UnwindCleanup, Orphan
    <2> QED BY <2>1, <2>2, <2>3
  <1>33. ASSUME NEW e \in Execs, Swallow(e) PROVE TypeOK'
    <2>1. ManagerTypes' BY <1>33 DEF Swallow
    <2>2. RunTypes' BY <1>33 DEF Swallow
    <2>3. Assigned' BY <1>33 DEF Swallow
    <2> QED BY <2>1, <2>2, <2>3
  <1>34. ASSUME NEW g \in Guards, CallOk(g) PROVE TypeOK'
    <2>1. ManagerTypes' BY <1>34 DEF CallOk
    <2>2. RunTypes' BY <1>34 DEF CallOk
    <2>3. Assigned' BY <1>34 DEF CallOk
    <2> QED BY <2>1, <2>2, <2>3
  <1>35. ASSUME NEW g \in Guards, CallForked(g) PROVE TypeOK'
    <2>1. ManagerTypes' BY <1>35 DEF CallForked
    <2>2. RunTypes' BY <1>35 DEF CallForked
    <2>3. Assigned' BY <1>35 DEF CallForked
    <2> QED BY <2>1, <2>2, <2>3
  <1>36. ASSUME NEW g \in Guards, CallFailed(g) PROVE TypeOK'
    <2>1. ManagerTypes' BY <1>36 DEF CallFailed, Leave
    <2>2. RunTypes' BY <1>36 DEF CallFailed, Leave
    <2>3. Assigned' BY <1>36 DEF CallFailed, Leave
    <2> QED BY <2>1, <2>2, <2>3
  <1>37. ASSUME NEW e \in Execs, CreateDone(e), ManagerFrame PROVE TypeOK'
    <2>1. ManagerTypes' BY <1>37 DEF CreateDone
    <2>2. RunTypes' BY <1>37 DEF CreateDone
    <2>3. Assigned' BY <1>37 DEF CreateDone
    <2> QED BY <2>1, <2>2, <2>3
  <1>38. ASSUME NEW e \in Execs, CreateFailed(e), ManagerFrame PROVE TypeOK'
    <2>1. ManagerTypes' BY <1>38 DEF CreateFailed
    <2>2. RunTypes' BY <1>38 DEF CreateFailed
    <2>3. Assigned' BY <1>38 DEF CreateFailed
    <2> QED BY <2>1, <2>2, <2>3
  <1>39. ASSUME NEW x \in Cancellers, CancelBegin(x) PROVE TypeOK'
    <2>0. PICK e \in Execs : /\ target' = [target EXCEPT ![x] = e]
                             /\ snapKey' = [snapKey EXCEPT ![x] = CancelKey(e)]
                             /\ snapBound' = [snapBound EXCEPT ![x] = registered[e]]
      BY <1>39 DEF CancelBegin
    <2>a. CancelKey(e) \in Key
      BY DEF TypeOK, ManagerTypes, CancelKey, Key, Request
    <2>1. ManagerTypes' BY <2>0, <2>a, <1>39 DEF CancelBegin
    <2>2. RunTypes' BY <2>0, <2>a, <1>39 DEF CancelBegin
    <2>3. Assigned' BY <2>0, <2>a, <1>39 DEF CancelBegin
    <2> QED BY <2>1, <2>2, <2>3
  <1>40. ASSUME NEW x \in Cancellers, CancelPop(x) PROVE TypeOK'
    <2>1. ManagerTypes' BY <1>40 DEF CancelPop, PopInflight, Interrupt, CancelEnd, Live
    <2>c. /\ cpc' \in [Cancellers -> CancelPC]
          /\ taken' \in [Cancellers -> Execs \cup {None}]
          /\ interrupted' \in [Execs -> BOOLEAN]
          /\ killed' \subseteq Execs
      <3>0. target[x] \in Execs /\ snapKey[x] \in Key
        BY <1>40 DEF TypeOK, Assigned, CancelPop
      <3>1. CASE snapBound[x] /\ Live(target[x])
        <4>1. /\ taken' = [taken EXCEPT ![x] = inflight[snapKey[x]]]
              /\ cpc' = [cpc EXCEPT ![x] = "abort"]
              /\ UNCHANGED <<interrupted, killed>>
          BY <1>40, <3>1 DEF CancelPop
        <4> QED BY <4>1, <3>0 DEF TypeOK, ManagerTypes, RunTypes
      <3>2. CASE ~ (snapBound[x] /\ Live(target[x]))
        <4>1. Interrupt(target[x], inflight[snapKey[x]]) /\ CancelEnd(x, inflight[snapKey[x]])
              /\ UNCHANGED taken
          BY <1>40, <3>2 DEF CancelPop
        <4>2. cpc' \in [Cancellers -> CancelPC]
          BY <4>1 DEF TypeOK, RunTypes, CancelEnd
        <4>3. interrupted' \in [Execs -> BOOLEAN] /\ killed' \subseteq Execs
          BY <4>1, <3>0 DEF TypeOK, RunTypes, Interrupt
        <4> QED BY <4>1, <4>2, <4>3 DEF TypeOK, RunTypes
      <3> QED BY <3>1, <3>2
    <2>e. popped' \subseteq Key
      BY <1>40 DEF TypeOK, ManagerTypes, RunTypes, Assigned, CancelPop
    <2>2. RunTypes' BY <1>40, <2>c, <2>e DEF TypeOK, RunTypes, CancelPop
    <2>3. Assigned' BY <1>40 DEF CancelPop, PopInflight, Interrupt, CancelEnd, Live
    <2> QED BY <2>1, <2>2, <2>3
  <1>41. ASSUME NEW x \in Cancellers, CancelAbort(x) PROVE TypeOK'
    <2>1. ManagerTypes' BY <1>41 DEF CancelAbort, Interrupt, CancelEnd, Live
    <2>2. RunTypes' BY <1>41 DEF CancelAbort, Interrupt, CancelEnd, Live
    <2>3. Assigned' BY <1>41, SMTT(60) DEF CancelAbort, Interrupt, CancelEnd, Live
    <2> QED BY <2>1, <2>2, <2>3
  <1>42. ASSUME NEW s \in Sessions, ExpireClaim(s), ManagerFrame PROVE TypeOK'
    <2>1. ManagerTypes' BY <1>42 DEF ExpireClaim, Lapse
    <2>2. RunTypes' BY <1>42 DEF ExpireClaim, Lapse
    <2>3. Assigned' BY <1>42 DEF ExpireClaim, Lapse
    <2> QED BY <2>1, <2>2, <2>3
  <1>43. ASSUME NEW s \in Sessions, CollectLock(s) PROVE TypeOK'
    <2>1. ManagerTypes' BY <1>43 DEF CollectLock
    <2>2. RunTypes' BY <1>43 DEF CollectLock
    <2>3. Assigned' BY <1>43 DEF CollectLock
    <2> QED BY <2>1, <2>2, <2>3
  <1>44. ASSUME Crash PROVE TypeOK'
    <2>1. ManagerTypes' BY <1>44 DEF Crash, Live, Torn
    <2>c. torn' \subseteq Sessions
      BY <1>44 DEF TypeOK, ManagerTypes, RunTypes, Assigned, Crash, Torn
    <2>d. crashes' \in 0 .. MaxCrashes
      BY <1>44, MaxCrashesAssumption DEF TypeOK, ManagerTypes, RunTypes, Assigned, Crash
    <2>2. RunTypes' BY <1>44, <2>c, <2>d DEF TypeOK, ManagerTypes, RunTypes, Assigned, Crash
    <2>3. Assigned' BY <1>44 DEF Crash, Live, Torn
    <2> QED BY <2>1, <2>2, <2>3
  <1>45. CASE UNCHANGED vars BY <1>45
  <1> QED BY <1>1, <1>2, <1>3, <1>4, <1>5, <1>6, <1>7, <1>8, <1>9, <1>10, <1>11, <1>12, <1>13,
             <1>14, <1>15, <1>16, <1>17, <1>18, <1>19, <1>20, <1>21, <1>22, <1>23, <1>24, <1>25,
             <1>26, <1>27, <1>28, <1>29, <1>30, <1>31, <1>32, <1>33, <1>34, <1>35, <1>36, <1>37,
             <1>38, <1>39, <1>40, <1>41, <1>42, <1>43, <1>44, <1>45 DEF Next, ExecStep,
             ExecManagerStep, GuardStep, GuardManagerStep, CreateStep, CancelStep, Quiescent

\* TypeOK is an invariant of the adapter, for any number of callers, sessions,
\* executions, guarded calls, cancels and crashes.
THEOREM TypeCorrect == Spec => []TypeOK
  <1>1. Init => TypeOK
    <2> SUFFICES ASSUME Init PROVE TypeOK OBVIOUS
    <2>1. ManagerTypes
      BY ConstantsAssumption DEF Init, ManagerTypes, PC, CreateStates
    <2>2. RunTypes
      BY MaxCrashesAssumption DEF Init, RunTypes, Outcomes, CancelPC
    <2>3. Assigned
      BY ConstantsAssumption DEF Init, Assigned, Procs, Request
    <2> QED BY <2>1, <2>2, <2>3 DEF TypeOK
  <1> QED BY <1>1, TypeStep, PTL DEF Spec

----------------------------------------------------------------------------
(* Turns, creates and cancels.                                                *)

\* Only Unlock releases a session lock that is in use.  When the execution
\* that unlocks holds the lock, no other holder exists or the session is
\* foreign already; when it does not, the session becomes foreign.
LEMMA TurnStep == TypeOK /\ TurnInv /\ [Next]_vars => TurnInv'
  <1> SUFFICES ASSUME TypeOK, TurnInv, [Next]_vars PROVE TurnInv' OBVIOUS
  <1> USE ConstantsAssumption DEF TypeOK, ManagerTypes, RunTypes, Assigned, Procs, TurnInv,
         Holder, Live, InTurn, HolderLocked, OneHolder, Goto, vars, managerVars, runVars,
         cancelVars, history, store, tasks, locks, ManagerFrame
  <1>1. ASSUME NEW p \in Procs, Start(p) PROVE TurnInv'
    <2>1. HolderLocked' BY <1>1 DEF Start
    <2>2. OneHolder' BY <1>1 DEF Start
    <2> QED BY <2>1, <2>2 DEF TurnInv
  <1>2. ASSUME NEW p \in Procs, ClaimRefused(p), ManagerFrame PROVE TurnInv'
    <2>1. HolderLocked' BY <1>2 DEF ClaimRefused
    <2>2. OneHolder' BY <1>2 DEF ClaimRefused
    <2> QED BY <2>1, <2>2 DEF TurnInv
  <1>3. ASSUME NEW p \in Procs, ClaimOwned(p), ManagerFrame PROVE TurnInv'
    <2>1. HolderLocked' BY <1>3 DEF ClaimOwned, Permitted
    <2>2. OneHolder' BY <1>3 DEF ClaimOwned, Permitted
    <2> QED BY <2>1, <2>2 DEF TurnInv
  <1>4. ASSUME NEW p \in Procs, ClaimChecked(p), ManagerFrame PROVE TurnInv'
    <2>1. HolderLocked' BY <1>4 DEF ClaimChecked, Permitted
    <2>2. OneHolder' BY <1>4 DEF ClaimChecked, Permitted
    <2> QED BY <2>1, <2>2 DEF TurnInv
  <1>5. ASSUME NEW p \in Procs, ClaimPending(p), ManagerFrame PROVE TurnInv'
    <2>1. HolderLocked' BY <1>5 DEF ClaimPending
    <2>2. OneHolder' BY <1>5 DEF ClaimPending
    <2> QED BY <2>1, <2>2 DEF TurnInv
  <1>6. ASSUME NEW p \in Procs, ClaimReturned(p), ManagerFrame PROVE TurnInv'
    <2>1. HolderLocked' BY <1>6 DEF ClaimReturned
    <2>2. OneHolder' BY <1>6 DEF ClaimReturned
    <2> QED BY <2>1, <2>2 DEF TurnInv
  <1>7. ASSUME NEW p \in Execs, Rebind(p), ManagerFrame PROVE TurnInv'
    <2>1. HolderLocked' BY <1>7 DEF Rebind
    <2>2. OneHolder' BY <1>7 DEF Rebind
    <2> QED BY <2>1, <2>2 DEF TurnInv
  <1>8. ASSUME NEW p \in Execs, LookupHit(p), ManagerFrame PROVE TurnInv'
    <2>1. HolderLocked' BY <1>8 DEF LookupHit
    <2>2. OneHolder' BY <1>8 DEF LookupHit
    <2> QED BY <2>1, <2>2 DEF TurnInv
  <1>9. ASSUME NEW p \in Execs, LookupJoin(p), ManagerFrame PROVE TurnInv'
    <2>1. HolderLocked' BY <1>9 DEF LookupJoin
    <2>2. OneHolder' BY <1>9 DEF LookupJoin
    <2> QED BY <2>1, <2>2 DEF TurnInv
  <1>10. ASSUME NEW p \in Execs, LookupCreate(p), ManagerFrame PROVE TurnInv'
    <2>1. HolderLocked' BY <1>10 DEF LookupCreate
    <2>2. OneHolder' BY <1>10 DEF LookupCreate
    <2> QED BY <2>1, <2>2 DEF TurnInv
  <1>11. ASSUME NEW p \in Execs, AwaitFailed(p), ManagerFrame PROVE TurnInv'
    <2>1. HolderLocked' BY <1>11 DEF AwaitFailed, ForgetCreate
    <2>2. OneHolder' BY <1>11 DEF AwaitFailed, ForgetCreate
    <2> QED BY <2>1, <2>2 DEF TurnInv
  <1>12. ASSUME NEW p \in Execs, AwaitCancelled(p), ManagerFrame PROVE TurnInv'
    <2>1. HolderLocked' BY <1>12 DEF AwaitCancelled
    <2>2. OneHolder' BY <1>12 DEF AwaitCancelled
    <2> QED BY <2>1, <2>2 DEF TurnInv
  <1>13. ASSUME NEW p \in Execs, AwaitDone(p), ManagerFrame PROVE TurnInv'
    <2>1. HolderLocked' BY <1>13 DEF AwaitDone
    <2>2. OneHolder' BY <1>13 DEF AwaitDone
    <2> QED BY <2>1, <2>2 DEF TurnInv
  <1>14. ASSUME NEW p \in Execs, RecordRefused(p), ManagerFrame PROVE TurnInv'
    <2>1. HolderLocked' BY <1>14 DEF RecordRefused, ForgetCreate
    <2>2. OneHolder' BY <1>14 DEF RecordRefused, ForgetCreate
    <2> QED BY <2>1, <2>2 DEF TurnInv
  <1>15. ASSUME NEW p \in Execs, RecordBinding(p), ManagerFrame PROVE TurnInv'
    <2>1. HolderLocked' BY <1>15 DEF RecordBinding
    <2>2. OneHolder' BY <1>15 DEF RecordBinding
    <2> QED BY <2>1, <2>2 DEF TurnInv
  <1>16. ASSUME NEW p \in Execs, RecordOwner(p), ManagerFrame PROVE TurnInv'
    <2>1. HolderLocked' BY <1>16 DEF RecordOwner
    <2>2. OneHolder' BY <1>16 DEF RecordOwner
    <2> QED BY <2>1, <2>2 DEF TurnInv
  <1>17. ASSUME NEW p \in Execs, Recorded(p), ManagerFrame PROVE TurnInv'
    <2>1. HolderLocked' BY <1>17 DEF Recorded, ForgetCreate
    <2>2. OneHolder' BY <1>17 DEF Recorded, ForgetCreate
    <2> QED BY <2>1, <2>2 DEF TurnInv
  <1>18. ASSUME NEW p \in Procs, FinalizeRefused(p), ManagerFrame PROVE TurnInv'
    <2>1. HolderLocked' BY <1>18 DEF FinalizeRefused
    <2>2. OneHolder' BY <1>18 DEF FinalizeRefused
    <2> QED BY <2>1, <2>2 DEF TurnInv
  <1>19. ASSUME NEW p \in Procs, FinalizeChecked(p), ManagerFrame PROVE TurnInv'
    <2>1. HolderLocked' BY <1>19 DEF FinalizeChecked, Permitted
    <2>2. OneHolder' BY <1>19 DEF FinalizeChecked, Permitted
    <2> QED BY <2>1, <2>2 DEF TurnInv
  <1>20. ASSUME NEW p \in Procs, FinalizeOwner(p), ManagerFrame PROVE TurnInv'
    <2>1. HolderLocked' BY <1>20 DEF FinalizeOwner
    <2>2. OneHolder' BY <1>20 DEF FinalizeOwner
    <2> QED BY <2>1, <2>2 DEF TurnInv
  <1>21. ASSUME NEW p \in Procs, ClearClaim(p), ManagerFrame PROVE TurnInv'
    <2>1. HolderLocked' BY <1>21 DEF ClearClaim, Cleared
    <2>2. OneHolder' BY <1>21 DEF ClearClaim, Cleared
    <2> QED BY <2>1, <2>2 DEF TurnInv
  <1>22. ASSUME NEW p \in Execs, Bind(p), ManagerFrame PROVE TurnInv'
    <2>1. HolderLocked' BY <1>22 DEF Bind
    <2>2. OneHolder' BY <1>22 DEF Bind
    <2> QED BY <2>1, <2>2 DEF TurnInv
  <1>23. ASSUME NEW p \in Procs, ReleaseClaim(p), ManagerFrame PROVE TurnInv'
    <2>1. HolderLocked' BY <1>23 DEF ReleaseClaim, Cleared, Lapse
    <2>2. OneHolder' BY <1>23 DEF ReleaseClaim, Cleared, Lapse
    <2> QED BY <2>1, <2>2 DEF TurnInv
  <1>24. ASSUME NEW e \in Execs, Acquire(e) PROVE TurnInv'
    <2>1. HolderLocked' BY <1>24 DEF Acquire
    <2>2. OneHolder' BY <1>24 DEF Acquire
    <2> QED BY <2>1, <2>2 DEF TurnInv
  <1>25. ASSUME NEW e \in Execs, SendOk(e) PROVE TurnInv'
    <2>1. HolderLocked' BY <1>25 DEF SendOk
    <2>2. OneHolder' BY <1>25 DEF SendOk
    <2> QED BY <2>1, <2>2 DEF TurnInv
  <1>26. ASSUME NEW e \in Execs, SendFailed(e) PROVE TurnInv'
    <2>1. HolderLocked' BY <1>26 DEF SendFailed, Leave
    <2>2. OneHolder' BY <1>26 DEF SendFailed, Leave
    <2> QED BY <2>1, <2>2 DEF TurnInv
  <1>27. ASSUME NEW e \in Execs, ToolRound(e) PROVE TurnInv'
    <2>1. HolderLocked' BY <1>27 DEF ToolRound
    <2>2. OneHolder' BY <1>27 DEF ToolRound
    <2> QED BY <2>1, <2>2 DEF TurnInv
  <1>28. ASSUME NEW e \in Execs, Respond(e) PROVE TurnInv'
    <2>1. HolderLocked' BY <1>28 DEF Respond, Leave
    <2>2. OneHolder' BY <1>28 DEF Respond, Leave
    <2> QED BY <2>1, <2>2 DEF TurnInv
  <1>29. ASSUME NEW p \in Procs, Raised(p) PROVE TurnInv'
    <2>1. HolderLocked' BY <1>29 DEF Raised, Leave
    <2>2. OneHolder' BY <1>29 DEF Raised, Leave
    <2> QED BY <2>1, <2>2 DEF TurnInv
  <1>30. ASSUME NEW e \in Execs, Unlock(e) PROVE TurnInv'
    <2>1. HolderLocked'
      <3> SUFFICES ASSUME NEW f \in Execs
                   PROVE  /\ (InTurn(f) => registered[f])'
                          /\ (pc[f] \in {"idle", "claim", "claiming", "claimed", "rebind",
                             "lookup",
                                        "await", "own", "setowner", "recorded", "bound"}
                              => ~ registered[f])'
                          /\ (Holder(f) => sess[f] \in Sessions
                                             /\ (locked[sess[f]] \/ sess[f] \in foreign))'
        BY DEF HolderLocked
      <3>1. CASE f = e
        BY <1>30, <3>1 DEF TypeOK, ManagerTypes, RunTypes, Unlock, Goto, Holder, Live, InTurn,
           Procs
      <3>2. CASE f # e
        <4>1. pc'[f] = pc[f] /\ registered'[f] = registered[f] /\ sess'[f] = sess[f]
          BY <1>30, <3>2 DEF TypeOK, ManagerTypes, RunTypes, Unlock, Goto, Procs
        <4>2. CASE sess[f] # sess[e]
          BY <1>30, <4>1, <4>2 DEF TypeOK, RunTypes, Unlock, TurnInv, HolderLocked, Holder, Live,
             InTurn
        <4>3. CASE sess[f] = sess[e] /\ registered[e]
          <5>1. Holder(e) BY <1>30, <4>3 DEF Unlock, Holder, Live
          <5> QED BY <1>30, <3>2, <4>1, <4>3, <5>1 DEF TypeOK, RunTypes, Unlock, TurnInv,
                     HolderLocked, OneHolder, Holder, Live, InTurn
        <4>4. CASE sess[f] = sess[e] /\ ~ registered[e]
          BY <1>30, <4>1, <4>4 DEF TypeOK, ManagerTypes, RunTypes, Unlock, TurnInv, HolderLocked,
             Holder, Live, InTurn, Procs
        <4> QED BY <4>2, <4>3, <4>4 DEF TypeOK, RunTypes
      <3> QED BY <3>1, <3>2
    <2>2. OneHolder' BY <1>30 DEF Unlock
    <2> QED BY <2>1, <2>2 DEF TurnInv
  <1>31. ASSUME NEW e \in Execs, Unwind(e) PROVE TurnInv'
    <2>1. HolderLocked' BY <1>31 DEF Unwind, Leave, FreeLocks, Torn, Orphan
    <2>2. OneHolder' BY <1>31 DEF Unwind, Leave, FreeLocks, Torn, Orphan
    <2> QED BY <2>1, <2>2 DEF TurnInv
  <1>32. ASSUME NEW e \in Execs, UnwindCleanup(e) PROVE TurnInv'
    <2>1. HolderLocked' BY <1>32 DEF UnwindCleanup, Orphan
    <2>2. OneHolder' BY <1>32 DEF UnwindCleanup, Orphan
    <2> QED BY <2>1, <2>2 DEF TurnInv
  <1>33. ASSUME NEW e \in Execs, Swallow(e) PROVE TurnInv'
    <2>1. HolderLocked' BY <1>33 DEF Swallow
    <2>2. OneHolder' BY <1>33 DEF Swallow
    <2> QED BY <2>1, <2>2 DEF TurnInv
  <1>34. ASSUME NEW g \in Guards, CallOk(g) PROVE TurnInv'
    <2>1. HolderLocked' BY <1>34 DEF CallOk
    <2>2. OneHolder' BY <1>34 DEF CallOk
    <2> QED BY <2>1, <2>2 DEF TurnInv
  <1>35. ASSUME NEW g \in Guards, CallForked(g) PROVE TurnInv'
    <2>1. HolderLocked' BY <1>35 DEF CallForked
    <2>2. OneHolder' BY <1>35 DEF CallForked
    <2> QED BY <2>1, <2>2 DEF TurnInv
  <1>36. ASSUME NEW g \in Guards, CallFailed(g) PROVE TurnInv'
    <2>1. HolderLocked' BY <1>36 DEF CallFailed, Leave
    <2>2. OneHolder' BY <1>36 DEF CallFailed, Leave
    <2> QED BY <2>1, <2>2 DEF TurnInv
  <1>37. ASSUME NEW e \in Execs, CreateDone(e), ManagerFrame PROVE TurnInv'
    <2>1. HolderLocked' BY <1>37 DEF CreateDone
    <2>2. OneHolder' BY <1>37 DEF CreateDone
    <2> QED BY <2>1, <2>2 DEF TurnInv
  <1>38. ASSUME NEW e \in Execs, CreateFailed(e), ManagerFrame PROVE TurnInv'
    <2>1. HolderLocked' BY <1>38 DEF CreateFailed
    <2>2. OneHolder' BY <1>38 DEF CreateFailed
    <2> QED BY <2>1, <2>2 DEF TurnInv
  <1>39. ASSUME NEW x \in Cancellers, CancelBegin(x) PROVE TurnInv'
    <2>1. HolderLocked' BY <1>39 DEF CancelBegin, CancelKey
    <2>2. OneHolder' BY <1>39 DEF CancelBegin, CancelKey
    <2> QED BY <2>1, <2>2 DEF TurnInv
  <1>40. ASSUME NEW x \in Cancellers, CancelPop(x) PROVE TurnInv'
    <2>1. HolderLocked' BY <1>40 DEF CancelPop, PopInflight, Interrupt, CancelEnd
    <2>2. OneHolder' BY <1>40 DEF CancelPop, PopInflight, Interrupt, CancelEnd
    <2> QED BY <2>1, <2>2 DEF TurnInv
  <1>41. ASSUME NEW x \in Cancellers, CancelAbort(x) PROVE TurnInv'
    <2>1. HolderLocked' BY <1>41 DEF CancelAbort, Interrupt, CancelEnd
    <2>2. OneHolder' BY <1>41 DEF CancelAbort, Interrupt, CancelEnd
    <2> QED BY <2>1, <2>2 DEF TurnInv
  <1>42. ASSUME NEW s \in Sessions, ExpireClaim(s), ManagerFrame PROVE TurnInv'
    <2>1. HolderLocked' BY <1>42 DEF ExpireClaim, Lapse
    <2>2. OneHolder' BY <1>42 DEF ExpireClaim, Lapse
    <2> QED BY <2>1, <2>2 DEF TurnInv
  <1>43. ASSUME NEW s \in Sessions, CollectLock(s) PROVE TurnInv'
    <2>1. HolderLocked' BY <1>43 DEF CollectLock
    <2>2. OneHolder' BY <1>43 DEF CollectLock
    <2> QED BY <2>1, <2>2 DEF TurnInv
  <1>44. ASSUME Crash PROVE TurnInv'
    <2>1. HolderLocked' BY <1>44 DEF Crash, Torn
    <2>2. OneHolder' BY <1>44 DEF Crash, Torn
    <2> QED BY <2>1, <2>2 DEF TurnInv
  <1>45. CASE UNCHANGED vars BY <1>45
  <1> QED BY <1>1, <1>2, <1>3, <1>4, <1>5, <1>6, <1>7, <1>8, <1>9, <1>10, <1>11, <1>12, <1>13,
             <1>14, <1>15, <1>16, <1>17, <1>18, <1>19, <1>20, <1>21, <1>22, <1>23, <1>24, <1>25,
             <1>26, <1>27, <1>28, <1>29, <1>30, <1>31, <1>32, <1>33, <1>34, <1>35, <1>36, <1>37,
             <1>38, <1>39, <1>40, <1>41, <1>42, <1>43, <1>44, <1>45 DEF Next, ExecStep,
             ExecManagerStep, GuardStep, GuardManagerStep, CreateStep, CancelStep, Quiescent,
             Procs

\* The inductive invariant of turns.
THEOREM TurnsAreHeld == Spec => []TurnInv
  <1>1. Init => TurnInv
    BY DEF Init, TurnInv, HolderLocked, OneHolder, Holder, Live, InTurn, Procs
  <1> QED BY <1>1, TurnStep, TypeCorrect, PTL DEF Spec

\* Two executions are in their turn on one session only after an execution
\* released a session lock it did not hold.
THEOREM TurnsAreExclusive == Spec => []TurnExclusiveUnlessForeignRelease
  <1>1. TurnInv => TurnExclusiveUnlessForeignRelease
    BY DEF TurnInv, HolderLocked, OneHolder, Holder, Live, InTurn,
       TurnExclusiveUnlessForeignRelease
  <1> QED BY <1>1, TurnsAreHeld, PTL

-----------------------------------------------------------------------------
(*****************************************************************************)
(* Session creates and cancels.  Most actions only move a process on         *)
(* (Quiet); those that touch the create tasks, their registry or a cancel    *)
(* request have a lemma of their own.                                        *)
(*****************************************************************************)

\* The step registers, joins, ends and cancels no create task; a process is
\* cancelled only by its interruption or by the create task it awaits.
Quiet ==
    /\ UNCHANGED <<req, inflight, create, joined, popped, cancelVars>>
    /\ \A e \in Execs :
          /\ interrupted'[e] => interrupted[e]
          /\ pc'[e] = "await" => pc[e] = "await"
          /\ pc'[e] = "cancelled" =>
                pc[e] = "cancelled" \/ (pc[e] = "await" /\ create[joined[e]] = "cancelled")
          /\ outcome'[e] = "cancelled" =>
                outcome[e] = "cancelled" \/ interrupted[e] \/ pc[e] = "cancelled"
          /\ PastAcquire(e) => PastAcquire(e)'

\* The points of an execution that are past its lock are those TurnInv knows.
LEMMA RegisteredPast ==
    ASSUME TypeOK, TurnInv, NEW e \in Execs, registered[e]
    PROVE  PastAcquire(e)
  BY DEF TypeOK, ManagerTypes, Assigned, TurnInv, HolderLocked, PastAcquire, InTurn, PC, Procs

\* Whom a cancel reaches depends on the requests and on the targets alone.
LEMMA ReachedKept ==
    ASSUME TypeOK, CreateInv, req' = req, NEW e \in Execs, Reached(e),
           \A x \in Cancellers : target'[x] = target[x] \/ cpc[x] = "idle"
    PROVE  Reached(e)'
  BY DEF Reached, CreateInv, SnapshotTrue, Ident

\* One create task belongs to one caller and context.
LEMMA SameKeyReached ==
    ASSUME TypeOK, NEW e \in Execs, NEW f \in Execs, BindingKey(e) = BindingKey(f), Reached(f)
    PROVE  Reached(e)
  BY DEF Reached, BindingKey, Ident

LEMMA QuietKeeps == TypeOK /\ TypeOK' /\ CreateInv /\ Quiet => CreateInv'
  <1> SUFFICES ASSUME TypeOK, TypeOK', CreateInv, Quiet PROVE CreateInv' OBVIOUS
  <1> USE DEF Quiet
  <1>1. SharedByKey' BY DEF CreateInv, SharedByKey, BindingKey
  <1>2. ASSUME NEW x \in Cancellers PROVE SnapshotTrue(x)'
    BY DEF CreateInv, SnapshotTrue, BindingKey, Ident, cancelVars, TypeOK, Assigned
  <1>3. ASSUME NEW e \in Execs, Reached(e) PROVE Reached(e)'
    BY <1>3, ReachedKept DEF cancelVars
  <1>4. CancelReaches'
    BY <1>3 DEF CreateInv, CancelReaches, TypeOK, ManagerTypes
  <1>5. PoisonOnlyUnderScope' BY DEF CreateInv, PoisonOnlyUnderScope
  <1> QED BY <1>1, <1>2, <1>4, <1>5 DEF CreateInv

-----------------------------------------------------------------------------
(* The actions that are quiet *)

\* The steps of the session manager that do not touch the create tasks.
LEMMA ManagerQuiet ==
    ASSUME TypeOK, NEW p \in Procs, ManagerFrame,
           \/ ClaimRefused(p) \/ ClaimOwned(p) \/ ClaimChecked(p) \/ ClaimPending(p)
           \/ ClaimReturned(p) \/ FinalizeRefused(p) \/ FinalizeChecked(p) \/ FinalizeOwner(p)
           \/ ClearClaim(p) \/ ReleaseClaim(p)
           \/ p \in Execs /\ (\/ Rebind(p) \/ LookupHit(p) \/ AwaitCancelled(p) \/ AwaitDone(p)
                              \/ RecordBinding(p) \/ RecordOwner(p) \/ Bind(p))
    PROVE  Quiet
  <1> USE DEF TypeOK, ManagerTypes, RunTypes, Assigned, Procs, ManagerFrame, Quiet, PastAcquire,
         InTurn, Goto, store, tasks, locks, runVars, cancelVars, history
  <1>1. CASE ClaimRefused(p) \/ ClaimOwned(p) \/ ClaimChecked(p) \/ ClaimPending(p)
    BY <1>1 DEF ClaimRefused, ClaimOwned, ClaimChecked, ClaimPending
  <1>2. CASE ClaimReturned(p) \/ ReleaseClaim(p) BY <1>2 DEF ClaimReturned, ReleaseClaim
  <1>3. CASE FinalizeRefused(p) \/ FinalizeChecked(p) \/ FinalizeOwner(p)
    BY <1>3 DEF FinalizeRefused, FinalizeChecked, FinalizeOwner
  <1>4. CASE ClearClaim(p) BY <1>4 DEF ClearClaim
  <1>5. CASE p \in Execs /\ (Rebind(p) \/ LookupHit(p)) BY <1>5 DEF Rebind, LookupHit
  <1>6. CASE p \in Execs /\ (AwaitCancelled(p) \/ AwaitDone(p))
    BY <1>6 DEF AwaitCancelled, AwaitDone
  <1>7. CASE p \in Execs /\ (RecordBinding(p) \/ RecordOwner(p) \/ Bind(p))
    BY <1>7 DEF RecordBinding, RecordOwner, Bind
  <1> QED BY <1>1, <1>2, <1>3, <1>4, <1>5, <1>6, <1>7

\* The steps of an execution, a guard and the environment.
LEMMA RunQuiet ==
    ASSUME TypeOK, NEW p \in Procs,
           \/ Start(p) \/ Raised(p)
           \/ p \in Execs /\ (\/ Acquire(p) \/ SendOk(p) \/ SendFailed(p) \/ ToolRound(p)
                              \/ Respond(p) \/ Unlock(p) \/ Unwind(p) \/ UnwindCleanup(p)
                              \/ Swallow(p))
           \/ p \in Guards /\ (CallOk(p) \/ CallForked(p) \/ CallFailed(p))
    PROVE  Quiet
  <1> USE ConstantsAssumption DEF TypeOK, ManagerTypes, RunTypes, Assigned, Procs, Quiet,
         PastAcquire, InTurn, Goto, Leave, store, tasks, locks, runVars, cancelVars, history,
         managerVars
  <1>1. CASE Start(p) BY <1>1 DEF Start
  <1>2. CASE Raised(p) BY <1>2 DEF Raised
  <1>3. CASE p \in Execs /\ (Acquire(p) \/ SendOk(p) \/ ToolRound(p))
    BY <1>3 DEF Acquire, SendOk, ToolRound
  <1>4. CASE p \in Execs /\ (SendFailed(p) \/ Respond(p)) BY <1>4 DEF SendFailed, Respond
  <1>5. CASE p \in Execs /\ (Unlock(p) \/ Swallow(p)) BY <1>5 DEF Unlock, Swallow
  <1>6. CASE p \in Execs /\ Unwind(p) BY <1>6 DEF Unwind
  <1>7. CASE p \in Execs /\ UnwindCleanup(p) BY <1>7 DEF UnwindCleanup
  <1>8. CASE p \in Guards /\ (CallOk(p) \/ CallForked(p) \/ CallFailed(p))
    BY <1>8 DEF CallOk, CallForked, CallFailed
  <1> QED BY <1>1, <1>2, <1>3, <1>4, <1>5, <1>6, <1>7, <1>8

LEMMA EnvironmentQuiet ==
    ASSUME TypeOK, NEW s \in Sessions, (ExpireClaim(s) /\ ManagerFrame) \/ CollectLock(s)
    PROVE  Quiet
  BY DEF ExpireClaim, CollectLock, ManagerFrame, Quiet, PastAcquire, InTurn, store, tasks, locks,
         runVars, cancelVars, history, managerVars

-----------------------------------------------------------------------------
(* The actions on the create tasks and their registry *)

\* The key of a request does not change with it.
LEMMA KeyKept ==
    ASSUME TypeOK, req' = req
    PROVE  \A e \in Execs : BindingKey(e)' = BindingKey(e) /\ BindingKey(e) \in Key
  BY RequestFacts DEF BindingKey, Procs

\* A request that finds a create task of its key registered joins it.
LEMMA JoinKeeps ==
    ASSUME TypeOK, TypeOK', CreateInv, NEW p \in Execs, LookupJoin(p), ManagerFrame
    PROVE  CreateInv'
  <1> USE RequestFacts DEF LookupJoin, ManagerFrame, CreateInv, Goto, store, locks, runVars,
         cancelVars, history, Procs
  <1>1. SharedByKey'
    <2>1. BindingKey(inflight[BindingKey(p)]) = BindingKey(p)
      BY DEF SharedByKey
    <2>2. \A e \in Execs : joined'[e] # None => BindingKey(joined'[e]) = BindingKey(e)
      BY <2>1 DEF SharedByKey, TypeOK, ManagerTypes
    <2> QED BY <2>2, KeyKept DEF SharedByKey, TypeOK, ManagerTypes
  <1>2. ASSUME NEW x \in Cancellers PROVE SnapshotTrue(x)'
    BY DEF SnapshotTrue, BindingKey, Ident, PastAcquire, InTurn, TypeOK, ManagerTypes, Assigned
  <1>3. ASSUME NEW e \in Execs, Reached(e) PROVE Reached(e)' BY <1>3, ReachedKept
  <1>4. CancelReaches'
    <2>1. ASSUME NEW e \in Execs,
                 \/ interrupted'[e] \/ pc'[e] = "cancelled" \/ outcome'[e] = "cancelled"
                 \/ pc'[e] = "await" /\ create'[joined'[e]] = "cancelled"
          PROVE  Reached(e)
      <3>1. CASE e # p BY <2>1, <3>1 DEF CancelReaches, TypeOK, ManagerTypes
      <3>2. CASE e = p /\ ~ (interrupted'[p] \/ outcome'[p] = "cancelled")
        <4> DEFINE f == inflight[BindingKey(p)]
        <4>1. f \in Execs /\ create[f] = "cancelled" /\ BindingKey(f) = BindingKey(p)
          BY <2>1, <3>2 DEF TypeOK, ManagerTypes, SharedByKey
        <4>2. Reached(f) BY <4>1 DEF CancelReaches
        <4> QED BY <3>2, <4>1, <4>2, SameKeyReached
      <3>3. CASE e = p /\ (interrupted'[p] \/ outcome'[p] = "cancelled")
        BY <3>3 DEF CancelReaches
      <3> QED BY <3>1, <3>2, <3>3
    <2> QED BY <2>1, <1>3 DEF CancelReaches, TypeOK, ManagerTypes
  <1>5. PoisonOnlyUnderScope' BY DEF PoisonOnlyUnderScope
  <1> QED BY <1>1, <1>2, <1>4, <1>5

\* A request that finds none registers its own.
LEMMA RegisterKeeps ==
    ASSUME TypeOK, TypeOK', CreateInv, NEW p \in Execs, LookupCreate(p), ManagerFrame
    PROVE  CreateInv'
  <1> USE RequestFacts DEF LookupCreate, ManagerFrame, CreateInv, Goto, store, locks, runVars,
         cancelVars, history, Procs
  <1>0. create[p] = "unused" /\ p # None BY ConstantsAssumption DEF TypeOK, Assigned
  <1>1. SharedByKey'
    <2>1. \A k \in Key : inflight'[k] # None =>
             BindingKey(inflight'[k]) = k /\ create'[inflight'[k]] # "unused"
      BY <1>0 DEF SharedByKey, TypeOK, ManagerTypes
    <2>2. \A e \in Execs : joined'[e] # None => BindingKey(joined'[e]) = BindingKey(e)
      BY <1>0 DEF SharedByKey, TypeOK, ManagerTypes
    <2>3. ASSUME NEW e \in Execs, create'[e] = "running"
          PROVE  inflight'[BindingKey(e)] = e \/ BindingKey(e) \in popped
      <3>1. CASE e = p BY <3>1 DEF TypeOK, ManagerTypes
      <3>2. CASE e # p
        BY <3>2, <2>3, <1>0, ConstantsAssumption DEF SharedByKey, TypeOK, ManagerTypes
      <3> QED BY <3>1, <3>2
    <2> QED BY <2>1, <2>2, <2>3, KeyKept DEF SharedByKey, TypeOK, ManagerTypes
  <1>2. ASSUME NEW x \in Cancellers PROVE SnapshotTrue(x)'
    <2> USE DEF SnapshotTrue
    <2>1. UNCHANGED <<cpc, target, snapKey, snapBound, taken, req>> OBVIOUS
    <2>2. cpc[x] \in {"pop", "abort"} /\ snapBound[x] => PastAcquire(target[x])'
      BY <1>0 DEF PastAcquire, InTurn, TypeOK, ManagerTypes, RunTypes
    <2>3. cpc[x] \in {"pop", "abort"} =>
            snapKey[x] \in {BindingKey(target[x]),
                            <<Ident(target[x]), req[target[x]].context, None>>}
      OBVIOUS
    <2>4. cpc[x] = "abort" /\ taken[x] # None =>
            /\ taken[x] \in Execs /\ create[taken[x]] # "unused" /\ taken[x] # p
            /\ inflight[snapKey[x]] # taken[x]
      <3>1. taken[x] \in Execs \cup {None} BY DEF TypeOK, RunTypes
      <3>2. cpc[x] = "abort" /\ taken[x] # None =>
              create[taken[x]] # "unused" /\ inflight[snapKey[x]] # taken[x]
        OBVIOUS
      <3> QED BY <1>0, <3>1, <3>2
    <2>5. cpc[x] = "abort" /\ taken[x] # None =>
            create'[taken[x]] # "unused" /\ inflight'[snapKey[x]] # taken[x]
      BY <1>0, <2>4 DEF TypeOK, ManagerTypes, RunTypes
    <2> QED BY <2>1, <2>2, <2>3, <2>5, SMTT(30) DEF BindingKey, Ident
  <1>3. ASSUME NEW e \in Execs, Reached(e) PROVE Reached(e)' BY <1>3, ReachedKept
  <1>4. CancelReaches' BY <1>0, <1>3 DEF CancelReaches, TypeOK, ManagerTypes
  <1>5. PoisonOnlyUnderScope' BY <1>0 DEF PoisonOnlyUnderScope, TypeOK, ManagerTypes
  <1> QED BY <1>1, <1>2, <1>4, <1>5

\* An ended create task is forgotten, by whoever awaited it first.
LEMMA ForgetKeeps ==
    ASSUME TypeOK, TypeOK', CreateInv, NEW p \in Execs, ManagerFrame,
           AwaitFailed(p) \/ RecordRefused(p) \/ Recorded(p)
    PROVE  CreateInv'
  <1> USE RequestFacts DEF ManagerFrame, CreateInv, store, runVars, cancelVars, history, Procs
  <1>0. /\ ForgetCreate(p) /\ UNCHANGED <<create, joined, req, popped, interrupted, outcome>>
        /\ UNCHANGED cancelVars
        /\ joined[p] \in Execs /\ create[joined[p]] \in {"failed", "done"}
        /\ \A e \in Execs \ {p} : pc'[e] = pc[e]
        /\ pc'[p] \in {"raised", "bound"} /\ ~ PastAcquire(p)
    BY DEF AwaitFailed, RecordRefused, Recorded, TypeOK, Assigned, ManagerTypes, Goto,
           PastAcquire, InTurn
  <1>a. ASSUME NEW k \in Key PROVE inflight'[k] \in {inflight[k], None}
    BY <1>0 DEF ForgetCreate, TypeOK, ManagerTypes
  <1>b. ASSUME NEW k \in Key, inflight'[k] # inflight[k]
        PROVE  inflight[k] = joined[p] /\ inflight'[k] = None
    BY <1>0, <1>b DEF ForgetCreate, TypeOK, ManagerTypes
  <1>1. SharedByKey'
    <2>1. \A e \in Execs : BindingKey(e)' = BindingKey(e) /\ BindingKey(e) \in Key
      BY <1>0, KeyKept
    <2>2. \A k \in Key : inflight'[k] # None =>
             BindingKey(inflight'[k]) = k /\ create'[inflight'[k]] # "unused"
      BY <1>0, <1>a DEF SharedByKey
    <2>3. \A e \in Execs : joined'[e] # None => BindingKey(joined'[e]) = BindingKey(e)
      BY <1>0 DEF SharedByKey
    <2>4. \A e \in Execs : create'[e] = "running" =>
             inflight'[BindingKey(e)] = e \/ BindingKey(e) \in popped
      BY <1>0, <1>b, <2>1 DEF SharedByKey, TypeOK, ManagerTypes
    <2> QED BY <1>0, <2>1, <2>2, <2>3, <2>4 DEF SharedByKey, TypeOK, ManagerTypes
  <1>2. ASSUME NEW x \in Cancellers PROVE SnapshotTrue(x)'
    BY <1>0, <1>a DEF SnapshotTrue, BindingKey, Ident, PastAcquire, InTurn, TypeOK, Assigned
  <1>3. ASSUME NEW e \in Execs, Reached(e) PROVE Reached(e)' BY <1>0, <1>3, ReachedKept
  <1>4. CancelReaches' BY <1>0, <1>a, <1>3 DEF CancelReaches, TypeOK, ManagerTypes
  <1>5. PoisonOnlyUnderScope' BY <1>0, <1>a DEF PoisonOnlyUnderScope
  <1> QED BY <1>1, <1>2, <1>4, <1>5

\* A create task ends.
LEMMA EndKeeps ==
    ASSUME TypeOK, TypeOK', CreateInv, NEW p \in Execs, ManagerFrame,
           CreateDone(p) \/ CreateFailed(p)
    PROVE  CreateInv'
  <1> USE DEF ManagerFrame, CreateInv, store, locks, runVars, cancelVars, history
  <1>0. /\ UNCHANGED <<inflight, joined, req, popped, interrupted, outcome, pc>>
        /\ UNCHANGED cancelVars
        /\ \A e \in Execs \ {p} : create'[e] = create[e]
        /\ create'[p] \in {"done", "failed"}
    BY DEF CreateDone, CreateFailed, TypeOK, ManagerTypes
  <1>1. SharedByKey' BY <1>0 DEF SharedByKey, BindingKey, TypeOK, ManagerTypes
  <1>2. ASSUME NEW x \in Cancellers PROVE SnapshotTrue(x)'
    BY <1>0 DEF SnapshotTrue, BindingKey, Ident, PastAcquire, InTurn, TypeOK, RunTypes
  <1>3. ASSUME NEW e \in Execs, Reached(e) PROVE Reached(e)' BY <1>0, <1>3, ReachedKept
  <1>4. CancelReaches' BY <1>0, <1>3 DEF CancelReaches, TypeOK, ManagerTypes, Assigned
  <1>5. PoisonOnlyUnderScope' BY <1>0 DEF PoisonOnlyUnderScope, TypeOK, ManagerTypes
  <1> QED BY <1>1, <1>2, <1>4, <1>5

-----------------------------------------------------------------------------
(* The actions of a cancel request, and a crash *)

\* The snapshot of a cancel request.
LEMMA BeginKeeps ==
    ASSUME TypeOK, TypeOK', TurnInv, CreateInv, NEW x \in Cancellers, CancelBegin(x)
    PROVE  CreateInv'
  <1> USE DEF CancelBegin, CreateInv, managerVars, runVars, history
  <1>1. SharedByKey' BY DEF SharedByKey, BindingKey
  <1>2. ASSUME NEW y \in Cancellers PROVE SnapshotTrue(y)'
    <2>1. CASE y # x
      BY <2>1 DEF SnapshotTrue, BindingKey, Ident, PastAcquire, InTurn, TypeOK, RunTypes
    <2>2. CASE y = x
      <3>1. PICK t \in Execs : /\ target' = [target EXCEPT ![x] = t]
                               /\ snapKey' = [snapKey EXCEPT ![x] = CancelKey(t)]
                               /\ snapBound' = [snapBound EXCEPT ![x] = registered[t]]
        OBVIOUS
      <3>2. registered[t] => PastAcquire(t) BY RegisteredPast
      <3>3. cpc'[x] = "pop" /\ target'[x] = t /\ snapKey'[x] = CancelKey(t)
            /\ snapBound'[x] = registered[t]
        BY <3>1 DEF TypeOK, RunTypes
      <3> QED BY <2>2, <3>2, <3>3
              DEF SnapshotTrue, CancelKey, BindingKey, Ident, PastAcquire, InTurn
    <2> QED BY <2>1, <2>2
  <1>3. ASSUME NEW e \in Execs, Reached(e) PROVE Reached(e)'
    BY <1>3, ReachedKept DEF TypeOK, RunTypes
  <1>4. CancelReaches' BY <1>3 DEF CancelReaches, TypeOK, ManagerTypes
  <1>5. PoisonOnlyUnderScope' BY DEF PoisonOnlyUnderScope
  <1> QED BY <1>1, <1>2, <1>4, <1>5

\* A crash forgets every create task, and leaves nobody to be cancelled.
LEMMA CrashKeeps ==
    ASSUME TypeOK, TypeOK', CreateInv, Crash PROVE CreateInv'
  <1> USE DEF Crash, CreateInv, store
  <1>1. SharedByKey' BY DEF SharedByKey, BindingKey, TypeOK, ManagerTypes
  <1>2. ASSUME NEW y \in Cancellers PROVE SnapshotTrue(y)'
    BY DEF SnapshotTrue, TypeOK, RunTypes
  <1>3. ASSUME NEW e \in Execs, Reached(e) PROVE Reached(e)' BY <1>3, ReachedKept
  <1>4. CancelReaches'
    BY <1>3 DEF CancelReaches, TypeOK, ManagerTypes, RunTypes, Live, Procs
  <1>5. PoisonOnlyUnderScope' BY DEF PoisonOnlyUnderScope
  <1> QED BY <1>1, <1>2, <1>4, <1>5

\* What cancelling the target of x does when the create task it popped is t:
\* those it ends share the caller and the context of the target, and those it
\* leaves registered do so under a key with a scope.
LEMMA InterruptReaches ==
    ASSUME TypeOK, TypeOK', CreateInv, NEW x \in Cancellers, NEW t \in Execs \cup {None},
           target[x] \in Execs,
           snapKey[x] \in {BindingKey(target[x]),
                           <<Ident(target[x]), req[target[x]].context, None>>},
           t # None => BindingKey(t) = snapKey[x] /\ create[t] # "unused",
           UNCHANGED <<req, joined, pc, outcome, target>>,
           Interrupt(target[x], t),
           \A k \in Key : inflight'[k] \in {inflight[k], None},
           \A k \in Key : inflight'[k] # inflight[k] => k \in popped',
           popped \subseteq popped',
           t # None => inflight'[snapKey[x]] # t,
           pc[target[x]] = "await" => inflight'[snapKey[x]] = None
    PROVE  SharedByKey' /\ CancelReaches' /\ PoisonOnlyUnderScope'
  <1> DEFINE e0 == target[x]
             hit == IF Live(e0) THEN {e0} ELSE {}
             tsks == {joined[f] : f \in {f \in hit : pc[f] = "await"}} \cup {t}
  <1> USE DEF CreateInv
  <1>0. e0 \in Procs /\ x \in Cancellers BY DEF Procs
  <1>1. /\ interrupted' = [f \in Execs |-> interrupted[f] \/ f \in hit]
        /\ create' = [f \in Execs |->
                        IF f \in tsks /\ create[f] = "running" THEN "cancelled" ELSE create[f]]
    BY DEF Interrupt
  <1>2. e0 # None BY ConstantsAssumption DEF Procs
  <1>3. ASSUME NEW f \in Execs, f \in tsks
        PROVE  /\ BindingKey(f) \in {BindingKey(e0), snapKey[x]}
               /\ (BindingKey(f) = BindingKey(e0) /\ pc[e0] = "await") \/ f = t
    <2>1. CASE f = t BY <2>1, ConstantsAssumption DEF Procs
    <2>2. CASE f # t
      <3>1. f = joined[e0] /\ pc[e0] = "await" BY <1>3, <2>2
      <3> QED BY <3>1, ConstantsAssumption DEF SharedByKey, Procs
    <2> QED BY <2>1, <2>2
  <1>4. ASSUME NEW e \in Execs, Ident(e) = Ident(e0), req[e].context = req[e0].context
        PROVE  Reached(e)'
    BY <1>4, <1>2 DEF Reached, Ident
  <1>5. ASSUME NEW e \in Execs, NEW f \in Execs, f \in tsks, BindingKey(e) = BindingKey(f)
        PROVE  Reached(e)'
    <2>1. BindingKey(e)[1] = Ident(e0) /\ BindingKey(e)[2] = req[e0].context
      BY <1>3, <1>5 DEF BindingKey, Ident
    <2> QED BY <1>4, <2>1 DEF BindingKey, Ident
  <1>6. ASSUME NEW e \in Execs, Reached(e) PROVE Reached(e)' BY <1>6, ReachedKept
  <1>7. \A e \in Execs : BindingKey(e)' = BindingKey(e) /\ BindingKey(e) \in Key
    BY KeyKept
  <1>8. SharedByKey'
    <2>1. \A k \in Key : inflight'[k] # None =>
             BindingKey(inflight'[k]) = k /\ create'[inflight'[k]] # "unused"
      BY <1>1 DEF SharedByKey, TypeOK, ManagerTypes
    <2>2. \A e \in Execs : joined'[e] # None => BindingKey(joined'[e]) = BindingKey(e)
      BY DEF SharedByKey
    <2>3. \A e \in Execs : create'[e] = "running" =>
             inflight'[BindingKey(e)] = e \/ BindingKey(e) \in popped'
      BY <1>1, <1>7 DEF SharedByKey
    <2> QED BY <1>7, <2>1, <2>2, <2>3 DEF SharedByKey, TypeOK, ManagerTypes
  <1>9. CancelReaches'
    <2>1. ASSUME NEW e \in Execs,
                 \/ interrupted'[e] \/ pc'[e] = "cancelled" \/ outcome'[e] = "cancelled"
                 \/ pc'[e] = "await" /\ create'[joined'[e]] = "cancelled"
          PROVE  Reached(e)'
      <3>1. CASE interrupted'[e] /\ ~ interrupted[e]
        BY <1>1, <1>4, <3>1
      <3>2. CASE interrupted[e] \/ pc[e] = "cancelled" \/ outcome[e] = "cancelled"
        BY <1>6, <3>2 DEF CancelReaches
      <3>3. CASE pc[e] = "await" /\ create'[joined[e]] = "cancelled"
        <4>1. joined[e] \in Execs /\ BindingKey(joined[e]) = BindingKey(e)
          BY <3>3, ConstantsAssumption DEF TypeOK, Assigned, SharedByKey, Procs
        <4>2. CASE joined[e] \in tsks BY <1>5, <4>1, <4>2
        <4>3. CASE joined[e] \notin tsks
          BY <1>1, <1>6, <3>3, <4>1, <4>3 DEF CancelReaches
        <4> QED BY <4>2, <4>3
      <3> QED BY <2>1, <3>1, <3>2, <3>3
    <2>2. ASSUME NEW k \in Key, inflight'[k] # None, create'[inflight'[k]] = "cancelled"
          PROVE  Reached(inflight[k])'
      <3> DEFINE f == inflight[k]
      <3>1. inflight'[k] = f /\ f \in Execs BY <2>2 DEF TypeOK, ManagerTypes
      <3>2. Reached(f)'
        <4>1. CASE f \in tsks BY <1>5, <3>1, <4>1
        <4>2. CASE f \notin tsks BY <1>1, <1>6, <2>2, <3>1, <4>2 DEF CancelReaches
        <4> QED BY <4>1, <4>2
      <3> QED BY <3>1, <3>2 DEF Reached, Ident
    <2> QED BY <2>1, <2>2 DEF CancelReaches
  <1>10. PoisonOnlyUnderScope'
    <2> SUFFICES ASSUME NEW k \in Key, inflight'[k] # None, create'[inflight'[k]] = "cancelled",
                        k[3] = None
                 PROVE  FALSE
      BY DEF PoisonOnlyUnderScope
    <2> DEFINE f == inflight[k]
    <2>1. inflight'[k] = f /\ f \in Execs /\ BindingKey(f) = k
      BY DEF TypeOK, ManagerTypes, SharedByKey
    <2>2. CASE f \notin tsks BY <1>1, <2>1, <2>2 DEF PoisonOnlyUnderScope
    <2>3. CASE f = t BY <2>1, <2>3
    <2>4. CASE f \in tsks /\ f # t
      <3>1. BindingKey(e0) = k /\ pc[e0] = "await" BY <1>3, <2>1, <2>4
      <3>2. snapKey[x] = k BY <3>1 DEF BindingKey, Ident
      <3> QED BY <2>1, <3>1, <3>2
    <2> QED BY <2>2, <2>3, <2>4
  <1> QED BY <1>8, <1>9, <1>10

\* A cancel only moves create tasks on, so the snapshots of others stay true.
LEMMA OtherSnapshots ==
    ASSUME TypeOK, CreateInv, NEW x \in Cancellers, NEW y \in Cancellers, y # x,
           UNCHANGED <<req, pc, target, snapKey, snapBound>>,
           cpc'[y] = cpc[y], taken'[y] = taken[y],
           \A f \in Execs : create[f] # "unused" => create'[f] # "unused",
           \A k \in Key : inflight'[k] \in {inflight[k], None}
    PROVE  SnapshotTrue(y)'
  BY DEF CreateInv, SnapshotTrue, BindingKey, Ident, PastAcquire, InTurn, TypeOK, RunTypes,
         Assigned

\* pop_cached_session, with or without the cancellation that follows it.
LEMMA PopKeeps ==
    ASSUME TypeOK, TypeOK', CreateInv, NEW x \in Cancellers, CancelPop(x)
    PROVE  CreateInv'
  <1> DEFINE k == snapKey[x]
             t == inflight[k]
  <1> USE DEF CancelPop, PopInflight, CreateInv, locks
  <1>1. /\ k \in Key /\ target[x] \in Execs /\ t \in Execs \cup {None}
        /\ k \in {BindingKey(target[x]), <<Ident(target[x]), req[target[x]].context, None>>}
        /\ snapBound[x] => PastAcquire(target[x])
    BY DEF TypeOK, Assigned, ManagerTypes, SnapshotTrue
  <1>2. /\ inflight'[k] = None
        /\ \A q \in Key : q # k => inflight'[q] = inflight[q]
        /\ popped' = popped \cup {k}
    BY <1>1 DEF TypeOK, ManagerTypes
  <1>3. t # None => BindingKey(t) = k /\ create[t] # "unused" BY <1>1 DEF SharedByKey
  <1>4. \A f \in Execs : create[f] # "unused" => create'[f] # "unused"
    BY DEF Interrupt, TypeOK, ManagerTypes
  <1>5. ASSUME NEW y \in Cancellers, y # x PROVE SnapshotTrue(y)'
    <2>1. cpc'[y] = cpc[y] /\ taken'[y] = taken[y]
      BY <1>5 DEF CancelEnd, TypeOK, RunTypes
    <2> QED BY <1>2, <1>4, <1>5, <2>1, OtherSnapshots
  <1>6. CASE snapBound[x] /\ Live(target[x])
    <2> USE <1>6
    <2>1. SharedByKey'
      <3>1. \A e \in Execs : BindingKey(e)' = BindingKey(e) /\ BindingKey(e) \in Key BY KeyKept
      <3>2. \A q \in Key : inflight'[q] # None =>
               BindingKey(inflight'[q]) = q /\ create'[inflight'[q]] # "unused"
        BY <1>2 DEF SharedByKey
      <3>3. \A e \in Execs : create'[e] = "running" =>
               inflight'[BindingKey(e)] = e \/ BindingKey(e) \in popped'
        BY <1>2, <3>1 DEF SharedByKey
      <3> QED BY <3>1, <3>2, <3>3 DEF SharedByKey, TypeOK, ManagerTypes
    <2>2. SnapshotTrue(x)'
      <3>1. cpc'[x] = "abort" /\ taken'[x] = t BY DEF TypeOK, RunTypes
      <3> QED BY <1>1, <1>2, <1>3, <3>1
              DEF SnapshotTrue, BindingKey, Ident, PastAcquire, InTurn
    <2>3. ASSUME NEW e \in Execs, Reached(e) PROVE Reached(e)' BY <2>3, ReachedKept
    <2>4. CancelReaches' BY <1>2, <2>3 DEF CancelReaches, TypeOK, ManagerTypes
    <2>5. PoisonOnlyUnderScope' BY <1>2 DEF PoisonOnlyUnderScope
    <2> QED BY <1>5, <2>1, <2>2, <2>4, <2>5
  <1>7. CASE ~ (snapBound[x] /\ Live(target[x]))
    <2>1. Interrupt(target[x], t) /\ cpc'[x] \in {"error", "done"}
      BY <1>7 DEF CancelEnd, TypeOK, RunTypes
    <2>2. SharedByKey' /\ CancelReaches' /\ PoisonOnlyUnderScope'
      BY <1>1, <1>2, <1>3, <2>1, InterruptReaches
    <2>3. SnapshotTrue(x)' BY <2>1 DEF SnapshotTrue
    <2> QED BY <1>5, <2>2, <2>3
  <1> QED BY <1>6, <1>7

\* The cancellation once upstream has answered the abort.
LEMMA AbortKeeps ==
    ASSUME TypeOK, TypeOK', CreateInv, NEW x \in Cancellers, CancelAbort(x)
    PROVE  CreateInv'
  <1> USE DEF CancelAbort, CreateInv, locks, store
  <1>1. /\ snapKey[x] \in Key /\ target[x] \in Execs /\ taken[x] \in Execs \cup {None}
        /\ snapKey[x] \in {BindingKey(target[x]),
                           <<Ident(target[x]), req[target[x]].context, None>>}
        /\ PastAcquire(target[x])
        /\ taken[x] # None => /\ BindingKey(taken[x]) = snapKey[x] /\ create[taken[x]] # "unused"
                              /\ inflight[snapKey[x]] # taken[x]
    BY DEF TypeOK, Assigned, RunTypes, SnapshotTrue
  <1>2. pc[target[x]] # "await" BY <1>1 DEF PastAcquire, InTurn
  <1>3. SharedByKey' /\ CancelReaches' /\ PoisonOnlyUnderScope'
    BY <1>1, <1>2, InterruptReaches
  <1>4. \A f \in Execs : create[f] # "unused" => create'[f] # "unused"
    BY DEF Interrupt, TypeOK, ManagerTypes
  <1>5. ASSUME NEW y \in Cancellers PROVE SnapshotTrue(y)'
    <2>1. CASE y # x
      <3>1. cpc'[y] = cpc[y] BY <2>1 DEF CancelEnd, TypeOK, RunTypes
      <3> QED BY <1>4, <2>1, <3>1, OtherSnapshots
    <2>2. CASE y = x
      <3>1. cpc'[x] \in {"error", "done"} BY DEF CancelEnd, TypeOK, RunTypes
      <3> QED BY <2>2, <3>1 DEF SnapshotTrue
    <2> QED BY <2>1, <2>2
  <1> QED BY <1>3, <1>5

-----------------------------------------------------------------------------

\* CreateInv is inductive, given the types and the holders of the locks.
LEMMA CreateInvStep == TypeOK /\ TypeOK' /\ TurnInv /\ CreateInv /\ [Next]_vars => CreateInv'
  <1> SUFFICES ASSUME TypeOK, TypeOK', TurnInv, CreateInv, [Next]_vars PROVE CreateInv' OBVIOUS
  <1> USE DEF Procs
  <1>1. ASSUME NEW e \in Execs, ExecManagerStep(e), ManagerFrame PROVE CreateInv'
    BY <1>1, ManagerQuiet, QuietKeeps, JoinKeeps, RegisterKeeps, ForgetKeeps DEF ExecManagerStep
  <1>2. ASSUME NEW e \in Execs, ExecStep(e) PROVE CreateInv'
    BY <1>1, <1>2, RunQuiet, QuietKeeps DEF ExecStep
  <1>3. ASSUME NEW g \in Guards, GuardStep(g) PROVE CreateInv'
    BY <1>3, ManagerQuiet, RunQuiet, QuietKeeps DEF GuardStep, GuardManagerStep
  <1>4. ASSUME NEW p \in Procs, Start(p) PROVE CreateInv' BY <1>4, RunQuiet, QuietKeeps
  <1>5. ASSUME NEW e \in Execs, CreateStep(e) PROVE CreateInv' BY <1>5, EndKeeps DEF CreateStep
  <1>6. ASSUME NEW x \in Cancellers, CancelStep(x) PROVE CreateInv'
    BY <1>6, BeginKeeps, PopKeeps, AbortKeeps DEF CancelStep
  <1>7. ASSUME NEW s \in Sessions, (ExpireClaim(s) /\ ManagerFrame) \/ CollectLock(s)
        PROVE  CreateInv'
    BY <1>7, EnvironmentQuiet, QuietKeeps
  <1>8. CASE Crash BY <1>8, CrashKeeps
  <1>9. CASE UNCHANGED vars
    <2>1. Quiet
      BY <1>9 DEF Quiet, PastAcquire, InTurn, vars, managerVars, runVars, cancelVars, history
    <2> QED BY <2>1, QuietKeeps
  <1> QED BY <1>2, <1>3, <1>4, <1>5, <1>6, <1>7, <1>8, <1>9 DEF Next, Quiescent

\* The inductive invariant of session creates and cancels.
THEOREM CreatesAreShared == Spec => []CreateInv
  <1>1. Init => CreateInv
    BY DEF Init, CreateInv, SharedByKey, SnapshotTrue, CancelReaches, PoisonOnlyUnderScope, Procs
  <1> QED BY <1>1, CreateInvStep, TypeCorrect, TurnsAreHeld, PTL DEF Spec

\* Two creates run at once for one conversation only after a cancel popped the
\* registered one (get_or_create_session, pop_cached_session).
THEOREM CreatesAreNotDuplicated == Spec => []NoDuplicateCreate
  <1>1. CreateInv => NoDuplicateCreate BY DEF CreateInv, SharedByKey, NoDuplicateCreate
  <1> QED BY <1>1, CreatesAreShared, PTL

\* A cancelled create task that later requests would join is only left behind
\* under the key of an explicit workspace or directory.
THEOREM PoisonNeedsScope == Spec => []PoisonOnlyUnderScope
  BY CreatesAreShared, PTL DEF CreateInv

\* Whoever ends as cancelled shares its caller and its context with an
\* execution that a cancel request named.
THEOREM CancelsAreIsolated == Spec => []CancelIsolation
  <1>1. CreateInv => CancelIsolation BY DEF CreateInv, CancelReaches, CancelIsolation
  <1> QED BY <1>1, CreatesAreShared, PTL

----------------------------------------------------------------------------
(* Who owns a session.                                                       *)

\* The ownership lock keeps what was checked under it: a writer of the owner
\* or of the claim of a session either found its lock free or holds it.
LEMMA CheckedStep == TypeOK /\ CheckedStillTrue /\ [Next]_vars => CheckedStillTrue'
  <1> SUFFICES ASSUME TypeOK, CheckedStillTrue, [Next]_vars PROVE CheckedStillTrue' OBVIOUS
  <1> USE ConstantsAssumption, RequestFacts DEF TypeOK, ManagerTypes, Assigned, Procs,
         CheckedStillTrue, RecordChecked, Ident, ClaimStillFree, FinalizeStillPermitted,
         Permitted, Goto, vars, managerVars, runVars, cancelVars, history, store, tasks, locks,
         ManagerFrame
  <1>1. ASSUME NEW p \in Procs, Start(p) PROVE CheckedStillTrue'
    <2>1. RecordChecked' BY <1>1 DEF Start
    <2>2. ClaimStillFree' BY <1>1 DEF Start
    <2>3. FinalizeStillPermitted' BY <1>1 DEF Start
    <2> QED BY <2>1, <2>2, <2>3 DEF CheckedStillTrue
  <1>2. ASSUME NEW p \in Procs, ClaimRefused(p), ManagerFrame PROVE CheckedStillTrue'
    <2>1. RecordChecked' BY <1>2 DEF ClaimRefused
    <2>2. ClaimStillFree' BY <1>2 DEF ClaimRefused
    <2>3. FinalizeStillPermitted' BY <1>2 DEF ClaimRefused
    <2> QED BY <2>1, <2>2, <2>3 DEF CheckedStillTrue
  <1>3. ASSUME NEW p \in Procs, ClaimOwned(p), ManagerFrame PROVE CheckedStillTrue'
    <2>1. RecordChecked' BY <1>3 DEF ClaimOwned
    <2>2. ClaimStillFree' BY <1>3 DEF ClaimOwned
    <2>3. FinalizeStillPermitted' BY <1>3 DEF ClaimOwned
    <2> QED BY <2>1, <2>2, <2>3 DEF CheckedStillTrue
  <1>4. ASSUME NEW p \in Procs, ClaimChecked(p), ManagerFrame PROVE CheckedStillTrue'
    <2>1. RecordChecked' BY <1>4 DEF ClaimChecked
    <2>2. ClaimStillFree' BY <1>4 DEF ClaimChecked
    <2>3. FinalizeStillPermitted' BY <1>4 DEF ClaimChecked
    <2> QED BY <2>1, <2>2, <2>3 DEF CheckedStillTrue
  <1>5. ASSUME NEW p \in Procs, ClaimPending(p), ManagerFrame PROVE CheckedStillTrue'
    <2>1. RecordChecked' BY <1>5 DEF ClaimPending
    <2>2. ClaimStillFree' BY <1>5 DEF ClaimPending
    <2>3. FinalizeStillPermitted' BY <1>5 DEF ClaimPending
    <2> QED BY <2>1, <2>2, <2>3 DEF CheckedStillTrue
  <1>6. ASSUME NEW p \in Procs, ClaimReturned(p), ManagerFrame PROVE CheckedStillTrue'
    <2>1. RecordChecked' BY <1>6 DEF ClaimReturned
    <2>2. ClaimStillFree' BY <1>6 DEF ClaimReturned
    <2>3. FinalizeStillPermitted' BY <1>6 DEF ClaimReturned
    <2> QED BY <2>1, <2>2, <2>3 DEF CheckedStillTrue
  <1>7. ASSUME NEW p \in Execs, Rebind(p), ManagerFrame PROVE CheckedStillTrue'
    <2>1. RecordChecked' BY <1>7 DEF Rebind
    <2>2. ClaimStillFree' BY <1>7 DEF Rebind
    <2>3. FinalizeStillPermitted' BY <1>7 DEF Rebind
    <2> QED BY <2>1, <2>2, <2>3 DEF CheckedStillTrue
  <1>8. ASSUME NEW p \in Execs, LookupHit(p), ManagerFrame PROVE CheckedStillTrue'
    <2>1. RecordChecked' BY <1>8 DEF LookupHit
    <2>2. ClaimStillFree' BY <1>8 DEF LookupHit
    <2>3. FinalizeStillPermitted' BY <1>8 DEF LookupHit
    <2> QED BY <2>1, <2>2, <2>3 DEF CheckedStillTrue
  <1>9. ASSUME NEW p \in Execs, LookupJoin(p), ManagerFrame PROVE CheckedStillTrue'
    <2>1. RecordChecked' BY <1>9 DEF LookupJoin
    <2>2. ClaimStillFree' BY <1>9 DEF LookupJoin
    <2>3. FinalizeStillPermitted' BY <1>9 DEF LookupJoin
    <2> QED BY <2>1, <2>2, <2>3 DEF CheckedStillTrue
  <1>10. ASSUME NEW p \in Execs, LookupCreate(p), ManagerFrame PROVE CheckedStillTrue'
    <2>1. RecordChecked' BY <1>10 DEF LookupCreate
    <2>2. ClaimStillFree' BY <1>10 DEF LookupCreate
    <2>3. FinalizeStillPermitted' BY <1>10 DEF LookupCreate
    <2> QED BY <2>1, <2>2, <2>3 DEF CheckedStillTrue
  <1>11. ASSUME NEW p \in Execs, AwaitFailed(p), ManagerFrame PROVE CheckedStillTrue'
    <2>1. RecordChecked' BY <1>11 DEF AwaitFailed, ForgetCreate
    <2>2. ClaimStillFree' BY <1>11 DEF AwaitFailed, ForgetCreate
    <2>3. FinalizeStillPermitted' BY <1>11 DEF AwaitFailed, ForgetCreate
    <2> QED BY <2>1, <2>2, <2>3 DEF CheckedStillTrue
  <1>12. ASSUME NEW p \in Execs, AwaitCancelled(p), ManagerFrame PROVE CheckedStillTrue'
    <2>1. RecordChecked' BY <1>12 DEF AwaitCancelled
    <2>2. ClaimStillFree' BY <1>12 DEF AwaitCancelled
    <2>3. FinalizeStillPermitted' BY <1>12 DEF AwaitCancelled
    <2> QED BY <2>1, <2>2, <2>3 DEF CheckedStillTrue
  <1>13. ASSUME NEW p \in Execs, AwaitDone(p), ManagerFrame PROVE CheckedStillTrue'
    <2>1. RecordChecked' BY <1>13 DEF AwaitDone
    <2>2. ClaimStillFree' BY <1>13 DEF AwaitDone
    <2>3. FinalizeStillPermitted' BY <1>13 DEF AwaitDone
    <2> QED BY <2>1, <2>2, <2>3 DEF CheckedStillTrue
  <1>14. ASSUME NEW p \in Execs, RecordRefused(p), ManagerFrame PROVE CheckedStillTrue'
    <2>1. RecordChecked' BY <1>14 DEF RecordRefused, ForgetCreate
    <2>2. ClaimStillFree' BY <1>14 DEF RecordRefused, ForgetCreate
    <2>3. FinalizeStillPermitted' BY <1>14 DEF RecordRefused, ForgetCreate
    <2> QED BY <2>1, <2>2, <2>3 DEF CheckedStillTrue
  <1>15. ASSUME NEW p \in Execs, RecordBinding(p), ManagerFrame PROVE CheckedStillTrue'
    <2>1. RecordChecked' BY <1>15 DEF RecordBinding
    <2>2. ClaimStillFree' BY <1>15 DEF RecordBinding
    <2>3. FinalizeStillPermitted' BY <1>15 DEF RecordBinding
    <2> QED BY <2>1, <2>2, <2>3 DEF CheckedStillTrue
  <1>16. ASSUME NEW p \in Execs, RecordOwner(p), ManagerFrame PROVE CheckedStillTrue'
    <2>1. RecordChecked' BY <1>16 DEF RecordOwner
    <2>2. ClaimStillFree' BY <1>16 DEF RecordOwner
    <2>3. FinalizeStillPermitted' BY <1>16 DEF RecordOwner
    <2> QED BY <2>1, <2>2, <2>3 DEF CheckedStillTrue
  <1>17. ASSUME NEW p \in Execs, Recorded(p), ManagerFrame PROVE CheckedStillTrue'
    <2>1. RecordChecked' BY <1>17 DEF Recorded, ForgetCreate
    <2>2. ClaimStillFree' BY <1>17 DEF Recorded, ForgetCreate
    <2>3. FinalizeStillPermitted' BY <1>17, SMTT(60) DEF Recorded, ForgetCreate
    <2> QED BY <2>1, <2>2, <2>3 DEF CheckedStillTrue
  <1>18. ASSUME NEW p \in Procs, FinalizeRefused(p), ManagerFrame PROVE CheckedStillTrue'
    <2>1. RecordChecked' BY <1>18 DEF FinalizeRefused
    <2>2. ClaimStillFree' BY <1>18 DEF FinalizeRefused
    <2>3. FinalizeStillPermitted' BY <1>18 DEF FinalizeRefused
    <2> QED BY <2>1, <2>2, <2>3 DEF CheckedStillTrue
  <1>19. ASSUME NEW p \in Procs, FinalizeChecked(p), ManagerFrame PROVE CheckedStillTrue'
    <2>1. RecordChecked' BY <1>19 DEF FinalizeChecked
    <2>2. ClaimStillFree' BY <1>19 DEF FinalizeChecked
    <2>3. FinalizeStillPermitted' BY <1>19 DEF FinalizeChecked
    <2> QED BY <2>1, <2>2, <2>3 DEF CheckedStillTrue
  <1>20. ASSUME NEW p \in Procs, FinalizeOwner(p), ManagerFrame PROVE CheckedStillTrue'
    <2>1. RecordChecked' BY <1>20 DEF FinalizeOwner
    <2>2. ClaimStillFree' BY <1>20 DEF FinalizeOwner
    <2>3. FinalizeStillPermitted' BY <1>20 DEF FinalizeOwner
    <2> QED BY <2>1, <2>2, <2>3 DEF CheckedStillTrue
  <1>21. ASSUME NEW p \in Procs, ClearClaim(p), ManagerFrame PROVE CheckedStillTrue'
    <2>1. RecordChecked' BY <1>21 DEF ClearClaim, Cleared
    <2>2. ClaimStillFree' BY <1>21 DEF ClearClaim, Cleared
    <2>3. FinalizeStillPermitted' BY <1>21, SMTT(60) DEF ClearClaim, Cleared
    <2> QED BY <2>1, <2>2, <2>3 DEF CheckedStillTrue
  <1>22. ASSUME NEW p \in Execs, Bind(p), ManagerFrame PROVE CheckedStillTrue'
    <2>1. RecordChecked' BY <1>22 DEF Bind
    <2>2. ClaimStillFree' BY <1>22 DEF Bind
    <2>3. FinalizeStillPermitted' BY <1>22 DEF Bind
    <2> QED BY <2>1, <2>2, <2>3 DEF CheckedStillTrue
  <1>23. ASSUME NEW p \in Procs, ReleaseClaim(p), ManagerFrame PROVE CheckedStillTrue'
    <2>1. RecordChecked' BY <1>23 DEF ReleaseClaim, Cleared, Lapse
    <2>2. ClaimStillFree' BY <1>23 DEF ReleaseClaim, Cleared, Lapse
    <2>3. FinalizeStillPermitted' BY <1>23, SMTT(60) DEF ReleaseClaim, Cleared, Lapse
    <2> QED BY <2>1, <2>2, <2>3 DEF CheckedStillTrue
  <1>24. ASSUME NEW e \in Execs, Acquire(e) PROVE CheckedStillTrue'
    <2>1. RecordChecked' BY <1>24 DEF Acquire
    <2>2. ClaimStillFree' BY <1>24 DEF Acquire
    <2>3. FinalizeStillPermitted' BY <1>24 DEF Acquire
    <2> QED BY <2>1, <2>2, <2>3 DEF CheckedStillTrue
  <1>25. ASSUME NEW e \in Execs, SendOk(e) PROVE CheckedStillTrue'
    <2>1. RecordChecked' BY <1>25 DEF SendOk
    <2>2. ClaimStillFree' BY <1>25 DEF SendOk
    <2>3. FinalizeStillPermitted' BY <1>25 DEF SendOk
    <2> QED BY <2>1, <2>2, <2>3 DEF CheckedStillTrue
  <1>26. ASSUME NEW e \in Execs, SendFailed(e) PROVE CheckedStillTrue'
    <2>1. RecordChecked' BY <1>26 DEF SendFailed, Leave
    <2>2. ClaimStillFree' BY <1>26 DEF SendFailed, Leave
    <2>3. FinalizeStillPermitted' BY <1>26 DEF SendFailed, Leave
    <2> QED BY <2>1, <2>2, <2>3 DEF CheckedStillTrue
  <1>27. ASSUME NEW e \in Execs, ToolRound(e) PROVE CheckedStillTrue'
    <2>1. RecordChecked' BY <1>27 DEF ToolRound
    <2>2. ClaimStillFree' BY <1>27 DEF ToolRound
    <2>3. FinalizeStillPermitted' BY <1>27 DEF ToolRound
    <2> QED BY <2>1, <2>2, <2>3 DEF CheckedStillTrue
  <1>28. ASSUME NEW e \in Execs, Respond(e) PROVE CheckedStillTrue'
    <2>1. RecordChecked' BY <1>28 DEF Respond, Leave
    <2>2. ClaimStillFree' BY <1>28 DEF Respond, Leave
    <2>3. FinalizeStillPermitted' BY <1>28 DEF Respond, Leave
    <2> QED BY <2>1, <2>2, <2>3 DEF CheckedStillTrue
  <1>29. ASSUME NEW p \in Procs, Raised(p) PROVE CheckedStillTrue'
    <2>1. RecordChecked' BY <1>29 DEF Raised, Leave
    <2>2. ClaimStillFree' BY <1>29 DEF Raised, Leave
    <2>3. FinalizeStillPermitted' BY <1>29 DEF Raised, Leave
    <2> QED BY <2>1, <2>2, <2>3 DEF CheckedStillTrue
  <1>30. ASSUME NEW e \in Execs, Unlock(e) PROVE CheckedStillTrue'
    <2>1. RecordChecked' BY <1>30 DEF Unlock
    <2>2. ClaimStillFree' BY <1>30 DEF Unlock
    <2>3. FinalizeStillPermitted' BY <1>30 DEF Unlock
    <2> QED BY <2>1, <2>2, <2>3 DEF CheckedStillTrue
  <1>31. ASSUME NEW e \in Execs, Unwind(e) PROVE CheckedStillTrue'
    <2>1. RecordChecked' BY <1>31 DEF Unwind, Leave, FreeLocks, Torn, Orphan
    <2>2. ClaimStillFree' BY <1>31 DEF Unwind, Leave, FreeLocks, Torn, Orphan
    <2>3. FinalizeStillPermitted' BY <1>31 DEF Unwind, Leave, FreeLocks, Torn, Orphan
    <2> QED BY <2>1, <2>2, <2>3 DEF CheckedStillTrue
  <1>32. ASSUME NEW e \in Execs, UnwindCleanup(e) PROVE CheckedStillTrue'
    <2>1. RecordChecked' BY <1>32 DEF UnwindCleanup, Orphan
    <2>2. ClaimStillFree' BY <1>32 DEF UnwindCleanup, Orphan
    <2>3. FinalizeStillPermitted' BY <1>32 DEF UnwindCleanup, Orphan
    <2> QED BY <2>1, <2>2, <2>3 DEF CheckedStillTrue
  <1>33. ASSUME NEW e \in Execs, Swallow(e) PROVE CheckedStillTrue'
    <2>1. RecordChecked' BY <1>33 DEF Swallow
    <2>2. ClaimStillFree' BY <1>33 DEF Swallow
    <2>3. FinalizeStillPermitted' BY <1>33 DEF Swallow
    <2> QED BY <2>1, <2>2, <2>3 DEF CheckedStillTrue
  <1>34. ASSUME NEW g \in Guards, CallOk(g) PROVE CheckedStillTrue'
    <2>1. RecordChecked' BY <1>34 DEF CallOk
    <2>2. ClaimStillFree' BY <1>34 DEF CallOk
    <2>3. FinalizeStillPermitted' BY <1>34 DEF CallOk
    <2> QED BY <2>1, <2>2, <2>3 DEF CheckedStillTrue
  <1>35. ASSUME NEW g \in Guards, CallForked(g) PROVE CheckedStillTrue'
    <2>1. RecordChecked' BY <1>35 DEF CallForked
    <2>2. ClaimStillFree' BY <1>35 DEF CallForked
    <2>3. FinalizeStillPermitted' BY <1>35 DEF CallForked
    <2> QED BY <2>1, <2>2, <2>3 DEF CheckedStillTrue
  <1>36. ASSUME NEW g \in Guards, CallFailed(g) PROVE CheckedStillTrue'
    <2>1. RecordChecked' BY <1>36 DEF CallFailed, Leave
    <2>2. ClaimStillFree' BY <1>36 DEF CallFailed, Leave
    <2>3. FinalizeStillPermitted' BY <1>36 DEF CallFailed, Leave
    <2> QED BY <2>1, <2>2, <2>3 DEF CheckedStillTrue
  <1>37. ASSUME NEW e \in Execs, CreateDone(e), ManagerFrame PROVE CheckedStillTrue'
    <2>1. RecordChecked' BY <1>37 DEF CreateDone
    <2>2. ClaimStillFree' BY <1>37 DEF CreateDone
    <2>3. FinalizeStillPermitted' BY <1>37 DEF CreateDone
    <2> QED BY <2>1, <2>2, <2>3 DEF CheckedStillTrue
  <1>38. ASSUME NEW e \in Execs, CreateFailed(e), ManagerFrame PROVE CheckedStillTrue'
    <2>1. RecordChecked' BY <1>38 DEF CreateFailed
    <2>2. ClaimStillFree' BY <1>38 DEF CreateFailed
    <2>3. FinalizeStillPermitted' BY <1>38 DEF CreateFailed
    <2> QED BY <2>1, <2>2, <2>3 DEF CheckedStillTrue
  <1>39. ASSUME NEW x \in Cancellers, CancelBegin(x) PROVE CheckedStillTrue'
    <2>1. RecordChecked' BY <1>39 DEF CancelBegin, CancelKey
    <2>2. ClaimStillFree' BY <1>39 DEF CancelBegin, CancelKey
    <2>3. FinalizeStillPermitted' BY <1>39 DEF CancelBegin, CancelKey
    <2> QED BY <2>1, <2>2, <2>3 DEF CheckedStillTrue
  <1>40. ASSUME NEW x \in Cancellers, CancelPop(x) PROVE CheckedStillTrue'
    <2>1. RecordChecked' BY <1>40 DEF CancelPop, PopInflight, Interrupt, CancelEnd, Live
    <2>2. ClaimStillFree' BY <1>40 DEF CancelPop, PopInflight, Interrupt, CancelEnd, Live
    <2>3. FinalizeStillPermitted'
      BY <1>40 DEF CancelPop, PopInflight, Interrupt, CancelEnd, Live
    <2> QED BY <2>1, <2>2, <2>3 DEF CheckedStillTrue
  <1>41. ASSUME NEW x \in Cancellers, CancelAbort(x) PROVE CheckedStillTrue'
    <2>1. RecordChecked' BY <1>41 DEF CancelAbort, Interrupt, CancelEnd, Live
    <2>2. ClaimStillFree' BY <1>41 DEF CancelAbort, Interrupt, CancelEnd, Live
    <2>3. FinalizeStillPermitted' BY <1>41 DEF CancelAbort, Interrupt, CancelEnd, Live
    <2> QED BY <2>1, <2>2, <2>3 DEF CheckedStillTrue
  <1>42. ASSUME NEW s \in Sessions, ExpireClaim(s), ManagerFrame PROVE CheckedStillTrue'
    <2>1. RecordChecked' BY <1>42 DEF ExpireClaim, Lapse
    <2>2. ClaimStillFree' BY <1>42 DEF ExpireClaim, Lapse
    <2>3. FinalizeStillPermitted' BY <1>42 DEF ExpireClaim, Lapse
    <2> QED BY <2>1, <2>2, <2>3 DEF CheckedStillTrue
  <1>43. ASSUME NEW s \in Sessions, CollectLock(s) PROVE CheckedStillTrue'
    <2>1. RecordChecked' BY <1>43 DEF CollectLock
    <2>2. ClaimStillFree' BY <1>43 DEF CollectLock
    <2>3. FinalizeStillPermitted' BY <1>43 DEF CollectLock
    <2> QED BY <2>1, <2>2, <2>3 DEF CheckedStillTrue
  <1>44. ASSUME Crash PROVE CheckedStillTrue'
    <2>1. RecordChecked' BY <1>44 DEF Crash, Live, Torn
    <2>2. ClaimStillFree' BY <1>44 DEF Crash, Live, Torn
    <2>3. FinalizeStillPermitted' BY <1>44 DEF Crash, Live, Torn
    <2> QED BY <2>1, <2>2, <2>3 DEF CheckedStillTrue
  <1>45. CASE UNCHANGED vars BY <1>45
  <1> QED BY <1>1, <1>2, <1>3, <1>4, <1>5, <1>6, <1>7, <1>8, <1>9, <1>10, <1>11, <1>12, <1>13,
             <1>14, <1>15, <1>16, <1>17, <1>18, <1>19, <1>20, <1>21, <1>22, <1>23, <1>24, <1>25,
             <1>26, <1>27, <1>28, <1>29, <1>30, <1>31, <1>32, <1>33, <1>34, <1>35, <1>36, <1>37,
             <1>38, <1>39, <1>40, <1>41, <1>42, <1>43, <1>44, <1>45 DEF Next, ExecStep,
             ExecManagerStep, GuardStep, GuardManagerStep, CreateStep, CancelStep, Quiescent,
             Procs

\* What the manager checked under the ownership lock still holds when it
\* writes, in every reachable state.
THEOREM ChecksHold == Spec => []CheckedStillTrue
  <1>1. Init => CheckedStillTrue
    BY DEF Init, CheckedStillTrue, RecordChecked, ClaimStillFree, FinalizeStillPermitted, Procs
  <1> QED BY <1>1, CheckedStep, TypeCorrect, PTL DEF Spec

\* Every owner row survives the step.
OwnersKept == \A s \in Sessions : owners[s] # None => owners'[s] = owners[s]

\* The two writers of owner rows, get_or_create_session and
\* finalize_session_claim, never overwrite the row of another owner.
LEMMA OwnerStep == TypeOK /\ CheckedStillTrue /\ [Next]_vars => OwnersKept
  <1> SUFFICES ASSUME TypeOK, CheckedStillTrue, [Next]_vars PROVE OwnersKept OBVIOUS
  <1>1. ASSUME NEW e \in Execs, RecordOwner(e) PROVE OwnersKept
    BY <1>1 DEF OwnersKept, TypeOK, ManagerTypes, CheckedStillTrue, RecordChecked, RecordOwner
  <1>2. ASSUME NEW p \in Procs, FinalizeOwner(p) PROVE OwnersKept
    BY <1>2 DEF OwnersKept, TypeOK, ManagerTypes, CheckedStillTrue, FinalizeStillPermitted,
       Permitted, FinalizeOwner
  <1>3. CASE UNCHANGED owners
    BY <1>3 DEF OwnersKept
  <1>4. \/ \E e \in Execs : RecordOwner(e)
        \/ \E p \in Procs : FinalizeOwner(p)
        \/ UNCHANGED owners
    <2>1. CASE UNCHANGED vars BY <2>1 DEF vars, managerVars
    <2>2. CASE \E p \in Procs : Start(p) BY <2>2 DEF Start, store
    <2>3. ASSUME NEW e \in Execs,
       ExecStep(e) PROVE UNCHANGED owners \/ RecordOwner(e) \/ FinalizeOwner(e)
      <3>1. CASE ExecManagerStep(e)
        BY <3>1 DEF ExecManagerStep, ClaimRefused, ClaimOwned, ClaimChecked, ClaimPending,
           ClaimReturned, Rebind, LookupHit, LookupJoin, LookupCreate, AwaitFailed,
           AwaitCancelled, AwaitDone, RecordRefused, RecordBinding, Recorded, FinalizeRefused,
           FinalizeChecked, ClearClaim, Bind, ReleaseClaim, store
      <3>2. CASE ~ ExecManagerStep(e)
        BY <2>3, <3>2 DEF ExecStep, Acquire, SendOk, SendFailed, ToolRound, Respond, Raised,
           Unlock, Unwind, UnwindCleanup, Swallow, store, managerVars
      <3> QED BY <3>1, <3>2
    <2>4. ASSUME NEW g \in Guards, GuardStep(g) PROVE UNCHANGED owners \/ FinalizeOwner(g)
      BY <2>4 DEF GuardStep, GuardManagerStep, ClaimRefused, ClaimOwned, ClaimChecked,
         ClaimPending, ClaimReturned, FinalizeRefused, FinalizeChecked, ClearClaim, ReleaseClaim,
         CallOk, CallForked, CallFailed, Raised, store
    <2>5. CASE \E e \in Execs : CreateStep(e)
      BY <2>5 DEF CreateStep, CreateDone, CreateFailed, store
    <2>6. CASE \E x \in Cancellers : CancelStep(x)
      BY <2>6 DEF CancelStep, CancelBegin, CancelPop, CancelAbort, store, managerVars
    <2>7. CASE \E s \in Sessions : (ExpireClaim(s) /\ ManagerFrame) \/ CollectLock(s)
      BY <2>7 DEF ExpireClaim, CollectLock, managerVars
    <2>8. CASE Crash BY <2>8 DEF Crash, store
    <2> QED BY <2>1, <2>2, <2>3, <2>4, <2>5, <2>6, <2>7, <2>8 DEF Next, Quiescent, Procs
  <1> QED BY <1>1, <1>2, <1>3, <1>4

\* Once a session has an owner, no step gives it another one: not the
\* finalization of a claim that outlived its lease, not the record of a session
\* the adapter created, not a cancel or a crash in between.
THEOREM OwnersAreNeverStolen == Spec => OwnerNeverStolen
  <1>1. TypeOK /\ CheckedStillTrue /\ [Next]_vars
        => [\A s \in Sessions : owners[s] # None => owners'[s] = owners[s]]_vars
    BY OwnerStep DEF OwnersKept
  <1> QED BY <1>1, TypeCorrect, ChecksHold, PTL DEF Spec, OwnerNeverStolen

\* Bindings and turns stay with the owner: only the steps that write a
\* binding or an owner row need an argument of their own.
LEMMA OwnershipStep == TypeOK /\ CheckedStillTrue /\ OwnershipInv /\ [Next]_vars => OwnershipInv'
  <1> SUFFICES ASSUME TypeOK, CheckedStillTrue, OwnershipInv,
     [Next]_vars PROVE OwnershipInv' OBVIOUS
  <1>0. OwnersKept /\ \A p \in Procs : Ident(p)' = Ident(p) /\ BindingKey(p)' = BindingKey(p)
    BY OwnerStep, RequestKept
  <1> USE <1>0, ConstantsAssumption, RequestFacts DEF TypeOK, ManagerTypes, Assigned, Procs,
         OwnersKept, OwnershipInv, BindingOwned, OwnedWhenBound, ContextHeld, CheckedStillTrue,
         RecordChecked, Bound, InTurn, FinalizeStillPermitted, Goto, vars, managerVars, runVars,
         cancelVars, history, store, tasks, locks, ManagerFrame
  <1>1. ASSUME NEW p \in Procs, Start(p) PROVE OwnershipInv'
    <2>1. BindingOwned' BY <1>1 DEF Start
    <2>2. ContextHeld' BY <1>1 DEF Start
    <2>3. OwnedWhenBound' BY <1>1 DEF Start
    <2> QED BY <2>1, <2>2, <2>3 DEF OwnershipInv
  <1>2. ASSUME NEW p \in Procs, ClaimRefused(p), ManagerFrame PROVE OwnershipInv'
    <2>1. BindingOwned' BY <1>2 DEF ClaimRefused
    <2>2. ContextHeld' BY <1>2 DEF ClaimRefused
    <2>3. OwnedWhenBound' BY <1>2 DEF ClaimRefused
    <2> QED BY <2>1, <2>2, <2>3 DEF OwnershipInv
  <1>3. ASSUME NEW p \in Procs, ClaimOwned(p), ManagerFrame PROVE OwnershipInv'
    <2>1. BindingOwned' BY <1>3 DEF ClaimOwned, Permitted
    <2>2. ContextHeld' BY <1>3 DEF ClaimOwned, Permitted
    <2>3. OwnedWhenBound' BY <1>3 DEF ClaimOwned, Permitted
    <2> QED BY <2>1, <2>2, <2>3 DEF OwnershipInv
  <1>4. ASSUME NEW p \in Procs, ClaimChecked(p), ManagerFrame PROVE OwnershipInv'
    <2>1. BindingOwned' BY <1>4 DEF ClaimChecked, Permitted
    <2>2. ContextHeld' BY <1>4 DEF ClaimChecked, Permitted
    <2>3. OwnedWhenBound' BY <1>4 DEF ClaimChecked, Permitted
    <2> QED BY <2>1, <2>2, <2>3 DEF OwnershipInv
  <1>5. ASSUME NEW p \in Procs, ClaimPending(p), ManagerFrame PROVE OwnershipInv'
    <2>1. BindingOwned' BY <1>5 DEF ClaimPending
    <2>2. ContextHeld' BY <1>5 DEF ClaimPending
    <2>3. OwnedWhenBound' BY <1>5 DEF ClaimPending
    <2> QED BY <2>1, <2>2, <2>3 DEF OwnershipInv
  <1>6. ASSUME NEW p \in Procs, ClaimReturned(p), ManagerFrame PROVE OwnershipInv'
    <2>1. BindingOwned' BY <1>6 DEF ClaimReturned
    <2>2. ContextHeld' BY <1>6 DEF ClaimReturned
    <2>3. OwnedWhenBound' BY <1>6 DEF ClaimReturned
    <2> QED BY <2>1, <2>2, <2>3 DEF OwnershipInv
  <1>7. ASSUME NEW p \in Execs, Rebind(p), ManagerFrame PROVE OwnershipInv'
    <2>1. BindingOwned' BY <1>7 DEF Rebind
    <2>2. ContextHeld' BY <1>7 DEF Rebind
    <2>3. OwnedWhenBound' BY <1>7 DEF Rebind
    <2> QED BY <2>1, <2>2, <2>3 DEF OwnershipInv
  <1>8. ASSUME NEW p \in Execs, LookupHit(p), ManagerFrame PROVE OwnershipInv'
    <2>1. BindingOwned' BY <1>8 DEF LookupHit
    <2>2. ContextHeld' BY <1>8 DEF LookupHit
    <2>3. OwnedWhenBound' BY <1>8 DEF LookupHit
    <2> QED BY <2>1, <2>2, <2>3 DEF OwnershipInv
  <1>9. ASSUME NEW p \in Execs, LookupJoin(p), ManagerFrame PROVE OwnershipInv'
    <2>1. BindingOwned' BY <1>9, SMTT(60) DEF LookupJoin
    <2>2. ContextHeld' BY <1>9 DEF LookupJoin
    <2>3. OwnedWhenBound' BY <1>9 DEF LookupJoin
    <2> QED BY <2>1, <2>2, <2>3 DEF OwnershipInv
  <1>10. ASSUME NEW p \in Execs, LookupCreate(p), ManagerFrame PROVE OwnershipInv'
    <2>1. BindingOwned' BY <1>10, SMTT(60) DEF LookupCreate
    <2>2. ContextHeld' BY <1>10 DEF LookupCreate
    <2>3. OwnedWhenBound' BY <1>10 DEF LookupCreate
    <2> QED BY <2>1, <2>2, <2>3 DEF OwnershipInv
  <1>11. ASSUME NEW p \in Execs, AwaitFailed(p), ManagerFrame PROVE OwnershipInv'
    <2>1. BindingOwned' BY <1>11 DEF AwaitFailed, ForgetCreate
    <2>2. ContextHeld' BY <1>11 DEF AwaitFailed, ForgetCreate
    <2>3. OwnedWhenBound' BY <1>11 DEF AwaitFailed, ForgetCreate
    <2> QED BY <2>1, <2>2, <2>3 DEF OwnershipInv
  <1>12. ASSUME NEW p \in Execs, AwaitCancelled(p), ManagerFrame PROVE OwnershipInv'
    <2>1. BindingOwned' BY <1>12 DEF AwaitCancelled
    <2>2. ContextHeld' BY <1>12 DEF AwaitCancelled
    <2>3. OwnedWhenBound' BY <1>12 DEF AwaitCancelled
    <2> QED BY <2>1, <2>2, <2>3 DEF OwnershipInv
  <1>13. ASSUME NEW p \in Execs, AwaitDone(p), ManagerFrame PROVE OwnershipInv'
    <2>1. BindingOwned' BY <1>13 DEF AwaitDone
    <2>2. ContextHeld' BY <1>13 DEF AwaitDone
    <2>3. OwnedWhenBound' BY <1>13 DEF AwaitDone
    <2> QED BY <2>1, <2>2, <2>3 DEF OwnershipInv
  <1>14. ASSUME NEW p \in Execs, RecordRefused(p), ManagerFrame PROVE OwnershipInv'
    <2>1. BindingOwned' BY <1>14, SMTT(60) DEF RecordRefused, ForgetCreate
    <2>2. ContextHeld' BY <1>14 DEF RecordRefused, ForgetCreate
    <2>3. OwnedWhenBound' BY <1>14 DEF RecordRefused, ForgetCreate
    <2> QED BY <2>1, <2>2, <2>3 DEF OwnershipInv
  <1>15. ASSUME NEW p \in Execs, RecordBinding(p), ManagerFrame PROVE OwnershipInv'
    <2>1. BindingOwned'
      <3> SUFFICES ASSUME NEW k \in Key, bindings'[k] # None
                   PROVE  (\/ owners[bindings[k]] = k[1]
                            \/ bindings[k] \in torn
                            \/ \E e \in Execs : /\ pc[e] = "setowner"
                                                /\ BindingKey(e) = k
                                                /\ made[joined[e]] = bindings[k])'
        BY DEF BindingOwned
      <3>1. CASE k = BindingKey(p)
        <4>1. bindings'[k] = made[joined[p]] /\ made[joined[p]] \in Sessions
          BY <1>15, <3>1 DEF TypeOK, ManagerTypes, Assigned, RecordBinding
        <4>2. CASE owners[made[joined[p]]] = None
          BY <1>15, <3>1, <4>1, <4>2 DEF TypeOK, ManagerTypes, RecordBinding, Goto, Procs, tasks
        <4>3. CASE owners[made[joined[p]]] = Ident(p)
          BY <1>15, <3>1, <4>1, <4>3 DEF RecordBinding, Procs
        <4> QED BY <1>15, <4>2, <4>3 DEF RecordBinding
      <3>2. CASE k # BindingKey(p)
        <4>0. bindings[k] = bindings'[k] BY <1>15, <3>2 DEF RecordBinding, TypeOK, ManagerTypes
        <4>1. k[1] # None /\ bindings[k] \in Sessions
          BY <4>0 DEF TypeOK, ManagerTypes, Key
        <4>2. CASE owners[bindings[k]] = k[1] \/ bindings[k] \in torn
          BY <1>15, <4>0, <4>1, <4>2 DEF OwnersKept, history, RecordBinding, ManagerFrame
        <4>3. ASSUME NEW f \in Execs, pc[f] = "setowner", BindingKey(f) = k,
           made[joined[f]] = bindings[k]
              PROVE  (\/ owners[bindings[k]] = k[1]
                            \/ bindings[k] \in torn
                            \/ \E e \in Execs : /\ pc[e] = "setowner"
                                                /\ BindingKey(e) = k
                                                /\ made[joined[e]] = bindings[k])'
          BY <1>15, <4>0, <4>3 DEF TypeOK, ManagerTypes, RecordBinding, Goto, Procs, tasks
        <4> QED BY <4>0, <4>1, <4>2, <4>3 DEF OwnershipInv, BindingOwned
      <3> QED BY <3>1, <3>2
    <2>2. ContextHeld' BY <1>15 DEF RecordBinding
    <2>3. OwnedWhenBound' BY <1>15 DEF RecordBinding
    <2> QED BY <2>1, <2>2, <2>3 DEF OwnershipInv
  <1>16. ASSUME NEW p \in Execs, RecordOwner(p), ManagerFrame PROVE OwnershipInv'
    <2>1. BindingOwned'
      <3> SUFFICES ASSUME NEW k \in Key, bindings'[k] # None
                   PROVE  (\/ owners[bindings[k]] = k[1]
                            \/ bindings[k] \in torn
                            \/ \E e \in Execs : /\ pc[e] = "setowner"
                                                /\ BindingKey(e) = k
                                                /\ made[joined[e]] = bindings[k])'
        BY DEF BindingOwned
      <3>1. bindings[k] = bindings'[k] BY <1>16 DEF RecordOwner
      <3>2. ASSUME bindings[k] = bindings'[k] PROVE (\/ owners[bindings[k]] = k[1]
                  \/ bindings[k] \in torn
                  \/ \E e \in Execs : /\ pc[e] = "setowner"
                                      /\ BindingKey(e) = k
                                      /\ made[joined[e]] = bindings[k])'
        <4>1. k[1] # None /\ bindings[k] \in Sessions
          BY <3>2 DEF TypeOK, ManagerTypes, Key
        <4>2. CASE owners[bindings[k]] = k[1] \/ bindings[k] \in torn
          BY <1>16, <3>2, <4>1, <4>2 DEF OwnersKept, history, RecordOwner, ManagerFrame
        <4>3. ASSUME NEW f \in Execs, pc[f] = "setowner", BindingKey(f) = k,
           made[joined[f]] = bindings[k]
              PROVE  (\/ owners[bindings[k]] = k[1]
                  \/ bindings[k] \in torn
                  \/ \E e \in Execs : /\ pc[e] = "setowner"
                                      /\ BindingKey(e) = k
                                      /\ made[joined[e]] = bindings[k])'
          <5>1. CASE f = p
            BY <1>16, <3>2, <4>1, <4>3, <5>1 DEF TypeOK, ManagerTypes, RecordOwner, Procs
          <5>2. CASE f # p
            BY <1>16, <3>2, <4>3, <5>2 DEF TypeOK, ManagerTypes, RecordOwner, Goto, Procs, tasks
          <5> QED BY <5>1, <5>2
        <4> QED BY <3>2, <4>1, <4>2, <4>3 DEF OwnershipInv, BindingOwned
      <3> QED BY <3>1, <3>2
    <2>2. ContextHeld' BY <1>16 DEF RecordOwner
    <2>3. OwnedWhenBound' BY <1>16 DEF RecordOwner
    <2> QED BY <2>1, <2>2, <2>3 DEF OwnershipInv
  <1>17. ASSUME NEW p \in Execs, Recorded(p), ManagerFrame PROVE OwnershipInv'
    <2>1. BindingOwned' BY <1>17 DEF Recorded, ForgetCreate
    <2>2. ContextHeld' BY <1>17 DEF Recorded, ForgetCreate
    <2>3. OwnedWhenBound' BY <1>17 DEF Recorded, ForgetCreate
    <2> QED BY <2>1, <2>2, <2>3 DEF OwnershipInv
  <1>18. ASSUME NEW p \in Procs, FinalizeRefused(p), ManagerFrame PROVE OwnershipInv'
    <2>1. BindingOwned' BY <1>18 DEF FinalizeRefused
    <2>2. ContextHeld' BY <1>18 DEF FinalizeRefused
    <2>3. OwnedWhenBound' BY <1>18 DEF FinalizeRefused
    <2> QED BY <2>1, <2>2, <2>3 DEF OwnershipInv
  <1>19. ASSUME NEW p \in Procs, FinalizeChecked(p), ManagerFrame PROVE OwnershipInv'
    <2>1. BindingOwned' BY <1>19 DEF FinalizeChecked, Permitted
    <2>2. ContextHeld' BY <1>19 DEF FinalizeChecked, Permitted
    <2>3. OwnedWhenBound' BY <1>19 DEF FinalizeChecked, Permitted
    <2> QED BY <2>1, <2>2, <2>3 DEF OwnershipInv
  <1>20. ASSUME NEW p \in Procs, FinalizeOwner(p), ManagerFrame PROVE OwnershipInv'
    <2>1. BindingOwned'
      <3> SUFFICES ASSUME NEW k \in Key, bindings'[k] # None
                   PROVE  (\/ owners[bindings[k]] = k[1]
                            \/ bindings[k] \in torn
                            \/ \E e \in Execs : /\ pc[e] = "setowner"
                                                /\ BindingKey(e) = k
                                                /\ made[joined[e]] = bindings[k])'
        BY DEF BindingOwned
      <3>1. bindings[k] = bindings'[k] BY <1>20 DEF FinalizeOwner
      <3>2. ASSUME bindings[k] = bindings'[k] PROVE (\/ owners[bindings[k]] = k[1]
                  \/ bindings[k] \in torn
                  \/ \E e \in Execs : /\ pc[e] = "setowner"
                                      /\ BindingKey(e) = k
                                      /\ made[joined[e]] = bindings[k])'
        <4>1. k[1] # None /\ bindings[k] \in Sessions
          BY <3>2 DEF TypeOK, ManagerTypes, Key
        <4>2. CASE owners[bindings[k]] = k[1] \/ bindings[k] \in torn
          BY <1>20, <3>2, <4>1, <4>2 DEF OwnersKept, history, FinalizeOwner, ManagerFrame
        <4>3. ASSUME NEW f \in Execs, pc[f] = "setowner", BindingKey(f) = k,
           made[joined[f]] = bindings[k]
              PROVE  (\/ owners[bindings[k]] = k[1]
                  \/ bindings[k] \in torn
                  \/ \E e \in Execs : /\ pc[e] = "setowner"
                                      /\ BindingKey(e) = k
                                      /\ made[joined[e]] = bindings[k])'
          BY <1>20, <3>2, <4>3 DEF TypeOK, ManagerTypes, FinalizeOwner, Goto, Procs, tasks
        <4> QED BY <3>2, <4>1, <4>2, <4>3 DEF OwnershipInv, BindingOwned
      <3> QED BY <3>1, <3>2
    <2>2. ContextHeld' BY <1>20 DEF FinalizeOwner
    <2>3. OwnedWhenBound' BY <1>20 DEF FinalizeOwner
    <2> QED BY <2>1, <2>2, <2>3 DEF OwnershipInv
  <1>21. ASSUME NEW p \in Procs, ClearClaim(p), ManagerFrame PROVE OwnershipInv'
    <2>1. BindingOwned' BY <1>21 DEF ClearClaim, Cleared
    <2>2. ContextHeld' BY <1>21 DEF ClearClaim, Cleared
    <2>3. OwnedWhenBound' BY <1>21 DEF ClearClaim, Cleared
    <2> QED BY <2>1, <2>2, <2>3 DEF OwnershipInv
  <1>22. ASSUME NEW p \in Execs, Bind(p), ManagerFrame PROVE OwnershipInv'
    <2>1. BindingOwned'
      <3> SUFFICES ASSUME NEW k \in Key, bindings'[k] # None
                   PROVE  (\/ owners[bindings[k]] = k[1]
                            \/ bindings[k] \in torn
                            \/ \E e \in Execs : /\ pc[e] = "setowner"
                                                /\ BindingKey(e) = k
                                                /\ made[joined[e]] = bindings[k])'
        BY DEF BindingOwned
      <3>1. CASE k = BindingKey(p)
        BY <1>22, <3>1 DEF TypeOK, ManagerTypes, Assigned, Bind, OwnershipInv, OwnedWhenBound,
           Procs
      <3>2. CASE k # BindingKey(p)
        <4>0. bindings[k] = bindings'[k] BY <1>22, <3>2 DEF Bind, TypeOK, ManagerTypes
        <4>1. k[1] # None /\ bindings[k] \in Sessions
          BY <4>0 DEF TypeOK, ManagerTypes, Key
        <4>2. CASE owners[bindings[k]] = k[1] \/ bindings[k] \in torn
          BY <1>22, <4>0, <4>1, <4>2 DEF OwnersKept, history, Bind, ManagerFrame
        <4>3. ASSUME NEW f \in Execs, pc[f] = "setowner", BindingKey(f) = k,
           made[joined[f]] = bindings[k]
              PROVE  (\/ owners[bindings[k]] = k[1]
                            \/ bindings[k] \in torn
                            \/ \E e \in Execs : /\ pc[e] = "setowner"
                                                /\ BindingKey(e) = k
                                                /\ made[joined[e]] = bindings[k])'
          BY <1>22, <4>0, <4>3 DEF TypeOK, ManagerTypes, Bind, Goto, Procs, tasks
        <4> QED BY <4>0, <4>1, <4>2, <4>3 DEF OwnershipInv, BindingOwned
      <3> QED BY <3>1, <3>2
    <2>2. ContextHeld' BY <1>22 DEF Bind
    <2>3. OwnedWhenBound' BY <1>22 DEF Bind
    <2> QED BY <2>1, <2>2, <2>3 DEF OwnershipInv
  <1>23. ASSUME NEW p \in Procs, ReleaseClaim(p), ManagerFrame PROVE OwnershipInv'
    <2>1. BindingOwned' BY <1>23 DEF ReleaseClaim, Cleared, Lapse
    <2>2. ContextHeld' BY <1>23 DEF ReleaseClaim, Cleared, Lapse
    <2>3. OwnedWhenBound' BY <1>23 DEF ReleaseClaim, Cleared, Lapse
    <2> QED BY <2>1, <2>2, <2>3 DEF OwnershipInv
  <1>24. ASSUME NEW e \in Execs, Acquire(e) PROVE OwnershipInv'
    <2>1. BindingOwned' BY <1>24 DEF Acquire
    <2>2. ContextHeld' BY <1>24 DEF Acquire
    <2>3. OwnedWhenBound' BY <1>24 DEF Acquire
    <2> QED BY <2>1, <2>2, <2>3 DEF OwnershipInv
  <1>25. ASSUME NEW e \in Execs, SendOk(e) PROVE OwnershipInv'
    <2>1. BindingOwned' BY <1>25 DEF SendOk
    <2>2. ContextHeld' BY <1>25 DEF SendOk
    <2>3. OwnedWhenBound' BY <1>25 DEF SendOk
    <2> QED BY <2>1, <2>2, <2>3 DEF OwnershipInv
  <1>26. ASSUME NEW e \in Execs, SendFailed(e) PROVE OwnershipInv'
    <2>1. BindingOwned' BY <1>26 DEF SendFailed, Leave
    <2>2. ContextHeld' BY <1>26 DEF SendFailed, Leave
    <2>3. OwnedWhenBound' BY <1>26 DEF SendFailed, Leave
    <2> QED BY <2>1, <2>2, <2>3 DEF OwnershipInv
  <1>27. ASSUME NEW e \in Execs, ToolRound(e) PROVE OwnershipInv'
    <2>1. BindingOwned' BY <1>27 DEF ToolRound
    <2>2. ContextHeld' BY <1>27 DEF ToolRound
    <2>3. OwnedWhenBound' BY <1>27 DEF ToolRound
    <2> QED BY <2>1, <2>2, <2>3 DEF OwnershipInv
  <1>28. ASSUME NEW e \in Execs, Respond(e) PROVE OwnershipInv'
    <2>1. BindingOwned' BY <1>28 DEF Respond, Leave
    <2>2. ContextHeld' BY <1>28 DEF Respond, Leave
    <2>3. OwnedWhenBound' BY <1>28 DEF Respond, Leave
    <2> QED BY <2>1, <2>2, <2>3 DEF OwnershipInv
  <1>29. ASSUME NEW p \in Procs, Raised(p) PROVE OwnershipInv'
    <2>1. BindingOwned' BY <1>29 DEF Raised, Leave
    <2>2. ContextHeld' BY <1>29 DEF Raised, Leave
    <2>3. OwnedWhenBound' BY <1>29 DEF Raised, Leave
    <2> QED BY <2>1, <2>2, <2>3 DEF OwnershipInv
  <1>30. ASSUME NEW e \in Execs, Unlock(e) PROVE OwnershipInv'
    <2>1. BindingOwned' BY <1>30 DEF Unlock
    <2>2. ContextHeld' BY <1>30 DEF Unlock
    <2>3. OwnedWhenBound' BY <1>30 DEF Unlock
    <2> QED BY <2>1, <2>2, <2>3 DEF OwnershipInv
  <1>31. ASSUME NEW e \in Execs, Unwind(e) PROVE OwnershipInv'
    <2>1. BindingOwned' BY <1>31 DEF Unwind, Leave, FreeLocks, Torn, Orphan
    <2>2. ContextHeld' BY <1>31 DEF Unwind, Leave, FreeLocks, Torn, Orphan
    <2>3. OwnedWhenBound' BY <1>31 DEF Unwind, Leave, FreeLocks, Torn, Orphan
    <2> QED BY <2>1, <2>2, <2>3 DEF OwnershipInv
  <1>32. ASSUME NEW e \in Execs, UnwindCleanup(e) PROVE OwnershipInv'
    <2>1. BindingOwned' BY <1>32 DEF UnwindCleanup, Orphan
    <2>2. ContextHeld' BY <1>32 DEF UnwindCleanup, Orphan
    <2>3. OwnedWhenBound' BY <1>32 DEF UnwindCleanup, Orphan
    <2> QED BY <2>1, <2>2, <2>3 DEF OwnershipInv
  <1>33. ASSUME NEW e \in Execs, Swallow(e) PROVE OwnershipInv'
    <2>1. BindingOwned' BY <1>33 DEF Swallow
    <2>2. ContextHeld' BY <1>33 DEF Swallow
    <2>3. OwnedWhenBound' BY <1>33 DEF Swallow
    <2> QED BY <2>1, <2>2, <2>3 DEF OwnershipInv
  <1>34. ASSUME NEW g \in Guards, CallOk(g) PROVE OwnershipInv'
    <2>1. BindingOwned' BY <1>34 DEF CallOk
    <2>2. ContextHeld' BY <1>34 DEF CallOk
    <2>3. OwnedWhenBound' BY <1>34 DEF CallOk
    <2> QED BY <2>1, <2>2, <2>3 DEF OwnershipInv
  <1>35. ASSUME NEW g \in Guards, CallForked(g) PROVE OwnershipInv'
    <2>1. BindingOwned'
      <3> SUFFICES ASSUME NEW k \in Key, bindings'[k] # None
                   PROVE  (\/ owners[bindings[k]] = k[1]
                            \/ bindings[k] \in torn
                            \/ \E e \in Execs : /\ pc[e] = "setowner"
                                                /\ BindingKey(e) = k
                                                /\ made[joined[e]] = bindings[k])'
        BY DEF BindingOwned
      <3>1. bindings[k] = bindings'[k] BY <1>35 DEF CallForked
      <3>2. ASSUME bindings[k] = bindings'[k] PROVE (\/ owners[bindings[k]] = k[1]
                  \/ bindings[k] \in torn
                  \/ \E e \in Execs : /\ pc[e] = "setowner"
                                      /\ BindingKey(e) = k
                                      /\ made[joined[e]] = bindings[k])'
        <4>1. k[1] # None /\ bindings[k] \in Sessions
          BY <3>2 DEF TypeOK, ManagerTypes, Key
        <4>2. CASE owners[bindings[k]] = k[1] \/ bindings[k] \in torn
          BY <1>35, <3>2, <4>1, <4>2 DEF OwnersKept, history, CallForked, ManagerFrame
        <4>3. ASSUME NEW f \in Execs, pc[f] = "setowner", BindingKey(f) = k,
           made[joined[f]] = bindings[k]
              PROVE  (\/ owners[bindings[k]] = k[1]
                  \/ bindings[k] \in torn
                  \/ \E e \in Execs : /\ pc[e] = "setowner"
                                      /\ BindingKey(e) = k
                                      /\ made[joined[e]] = bindings[k])'
          BY <1>35, <3>2, <4>3 DEF TypeOK, ManagerTypes, Assigned, CallForked, Goto, Procs
        <4> QED BY <3>2, <4>1, <4>2, <4>3 DEF OwnershipInv, BindingOwned
      <3> QED BY <3>1, <3>2
    <2>2. ContextHeld' BY <1>35 DEF CallForked
    <2>3. OwnedWhenBound' BY <1>35 DEF CallForked
    <2> QED BY <2>1, <2>2, <2>3 DEF OwnershipInv
  <1>36. ASSUME NEW g \in Guards, CallFailed(g) PROVE OwnershipInv'
    <2>1. BindingOwned' BY <1>36 DEF CallFailed, Leave
    <2>2. ContextHeld' BY <1>36 DEF CallFailed, Leave
    <2>3. OwnedWhenBound' BY <1>36 DEF CallFailed, Leave
    <2> QED BY <2>1, <2>2, <2>3 DEF OwnershipInv
  <1>37. ASSUME NEW e \in Execs, CreateDone(e), ManagerFrame PROVE OwnershipInv'
    <2>1. BindingOwned' BY <1>37 DEF CreateDone
    <2>2. ContextHeld' BY <1>37 DEF CreateDone
    <2>3. OwnedWhenBound' BY <1>37 DEF CreateDone
    <2> QED BY <2>1, <2>2, <2>3 DEF OwnershipInv
  <1>38. ASSUME NEW e \in Execs, CreateFailed(e), ManagerFrame PROVE OwnershipInv'
    <2>1. BindingOwned' BY <1>38 DEF CreateFailed
    <2>2. ContextHeld' BY <1>38 DEF CreateFailed
    <2>3. OwnedWhenBound' BY <1>38 DEF CreateFailed
    <2> QED BY <2>1, <2>2, <2>3 DEF OwnershipInv
  <1>39. ASSUME NEW x \in Cancellers, CancelBegin(x) PROVE OwnershipInv'
    <2>1. BindingOwned' BY <1>39 DEF CancelBegin, CancelKey
    <2>2. ContextHeld' BY <1>39 DEF CancelBegin, CancelKey
    <2>3. OwnedWhenBound' BY <1>39 DEF CancelBegin, CancelKey
    <2> QED BY <2>1, <2>2, <2>3 DEF OwnershipInv
  <1>40. ASSUME NEW x \in Cancellers, CancelPop(x) PROVE OwnershipInv'
    <2>1. BindingOwned' BY <1>40 DEF CancelPop, PopInflight, Interrupt, CancelEnd, Live
    <2>2. ContextHeld' BY <1>40 DEF CancelPop, PopInflight, Interrupt, CancelEnd, Live
    <2>3. OwnedWhenBound' BY <1>40 DEF CancelPop, PopInflight, Interrupt, CancelEnd, Live
    <2> QED BY <2>1, <2>2, <2>3 DEF OwnershipInv
  <1>41. ASSUME NEW x \in Cancellers, CancelAbort(x) PROVE OwnershipInv'
    <2>1. BindingOwned' BY <1>41 DEF CancelAbort, Interrupt, CancelEnd, Live
    <2>2. ContextHeld' BY <1>41 DEF CancelAbort, Interrupt, CancelEnd, Live
    <2>3. OwnedWhenBound' BY <1>41 DEF CancelAbort, Interrupt, CancelEnd, Live
    <2> QED BY <2>1, <2>2, <2>3 DEF OwnershipInv
  <1>42. ASSUME NEW s \in Sessions, ExpireClaim(s), ManagerFrame PROVE OwnershipInv'
    <2>1. BindingOwned' BY <1>42 DEF ExpireClaim, Lapse
    <2>2. ContextHeld' BY <1>42 DEF ExpireClaim, Lapse
    <2>3. OwnedWhenBound' BY <1>42 DEF ExpireClaim, Lapse
    <2> QED BY <2>1, <2>2, <2>3 DEF OwnershipInv
  <1>43. ASSUME NEW s \in Sessions, CollectLock(s) PROVE OwnershipInv'
    <2>1. BindingOwned' BY <1>43 DEF CollectLock
    <2>2. ContextHeld' BY <1>43 DEF CollectLock
    <2>3. OwnedWhenBound' BY <1>43 DEF CollectLock
    <2> QED BY <2>1, <2>2, <2>3 DEF OwnershipInv
  <1>44. ASSUME Crash PROVE OwnershipInv'
    <2>1. BindingOwned'
      <3> SUFFICES ASSUME NEW k \in Key, bindings'[k] # None
                   PROVE  (\/ owners[bindings[k]] = k[1]
                            \/ bindings[k] \in torn
                            \/ \E e \in Execs : /\ pc[e] = "setowner"
                                                /\ BindingKey(e) = k
                                                /\ made[joined[e]] = bindings[k])'
        BY DEF BindingOwned
      <3>0. bindings[k] = bindings'[k] /\ UNCHANGED <<bindings, owners>> BY <1>44 DEF Crash
      <3>1. CASE owners[bindings[k]] = k[1] \/ bindings[k] \in torn
        BY <1>44, <3>0, <3>1 DEF Crash
      <3>2. ASSUME NEW f \in Execs, pc[f] = "setowner", made[joined[f]] = bindings[k]
            PROVE  bindings'[k] \in torn'
        <4>1. bindings[k] \in Torn(f) BY <3>2 DEF Torn
        <4> QED BY <1>44, <3>0, <4>1 DEF Crash
      <3> QED BY <3>0, <3>1, <3>2
    <2>2. ContextHeld' BY <1>44 DEF Crash, Live, Torn
    <2>3. OwnedWhenBound' BY <1>44 DEF Crash, Live, Torn
    <2> QED BY <2>1, <2>2, <2>3 DEF OwnershipInv
  <1>45. CASE UNCHANGED vars
    <2>1. BindingOwned' BY <1>45
    <2>2. ContextHeld' BY <1>45
    <2>3. OwnedWhenBound' BY <1>45
    <2> QED BY <2>1, <2>2, <2>3
  <1> QED BY <1>1, <1>2, <1>3, <1>4, <1>5, <1>6, <1>7, <1>8, <1>9, <1>10, <1>11, <1>12, <1>13,
             <1>14, <1>15, <1>16, <1>17, <1>18, <1>19, <1>20, <1>21, <1>22, <1>23, <1>24, <1>25,
             <1>26, <1>27, <1>28, <1>29, <1>30, <1>31, <1>32, <1>33, <1>34, <1>35, <1>36, <1>37,
             <1>38, <1>39, <1>40, <1>41, <1>42, <1>43, <1>44, <1>45 DEF Next, ExecStep,
             ExecManagerStep, GuardStep, GuardManagerStep, CreateStep, CancelStep, Quiescent,
             Procs

\* The inductive invariant of bindings and turns.
THEOREM OwnershipHolds == Spec => []OwnershipInv
  <1>1. Init => OwnershipInv
    BY DEF Init, OwnershipInv, BindingOwned, ContextHeld, OwnedWhenBound, Bound, InTurn, Procs
  <1> QED BY <1>1, OwnershipStep, TypeCorrect, ChecksHold, PTL DEF Spec

\* A conversation is bound to a session its caller owns, but for the sessions
\* a stopped get_or_create_session left bound without an owner row.
THEOREM BindingsAreOwned == Spec => []BindingOwned
  BY OwnershipHolds, PTL DEF OwnershipInv

\* An execution whose claim is settled talks to a session its caller owns,
\* with the same exception.
THEOREM TurnsAreByOwners == Spec => []TurnByOwner
  <1>1. OwnershipInv => TurnByOwner
    BY DEF OwnershipInv, OwnedWhenBound, TurnByOwner, Bound
  <1> QED BY <1>1, OwnershipHolds, PTL

-----------------------------------------------------------------------------
(* The pending claims of sessions: every claim has a process that will       *)
(* settle it or has been orphaned, and a claim that has not lapsed keeps     *)
(* other callers from the session.  Most actions neither write a claim or an *)
(* owner nor touch who relies on one (ClaimQuiet); each of the others has a  *)
(* lemma of its own.                                                         *)

\* The step writes no claim and no owner, nobody starts or stops to rely on a
\* claim, and every session it creates is new.
ClaimQuiet ==
    /\ UNCHANGED <<owners, claims, req, pending, lapsed>>
    /\ \A s \in orphaned : claims[s] # None => s \in orphaned'
    /\ born \subseteq born'
    /\ \A e \in Execs :
          create'[e] = "done" => \/ create[e] = "done" /\ made'[e] = made[e]
                                \/ made'[e] \notin born
    /\ \A p \in Procs :
          /\ pending[p] => sess'[p] = sess[p] /\ pc'[p] \in PendingPoints
          /\ pc'[p] = "claimed" <=> pc[p] = "claimed"
          /\ pc'[p] = "bind" => pc[p] = "bind"

\* Who relies on a claim has not ended.
LEMMA ReliesLive ==
    ASSUME ClaimInv, NEW p \in Procs, NEW s \in Sessions, ReliesOn(p, s)
    PROVE  Live(p)
  BY DEF ClaimInv, PendingTrue, PendingPoints, ReliesOn, Live

LEMMA ClaimQuietKeeps == TypeOK /\ TypeOK' /\ ClaimInv /\ ClaimQuiet => ClaimInv'
  <1> SUFFICES ASSUME TypeOK, TypeOK', ClaimInv, ClaimQuiet PROVE ClaimInv' OBVIOUS
  <1> USE DEF ClaimQuiet
  <1>1. PendingTrue' BY DEF ClaimInv, PendingTrue, Ident
  <1>2. ASSUME NEW p \in Procs, NEW s \in Sessions PROVE ReliesOn(p, s)' <=> ReliesOn(p, s)
    BY DEF ReliesOn
  <1>3. ClaimProtects' BY <1>2 DEF ClaimInv, ClaimProtects, Ident
  <1>4. CreatedAfter' BY DEF ClaimInv, CreatedAfter
  <1>5. ClaimAccounted'
    <2>1. ASSUME NEW p \in Procs, NEW s \in Sessions, ReliesOn(p, s) PROVE Live(p)'
      BY <2>1 DEF ClaimInv, PendingTrue, PendingPoints, ReliesOn, Live
    <2> QED BY <1>2, <2>1 DEF ClaimInv, ClaimAccounted, Ident
  <1> QED BY <1>1, <1>3, <1>4, <1>5 DEF ClaimInv

\* ManagerFrame settles the orphaned claims only where the claim is gone.
LEMMA SettleKeeps ==
    ASSUME TypeOK, ManagerFrame, NEW s \in orphaned, claims'[s] # None PROVE s \in orphaned'
  BY DEF ManagerFrame, Settle

-----------------------------------------------------------------------------
(* The actions that are quiet *)

LEMMA ManagerClaimQuiet ==
    ASSUME TypeOK, ClaimInv, NEW p \in Procs, ManagerFrame,
           \/ ClaimRefused(p) \/ ClaimOwned(p) \/ ClaimChecked(p)
           \/ FinalizeRefused(p) \/ FinalizeChecked(p)
           \/ p \in Execs /\ (\/ Rebind(p) \/ LookupHit(p) \/ LookupJoin(p) \/ LookupCreate(p)
                              \/ AwaitFailed(p) \/ AwaitCancelled(p) \/ AwaitDone(p)
                              \/ RecordRefused(p) \/ RecordBinding(p) \/ Recorded(p)
                              \/ CreateDone(p) \/ CreateFailed(p))
    PROVE  ClaimQuiet
  <1> USE ConstantsAssumption, SettleKeeps
      DEF TypeOK, ManagerTypes, RunTypes, Procs, ClaimInv, PendingTrue, ClaimQuiet, PendingPoints,
          Goto, store, tasks, locks
  <1>1. CASE ClaimRefused(p) \/ ClaimOwned(p) \/ ClaimChecked(p)
    BY <1>1 DEF ClaimRefused, ClaimOwned, ClaimChecked
  <1>2. CASE FinalizeRefused(p) \/ FinalizeChecked(p)
    BY <1>2 DEF FinalizeRefused, FinalizeChecked
  <1>3. CASE p \in Execs /\ (Rebind(p) \/ LookupHit(p)) BY <1>3 DEF Rebind, LookupHit
  <1>4. CASE p \in Execs /\ (LookupJoin(p) \/ LookupCreate(p))
    BY <1>4 DEF LookupJoin, LookupCreate
  <1>5. CASE p \in Execs /\ (AwaitFailed(p) \/ AwaitCancelled(p) \/ AwaitDone(p))
    BY <1>5 DEF AwaitFailed, AwaitCancelled, AwaitDone
  <1>6. CASE p \in Execs /\ (RecordRefused(p) \/ RecordBinding(p) \/ Recorded(p))
    BY <1>6 DEF RecordRefused, RecordBinding, Recorded
  <1>7. CASE p \in Execs /\ (CreateDone(p) \/ CreateFailed(p))
    BY <1>7 DEF CreateDone, CreateFailed
  <1> QED BY <1>1, <1>2, <1>3, <1>4, <1>5, <1>6, <1>7

LEMMA RunClaimQuiet ==
    ASSUME TypeOK, ClaimInv, NEW p \in Procs,
           \/ Start(p) \/ Raised(p)
           \/ p \in Execs /\ (\/ Acquire(p) \/ SendOk(p) \/ SendFailed(p) \/ ToolRound(p)
                              \/ Respond(p) \/ Unlock(p) \/ Swallow(p))
           \/ p \in Guards /\ (CallOk(p) \/ CallForked(p) \/ CallFailed(p))
    PROVE  ClaimQuiet
  <1> USE ConstantsAssumption
      DEF TypeOK, ManagerTypes, RunTypes, Procs, ClaimInv, PendingTrue, ClaimQuiet, PendingPoints,
          Goto, Leave, store, tasks, locks, managerVars
  <1>1. CASE Start(p) BY <1>1 DEF Start
  <1>2. CASE Raised(p) BY <1>2 DEF Raised
  <1>3. CASE p \in Execs /\ (Acquire(p) \/ SendOk(p) \/ ToolRound(p))
    BY <1>3 DEF Acquire, SendOk, ToolRound
  <1>4. CASE p \in Execs /\ (SendFailed(p) \/ Respond(p)) BY <1>4 DEF SendFailed, Respond
  <1>5. CASE p \in Execs /\ (Unlock(p) \/ Swallow(p)) BY <1>5 DEF Unlock, Swallow
  <1>6. CASE p \in Guards /\ (CallOk(p) \/ CallForked(p) \/ CallFailed(p))
    BY <1>6 DEF CallOk, CallForked, CallFailed
  <1> QED BY <1>1, <1>2, <1>3, <1>4, <1>5, <1>6

LEMMA EnvironmentClaimQuiet ==
    ASSUME TypeOK, ClaimInv,
           (\E x \in Cancellers : CancelStep(x)) \/ \E s \in Sessions : CollectLock(s)
    PROVE  ClaimQuiet
  BY DEF CancelStep, CancelBegin, CancelPop, CancelAbort, Interrupt, CollectLock, ClaimQuiet,
         ClaimInv, PendingTrue, managerVars, store, locks, TypeOK, ManagerTypes

-----------------------------------------------------------------------------
(* The actions that write claims and owners, or change who relies on one *)

\* A step that touches what p relies on alone keeps the claim of every session
\* accounted for, if p itself leaves none of its own behind.
LEMMA AccountedByOthers ==
    ASSUME TypeOK, ClaimInv, NEW p \in Procs, req' = req,
           \A q \in Procs \ {p} : /\ pc'[q] = pc[q] /\ pending'[q] = pending[q]
                                  /\ sess'[q] = sess[q],
           \A s \in Sessions : claims'[s] \in {None, claims[s], Ident(p)},
           \A s \in orphaned : claims'[s] # None => s \in orphaned',
           \A s \in Sessions :
               claims'[s] = Ident(p) /\ (claims[s] # Ident(p) \/ ReliesOn(p, s)) =>
                   \/ s \in orphaned'
                   \/ Live(p)' /\ ReliesOn(p, s)'
    PROVE  ClaimAccounted'
  <1> SUFFICES ASSUME NEW s \in Sessions, claims'[s] # None
               PROVE  s \in orphaned' \/ \E q \in Procs : /\ Live(q)' /\ Ident(q)' = claims'[s]
                                                         /\ ReliesOn(q, s)'
    BY DEF ClaimAccounted
  <1>1. \A q \in Procs : Ident(q)' = Ident(q) BY DEF Ident
  <1>2. CASE claims'[s] = claims[s]
    <2>1. CASE s \in orphaned BY <1>2, <2>1
    <2>2. CASE s \notin orphaned
      <3>1. PICK q \in Procs : Live(q) /\ Ident(q) = claims[s] /\ ReliesOn(q, s)
        BY <1>2, <2>2 DEF ClaimInv, ClaimAccounted
      <3>2. CASE q = p BY <1>1, <1>2, <3>1, <3>2
      <3>3. CASE q # p
        <4>1. Live(q)' /\ ReliesOn(q, s)' BY <3>1, <3>3 DEF Live, ReliesOn
        <4> QED BY <1>1, <1>2, <3>1, <4>1
      <3> QED BY <3>2, <3>3
    <2> QED BY <2>1, <2>2
  <1>3. CASE claims'[s] = Ident(p) /\ claims'[s] # claims[s] BY <1>1, <1>3
  <1> QED BY <1>2, <1>3

\* The claim is written: under the ownership lock, nobody else has one.
LEMMA PendingKeeps ==
    ASSUME TypeOK, TypeOK', CheckedStillTrue, OwnershipInv, ClaimInv, NEW p \in Procs,
           ClaimPending(p), ManagerFrame
    PROVE  ClaimInv'
  <1> DEFINE c == req[p].preferred
  <1> USE RequestFacts DEF ClaimPending, Goto, tasks
  <1>0. /\ c \in Sessions /\ owners[c] = None /\ claims[c] \in {None, Ident(p)}
        /\ Ident(p) \in Identities /\ Ident(p) # None /\ ~ pending[p]
        /\ claims' = [claims EXCEPT ![c] = Ident(p)]
        /\ pc' = [pc EXCEPT ![p] = "claimed"]
        /\ UNCHANGED <<owners, born, create, made, req, sess, pending, lapsed>>
    BY ConstantsAssumption
    DEF TypeOK, Assigned, CheckedStillTrue, ClaimStillFree, ClaimInv, PendingTrue, PendingPoints
  <1>1. ClaimAccounted'
    <2>1. \A s \in orphaned : claims'[s] # None => s \in orphaned' BY SettleKeeps
    <2>2. Live(p)' /\ ReliesOn(p, c)' BY <1>0 DEF Live, ReliesOn, TypeOK, ManagerTypes
    <2>3. \A s \in Sessions : s # c => claims'[s] = claims[s] BY <1>0 DEF TypeOK, ManagerTypes
    <2>4. \A s \in Sessions : ReliesOn(p, s) => FALSE BY <1>0 DEF ReliesOn
    <2>5. \A q \in Procs \ {p} : pc'[q] = pc[q] BY <1>0 DEF TypeOK, ManagerTypes
    <2> QED BY <1>0, <2>1, <2>2, <2>3, <2>4, <2>5, AccountedByOthers
  <1>2. PendingTrue'
    BY <1>0 DEF ClaimInv, PendingTrue, PendingPoints, OwnershipInv, OwnedWhenBound, Ident, TypeOK,
                ManagerTypes, Assigned, Procs
  <1>3. ClaimProtects'
    <2> SUFFICES ASSUME NEW q \in Procs, NEW s \in Sessions, ReliesOn(q, s)'
                 PROVE  \/ owners[s] \in {None, Ident(q)} /\ Ident(q) \in {claims'[s], owners[s]}
                        \/ s \in lapsed
                        \/ s \notin Preexisting
      BY <1>0 DEF ClaimProtects, Ident
    <2>1. CASE q = p
      <3>1. s = c BY <1>0, <2>1 DEF ReliesOn
      <3> QED BY <1>0, <2>1, <3>1 DEF TypeOK, ManagerTypes
    <2>2. CASE q # p
      <3>1. ReliesOn(q, s) BY <1>0, <2>2 DEF ReliesOn, TypeOK, ManagerTypes
      <3>2. Ident(q) # None BY ConstantsAssumption
      <3> QED BY <1>0, <3>1, <3>2 DEF ClaimInv, ClaimProtects, TypeOK, ManagerTypes
    <2> QED BY <2>1, <2>2
  <1>4. CreatedAfter' BY <1>0 DEF ClaimInv, CreatedAfter
  <1> QED BY <1>1, <1>2, <1>3, <1>4 DEF ClaimInv

\* The caller learns of its claim.
LEMMA ReturnedKeeps ==
    ASSUME TypeOK, TypeOK', ClaimInv, NEW p \in Procs, ClaimReturned(p), ManagerFrame
    PROVE  ClaimInv'
  <1> USE DEF ClaimReturned, Goto, tasks, store
  <1>0. /\ pc[p] = "claimed" /\ pc' = [pc EXCEPT ![p] = pc'[p]] /\ pc'[p] \in {"call", "bound"}
        /\ sess' = [sess EXCEPT ![p] = req[p].preferred]
        /\ pending' = [pending EXCEPT ![p] = TRUE]
        /\ UNCHANGED <<owners, claims, born, create, made, req, lapsed>>
    BY DEF TypeOK, ManagerTypes
  <1>1. \A q \in Procs, s \in Sessions : ReliesOn(q, s) <=> ReliesOn(q, s)'
    BY <1>0 DEF ReliesOn, TypeOK, ManagerTypes, ClaimInv, PendingTrue, PendingPoints
  <1>2. ClaimAccounted'
    <2>1. \A s \in orphaned : claims'[s] # None => s \in orphaned' BY SettleKeeps
    <2>2. Live(p)' BY <1>0 DEF Live
    <2>3. \A q \in Procs \ {p} : /\ pc'[q] = pc[q] /\ pending'[q] = pending[q]
                                 /\ sess'[q] = sess[q]
      BY <1>0 DEF TypeOK, ManagerTypes
    <2> QED BY <1>0, <1>1, <2>1, <2>2, <2>3, AccountedByOthers
  <1>3. PendingTrue'
    BY <1>0 DEF ClaimInv, PendingTrue, PendingPoints, Ident, TypeOK, ManagerTypes
  <1>4. ClaimProtects' BY <1>0, <1>1 DEF ClaimInv, ClaimProtects, Ident
  <1>5. CreatedAfter' BY <1>0 DEF ClaimInv, CreatedAfter
  <1> QED BY <1>2, <1>3, <1>4, <1>5 DEF ClaimInv

\* The owner of a created session is written: the session is a new one.
LEMMA RecordOwnerKeeps ==
    ASSUME TypeOK, TypeOK', ClaimInv, NEW p \in Execs, RecordOwner(p), ManagerFrame
    PROVE  ClaimInv'
  <1> DEFINE c == made[joined[p]]
  <1> USE DEF RecordOwner, Goto, tasks, locks
  <1>0. /\ c \notin Preexisting /\ \A s \in Sessions : s # c => owners'[s] = owners[s]
        /\ pc' = [pc EXCEPT ![p] = "recorded"] /\ pc[p] = "setowner" /\ p \in Procs
        /\ UNCHANGED <<claims, born, create, made, req, sess, pending, lapsed>>
    BY DEF TypeOK, Assigned, ManagerTypes, ClaimInv, CreatedAfter, Procs
  <1>1. \A q \in Procs, s \in Sessions : ReliesOn(q, s) <=> ReliesOn(q, s)'
    BY <1>0 DEF ReliesOn, TypeOK, ManagerTypes
  <1>2. ClaimAccounted'
    <2>1. \A s \in orphaned : claims'[s] # None => s \in orphaned' BY SettleKeeps
    <2>2. Live(p)' BY <1>0 DEF Live, TypeOK, ManagerTypes
    <2>3. \A q \in Procs \ {p} : pc'[q] = pc[q] BY <1>0 DEF TypeOK, ManagerTypes
    <2> QED BY <1>0, <1>1, <2>1, <2>2, <2>3, AccountedByOthers
  <1>3. PendingTrue'
    BY <1>0 DEF ClaimInv, PendingTrue, PendingPoints, Ident, TypeOK, ManagerTypes
  <1>4. ClaimProtects'
    BY <1>0, <1>1, ConstantsAssumption DEF ClaimInv, ClaimProtects, Ident
  <1>5. CreatedAfter' BY <1>0 DEF ClaimInv, CreatedAfter
  <1> QED BY <1>2, <1>3, <1>4, <1>5 DEF ClaimInv

\* The owner of a claimed session is written: it was permitted, so whoever
\* else relies on a claim of the session is of the same caller.
LEMMA FinalizeOwnerKeeps ==
    ASSUME TypeOK, TypeOK', CheckedStillTrue, ClaimInv, NEW p \in Procs, FinalizeOwner(p),
           ManagerFrame
    PROVE  ClaimInv'
  <1> USE RequestFacts DEF FinalizeOwner, Goto, tasks, locks
  <1>0. /\ sess[p] \in Sessions /\ Permitted(sess[p], Ident(p))
        /\ owners' = [owners EXCEPT ![sess[p]] = Ident(p)]
        /\ pc' = [pc EXCEPT ![p] = "unclaim"] /\ pc[p] = "finalizing"
        /\ UNCHANGED <<claims, born, create, made, req, sess, pending, lapsed>>
    BY DEF TypeOK, Assigned, CheckedStillTrue, FinalizeStillPermitted
  <1>1. \A q \in Procs, s \in Sessions : ReliesOn(q, s) <=> ReliesOn(q, s)'
    BY <1>0 DEF ReliesOn, TypeOK, ManagerTypes
  <1>2. ClaimAccounted'
    <2>1. \A s \in orphaned : claims'[s] # None => s \in orphaned' BY SettleKeeps
    <2>2. Live(p)' BY <1>0 DEF Live, TypeOK, ManagerTypes
    <2>3. \A q \in Procs \ {p} : pc'[q] = pc[q] BY <1>0 DEF TypeOK, ManagerTypes
    <2> QED BY <1>0, <1>1, <2>1, <2>2, <2>3, AccountedByOthers
  <1>3. PendingTrue'
    BY <1>0 DEF ClaimInv, PendingTrue, PendingPoints, Ident, TypeOK, ManagerTypes
  <1>4. ClaimProtects'
    <2> SUFFICES ASSUME NEW q \in Procs, NEW s \in Sessions, ReliesOn(q, s)
                 PROVE  \/ owners'[s] \in {None, Ident(q)} /\ Ident(q) \in {claims[s], owners'[s]}
                        \/ s \in lapsed
                        \/ s \notin Preexisting
      BY <1>0, <1>1 DEF ClaimProtects, Ident
    <2>1. Ident(q) # None /\ Ident(p) # None BY ConstantsAssumption
    <2> QED BY <1>0, <2>1 DEF ClaimInv, ClaimProtects, Permitted, TypeOK, ManagerTypes
  <1>5. CreatedAfter' BY <1>0 DEF ClaimInv, CreatedAfter
  <1> QED BY <1>2, <1>3, <1>4, <1>5 DEF ClaimInv

\* The claim is finalized: the caller owns the session by now.
LEMMA ClearClaimKeeps ==
    ASSUME TypeOK, TypeOK', CheckedStillTrue, ClaimInv, NEW p \in Procs, ClearClaim(p),
           ManagerFrame
    PROVE  ClaimInv'
  <1> USE RequestFacts DEF ClearClaim, Goto, tasks
  <1>0. /\ sess[p] \in Sessions /\ owners[sess[p]] = Ident(p) /\ Ident(p) # None
        /\ claims' = Cleared(sess[p], Ident(p)) /\ pc[p] = "unclaim"
        /\ \A q \in Procs \ {p} : /\ pc'[q] = pc[q] /\ pending'[q] = pending[q]
                                  /\ sess'[q] = sess[q]
        /\ pc'[p] \in {"bind", "done", "finalize"}
        /\ pending'[p] => pending[p] /\ sess'[p] = sess[p] /\ pc'[p] = "bind"
        /\ UNCHANGED <<owners, born, create, made, req, lapsed>>
    BY ConstantsAssumption
    DEF TypeOK, Assigned, ManagerTypes, CheckedStillTrue, FinalizeStillPermitted, Procs
  <1>1. \A s \in Sessions : claims'[s] = IF s = sess[p] /\ claims[s] = Ident(p) THEN None
                                         ELSE claims[s]
    BY <1>0 DEF Cleared, TypeOK, ManagerTypes
  <1>2. ASSUME NEW q \in Procs, NEW s \in Sessions, ReliesOn(q, s)' PROVE ReliesOn(q, s)
    BY <1>0, <1>2 DEF ReliesOn
  <1>3. ClaimAccounted'
    <2>1. \A s \in orphaned : claims'[s] # None => s \in orphaned' BY SettleKeeps
    <2>2. \A s \in Sessions : ReliesOn(p, s) => s = sess[p] BY <1>0 DEF ReliesOn
    <2>3. \A s \in Sessions :
             ~ (claims'[s] = Ident(p) /\ (claims[s] # Ident(p) \/ ReliesOn(p, s)))
      BY <1>0, <1>1, <2>2
    <2> QED BY <1>0, <1>1, <2>1, <2>3, AccountedByOthers
  <1>4. PendingTrue'
    BY <1>0, <1>1, ConstantsAssumption
    DEF ClaimInv, PendingTrue, PendingPoints, Ident, TypeOK, ManagerTypes, Assigned
  <1>5. ClaimProtects'
    <2> SUFFICES ASSUME NEW q \in Procs, NEW s \in Sessions, ReliesOn(q, s)
                 PROVE  \/ owners[s] \in {None, Ident(q)} /\ Ident(q) \in {claims'[s], owners[s]}
                        \/ s \in lapsed
                        \/ s \notin Preexisting
      BY <1>0, <1>2 DEF ClaimProtects, Ident
    <2> QED BY <1>0, <1>1 DEF ClaimInv, ClaimProtects
  <1>6. CreatedAfter' BY <1>0 DEF ClaimInv, CreatedAfter
  <1> QED BY <1>3, <1>4, <1>5, <1>6 DEF ClaimInv

\* The context is bound: the claim of the caller is gone already.
LEMMA BindKeeps ==
    ASSUME TypeOK, TypeOK', ClaimInv, NEW p \in Execs, Bind(p), ManagerFrame
    PROVE  ClaimInv'
  <1> USE DEF Bind, Goto, tasks, locks
  <1>0. /\ pc[p] = "bind" /\ p \in Procs /\ pc' = [pc EXCEPT ![p] = "respond"]
        /\ pending' = [pending EXCEPT ![p] = FALSE]
        /\ pending[p] => claims[sess[p]] # Ident(p)
        /\ UNCHANGED <<claims, owners, born, create, made, req, sess, lapsed>>
    BY DEF ClaimInv, PendingTrue, Procs
  <1>1. ASSUME NEW q \in Procs, NEW s \in Sessions, ReliesOn(q, s)' PROVE ReliesOn(q, s)
    BY <1>0, <1>1 DEF ReliesOn, TypeOK, ManagerTypes
  <1>2. ClaimAccounted'
    <2>1. \A s \in orphaned : claims'[s] # None => s \in orphaned' BY SettleKeeps
    <2>2. \A q \in Procs \ {p} : pc'[q] = pc[q] /\ pending'[q] = pending[q]
      BY <1>0 DEF TypeOK, ManagerTypes
    <2>3. \A s \in Sessions : ~ (claims[s] = Ident(p) /\ ReliesOn(p, s)) BY <1>0 DEF ReliesOn
    <2> QED BY <1>0, <2>1, <2>2, <2>3, AccountedByOthers
  <1>3. PendingTrue'
    BY <1>0 DEF ClaimInv, PendingTrue, PendingPoints, Ident, TypeOK, ManagerTypes
  <1>4. ClaimProtects' BY <1>0, <1>1 DEF ClaimInv, ClaimProtects, Ident
  <1>5. CreatedAfter' BY <1>0 DEF ClaimInv, CreatedAfter
  <1> QED BY <1>2, <1>3, <1>4, <1>5 DEF ClaimInv

\* The claim is released: another process of the caller that relies on it
\* makes the session lapsed.
LEMMA ReleaseKeeps ==
    ASSUME TypeOK, TypeOK', ClaimInv, NEW p \in Procs, ReleaseClaim(p), ManagerFrame
    PROVE  ClaimInv'
  <1> DEFINE c == sess[p]
  <1> USE RequestFacts DEF ReleaseClaim, Goto, tasks, locks
  <1>0. /\ c \in Sessions /\ Ident(p) # None /\ pc[p] = "cleanup"
        /\ \A s \in Sessions : claims'[s] = IF s = c /\ claims[s] = Ident(p) THEN None
                                            ELSE claims[s]
        /\ pc' = [pc EXCEPT ![p] = pc'[p]] /\ pc'[p] \in {"done", "unlock"}
        /\ pending' = [pending EXCEPT ![p] = FALSE]
        /\ UNCHANGED <<owners, born, create, made, req, sess>>
    BY ConstantsAssumption DEF TypeOK, Assigned, ManagerTypes, Cleared
  <1>1. ASSUME NEW q \in Procs, NEW s \in Sessions, ReliesOn(q, s)'
        PROVE  q # p /\ ReliesOn(q, s)
    BY <1>0, <1>1 DEF ReliesOn, TypeOK, ManagerTypes
  <1>2. ClaimAccounted'
    <2>1. \A s \in orphaned : claims'[s] # None => s \in orphaned' BY SettleKeeps
    <2>2. \A q \in Procs \ {p} : pc'[q] = pc[q] /\ pending'[q] = pending[q]
      BY <1>0 DEF TypeOK, ManagerTypes
    <2>3. \A s \in Sessions : ReliesOn(p, s) => s = c BY <1>0 DEF ReliesOn
    <2>4. \A s \in Sessions :
             ~ (claims'[s] = Ident(p) /\ (claims[s] # Ident(p) \/ ReliesOn(p, s)))
      BY <1>0, <2>3
    <2> QED BY <1>0, <2>1, <2>2, <2>4, AccountedByOthers
  <1>3. PendingTrue'
    <2> SUFFICES ASSUME NEW q \in Procs, pending'[q]
                 PROVE  pc'[q] \in PendingPoints /\ (pc'[q] = "bind" => claims'[sess[q]] # Ident(q))
      BY <1>0 DEF PendingTrue, Ident
    <2>1. q # p /\ pending[q] /\ pc'[q] = pc[q] BY <1>0 DEF TypeOK, ManagerTypes
    <2>2. sess[q] \in Sessions /\ Ident(q) # None
      BY <2>1, ConstantsAssumption DEF TypeOK, Assigned
    <2> QED BY <1>0, <2>1, <2>2 DEF ClaimInv, PendingTrue
  <1>4. ClaimProtects'
    <2> SUFFICES ASSUME NEW q \in Procs, NEW s \in Sessions, q # p, ReliesOn(q, s)
                 PROVE  \/ owners[s] \in {None, Ident(q)} /\ Ident(q) \in {claims'[s], owners[s]}
                        \/ s \in lapsed'
                        \/ s \notin Preexisting
      BY <1>0, <1>1 DEF ClaimProtects, Ident
    <2>1. lapsed \subseteq lapsed' BY DEF Lapse
    <2>2. CASE claims'[s] = claims[s] BY <2>1, <2>2 DEF ClaimInv, ClaimProtects
    <2>3. CASE claims'[s] # claims[s]
      <3>1. s = c /\ claims[s] = Ident(p) BY <1>0, <2>3
      <3>2. CASE Ident(q) = Ident(p) BY <2>3, <3>1, <3>2 DEF Lapse
      <3>3. CASE Ident(q) # Ident(p)
        BY <1>0, <2>1, <3>1, <3>3 DEF ClaimInv, ClaimProtects
      <3> QED BY <3>2, <3>3
    <2> QED BY <2>2, <2>3
  <1>5. CreatedAfter' BY <1>0 DEF ClaimInv, CreatedAfter
  <1> QED BY <1>2, <1>3, <1>4, <1>5 DEF ClaimInv

\* The lease of a claim ends: a process that relies on it makes it lapsed.
LEMMA ExpireKeeps ==
    ASSUME TypeOK, TypeOK', ClaimInv, NEW c \in Sessions, ExpireClaim(c), ManagerFrame
    PROVE  ClaimInv'
  <1> USE RequestFacts DEF ExpireClaim, tasks, locks
  <1>0. /\ \A s \in Sessions : claims'[s] = IF s = c THEN None ELSE claims[s]
        /\ claims[c] # None
        /\ UNCHANGED <<owners, born, create, made, req, sess, pc, pending>>
    BY DEF TypeOK, ManagerTypes
  <1>1. \A q \in Procs, s \in Sessions :
           /\ ReliesOn(q, s) <=> ReliesOn(q, s)'
           /\ Live(q) <=> Live(q)'
           /\ Ident(q)' = Ident(q)
    BY <1>0 DEF ReliesOn, Live, Ident
  <1>2. ClaimAccounted'
    <2>1. \A s \in orphaned : claims'[s] # None => s \in orphaned' BY SettleKeeps
    <2> QED BY <1>0, <1>1, <2>1 DEF ClaimInv, ClaimAccounted
  <1>3. PendingTrue'
    <2> SUFFICES ASSUME NEW q \in Procs, pending[q]
                 PROVE  pc[q] \in PendingPoints /\ (pc[q] = "bind" => claims'[sess[q]] # Ident(q))
      BY <1>0 DEF PendingTrue, Ident
    <2>1. sess[q] \in Sessions /\ Ident(q) # None BY ConstantsAssumption DEF TypeOK, Assigned
    <2> QED BY <1>0, <2>1 DEF ClaimInv, PendingTrue
  <1>4. ClaimProtects'
    <2> SUFFICES ASSUME NEW q \in Procs, NEW s \in Sessions, ReliesOn(q, s)
                 PROVE  \/ owners[s] \in {None, Ident(q)} /\ Ident(q) \in {claims'[s], owners[s]}
                        \/ s \in lapsed'
                        \/ s \notin Preexisting
      BY <1>0, <1>1 DEF ClaimProtects
    <2>1. lapsed \subseteq lapsed' BY DEF Lapse
    <2>2. CASE claims'[s] = claims[s] BY <2>1, <2>2 DEF ClaimInv, ClaimProtects
    <2>3. CASE claims'[s] # claims[s]
      <3>1. s = c BY <1>0, <2>3
      <3>2. CASE Ident(q) = claims[s] BY <2>3, <3>1, <3>2 DEF Lapse
      <3>3. CASE Ident(q) # claims[s] BY <1>0, <2>1, <3>1, <3>3 DEF ClaimInv, ClaimProtects
      <3> QED BY <3>2, <3>3
    <2> QED BY <2>2, <2>3
  <1>5. CreatedAfter' BY <1>0 DEF ClaimInv, CreatedAfter
  <1> QED BY <1>2, <1>3, <1>4, <1>5 DEF ClaimInv

\* A cancelled execution leaves a claim it did not know yet to its lease, and
\* an interrupted cleanup the claim it was about to release.
LEMMA UnwindKeeps ==
    ASSUME TypeOK, TypeOK', ClaimInv, NEW p \in Execs, Unwind(p) \/ UnwindCleanup(p)
    PROVE  ClaimInv'
  <1> USE RequestFacts DEF Goto, Leave, tasks, locks, store
  <1>0. /\ p \in Procs /\ pc' = [pc EXCEPT ![p] = pc'[p]]
        /\ pending' = [pending EXCEPT ![p] = pending'[p]]
        /\ pending'[p] => pending[p] /\ pc'[p] = "cleanup"
        /\ pc'[p] \in {"cleanup", "unlock", "done"}
        /\ UNCHANGED <<claims, owners, born, create, made, req, sess, lapsed>>
    BY DEF Unwind, UnwindCleanup, TypeOK, ManagerTypes, Procs
  <1>1. ASSUME NEW q \in Procs, NEW s \in Sessions, ReliesOn(q, s)' PROVE ReliesOn(q, s)
    BY <1>0, <1>1 DEF ReliesOn, TypeOK, ManagerTypes
  <1>2. ClaimAccounted'
    <2>1. orphaned \subseteq orphaned' BY DEF Unwind, UnwindCleanup, Orphan
    <2>2. \A q \in Procs \ {p} : pc'[q] = pc[q] /\ pending'[q] = pending[q]
      BY <1>0 DEF TypeOK, ManagerTypes
    <2>3. ASSUME NEW s \in Sessions, claims[s] = Ident(p), ReliesOn(p, s)
          PROVE  s \in orphaned' \/ (Live(p)' /\ ReliesOn(p, s)')
      <3>1. CASE pc[p] = "claimed" /\ Unwind(p)
        <4>1. ~ pending[p] BY <1>0, <3>1 DEF ClaimInv, PendingTrue, PendingPoints
        <4>2. s = req[p].preferred BY <2>3, <4>1 DEF ReliesOn
        <4>3. orphaned' = Orphan(s, Ident(p)) BY <3>1, <4>2 DEF Unwind
        <4> QED BY <2>3, <4>3 DEF Orphan
      <3>2. CASE pc[p] # "claimed" /\ Unwind(p)
        BY <2>3, <3>2 DEF ReliesOn, Unwind, Live, TypeOK, ManagerTypes, Procs
      <3>3. CASE UnwindCleanup(p)
        <4>1. s = sess[p] BY <2>3, <3>3 DEF ReliesOn, UnwindCleanup
        <4>2. orphaned' = Orphan(s, Ident(p)) BY <3>3, <4>1 DEF UnwindCleanup
        <4> QED BY <2>3, <4>2 DEF Orphan
      <3> QED BY <3>1, <3>2, <3>3
    <2> QED BY <1>0, <2>1, <2>2, <2>3, AccountedByOthers
  <1>3. PendingTrue'
    BY <1>0 DEF ClaimInv, PendingTrue, PendingPoints, Ident, TypeOK, ManagerTypes
  <1>4. ClaimProtects' BY <1>0, <1>1 DEF ClaimInv, ClaimProtects, Ident
  <1>5. CreatedAfter' BY <1>0 DEF ClaimInv, CreatedAfter
  <1> QED BY <1>2, <1>3, <1>4, <1>5 DEF ClaimInv

\* A crash leaves every claim to its lease.
LEMMA CrashKeepsClaims == TypeOK /\ TypeOK' /\ ClaimInv /\ Crash => ClaimInv'
  <1> SUFFICES ASSUME TypeOK, TypeOK', ClaimInv, Crash PROVE ClaimInv' OBVIOUS
  <1>1. \A q \in Procs, s \in Sessions : ~ ReliesOn(q, s)'
    BY DEF Crash, ReliesOn, Live, TypeOK, ManagerTypes
  <1>2. ClaimAccounted' BY DEF Crash, ClaimAccounted, store
  <1>3. PendingTrue' BY DEF Crash, PendingTrue
  <1>4. ClaimProtects' BY <1>1 DEF ClaimProtects
  <1>5. CreatedAfter'
    BY DEF Crash, store, ClaimInv, CreatedAfter, TypeOK, ManagerTypes
  <1> QED BY <1>2, <1>3, <1>4, <1>5 DEF ClaimInv

-----------------------------------------------------------------------------

\* ClaimInv is inductive, given what the checks and the owners guarantee.
LEMMA ClaimStep ==
    TypeOK /\ TypeOK' /\ CheckedStillTrue /\ OwnershipInv /\ ClaimInv /\ [Next]_vars => ClaimInv'
  <1> SUFFICES ASSUME TypeOK, TypeOK', CheckedStillTrue, OwnershipInv, ClaimInv, [Next]_vars
               PROVE  ClaimInv'
    OBVIOUS
  <1> USE DEF Procs
  <1>1. ASSUME NEW p \in Procs, ManagerFrame,
               \/ ClaimRefused(p) \/ ClaimOwned(p) \/ ClaimChecked(p) \/ ClaimPending(p)
               \/ ClaimReturned(p) \/ FinalizeRefused(p) \/ FinalizeChecked(p) \/ FinalizeOwner(p)
               \/ ClearClaim(p) \/ ReleaseClaim(p)
        PROVE  ClaimInv'
    BY <1>1, ManagerClaimQuiet, ClaimQuietKeeps, PendingKeeps, ReturnedKeeps, FinalizeOwnerKeeps,
       ClearClaimKeeps, ReleaseKeeps
  <1>2. ASSUME NEW e \in Execs, ExecManagerStep(e), ManagerFrame PROVE ClaimInv'
    BY <1>1, <1>2, ManagerClaimQuiet, ClaimQuietKeeps, RecordOwnerKeeps, BindKeeps
    DEF ExecManagerStep
  <1>3. ASSUME NEW e \in Execs, ExecStep(e) PROVE ClaimInv'
    BY <1>2, <1>3, RunClaimQuiet, ClaimQuietKeeps, UnwindKeeps DEF ExecStep
  <1>4. ASSUME NEW g \in Guards, GuardStep(g) PROVE ClaimInv'
    BY <1>1, <1>4, RunClaimQuiet, ClaimQuietKeeps DEF GuardStep, GuardManagerStep
  <1>5. ASSUME NEW p \in Procs, Start(p) PROVE ClaimInv' BY <1>5, RunClaimQuiet, ClaimQuietKeeps
  <1>6. ASSUME NEW e \in Execs, CreateStep(e) PROVE ClaimInv'
    BY <1>6, ManagerClaimQuiet, ClaimQuietKeeps DEF CreateStep
  <1>7. ASSUME (\E x \in Cancellers : CancelStep(x)) \/ \E s \in Sessions : CollectLock(s)
        PROVE  ClaimInv'
    BY <1>7, EnvironmentClaimQuiet, ClaimQuietKeeps
  <1>8. ASSUME NEW s \in Sessions, ExpireClaim(s), ManagerFrame PROVE ClaimInv'
    BY <1>8, ExpireKeeps
  <1>9. CASE Crash BY <1>9, CrashKeepsClaims
  <1>10. CASE UNCHANGED vars
    <2>1. ClaimQuiet
      BY <1>10 DEF ClaimQuiet, vars, managerVars, ClaimInv, PendingTrue, TypeOK, ManagerTypes
    <2> QED BY <2>1, ClaimQuietKeeps
  <1> QED BY <1>3, <1>4, <1>5, <1>6, <1>7, <1>8, <1>9, <1>10 DEF Next, Quiescent

\* The inductive invariant of the pending claims.
THEOREM ClaimsAreKept == Spec => []ClaimInv
  <1>1. Init => ClaimInv
    BY DEF Init, ClaimInv, ClaimAccounted, PendingTrue, ClaimProtects, CreatedAfter, ReliesOn, Procs
  <1> QED BY <1>1, ClaimStep, TypeCorrect, ChecksHold, OwnershipHolds, PTL DEF Spec

\* No claim is forgotten: every one has a live process that relies on it, or
\* was left to its lease by a cancellation or a crash (_cleanup,
\* SessionClaimGuard).
THEOREM ClaimsAreAccounted == Spec => []ClaimAccounted
  BY ClaimsAreKept, PTL DEF ClaimInv

\* While a caller's claim on a session has not lapsed, nobody else becomes the
\* owner of the session (claim_preferred_session, finalize_session_claim).
THEOREM PendingClaimsProtect == Spec => []PendingProtected
  <1>1. TypeOK /\ ClaimInv => PendingProtected
    BY DEF ClaimInv, ClaimProtects, PendingProtected, ReliesOn, TypeOK, Assigned
  <1> QED BY <1>1, ClaimsAreKept, TypeCorrect, PTL

-----------------------------------------------------------------------------
(* The session manager keeps the promises of SessionOwnership *)

\* What is neither an owner row, nor a claim, nor a binding is not seen.
LEMMA StoreHidden ==
    ASSUME UNCHANGED <<owners, claims, bindings>>
    PROVE  UNCHANGED <<Status, bindings>>
  BY DEF Status

\* A step that writes rows of session s only changes the status of s.
LEMMA StatusOf ==
    ASSUME NEW s \in Sessions, NEW what,
           \A r \in Sessions \ {s} : owners'[r] = owners[r] /\ claims'[r] = claims[r],
           what = IF owners'[s] # None THEN [is |-> "owned", by |-> owners'[s]]
                  ELSE IF claims'[s] # None THEN [is |-> "reserved", by |-> claims'[s]]
                  ELSE [is |-> "free", by |-> None]
    PROVE  Status' = [Status EXCEPT ![s] = what]
  BY DEF Status

Promised == [Ownership!Next]_<<Status, bindings>>

LEMMA ReservePromised ==
    ASSUME TypeOK, CheckedStillTrue, NEW p \in Procs, ClaimPending(p) PROVE Promised
  <1> DEFINE s == req[p].preferred
             i == Ident(p)
  <1>1. s \in Sessions /\ i \in Identities /\ i # None
    BY RequestFacts, ConstantsAssumption
    DEF TypeOK, ManagerTypes, Assigned, ClaimPending, Ident, Procs
  <1>2. owners[s] = None /\ claims[s] \in {None, i}
    BY DEF CheckedStillTrue, ClaimStillFree, ClaimPending
  <1>3. claims' = [claims EXCEPT ![s] = i] /\ UNCHANGED <<owners, bindings>>
    BY DEF ClaimPending
  <1>4. CASE claims[s] = i
    <2>1. UNCHANGED claims BY <1>1, <1>3, <1>4 DEF TypeOK, ManagerTypes
    <2> QED BY <1>3, <2>1, StoreHidden DEF Promised
  <1>5. CASE claims[s] = None
    <2>1. Status' = [Status EXCEPT ![s] = Ownership!Reserved(i)]
      BY <1>1, <1>2, <1>3, StatusOf DEF TypeOK, ManagerTypes, Ownership!Reserved
    <2>2. Status[s] = Ownership!Free BY <1>1, <1>2, <1>5 DEF Status, Ownership!Free
    <2>3. Ownership!Reserve(s, i)
      BY <1>3, <2>1, <2>2 DEF Ownership!Reserve, Ownership!Become
    <2> QED BY <1>1, <2>3 DEF Promised, Ownership!Next
  <1> QED BY <1>2, <1>4, <1>5

\* A claim goes away: if there is an owner by now, nobody sees it.
LEMMA LosePromised ==
    ASSUME TypeOK, NEW s \in Sessions, claims' = [claims EXCEPT ![s] = None],
           UNCHANGED <<owners, bindings>>
    PROVE  Promised
  <1>1. CASE owners[s] # None
    <2>1. Status' = Status BY <1>1 DEF Status, TypeOK, ManagerTypes
    <2> QED BY <2>1 DEF Promised
  <1>2. CASE claims[s] = None
    <2>1. UNCHANGED claims BY <1>2 DEF TypeOK, ManagerTypes
    <2> QED BY <2>1, StoreHidden DEF Promised
  <1>3. CASE owners[s] = None /\ claims[s] # None
    <2>1. Status' = [Status EXCEPT ![s] = Ownership!Free]
      BY <1>3, StatusOf DEF TypeOK, ManagerTypes, Ownership!Free
    <2>2. claims[s] \in Identities /\ Status[s] = Ownership!Reserved(claims[s])
      BY <1>3 DEF TypeOK, ManagerTypes, Status, Ownership!Reserved
    <2>3. Ownership!Lose(s, claims[s]) BY <2>1, <2>2 DEF Ownership!Lose, Ownership!Become
    <2> QED BY <2>2, <2>3 DEF Promised, Ownership!Next
  <1> QED BY <1>1, <1>2, <1>3

\* An owner row is written over that of the same caller, or where there is none
\* and nobody else has a claim, or for a session that was just created.
LEMMA TakePromised ==
    ASSUME TypeOK, NEW s \in Sessions, NEW i \in Identities,
           owners[s] \in {None, i}, claims[s] \in {None, i} \/ s \notin Preexisting,
           owners' = [owners EXCEPT ![s] = i], UNCHANGED <<claims, bindings>>
    PROVE  Promised
  <1>0. i # None BY ConstantsAssumption
  <1>1. CASE owners[s] = i
    <2>1. UNCHANGED owners BY <1>1 DEF TypeOK, ManagerTypes
    <2> QED BY <2>1, StoreHidden DEF Promised
  <1>2. CASE owners[s] = None
    <2>1. Status' = [Status EXCEPT ![s] = Ownership!Owned(i)]
      BY <1>0, <1>2, StatusOf DEF TypeOK, ManagerTypes, Ownership!Owned
    <2>2. Status[s].is # "owned" BY <1>2 DEF Status
    <2>3. claims[s] \in {None, i} => Status[s] \in {Ownership!Free, Ownership!Reserved(i)}
      BY <1>0, <1>2 DEF Status, Ownership!Free, Ownership!Reserved
    <2>4. Ownership!Take(s, i) BY <2>1, <2>2, <2>3 DEF Ownership!Take, Ownership!Become
    <2> QED BY <2>4 DEF Promised, Ownership!Next
  <1> QED BY <1>1, <1>2

LEMMA BindPromised ==
    ASSUME TypeOK, NEW k \in Key, NEW s \in Sessions,
           \/ owners[s] = k[1]
           \/ owners[s] = None /\ s \notin Preexisting,
           bindings' = [bindings EXCEPT ![k] = s], UNCHANGED <<owners, claims>>
    PROVE  Promised
  <1>1. k[1] # None BY ConstantsAssumption DEF Key
  <1>2. UNCHANGED Status BY DEF Status
  <1>3. Status[s] = Ownership!Owned(k[1]) \/ (s \notin Preexisting /\ Status[s].is # "owned")
    BY <1>1 DEF Status, Ownership!Owned
  <1>4. Ownership!Bind(k, s) BY <1>2, <1>3 DEF Ownership!Bind
  <1> QED BY <1>4 DEF Promised, Ownership!Next

\* The steps of the manager that write a row.
LEMMA ManagerPromised ==
    ASSUME TypeOK, CheckedStillTrue, OwnershipInv, ClaimInv, NEW p \in Procs,
           \/ ClaimPending(p) \/ FinalizeOwner(p) \/ ClearClaim(p) \/ ReleaseClaim(p)
           \/ p \in Execs /\ (Rebind(p) \/ RecordBinding(p) \/ RecordOwner(p) \/ Bind(p))
    PROVE  Promised
  <1> USE RequestFacts
  <1>1. CASE ClaimPending(p) BY <1>1, ReservePromised
  <1>2. CASE FinalizeOwner(p)
    <2>1. sess[p] \in Sessions /\ Permitted(sess[p], Ident(p))
      BY <1>2 DEF TypeOK, Assigned, CheckedStillTrue, FinalizeStillPermitted, FinalizeOwner
    <2>2. owners' = [owners EXCEPT ![sess[p]] = Ident(p)] /\ UNCHANGED <<claims, bindings>>
      BY <1>2 DEF FinalizeOwner
    <2> QED BY <2>1, <2>2, TakePromised DEF Permitted
  <1>3. CASE ClearClaim(p) \/ ReleaseClaim(p)
    <2>1. sess[p] \in Sessions BY <1>3 DEF TypeOK, Assigned, ClearClaim, ReleaseClaim
    <2>2. claims' = Cleared(sess[p], Ident(p)) /\ UNCHANGED <<owners, bindings>>
      BY <1>3 DEF ClearClaim, ReleaseClaim
    <2> QED BY <2>1, <2>2, LosePromised, StoreHidden DEF Cleared, Promised
  <1>4. CASE p \in Execs /\ Rebind(p)
    <2>1. sess[p] = req[p].preferred /\ sess[p] \in Sessions /\ owners[sess[p]] = Ident(p)
      BY <1>4 DEF TypeOK, Assigned, OwnershipInv, OwnedWhenBound, Rebind, Procs
    <2>2. bindings' = [bindings EXCEPT ![BindingKey(p)] = sess[p]] /\ UNCHANGED <<owners, claims>>
      BY <1>4, <2>1 DEF Rebind
    <2> QED BY <2>1, <2>2, BindPromised
  <1>5. CASE p \in Execs /\ (RecordBinding(p) \/ RecordOwner(p))
    <2> DEFINE s == made[joined[p]]
    <2>1. joined[p] \in Execs /\ create[joined[p]] = "done"
      BY <1>5 DEF TypeOK, Assigned, RecordBinding, RecordOwner
    <2>2. s \in Sessions /\ s \notin Preexisting
      BY <2>1 DEF TypeOK, Assigned, ClaimInv, CreatedAfter
    <2>3. CASE RecordBinding(p)
      <3>1. /\ owners[s] \in {None, Ident(p)}
            /\ bindings' = [bindings EXCEPT ![BindingKey(p)] = s] /\ UNCHANGED <<owners, claims>>
        BY <2>3 DEF RecordBinding
      <3> QED BY <2>2, <3>1, BindPromised
    <2>4. CASE RecordOwner(p)
      <3>1. owners[s] = None
        BY <1>5, <2>4 DEF CheckedStillTrue, RecordChecked, RecordOwner
      <3>2. owners' = [owners EXCEPT ![s] = Ident(p)] /\ UNCHANGED <<claims, bindings>>
        BY <2>4 DEF RecordOwner
      <3> QED BY <2>2, <3>1, <3>2, TakePromised
    <2> QED BY <1>5, <2>3, <2>4
  <1>6. CASE p \in Execs /\ Bind(p)
    <2>1. sess[p] \in Sessions /\ owners[sess[p]] = Ident(p)
      BY <1>6 DEF TypeOK, Assigned, OwnershipInv, OwnedWhenBound, Bind, Procs
    <2>2. bindings' = [bindings EXCEPT ![BindingKey(p)] = sess[p]] /\ UNCHANGED <<owners, claims>>
      BY <1>6 DEF Bind
    <2> QED BY <2>1, <2>2, BindPromised
  <1> QED BY <1>1, <1>2, <1>3, <1>4, <1>5, <1>6

\* A cancel that pops a binding forgets it, and does nothing else to the store.
LEMMA CancelPromised ==
    ASSUME TypeOK, NEW x \in Cancellers, CancelStep(x) PROVE Promised
  <1>1. CASE CancelPop(x)
    <2>1. snapKey[x] \in Key BY <1>1 DEF TypeOK, Assigned, CancelPop
    <2>2. bindings' = [bindings EXCEPT ![snapKey[x]] = None] /\ UNCHANGED <<owners, claims>>
      BY <1>1 DEF CancelPop
    <2>3. UNCHANGED Status BY <2>2 DEF Status
    <2>4. Ownership!Unbind(snapKey[x]) BY <2>2, <2>3 DEF Ownership!Unbind
    <2> QED BY <2>1, <2>4 DEF Promised, Ownership!Next
  <1>2. CASE CancelBegin(x) \/ CancelAbort(x)
    BY <1>2, StoreHidden DEF CancelBegin, CancelAbort, managerVars, store, Promised
  <1> QED BY <1>1, <1>2 DEF CancelStep

LEMMA StepPromised ==
    TypeOK /\ CheckedStillTrue /\ OwnershipInv /\ ClaimInv /\ [Next]_vars => Promised
  <1> SUFFICES ASSUME TypeOK, CheckedStillTrue, OwnershipInv, ClaimInv, [Next]_vars PROVE Promised
    OBVIOUS
  <1> USE DEF Procs
  <1>1. CASE UNCHANGED <<owners, claims, bindings>> BY <1>1, StoreHidden DEF Promised
  <1>2. ASSUME NEW e \in Execs, ExecStep(e) PROVE Promised
    <2>1. \/ UNCHANGED <<owners, claims, bindings>>
          \/ ClaimPending(e) \/ FinalizeOwner(e) \/ ClearClaim(e) \/ ReleaseClaim(e)
          \/ Rebind(e) \/ RecordBinding(e) \/ RecordOwner(e) \/ Bind(e)
      <3>1. CASE ExecManagerStep(e)
        BY <3>1 DEF ExecManagerStep, ClaimRefused, ClaimOwned, ClaimChecked, ClaimReturned,
           LookupHit, LookupJoin, LookupCreate, AwaitFailed, AwaitCancelled, AwaitDone,
           RecordRefused, Recorded, FinalizeRefused, FinalizeChecked, store
      <3>2. CASE ~ ExecManagerStep(e)
        BY <1>2, <3>2 DEF ExecStep, Acquire, SendOk, SendFailed, ToolRound, Respond, Raised,
           Unlock, Unwind, UnwindCleanup, Swallow, store, managerVars
      <3> QED BY <3>1, <3>2
    <2> QED BY <1>1, <2>1, ManagerPromised
  <1>3. ASSUME NEW g \in Guards, GuardStep(g) PROVE Promised
    <2>1. \/ UNCHANGED <<owners, claims, bindings>>
          \/ ClaimPending(g) \/ FinalizeOwner(g) \/ ClearClaim(g) \/ ReleaseClaim(g)
      BY <1>3 DEF GuardStep, GuardManagerStep, ClaimRefused, ClaimOwned, ClaimChecked,
         ClaimReturned, FinalizeRefused, FinalizeChecked, CallOk, CallForked, CallFailed, Raised,
         store
    <2> QED BY <1>1, <2>1, ManagerPromised
  <1>4. CASE \E x \in Cancellers : CancelStep(x) BY <1>4, CancelPromised
  <1>5. ASSUME NEW s \in Sessions, ExpireClaim(s) PROVE Promised
    BY <1>5, LosePromised DEF ExpireClaim
  <1>6. CASE (\E p \in Procs : Start(p)) \/ (\E e \in Execs : CreateStep(e))
    <2>1. UNCHANGED <<owners, claims, bindings>>
      BY <1>6 DEF Start, CreateStep, CreateDone, CreateFailed, store
    <2> QED BY <1>1, <2>1
  <1>7. CASE (\E s \in Sessions : CollectLock(s)) \/ Crash \/ UNCHANGED vars
    <2>1. UNCHANGED <<owners, claims, bindings>>
      BY <1>7 DEF CollectLock, Crash, vars, managerVars, store
    <2> QED BY <1>1, <2>1
  <1> QED BY <1>2, <1>3, <1>4, <1>5, <1>6, <1>7 DEF Next, Quiescent

\* The tables of the session manager implement the promise of who may have a
\* session, whatever is interleaved, cancelled, expired or crashed between their
\* rows (session_manager.py, state_store.py).
THEOREM OwnershipImplemented == Spec => RefinesOwnership
  <1>1. Init => Ownership!Init
    BY DEF Init, Ownership!Init, Ownership!Free, Status
  <1>2. TypeOK /\ CheckedStillTrue /\ OwnershipInv /\ ClaimInv /\ [Next]_vars
        => [Ownership!Next]_<<Status, bindings>>
    BY StepPromised DEF Promised
  <1> QED BY <1>1, <1>2, TypeCorrect, ChecksHold, OwnershipHolds, ClaimsAreKept, PTL
          DEF Spec, RefinesOwnership, Ownership!Spec

=============================================================================
