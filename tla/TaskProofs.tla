---------------------------- MODULE TaskProofs ----------------------------
(* Theorems about TaskService, for every set of tasks and calls: what an     *)
(* answer to a cancel or a read says is true of the task, and what a row has *)
(* settled stays.  TaskInv is the inductive invariant: it adds to the checked *)
(* properties what the SDK's copy of a task, its queue and the registry have *)
(* to do with the row.                                                       *)
EXTENDS TaskService, FlattenLemmas, FiniteSetTheorems

----------------------------------------------------------------------------
(* Sequences of events, and the text of a task.                              *)

ChunkAt(q) == {i \in DOMAIN q : q[i] \in TextEvents}

LEMMA ChunksFinite ==
  ASSUME NEW S, NEW q \in Seq(S)
  PROVE  IsFiniteSet(ChunkAt(q)) /\ Chunks(q) = Cardinality(ChunkAt(q)) /\ Chunks(q) \in Nat
  <1>1. ChunkAt(q) \subseteq 1..Len(q) BY DEF ChunkAt
  <1>2. IsFiniteSet(1..Len(q)) BY FS_Interval
  <1>3. IsFiniteSet(ChunkAt(q)) BY <1>1, <1>2, FS_Subset
  <1> QED BY <1>3, FS_CardinalityType DEF Chunks, ChunkAt

LEMMA ChunksEmpty == Chunks(<<>>) = 0
  <1>1. {i \in DOMAIN <<>> : <<>>[i] \in TextEvents} = {} OBVIOUS
  <1> QED BY <1>1, FS_EmptySet DEF Chunks

LEMMA ChunksAppend ==
  ASSUME NEW S, NEW q \in Seq(S), NEW e \in S
  PROVE  Chunks(Append(q, e)) = IF e \in TextEvents THEN Chunks(q) + 1 ELSE Chunks(q)
  <1> DEFINE r == Append(q, e)
             n == Len(q) + 1
  <1>1. r \in Seq(S) /\ Len(r) = n /\ r[n] = e /\ \A i \in 1..Len(q) : r[i] = q[i]
    OBVIOUS
  <1>2. ChunkAt(r) = IF e \in TextEvents THEN ChunkAt(q) \cup {n} ELSE ChunkAt(q)
    <2>1. DOMAIN r = 1..Len(q) \cup {n} /\ DOMAIN q = 1..Len(q) OBVIOUS
    <2> QED BY <1>1, <2>1 DEF ChunkAt
  <1>3. n \notin ChunkAt(q) BY DEF ChunkAt
  <1>4. IsFiniteSet(ChunkAt(q)) /\ Chunks(q) = Cardinality(ChunkAt(q)) BY ChunksFinite
  <1>5. Chunks(r) = Cardinality(ChunkAt(r)) BY DEF Chunks, ChunkAt
  <1> HIDE DEF r, n
  <1>6. Cardinality(ChunkAt(q) \cup {n}) = Cardinality(ChunkAt(q)) + 1
    BY <1>3, <1>4, FS_AddElement
  <1> QED BY <1>2, <1>4, <1>5, <1>6 DEF r

LEMMA ChunksTail ==
  ASSUME NEW S, NEW q \in Seq(S), q # <<>>
  PROVE  Chunks(q) = IF Head(q) \in TextEvents THEN Chunks(Tail(q)) + 1 ELSE Chunks(Tail(q))
  <1> DEFINE r == Tail(q)
             A == ChunkAt(q) \ {1}
             f == [i \in ChunkAt(r) |-> i + 1]
  <1>1. /\ r \in Seq(S) /\ Len(q) \in Nat /\ Len(q) > 0 /\ Len(r) = Len(q) - 1
        /\ q[1] = Head(q) /\ \A i \in 1..Len(r) : r[i] = q[i+1]
    OBVIOUS
  <1>2. DOMAIN q = 1..Len(q) /\ DOMAIN r = 1..Len(r) OBVIOUS
  <1> HIDE DEF r
  <1>3. f \in Bijection(ChunkAt(r), A)
    <2>1. \A i \in ChunkAt(r) : i \in Nat /\ i + 1 \in A
      BY <1>1, <1>2 DEF ChunkAt
    <2>2. \A j \in A : j - 1 \in ChunkAt(r) /\ j \in Nat
      BY <1>1, <1>2 DEF ChunkAt
    <2>3. f \in [ChunkAt(r) -> A] BY <2>1
    <2>4. \A i, j \in ChunkAt(r) : f[i] = f[j] => i = j BY <2>1
    <2>5. \A j \in A : f[j - 1] = j BY <2>2
    <2> HIDE DEF f, A
    <2> QED BY <2>2, <2>3, <2>4, <2>5 DEF Bijection, Injection, Surjection, IsInjective
  <1>4. IsFiniteSet(ChunkAt(q)) /\ Chunks(q) = Cardinality(ChunkAt(q)) BY ChunksFinite
  <1>5. /\ IsFiniteSet(ChunkAt(r)) /\ Chunks(r) = Cardinality(ChunkAt(r))
        /\ Chunks(r) \in Nat
    BY <1>1, ChunksFinite
  <1>6. ExistsBijection(ChunkAt(r), A) BY <1>3 DEF ExistsBijection
  <1>7. IsFiniteSet(A) /\ Cardinality(A) = Chunks(r)
    <2> HIDE DEF A
    <2> QED BY <1>5, <1>6, FS_Bijection
  <1>8. 1 \in ChunkAt(q) <=> Head(q) \in TextEvents BY <1>1, <1>2 DEF ChunkAt
  <1>9. CASE Head(q) \in TextEvents
    <2>1. ChunkAt(q) = A \cup {1} /\ 1 \notin A BY <1>8, <1>9
    <2> HIDE DEF A
    <2> QED BY <1>4, <1>7, <1>9, <2>1, FS_AddElement DEF r
  <1>10. CASE Head(q) \notin TextEvents
    <2>1. ChunkAt(q) = A BY <1>8, <1>10
    <2> QED BY <1>4, <1>7, <1>10, <2>1 DEF r
  <1> QED BY <1>9, <1>10

\* One more chunk keeps the text in order.
LEMMA TextGrows ==
  ASSUME NEW text \in Seq(Seq(Nat)), InOrder(text)
  PROVE  LET more == Append(text, <<Len(FlattenSeq(text)) + 1>>)
         IN  /\ more \in Seq(Seq(Nat)) /\ InOrder(more)
             /\ Len(FlattenSeq(more)) = Len(FlattenSeq(text)) + 1
  <1> DEFINE flat == FlattenSeq(text)
             x == <<Len(flat) + 1>>
             more == Append(text, x)
  <1>1. flat \in Seq(Nat) BY FlattenType
  <1> HIDE DEF flat
  <1>2. x \in Seq(Nat) /\ more \in Seq(Seq(Nat)) BY <1>1
  <1>3. FlattenSeq(more) = flat \o x
    <2> HIDE DEF x
    <2> QED BY <1>2, FlattenAppend DEF flat
  <1>4. /\ Len(flat \o x) = Len(flat) + 1 /\ (flat \o x)[Len(flat) + 1] = Len(flat) + 1
        /\ \A i \in 1..Len(flat) : (flat \o x)[i] = flat[i]
        /\ DOMAIN (flat \o x) = 1..Len(flat) + 1 /\ Len(flat) \in Nat
    BY <1>1
  <1>5. \A i \in 1..Len(flat) : flat[i] = i BY <1>1 DEF InOrder, flat
  <1>6. \A i \in 1..Len(flat) + 1 : (flat \o x)[i] = i
    <2> HIDE DEF x
    <2> QED BY <1>4, <1>5
  <1> HIDE DEF x, more
  <1>7. InOrder(more) BY <1>3, <1>4, <1>6 DEF InOrder
  <1> QED BY <1>2, <1>3, <1>4, <1>7 DEF x, more, flat

LEMMA EmptyText == InOrder(<<>>) /\ Len(FlattenSeq(<<>>)) = 0
  BY FlattenEmpty DEF InOrder

\* Compacting keeps the text and everything else.
LEMMA CanonicalKeeps ==
  ASSUME NEW task \in Task
  PROVE  /\ Canonical(task) \in Task
         /\ FlattenSeq(Canonical(task).text) = FlattenSeq(task.text)
         /\ Canonical(task).state = task.state /\ Canonical(task).modes = task.modes
         /\ Canonical(task).data = task.data
  <1>1. CASE task.text = <<>> BY <1>1 DEF Canonical
  <1>2. CASE task.text # <<>>
    <2>1. task.text \in Seq(Seq(Nat)) BY DEF Task
    <2>2. FlattenSeq(task.text) \in Seq(Nat) BY <2>1, FlattenType
    <2>3. Canonical(task) = [task EXCEPT !.text = <<FlattenSeq(task.text)>>]
      BY <1>2 DEF Canonical
    <2>4. FlattenSeq(<<FlattenSeq(task.text)>>) = FlattenSeq(task.text)
      BY <2>2, FlattenOne
    <2>5. <<FlattenSeq(task.text)>> \in Seq(Seq(Nat)) BY <2>2
    <2> QED BY <2>3, <2>4, <2>5 DEF Task
  <1> QED BY <1>1, <1>2

LEMMA AnnotateKeeps ==
  ASSUME NEW task \in Task, NEW modes \in Modes
  PROVE  /\ Annotate(task, modes) \in Task
         /\ Annotate(task, modes).text = task.text
         /\ Annotate(task, modes).state = task.state
         /\ Annotate(task, modes).modes = IF modes = AnyMode THEN task.modes ELSE modes
  BY DEF Annotate, Task

LEMMA ResolveType ==
  ASSUME TypeOK, NEW t \in Tasks, NEW task \in Task
  PROVE  Resolve(t, task) \in Modes
  BY DEF TypeOK, Resolve, Task

\* What is saved: the task, with the restriction the registry has.
LEMMA SaveWrites ==
  ASSUME TypeOK, NEW t \in Tasks, NEW task \in Task, Save(t, task)
  PROVE  LET row == store'[t]
         IN  /\ row \in Task /\ store' = [store EXCEPT ![t] = row]
             /\ FlattenSeq(row.text) = FlattenSeq(task.text) /\ row.state = task.state
             /\ row.modes = IF registry[t] \in {Unset, AnyMode} THEN task.modes ELSE registry[t]
             /\ registry' = IF task.state \in Terminal THEN [registry EXCEPT ![t] = Unset]
                            ELSE registry
  <1>1. /\ Canonical(task) \in Task /\ Canonical(task).state = task.state
        /\ FlattenSeq(Canonical(task).text) = FlattenSeq(task.text)
        /\ Canonical(task).modes = task.modes
    BY CanonicalKeeps
  <1>2. Resolve(t, task) \in Modes BY ResolveType
  <1>3. store'[t] = Annotate(Canonical(task), Resolve(t, task)) BY DEF Save, TypeOK
  <1>4. /\ store'[t] \in Task /\ store'[t].text = Canonical(task).text
        /\ store'[t].state = Canonical(task).state
        /\ store'[t].modes = IF Resolve(t, task) = AnyMode THEN Canonical(task).modes
                             ELSE Resolve(t, task)
    BY <1>1, <1>2, <1>3, AnnotateKeeps
  <1>5. store'[t].modes = IF registry[t] \in {Unset, AnyMode} THEN task.modes ELSE registry[t]
    BY <1>1, <1>4 DEF Resolve
  <1>6. store' = [store EXCEPT ![t] = store'[t]] BY <1>3 DEF Save
  <1>7. registry' = IF task.state \in Terminal THEN [registry EXCEPT ![t] = Unset] ELSE registry
    BY DEF Save, AfterSave, Clear
  <1> QED BY <1>1, <1>4, <1>5, <1>6, <1>7

\* What a client is given has only media types it accepts.
LEMMA FilterAccepts ==
  ASSUME NEW task, NEW modes
  PROVE  /\ FilterParts(task, modes) \in SUBSET {Text, Json}
         /\ modes # AnyMode => FilterParts(task, modes) \subseteq modes
  BY DEF FilterParts, AcceptsMode

LEMMA EventSets ==
  /\ "no" \in DOMAIN Emits /\ "stream" \in DOMAIN Emits /\ "reply" \in DOMAIN Emits
  /\ "canceled" \in Events \cup Terminal /\ "error" \in Events \cup Terminal
  /\ "canceled" \notin TextEvents /\ "error" \notin TextEvents
  /\ Emits["no"] = {} /\ "none" \notin Events \cup Terminal
  <1>1. DOMAIN Emits = {"no", "stream", "reply"} BY DEF Emits
  <1>2. Emits["no"] = {} BY DEF Emits
  <1>3. "error" \in Events BY DEF Events, Emits
  <1>4. "none" \notin Events BY DEF Events, Emits
  <1> QED BY <1>1, <1>2, <1>3, <1>4 DEF Terminal, TextEvents

\* The whole tasks an executor makes: an ended or refused task without modes.
LEMMA AfreshTasks ==
  ASSUME NEW event \in DOMAIN Afresh
  PROVE  /\ Afresh[event] \in Task /\ Afresh[event].modes = AnyMode
         /\ Afresh[event].state # "none" /\ InOrder(Afresh[event].text)
         /\ Len(FlattenSeq(Afresh[event].text)) = IF event \in TextEvents THEN 1 ELSE 0
         /\ event \notin {"chunk", "data", "snapshot"}
  <1>1. NoTask \in Task BY DEF NoTask, Task, TaskStates, Modes
  <1>2. FlattenSeq(<<<<1>>>>) = <<1>> /\ <<<<1>>>> \in Seq(Seq(Nat))
    <2> DEFINE one == <<1>>
    <2>1. one \in Seq(Nat) OBVIOUS
    <2> HIDE DEF one
    <2>2. FlattenSeq(<<one>>) = one /\ <<one>> \in Seq(Seq(Nat)) BY <2>1, FlattenOne
    <2> QED BY <2>2 DEF one
  <1>3. InOrder(<<<<1>>>>) /\ Len(FlattenSeq(<<<<1>>>>)) = 1 BY <1>2 DEF InOrder
  <1>4. CASE event = "response"
    <2>1. Afresh[event] = [NoTask EXCEPT !.state = "completed", !.text = <<<<1>>>>]
      BY <1>4 DEF Afresh
    <2> QED BY <1>1, <1>2, <1>3, <1>4, <2>1 DEF Task, NoTask, TaskStates, Terminal, TextEvents
  <1>5. CASE event = "error"
    <2>1. Afresh[event] = [NoTask EXCEPT !.state = "failed"] BY <1>5 DEF Afresh
    <2> QED BY <1>1, <1>5, <2>1, EmptyText DEF Task, NoTask, TaskStates, Terminal, TextEvents
  <1>6. CASE event = "denied"
    <2>1. Afresh[event] = [NoTask EXCEPT !.state = "auth_required"] BY <1>6 DEF Afresh
    <2> QED BY <1>1, <1>6, <2>1, EmptyText DEF Task, NoTask, TaskStates, Terminal, TextEvents
  <1> QED BY <1>4, <1>5, <1>6 DEF Afresh

\* One event applied to the SDK's copy, which has the text of the row.
LEMMA AppliedGrows ==
  ASSUME NEW t \in Tasks, NEW task \in Task, InOrder(task.text), task.state # "none",
         store[t] \in Task, FlattenSeq(store[t].text) = FlattenSeq(task.text),
         NEW event \in Events \cup Terminal
  PROVE  LET after == Applied(t, task, event)
         IN  /\ after \in Task /\ InOrder(after.text) /\ after.state # "none"
             /\ after.modes = IF event \in DOMAIN Afresh THEN AnyMode
                              ELSE IF event = "snapshot" THEN store[t].modes ELSE task.modes
             /\ Len(FlattenSeq(after.text)) <= Len(FlattenSeq(task.text)) +
                                               (IF event \in TextEvents THEN 1 ELSE 0)
  <1>1. task.text \in Seq(Seq(Nat)) BY DEF Task
  <1>2. FlattenSeq(task.text) \in Seq(Nat) /\ Len(FlattenSeq(task.text)) \in Nat
    BY <1>1, FlattenType
  <1>3. CASE event \in DOMAIN Afresh
    <2>1. Applied(t, task, event) = Afresh[event] BY <1>3, AfreshTasks DEF Applied
    <2> DEFINE after == Afresh[event]
    <2>2. /\ after \in Task /\ after.modes = AnyMode
          /\ after.state # "none" /\ InOrder(after.text)
          /\ Len(FlattenSeq(after.text)) = IF event \in TextEvents THEN 1 ELSE 0
      BY <1>3, AfreshTasks
    <2> HIDE DEF after
    <2> QED BY <1>2, <1>3, <2>1, <2>2 DEF after
  <1>4. CASE event = "snapshot"
    <2> DEFINE after == [store[t] EXCEPT !.state = "working"]
    <2>1. event \notin DOMAIN Afresh /\ event \notin TextEvents
      BY <1>4 DEF Afresh, TextEvents
    <2>2. Applied(t, task, event) = after BY <1>4, <2>1 DEF Applied
    <2>3. /\ after \in Task /\ after.text = store[t].text /\ after.modes = store[t].modes
          /\ after.state = "working"
      BY DEF Task, TaskStates
    <2> HIDE DEF after
    <2>4. InOrder(after.text) BY <2>3 DEF InOrder
    <2> QED BY <1>2, <1>4, <2>1, <2>2, <2>3, <2>4
  <1>5. CASE event = "chunk"
    <2> DEFINE more == Append(task.text, <<Len(FlattenSeq(task.text)) + 1>>)
    <2>1. /\ more \in Seq(Seq(Nat)) /\ InOrder(more)
          /\ Len(FlattenSeq(more)) = Len(FlattenSeq(task.text)) + 1
      BY <1>1, TextGrows
    <2>2. event \notin DOMAIN Afresh /\ event \in TextEvents
      BY <1>5 DEF Afresh, TextEvents
    <2> DEFINE after == [task EXCEPT !.text = more]
    <2>3. Applied(t, task, event) = after BY <1>5, <2>2 DEF Applied
    <2> HIDE DEF more
    <2>4. /\ after \in Task /\ after.text = more /\ after.modes = task.modes
          /\ after.state = task.state
      BY <2>1 DEF Task
    <2> HIDE DEF after
    <2>5. event # "snapshot" /\ Len(FlattenSeq(after.text)) = Len(FlattenSeq(task.text)) + 1
      BY <1>5, <2>1, <2>4
    <2> QED BY <1>2, <2>1, <2>2, <2>3, <2>4, <2>5
  <1>6. CASE event = "data"
    <2> DEFINE after == [task EXCEPT !.data = TRUE]
    <2>1. event \notin DOMAIN Afresh /\ event \notin TextEvents
      BY <1>6 DEF Afresh, TextEvents
    <2>2. Applied(t, task, event) = after BY <1>6, <2>1 DEF Applied
    <2>3. /\ after \in Task /\ after.text = task.text /\ after.modes = task.modes
          /\ after.state = task.state
      BY DEF Task
    <2> HIDE DEF after
    <2> QED BY <1>2, <1>6, <2>1, <2>2, <2>3
  <1>7. CASE event \notin DOMAIN Afresh \cup {"snapshot", "chunk", "data"}
    <2> DEFINE after == [task EXCEPT !.state = event]
    <2>1. Applied(t, task, event) = after BY <1>7 DEF Applied
    <2>2. event \in TaskStates \ {"none"} /\ event \notin TextEvents
      BY <1>7 DEF Events, Emits, TaskStates, Terminal, Afresh, TextEvents
    <2>3. /\ after \in Task /\ after.text = task.text /\ after.modes = task.modes
          /\ after.state = event
      BY <2>2 DEF Task
    <2> HIDE DEF after
    <2> QED BY <1>2, <1>7, <2>1, <2>2, <2>3
  <1> QED BY <1>3, <1>4, <1>5, <1>6, <1>7

----------------------------------------------------------------------------
(* The invariant, task by task and call by call.                             *)

RowTrue(t) ==
  /\ store[t].state \in Terminal => active[t] = NoTask
  /\ active[t] # NoTask => active[t].state # "none"
  /\ store[t] # NoTask => store[t].state # "none"
  /\ registry[t] # AnyMode
  /\ store[t].modes # AnyMode /\ active[t] # NoTask =>
       registry[t] # Unset \/ active[t].modes # AnyMode
  /\ restarts = 0 =>
       /\ active[t].modes # AnyMode => registry[t] # Unset
       /\ store[t].modes # AnyMode /\ store[t].state \notin Terminal => registry[t] # Unset
  /\ InOrder(store[t].text) /\ Len(FlattenSeq(store[t].text)) <= emitted[t]
  /\ InOrder(active[t].text)
  /\ active[t] # NoTask =>
       /\ FlattenSeq(active[t].text) = FlattenSeq(store[t].text)
       /\ Len(FlattenSeq(active[t].text)) + Chunks(queue[t]) <= emitted[t]

CallTrue(c) ==
  /\ call[c].result = "canceled" => store[call[c].task].state = "canceled"
  /\ call[c].result = "not_cancelable" =>
       store[call[c].task].state \in Terminal \ {"canceled"}
  /\ call[c].result = "task" /\ call[c].modes # AnyMode => call[c].view \subseteq call[c].modes
  /\ call[c].kind = "cancel" /\ call[c].pc = "cancel" => store[call[c].task] # NoTask

LEMMA InvParts ==
  TaskInv <=> TypeOK /\ (\A t \in Tasks : RowTrue(t)) /\ (\A c \in Calls : CallTrue(c))
  BY DEF TaskInv, AnswersAreWhole, TextIsWhole, OnlyAcceptedModes, CancelVerdict, EndedIsIdle,
         KnownTasks, RestrictionKnown, CopyIsWhole, RowTrue, CallTrue, InOrder

LEMMA InvPartsNext ==
  TypeOK' /\ (\A t \in Tasks : RowTrue(t)') /\ (\A c \in Calls : CallTrue(c)') => TaskInv'
  BY DEF TaskInv, AnswersAreWhole, TextIsWhole, OnlyAcceptedModes, CancelVerdict, EndedIsIdle,
         KnownTasks, RestrictionKnown, CopyIsWhole, RowTrue, CallTrue, InOrder

\* What the assumption says of the values.
LEMMA Values ==
  /\ NoTask \in Task /\ Idle \in Call /\ Text # Json
  /\ AnyMode \in Modes /\ AnyMode # Unset /\ Wishes \subseteq Modes
  /\ InOrder(NoTask.text) /\ Len(FlattenSeq(NoTask.text)) = 0 /\ NoTask.modes = AnyMode
  <1>1. Idle.task \in Tasks BY TaskAssumption DEF Idle
  <1>2. NoTask \in Task BY DEF NoTask, Task, TaskStates, Modes
  <1>3. Idle \in Call BY <1>1 DEF Idle, Call, Modes
  <1>4. NoTask.text = <<>> /\ NoTask.modes = AnyMode BY DEF NoTask
  <1> QED BY <1>2, <1>3, <1>4, EmptyText, TaskAssumption DEF Modes, Text, Json

LEMMA InitTrue == Init => TaskInv
  <1> SUFFICES ASSUME Init PROVE TaskInv OBVIOUS
  <1>1. TypeOK
    BY Values, EventSets, TaskAssumption DEF Init, TypeOK
  <1>2. ASSUME NEW t \in Tasks PROVE RowTrue(t)
    BY Values DEF Init, RowTrue, NoTask, Terminal
  <1>3. ASSUME NEW c \in Calls PROVE CallTrue(c)
    BY DEF Init, CallTrue, Idle
  <1> QED BY <1>1, <1>2, <1>3, InvParts

----------------------------------------------------------------------------
(* Actions that change calls only.                                           *)

\* Call c goes on to k, everything else stays.
CallOnly(c, k) ==
  /\ call' = [call EXCEPT ![c] = k]
  /\ UNCHANGED <<store, active, queue, working, registry, emitted, restarts>>

LEMMA RowsStay ==
  ASSUME TaskInv, UNCHANGED <<store, active, queue, registry, emitted, restarts>>
  PROVE  \A t \in Tasks : RowTrue(t)'
  BY InvParts DEF RowTrue

\* A call that stays the same stays true while no row loses its end.
LEMMA CallStays ==
  ASSUME TaskInv, NEW c \in Calls, call'[c] = call[c],
         \A t \in Tasks : /\ store[t].state \in Terminal => store'[t] = store[t]
                          /\ store[t] # NoTask => store'[t] # NoTask
  PROVE  CallTrue(c)'
  <1>1. CallTrue(c) /\ call[c].task \in Tasks BY InvParts DEF TypeOK, Call
  <1> QED BY <1>1 DEF CallTrue, Terminal

LEMMA CallOnlyKeeps ==
  ASSUME TaskInv, NEW c \in Calls, NEW k \in Call, CallOnly(c, k),
         k.result = "canceled" => store[k.task].state = "canceled",
         k.result = "not_cancelable" => store[k.task].state \in Terminal \ {"canceled"},
         k.result = "task" /\ k.modes # AnyMode => k.view \subseteq k.modes,
         k.kind = "cancel" /\ k.pc = "cancel" => store[k.task] # NoTask
  PROVE  TaskInv'
  <1>1. TypeOK' BY DEF CallOnly, TaskInv, AnswersAreWhole, TypeOK
  <1>2. \A t \in Tasks : RowTrue(t)' BY RowsStay DEF CallOnly
  <1>3. call'[c] = k /\ \A d \in Calls \ {c} : call'[d] = call[d]
    BY InvParts DEF CallOnly, TypeOK
  <1>4. CallTrue(c)' BY <1>3 DEF CallTrue, CallOnly
  <1>5. ASSUME NEW d \in Calls \ {c} PROVE CallTrue(d)'
    BY <1>3, CallStays DEF CallOnly
  <1> QED BY <1>1, <1>2, <1>4, <1>5, InvPartsNext

LEMMA SendKeeps ==
  ASSUME TaskInv, NEW c \in Calls, NEW t \in Tasks, NEW m \in Wishes,
         NEW n \in SUBSET Needs, NEW r \in SUBSET Needs, Send(c, t, m, n, r)
  PROVE  TaskInv'
  <1> DEFINE j == [Idle EXCEPT !.kind = "send", !.task = t, !.modes = m, !.pc = "build"]
             k == [Idle EXCEPT !.kind = "send", !.task = t,
                               !.pc = "done", !.result = "unsupported"]
  <1>1. j \in Call /\ j.kind = "send" /\ j.result = "none" BY Values DEF Call, Idle
  <1>2. k \in Call /\ k.kind = "send" /\ k.result = "unsupported" BY Values DEF Call, Idle
  <1>3. CallOnly(c, j) \/ CallOnly(c, k) BY DEF Send, CallOnly
  <1> HIDE DEF j, k
  <1> QED BY <1>1, <1>2, <1>3, CallOnlyKeeps

LEMMA SentKeeps ==
  ASSUME TaskInv, NEW c \in Calls, Sent(c)
  PROVE  TaskInv'
  <1> DEFINE t == call[c].task
             modes == IF call[c].modes # AnyMode THEN call[c].modes ELSE Resolve(t, store[t])
             view == FilterParts(store[t], modes)
             k == [call[c] EXCEPT !.pc = "done", !.result = "task", !.view = view]
  <1>1. call[c] \in Call /\ CallTrue(c) BY InvParts DEF TypeOK
  <1>2. view \in SUBSET {Text, Json} /\ (call[c].modes # AnyMode => view \subseteq call[c].modes)
    BY FilterAccepts
  <1>3. CallOnly(c, k) BY <1>1, InvParts DEF Sent, Finish, CallOnly, TypeOK, Call
  <1> HIDE DEF view
  <1>4. /\ k \in Call /\ k.kind = "send" /\ k.pc = "done" /\ k.result = "task"
        /\ k.modes = call[c].modes /\ k.view = view
    BY <1>1, <1>2 DEF Call, Sent
  <1> HIDE DEF k
  <1> QED BY <1>2, <1>3, <1>4, CallOnlyKeeps

LEMMA GetKeeps ==
  ASSUME TaskInv, NEW c \in Calls, NEW t \in Tasks, Get(c, t)
  PROVE  TaskInv'
  <1> DEFINE modes == Resolve(t, store[t])
             view == FilterParts(store[t], modes)
             res == IF store[t] = NoTask THEN "not_found" ELSE "task"
             k == [Idle EXCEPT !.kind = "get", !.task = t, !.pc = "done", !.modes = modes,
                               !.result = res, !.view = view]
  <1>1. modes \in Modes BY InvParts, ResolveType DEF TypeOK
  <1>2. view \in SUBSET {Text, Json} /\ (modes # AnyMode => view \subseteq modes)
    BY FilterAccepts
  <1>3. CallOnly(c, k) BY DEF Get, Negotiate, CallOnly
  <1> HIDE DEF view, modes
  <1>4. /\ k \in Call /\ k.kind = "get" /\ k.pc = "done" /\ k.result \in {"task", "not_found"}
        /\ k.modes = modes /\ k.view = view
    BY <1>1, <1>2, Values DEF Call, Idle
  <1> HIDE DEF k
  <1> QED BY <1>2, <1>3, <1>4, CallOnlyKeeps

LEMMA CancelKeeps ==
  ASSUME TaskInv, NEW c \in Calls, NEW t \in Tasks, Cancel(c, t)
  PROVE  TaskInv'
  <1> DEFINE start == [Idle EXCEPT !.kind = "cancel", !.task = t]
             unknown == [start EXCEPT !.pc = "done", !.result = "not_found"]
             view == Negotiate(t, store[t])
             over == [[start EXCEPT !.pc = "done", !.result = "canceled"] EXCEPT !.view = view]
             wait == [start EXCEPT !.pc = "cancel"]
  <1>1. view \in SUBSET {Text, Json} BY FilterAccepts DEF Negotiate
  <1>2. \/ CallOnly(c, unknown)
        \/ store[t] # NoTask /\ store[t].state = "canceled" /\ CallOnly(c, over)
        \/ store[t] # NoTask /\ CallOnly(c, wait)
    <2>1. CASE store[t] = NoTask
      <3>1. store[t].state # "canceled" BY <2>1 DEF NoTask
      <3>2. call' = [call EXCEPT ![c] = unknown] BY <2>1, <3>1 DEF Cancel
      <3> QED BY <3>2 DEF Cancel, CallOnly
    <2>2. CASE store[t] # NoTask /\ store[t].state = "canceled"
      <3>1. call' = [call EXCEPT ![c] = over] BY <2>2 DEF Cancel
      <3> QED BY <2>2, <3>1 DEF Cancel, CallOnly
    <2>3. CASE store[t] # NoTask /\ store[t].state # "canceled"
      <3>1. call' = [call EXCEPT ![c] = wait] BY <2>3 DEF Cancel
      <3> QED BY <2>3, <3>1 DEF Cancel, CallOnly
    <2> QED BY <2>1, <2>2, <2>3
  <1> HIDE DEF view
  <1>3. unknown \in Call /\ unknown.result = "not_found" /\ unknown.pc = "done"
    BY Values DEF Call, Idle
  <1>4. over \in Call /\ over.result = "canceled" /\ over.pc = "done" /\ over.task = t
    BY <1>1, Values DEF Call, Idle
  <1>5. wait \in Call /\ wait.result = "none" /\ wait.task = t
    BY Values DEF Call, Idle
  <1> HIDE DEF unknown, over, wait
  <1> QED BY <1>2, <1>3, <1>4, <1>5, CallOnlyKeeps

\* The verdict over a task that has ended.
LEMMA VerdictKeeps ==
  ASSUME TaskInv, NEW c \in Calls, store[call[c].task].state \in Terminal,
         \/ store[call[c].task].state = "canceled" /\ Canceled(c, call[c].task)
         \/ store[call[c].task].state # "canceled" /\ Finish(c, "not_cancelable", {}),
         UNCHANGED <<store, active, queue, working, registry, emitted, restarts>>
  PROVE  TaskInv'
  <1> DEFINE t == call[c].task
             view == Negotiate(t, store[t])
             yes == [call[c] EXCEPT !.pc = "done", !.result = "canceled", !.view = view]
             no == [call[c] EXCEPT !.pc = "done", !.result = "not_cancelable", !.view = {}]
  <1>1. view \in SUBSET {Text, Json} BY FilterAccepts DEF Negotiate
  <1>2. call \in [Calls -> Call] BY InvParts DEF TypeOK
  <1>3. \/ store[t].state = "canceled" /\ CallOnly(c, yes)
        \/ store[t].state # "canceled" /\ CallOnly(c, no)
    BY <1>2 DEF Canceled, Finish, CallOnly, Call
  <1> HIDE DEF view
  <1>4. yes \in Call /\ yes.result = "canceled" /\ yes.pc = "done" /\ yes.task = t
    BY <1>1, <1>2 DEF Call
  <1>5. no \in Call /\ no.result = "not_cancelable" /\ no.pc = "done" /\ no.task = t
    BY <1>2 DEF Call
  <1> HIDE DEF yes, no
  <1> QED BY <1>3, <1>4, <1>5, CallOnlyKeeps

LEMMA CancelEndsKeeps ==
  ASSUME TaskInv, NEW c \in Calls, CancelEnds(c)
  PROVE  TaskInv'
  BY VerdictKeeps DEF CancelEnds, Refused

----------------------------------------------------------------------------
(* Actions that take a task on.                                              *)

LEMMA BuildKeeps ==
  ASSUME TaskInv, NEW c \in Calls, Build(c)
  PROVE  TaskInv'
  <1> DEFINE t == call[c].task
             k == [call[c] EXCEPT !.pc = "run"]
  <1>0. TypeOK /\ call[c] \in Call /\ t \in Tasks BY InvParts DEF TypeOK, Call
  <1>1. call' = [call EXCEPT ![c] = k] BY <1>0 DEF Build, TypeOK, Call
  <1>2. k \in Call /\ k.kind = "send" /\ k.result = call[c].result /\ k.task = t
        /\ k.view = call[c].view /\ k.modes = call[c].modes
    BY <1>0 DEF Call, Build
  <1>3. registry' = registry \/ \E m \in Modes \ {AnyMode} : registry' = [registry EXCEPT ![t] = m]
    BY <1>0 DEF Build, Remember, Call
  <1>4. TypeOK' BY <1>0, <1>1, <1>2, <1>3 DEF Build, TypeOK
  <1>5. ASSUME NEW u \in Tasks PROVE RowTrue(u)'
    <2>1. RowTrue(u) BY InvParts
    <2>2. registry'[u] = registry[u] \/ registry'[u] \in Modes \ {AnyMode}
      BY <1>0, <1>3 DEF TypeOK
    <2>3. Unset \notin Modes
      <3>1. "unset" # Text /\ "unset" # Json BY DEF Text, Json
      <3> QED BY <3>1, Values DEF Modes, Unset
    <2> QED BY <2>1, <2>2, <2>3 DEF RowTrue, Build
  <1>6. ASSUME NEW d \in Calls PROVE CallTrue(d)'
    <2>1. CASE d = c
      <3>1. CallTrue(c) /\ call'[c] = k BY <1>0, <1>1, InvParts DEF TypeOK
      <3> QED BY <1>2, <2>1, <3>1 DEF CallTrue, Build
    <2>2. CASE d # c BY <1>0, <1>1, <2>2, CallStays DEF TypeOK, Build
    <2> QED BY <2>1, <2>2
  <1> QED BY <1>4, <1>5, <1>6, InvPartsNext

\* A task nothing is done to stays true.
LEMMA RowStays ==
  ASSUME TaskInv, NEW u \in Tasks,
         store'[u] = store[u], active'[u] = active[u], queue'[u] = queue[u],
         registry'[u] = registry[u], emitted'[u] = emitted[u], restarts' = restarts
  PROVE  RowTrue(u)'
  BY InvParts DEF RowTrue

LEMMA RunKeeps ==
  ASSUME TaskInv, NEW c \in Calls, Run(c)
  PROVE  TaskInv'
  <1> DEFINE t == call[c].task
  <1>0. /\ TypeOK /\ call[c] \in Call /\ t \in Tasks /\ RowTrue(t) /\ CallTrue(c)
        /\ store[t] \in Task /\ active[t] \in Task
    BY InvParts DEF TypeOK, Call
  <1>1. CASE store[t].state \in Terminal
    <2> DEFINE k == [call[c] EXCEPT !.pc = "done", !.result = "unsupported", !.view = {}]
    <2>1. CallOnly(c, k) BY <1>0, <1>1 DEF Run, Finish, CallOnly, TypeOK, Call
    <2>2. k \in Call /\ k.pc = "done" /\ k.result = "unsupported" BY <1>0 DEF Call
    <2> HIDE DEF k
    <2> QED BY <2>1, <2>2, CallOnlyKeeps
  <1>2. CASE store[t].state \notin Terminal
    <2> DEFINE k == [call[c] EXCEPT !.pc = "wait"]
               fresh == [store[t] EXCEPT !.state = "submitted"]
    <2>1. /\ call' = [call EXCEPT ![c] = k]
          /\ \E how \in {"stream", "reply"} : working' = [working EXCEPT ![t] = how]
          /\ active' = [active EXCEPT ![t] = IF active[t] # NoTask THEN active[t] ELSE fresh]
          /\ UNCHANGED <<store, queue, registry, emitted, restarts>>
      BY <1>0, <1>2 DEF Run, TypeOK, Call
    <2>2. /\ k \in Call /\ k.kind = call[c].kind /\ k.result = call[c].result /\ k.task = t
          /\ k.view = call[c].view /\ k.modes = call[c].modes /\ k.pc = "wait"
      BY <1>0 DEF Call
    <2>3. /\ fresh \in Task /\ fresh.state = "submitted" /\ fresh.text = store[t].text
          /\ fresh.modes = store[t].modes /\ fresh # NoTask
      BY <1>0 DEF Task, TaskStates, NoTask
    <2> HIDE DEF k, fresh
    <2>4. active'[t] # NoTask /\ active'[t] \in Task BY <1>0, <2>1, <2>3 DEF TypeOK
    <2>5. TypeOK'
      <3>1. \A u \in Tasks : working'[u] # "no" \/ queue'[u] # <<>> => active'[u] # NoTask
        BY <1>0, <2>1, <2>4 DEF TypeOK
      <3>2. working' \in [Tasks -> DOMAIN Emits] BY <1>0, <2>1, EventSets DEF TypeOK
      <3> QED BY <1>0, <2>1, <2>2, <2>4, <3>1, <3>2 DEF TypeOK
    <2>6. ASSUME NEW u \in Tasks PROVE RowTrue(u)'
      <3>1. CASE u # t \/ active[t] # NoTask
        BY <1>0, <2>1, <3>1, RowStays DEF TypeOK
      <3>2. CASE u = t /\ active[t] = NoTask
        <4>1. active'[t] = fresh BY <1>0, <2>1, <3>2 DEF TypeOK
        <4>2. queue[t] = <<>> /\ emitted[t] \in Nat
          BY <1>0, <3>2, TaskAssumption DEF TypeOK
        <4>3. Chunks(queue'[t]) = 0 BY <2>1, <4>2, ChunksEmpty
        <4>4. Len(FlattenSeq(fresh.text)) + 0 <= emitted[t]
          <5>1. FlattenSeq(store[t].text) \in Seq(Nat) BY <1>0, FlattenType DEF Task
          <5> QED BY <1>0, <2>3, <4>2, <5>1 DEF RowTrue
        <4> QED BY <1>0, <1>2, <2>1, <2>3, <3>2, <4>1, <4>3, <4>4 DEF RowTrue
      <3> QED BY <3>1, <3>2
    <2>7. ASSUME NEW d \in Calls PROVE CallTrue(d)'
      <3>1. CASE d = c
        <4>1. call'[c] = k BY <1>0, <2>1 DEF TypeOK
        <4> QED BY <1>0, <2>1, <2>2, <3>1, <4>1 DEF CallTrue
      <3>2. CASE d # c BY <1>0, <2>1, <3>2, CallStays DEF TypeOK
      <3> QED BY <3>1, <3>2
    <2> QED BY <2>5, <2>6, <2>7, InvPartsNext
  <1> QED BY <1>1, <1>2

\* The events of a cancel are no chunks.
LEMMA CancelEvents ==
  ASSUME NEW q \in Seq(Events \cup Terminal),
         NEW tail \in {<<"canceled">>, <<"canceled", "error">>}
  PROVE  /\ q \o tail \in Seq(Events \cup Terminal) /\ q \o tail # <<>>
         /\ Chunks(q \o tail) = Chunks(q)
  <1> DEFINE S == Events \cup Terminal
             r == Append(q, "canceled")
  <1>1. /\ "canceled" \in S /\ "error" \in S
        /\ "canceled" \notin TextEvents /\ "error" \notin TextEvents
    BY EventSets
  <1> HIDE DEF S
  <1>2. q \in Seq(S) BY DEF S
  <1>3. r \in Seq(S) /\ Append(r, "error") \in Seq(S) BY <1>1, <1>2
  <1>4. Chunks(r) = Chunks(q) BY <1>1, <1>2, ChunksAppend
  <1>5. Chunks(Append(r, "error")) = Chunks(r)
    <2> HIDE DEF r
    <2> QED BY <1>1, <1>3, ChunksAppend
  <1>6. q \o <<"canceled">> = r /\ q \o <<"canceled", "error">> = Append(r, "error")
    BY <1>1, <1>2
  <1>7. Len(r) # 0 /\ Len(Append(r, "error")) # 0 BY <1>1, <1>2
  <1>8. q \o tail = r \/ q \o tail = Append(r, "error") BY <1>6
  <1>9. r # <<>> /\ Append(r, "error") # <<>>
    <2>1. \A z : Len(z) # 0 => z # <<>> OBVIOUS
    <2> QED BY <1>7, <2>1, Zenon
  <1> DEFINE p == q \o tail
             e == Append(r, "error")
  <1>10. e \in Seq(S) /\ e # <<>> /\ Chunks(e) = Chunks(q) /\ (p = r \/ p = e)
    BY <1>3, <1>4, <1>5, <1>8, <1>9
  <1> HIDE DEF r, p, e
  <1>11. p \in Seq(S) /\ p # <<>> /\ Chunks(p) = Chunks(q) BY <1>3, <1>4, <1>9, <1>10
  <1> QED BY <1>11 DEF p, S

LEMMA SdkCancelKeeps ==
  ASSUME TaskInv, NEW c \in Calls, SdkCancel(c)
  PROVE  TaskInv'
  <1> DEFINE t == call[c].task
  <1>0. /\ TypeOK /\ call[c] \in Call /\ t \in Tasks /\ RowTrue(t) /\ CallTrue(c)
        /\ store[t] \in Task /\ active[t] \in Task
    BY InvParts DEF TypeOK, Call
  <1>1. CASE store[t].state \in Terminal
    BY <1>1, VerdictKeeps DEF SdkCancel, Refused
  <1>2. CASE store[t].state \notin Terminal
    <2> DEFINE k == [call[c] EXCEPT !.pc = "cancelling"]
    <2>1. PICK tail \in {<<"canceled">>, <<"canceled", "error">>} :
             queue' = [queue EXCEPT ![t] = queue[t] \o tail]
      BY <1>0, <1>2 DEF SdkCancel, TypeOK
    <2>2. /\ call' = [call EXCEPT ![c] = k]
          /\ working' = [working EXCEPT ![t] = "no"]
          /\ active' = [active EXCEPT ![t] = IF active[t] # NoTask THEN active[t] ELSE store[t]]
          /\ UNCHANGED <<store, registry, emitted, restarts>>
      BY <1>0, <1>2 DEF SdkCancel, TypeOK, Call
    <2>3. /\ k \in Call /\ k.kind = call[c].kind /\ k.result = call[c].result /\ k.task = t
          /\ k.view = call[c].view /\ k.modes = call[c].modes /\ k.pc = "cancelling"
      BY <1>0 DEF Call
    <2> HIDE DEF k
    <2>4. store[t] # NoTask BY <1>0 DEF CallTrue, SdkCancel
    <2>5. /\ queue'[t] = queue[t] \o tail /\ queue'[t] \in Seq(Events \cup Terminal)
          /\ Chunks(queue'[t]) = Chunks(queue[t])
      BY <1>0, <2>1, CancelEvents DEF TypeOK
    <2>6. active'[t] # NoTask /\ active'[t] \in Task BY <1>0, <2>2, <2>4 DEF TypeOK
    <2>7. TypeOK'
      <3>1. \A u \in Tasks : working'[u] # "no" \/ queue'[u] # <<>> => active'[u] # NoTask
        BY <1>0, <2>1, <2>2, <2>6 DEF TypeOK
      <3>2. queue' \in [Tasks -> Seq(Events \cup Terminal)] BY <1>0, <2>1, <2>5 DEF TypeOK
      <3>3. working' \in [Tasks -> DOMAIN Emits] BY <1>0, <2>2, EventSets DEF TypeOK
      <3> QED BY <1>0, <2>2, <2>3, <2>6, <3>1, <3>2, <3>3 DEF TypeOK
    <2>8. ASSUME NEW u \in Tasks PROVE RowTrue(u)'
      <3>1. CASE u # t BY <1>0, <2>1, <2>2, <3>1, RowStays DEF TypeOK
      <3>2. CASE u = t /\ active[t] # NoTask
        <4>1. active'[t] = active[t] BY <1>0, <2>2, <3>2 DEF TypeOK
        <4> QED BY <1>0, <2>2, <2>5, <3>2, <4>1 DEF RowTrue
      <3>3. CASE u = t /\ active[t] = NoTask
        <4>1. active'[t] = store[t] BY <1>0, <2>2, <3>3 DEF TypeOK
        <4>2. queue[t] = <<>> /\ emitted[t] \in Nat
          BY <1>0, <3>3, TaskAssumption DEF TypeOK
        <4>3. Chunks(queue'[t]) = 0 BY <2>5, <4>2, ChunksEmpty
        <4>4. Len(FlattenSeq(store[t].text)) + 0 <= emitted[t]
          <5>1. FlattenSeq(store[t].text) \in Seq(Nat) BY <1>0, FlattenType DEF Task
          <5> QED BY <1>0, <4>2, <5>1 DEF RowTrue
        <4> QED BY <1>0, <1>2, <2>2, <2>4, <3>3, <4>1, <4>3, <4>4 DEF RowTrue
      <3> QED BY <3>1, <3>2, <3>3
    <2>9. ASSUME NEW d \in Calls PROVE CallTrue(d)'
      <3>1. CASE d = c
        <4>1. call'[c] = k BY <1>0, <2>2 DEF TypeOK
        <4> QED BY <1>0, <2>2, <2>3, <3>1, <4>1 DEF CallTrue
      <3>2. CASE d # c BY <1>0, <2>2, <3>2, CallStays DEF TypeOK
      <3> QED BY <3>1, <3>2
    <2> QED BY <2>7, <2>8, <2>9, InvPartsNext
  <1> QED BY <1>1, <1>2

----------------------------------------------------------------------------
(* The executor, the consumer, and what breaks.                              *)

LEMMA EmitKeeps ==
  ASSUME TaskInv, NEW t \in Tasks, NEW e \in Events, Emit(t, e)
  PROVE  TaskInv'
  <1>0. /\ TypeOK /\ RowTrue(t) /\ active[t] # NoTask /\ emitted[t] \in 0..MaxChunks
        /\ queue[t] \in Seq(Events \cup Terminal) /\ active[t] \in Task
    BY InvParts, EventSets DEF TypeOK, Emit
  <1>1. /\ Append(queue[t], e) \in Seq(Events \cup Terminal) /\ Chunks(queue[t]) \in Nat
        /\ Chunks(Append(queue[t], e)) = IF e \in TextEvents THEN Chunks(queue[t]) + 1
                                         ELSE Chunks(queue[t])
    BY <1>0, ChunksAppend, ChunksFinite
  <1>2. /\ emitted'[t] = IF e \in TextEvents THEN emitted[t] + 1 ELSE emitted[t]
        /\ emitted'[t] \in 0..MaxChunks
    BY <1>0, TaskAssumption DEF Emit, TypeOK
  <1>3. queue' = [queue EXCEPT ![t] = Append(queue[t], e)] BY <1>0 DEF Emit, TypeOK
  <1>4. TypeOK'
    <2>1. queue' \in [Tasks -> Seq(Events \cup Terminal)] BY <1>0, <1>1, <1>3 DEF TypeOK
    <2>2. emitted' \in [Tasks -> 0..MaxChunks] /\ working' \in [Tasks -> DOMAIN Emits]
      <3>1. emitted' \in [Tasks -> 0..MaxChunks] BY <1>0, <1>2 DEF Emit, TypeOK
      <3>2. working' \in [Tasks -> DOMAIN Emits] BY <1>0, EventSets DEF Emit, TypeOK
      <3> QED BY <3>1, <3>2
    <2>3. \A u \in Tasks : working'[u] # "no" \/ queue'[u] # <<>> => active'[u] # NoTask
      BY <1>0, <1>3 DEF Emit, TypeOK
    <2> QED BY <1>0, <2>1, <2>2, <2>3 DEF Emit, TypeOK
  <1>5. ASSUME NEW u \in Tasks PROVE RowTrue(u)'
    <2>1. CASE u # t BY <1>0, <1>3, <2>1, RowStays DEF Emit, TypeOK
    <2>2. CASE u = t
      <3>1. queue'[t] = Append(queue[t], e) BY <1>0, <1>3 DEF TypeOK
      <3>2. /\ FlattenSeq(active[t].text) \in Seq(Nat)
            /\ store[t] \in Task /\ FlattenSeq(store[t].text) \in Seq(Nat)
        BY <1>0, FlattenType DEF Task, TypeOK
      <3>3. /\ Len(FlattenSeq(active[t].text)) + Chunks(queue'[t]) <= emitted'[t]
            /\ Len(FlattenSeq(store[t].text)) <= emitted'[t]
        BY <1>0, <1>1, <1>2, <3>1, <3>2 DEF RowTrue
      <3> QED BY <1>0, <2>2, <3>3 DEF RowTrue, Emit
    <2> QED BY <2>1, <2>2
  <1>6. \A d \in Calls : CallTrue(d)' BY CallStays DEF Emit
  <1> QED BY <1>4, <1>5, <1>6, InvPartsNext

LEMMA ConsumeKeeps ==
  ASSUME TaskInv, NEW t \in Tasks, Consume(t)
  PROVE  TaskInv'
  <1> DEFINE q == queue[t]
             task == Applied(t, active[t], Head(q))
             over == task.state \in Terminal
             row == store'[t]
  <1>0. /\ TypeOK /\ RowTrue(t) /\ active[t] # NoTask /\ q # <<>> /\ active[t] \in Task
        /\ q \in Seq(Events \cup Terminal) /\ emitted[t] \in 0..MaxChunks
        /\ store[t].state \notin Terminal
    BY InvParts DEF TypeOK, Consume, RowTrue
  <1>1. /\ Head(q) \in Events \cup Terminal /\ Tail(q) \in Seq(Events \cup Terminal)
        /\ Chunks(q) = IF Head(q) \in TextEvents THEN Chunks(Tail(q)) + 1 ELSE Chunks(Tail(q))
        /\ Chunks(Tail(q)) \in Nat
    <2>1. Head(q) \in Events \cup Terminal /\ Tail(q) \in Seq(Events \cup Terminal)
      BY <1>0
    <2>2. Chunks(Tail(q)) \in Nat BY <2>1, ChunksFinite
    <2> HIDE DEF q
    <2> QED BY <1>0, <2>1, <2>2, ChunksTail
  <1>2. /\ task \in Task /\ InOrder(task.text) /\ task.state # "none"
        /\ task.modes = IF Head(q) \in DOMAIN Afresh THEN AnyMode
                        ELSE IF Head(q) = "snapshot" THEN store[t].modes ELSE active[t].modes
        /\ Len(FlattenSeq(task.text)) <= Len(FlattenSeq(active[t].text)) +
                                          (IF Head(q) \in TextEvents THEN 1 ELSE 0)
    <2>1. /\ InOrder(active[t].text) /\ active[t].state # "none" /\ store[t] \in Task
          /\ FlattenSeq(store[t].text) = FlattenSeq(active[t].text)
      BY <1>0 DEF RowTrue, TypeOK
    <2> QED BY <1>0, <1>1, <2>1, AppliedGrows
  <1>3. task # NoTask BY <1>2 DEF NoTask
  <1>4. /\ Save(t, task)
        /\ active' = [active EXCEPT ![t] = IF over THEN NoTask ELSE task]
        /\ queue' = [queue EXCEPT ![t] = IF over THEN <<>> ELSE Tail(q)]
        /\ working' = [working EXCEPT ![t] = IF over THEN "no" ELSE working[t]]
        /\ UNCHANGED <<emitted, call, restarts>>
    BY <1>0 DEF Consume, TypeOK
  <1> HIDE DEF task
  <1>5. /\ row \in Task /\ store' = [store EXCEPT ![t] = row]
        /\ FlattenSeq(row.text) = FlattenSeq(task.text) /\ row.state = task.state
        /\ row.modes = IF registry[t] \in {Unset, AnyMode} THEN task.modes ELSE registry[t]
        /\ registry' = IF task.state \in Terminal THEN [registry EXCEPT ![t] = Unset]
                       ELSE registry
    BY <1>0, <1>2, <1>4, SaveWrites
  <1> HIDE DEF row
  <1>6. FlattenSeq(task.text) \in Seq(Nat) /\ FlattenSeq(active[t].text) \in Seq(Nat)
    BY <1>0, <1>2, FlattenType DEF Task
  <1>7. Len(FlattenSeq(task.text)) + Chunks(Tail(q)) <= emitted[t]
    <2>1. Len(FlattenSeq(active[t].text)) + Chunks(q) <= emitted[t] BY <1>0 DEF RowTrue
    <2> QED BY <1>0, <1>1, <1>2, <1>6, <2>1
  <1>8. /\ store'[t] = row /\ registry'[t] = IF over THEN Unset ELSE registry[t]
        /\ active'[t] = IF over THEN NoTask ELSE task
        /\ queue'[t] = IF over THEN <<>> ELSE Tail(q)
        /\ \A u \in Tasks \ {t} : /\ store'[u] = store[u] /\ registry'[u] = registry[u]
                                  /\ active'[u] = active[u] /\ queue'[u] = queue[u]
    BY <1>0, <1>4, <1>5 DEF TypeOK
  <1>9. TypeOK'
    <2>1. store' \in [Tasks -> Task] /\ active' \in [Tasks -> Task]
      BY <1>0, <1>2, <1>4, <1>5, Values DEF TypeOK
    <2>2. queue' \in [Tasks -> Seq(Events \cup Terminal)]
      BY <1>0, <1>1, <1>4 DEF TypeOK
    <2>3. working' \in [Tasks -> DOMAIN Emits] /\ registry' \in [Tasks -> Modes \cup {Unset}]
      BY <1>0, <1>4, <1>5, EventSets DEF TypeOK
    <2>4. \A u \in Tasks : working'[u] # "no" \/ queue'[u] # <<>> => active'[u] # NoTask
      BY <1>0, <1>3, <1>4, <1>8 DEF TypeOK
    <2> QED BY <1>0, <1>4, <2>1, <2>2, <2>3, <2>4 DEF TypeOK
  <1>10. ASSUME NEW u \in Tasks PROVE RowTrue(u)'
    <2>1. CASE u # t BY <1>4, <1>8, <2>1, RowStays
    <2>2. CASE u = t
      <3>1. InOrder(row.text) /\ Len(FlattenSeq(row.text)) <= emitted'[t]
        BY <1>0, <1>1, <1>2, <1>4, <1>5, <1>6, <1>7 DEF InOrder
      <3>2. row # NoTask /\ row.state # "none" BY <1>2, <1>5 DEF NoTask
      <3>3. registry'[t] # AnyMode BY <1>0, <1>8, Values DEF RowTrue
      <3>4. CASE over
        <4>1. active'[t] = NoTask /\ row.state \in Terminal BY <1>5, <1>8, <3>4
        <4> QED BY <1>8, <2>2, <3>1, <3>2, <3>3, <4>1, Values DEF RowTrue
      <3>5. CASE ~ over
        <4>1. row.modes # AnyMode => registry'[t] # Unset \/ task.modes # AnyMode
          BY <1>0, <1>5, <1>8, <3>5 DEF RowTrue
        <4>2. Len(FlattenSeq(active'[t].text)) + Chunks(queue'[t]) <= emitted'[t]
          BY <1>4, <1>7, <1>8, <3>5
        <4>3. /\ active'[t] = task /\ row.state \notin Terminal /\ restarts' = restarts
              /\ registry'[t] = registry[t]
          BY <1>4, <1>5, <1>8, <3>5
        <4>4. restarts = 0 /\ task.modes # AnyMode => registry[t] # Unset
          BY <1>0, <1>2 DEF RowTrue
        <4>5. restarts' = 0 =>
                /\ active'[t].modes # AnyMode => registry'[t] # Unset
                /\ row.modes # AnyMode => registry'[t] # Unset
          BY <1>5, <4>3, <4>4
        <4>6. FlattenSeq(active'[t].text) = FlattenSeq(row.text) BY <1>5, <4>3
        <4> QED BY <1>2, <1>8, <2>2, <3>1, <3>2, <3>3, <4>1, <4>2, <4>3, <4>5, <4>6
                DEF RowTrue
      <3> QED BY <3>4, <3>5
    <2> QED BY <2>1, <2>2
  <1>11. ASSUME NEW d \in Calls PROVE CallTrue(d)'
    <2>1. ASSUME NEW u \in Tasks
          PROVE  /\ store[u].state \in Terminal => store'[u] = store[u]
                 /\ store[u] # NoTask => store'[u] # NoTask
      BY <1>0, <1>2, <1>5, <1>8 DEF NoTask
    <2> QED BY <1>4, <2>1, CallStays
  <1> QED BY <1>9, <1>10, <1>11, InvPartsNext

LEMMA SaveFailsKeeps ==
  ASSUME TaskInv, NEW t \in Tasks, SaveFails(t)
  PROVE  TaskInv'
  <1>0. TypeOK /\ RowTrue(t) BY InvParts
  <1>1. ASSUME NEW d \in Calls
        PROVE  \/ call'[d] = call[d]
               \/ /\ call'[d] = [call[d] EXCEPT !.pc = "done", !.result = "internal"]
    BY <1>1 DEF SaveFails
  <1>2. ASSUME NEW d \in Calls PROVE call'[d] \in Call
    BY <1>0, <1>1 DEF TypeOK, Call
  <1>3. TypeOK'
    <2>1. call' \in [Calls -> Call] BY <1>2 DEF SaveFails
    <2>2. /\ active' \in [Tasks -> Task] /\ queue' \in [Tasks -> Seq(Events \cup Terminal)]
          /\ working' \in [Tasks -> DOMAIN Emits]
      <3>1. <<>> \in Seq(Events \cup Terminal) OBVIOUS
      <3>2. queue' \in [Tasks -> Seq(Events \cup Terminal)]
        BY <1>0, <3>1 DEF SaveFails, TypeOK
      <3>3. working' \in [Tasks -> DOMAIN Emits] BY <1>0, EventSets DEF SaveFails, TypeOK
      <3> QED BY <1>0, <3>2, <3>3, Values DEF SaveFails, TypeOK
    <2>3. \A u \in Tasks : working'[u] # "no" \/ queue'[u] # <<>> => active'[u] # NoTask
      BY <1>0 DEF SaveFails, TypeOK
    <2> QED BY <1>0, <2>1, <2>2, <2>3 DEF SaveFails, TypeOK
  <1>4. ASSUME NEW u \in Tasks PROVE RowTrue(u)'
    <2>1. CASE u # t BY <1>0, <2>1, RowStays DEF SaveFails, TypeOK
    <2>2. CASE u = t
      <3>1. active'[t] = NoTask BY <1>0 DEF SaveFails, TypeOK
      <3> QED BY <1>0, <2>2, <3>1, Values DEF RowTrue, SaveFails
    <2> QED BY <2>1, <2>2
  <1>5. ASSUME NEW d \in Calls PROVE CallTrue(d)'
    <2>1. CASE call'[d] = call[d] BY <2>1, CallStays DEF SaveFails
    <2>2. CASE call'[d] = [call[d] EXCEPT !.pc = "done", !.result = "internal"]
      <3>1. call'[d].result = "internal" /\ call'[d].pc = "done"
        BY <1>0, <2>2 DEF TypeOK, Call
      <3> QED BY <3>1 DEF CallTrue
    <2> QED BY <1>1, <2>1, <2>2
  <1> QED BY <1>3, <1>4, <1>5, InvPartsNext

LEMMA RestartKeeps ==
  ASSUME TaskInv, Restart
  PROVE  TaskInv'
  <1>0. TypeOK BY InvParts
  <1>1. ASSUME NEW d \in Calls
        PROVE  \/ call'[d] = call[d]
               \/ /\ call'[d] = [call[d] EXCEPT !.pc = "done", !.result = "lost"]
    BY <1>1 DEF Restart
  <1>2. ASSUME NEW d \in Calls PROVE call'[d] \in Call
    BY <1>0, <1>1 DEF TypeOK, Call
  <1>3. ASSUME NEW t \in Tasks
        PROVE  /\ emitted'[t] = Len(FlattenSeq(store[t].text))
               /\ emitted'[t] \in 0..MaxChunks /\ emitted'[t] <= emitted[t]
    <2>1. emitted'[t] = Len(FlattenSeq(store[t].text)) BY DEF Restart
    <2>2. store[t] \in Task /\ RowTrue(t) BY <1>0, InvParts DEF TypeOK
    <2>3. FlattenSeq(store[t].text) \in Seq(Nat) BY <2>2, FlattenType DEF Task
    <2>4. emitted[t] \in 0..MaxChunks BY <1>0 DEF TypeOK
    <2> QED BY <2>1, <2>2, <2>3, <2>4, TaskAssumption DEF RowTrue
  <1>4. TypeOK'
    <2>1. call' \in [Calls -> Call] BY <1>2 DEF Restart
    <2>2. emitted' \in [Tasks -> 0..MaxChunks] BY <1>3 DEF Restart
    <2>3. restarts' \in 0..MaxRestarts
      <3>1. restarts < MaxRestarts /\ restarts' = restarts + 1 BY DEF Restart
      <3>2. restarts \in 0..MaxRestarts /\ MaxRestarts \in Nat
        BY <1>0, TaskAssumption DEF TypeOK
      <3> QED BY <3>1, <3>2
    <2>4. /\ active' \in [Tasks -> Task] /\ queue' \in [Tasks -> Seq(Events \cup Terminal)]
          /\ working' \in [Tasks -> DOMAIN Emits] /\ registry' \in [Tasks -> Modes \cup {Unset}]
      <3>1. <<>> \in Seq(Events \cup Terminal) OBVIOUS
      <3>2. queue' \in [Tasks -> Seq(Events \cup Terminal)] BY <3>1 DEF Restart
      <3>3. working' \in [Tasks -> DOMAIN Emits] BY EventSets DEF Restart
      <3> QED BY <3>2, <3>3, Values DEF Restart
    <2>5. \A u \in Tasks : ~ (working'[u] # "no" \/ queue'[u] # <<>>) BY DEF Restart
    <2> QED BY <1>0, <2>1, <2>2, <2>3, <2>4, <2>5 DEF Restart, TypeOK
  <1>5. ASSUME NEW u \in Tasks PROVE RowTrue(u)'
    <2>1. /\ active'[u] = NoTask /\ queue'[u] = <<>> /\ registry'[u] = Unset
          /\ store'[u] = store[u]
      BY DEF Restart
    <2>2. RowTrue(u) /\ store[u] \in Task BY <1>0, InvParts DEF TypeOK
    <2>3. FlattenSeq(store[u].text) \in Seq(Nat) BY <2>2, FlattenType DEF Task
    <2>4. Len(FlattenSeq(store[u].text)) <= emitted'[u] BY <1>3, <2>3
    <2>5. restarts' # 0
      <3>1. restarts' = restarts + 1 /\ restarts \in 0..MaxRestarts
        BY <1>0 DEF Restart, TypeOK
      <3> QED BY <3>1, TaskAssumption
    <2> QED BY <2>1, <2>2, <2>4, <2>5, Values DEF RowTrue
  <1>6. ASSUME NEW d \in Calls PROVE CallTrue(d)'
    <2>1. CASE call'[d] = call[d] BY <2>1, CallStays DEF Restart
    <2>2. CASE call'[d] = [call[d] EXCEPT !.pc = "done", !.result = "lost"]
      <3>1. call'[d].result = "lost" /\ call'[d].pc = "done"
        BY <1>0, <2>2 DEF TypeOK, Call
      <3> QED BY <3>1 DEF CallTrue
    <2> QED BY <1>1, <2>1, <2>2
  <1> QED BY <1>4, <1>5, <1>6, InvPartsNext

----------------------------------------------------------------------------
(* The theorems.                                                             *)

LEMMA NextKeeps == TaskInv /\ [Next]_vars => TaskInv'
  <1> SUFFICES ASSUME TaskInv, [Next]_vars PROVE TaskInv' OBVIOUS
  <1>1. CASE UNCHANGED vars
    BY <1>1 DEF vars, TaskInv, AnswersAreWhole, TypeOK, TextIsWhole, OnlyAcceptedModes,
                CancelVerdict, EndedIsIdle, KnownTasks, RestrictionKnown, CopyIsWhole, InOrder
  <1>2. ASSUME NEW c \in Calls, Step(c) PROVE TaskInv'
    BY <1>2, BuildKeeps, RunKeeps, SentKeeps, SdkCancelKeeps, CancelEndsKeeps DEF Step
  <1>3. ASSUME NEW c \in Calls, NEW t \in Tasks, Get(c, t) \/ Cancel(c, t) PROVE TaskInv'
    BY <1>3, GetKeeps, CancelKeeps
  <1>4. ASSUME NEW c \in Calls, NEW t \in Tasks, NEW m \in Wishes,
               NEW n \in SUBSET Needs, NEW r \in SUBSET Needs, Send(c, t, m, n, r)
        PROVE  TaskInv'
    BY <1>4, SendKeeps
  <1>5. ASSUME NEW t \in Tasks, Consume(t) \/ SaveFails(t) PROVE TaskInv'
    BY <1>5, ConsumeKeeps, SaveFailsKeeps
  <1>6. ASSUME NEW t \in Tasks, NEW e \in Events, Emit(t, e) PROVE TaskInv'
    BY <1>6, EmitKeeps
  <1>7. CASE Restart BY <1>7, RestartKeeps
  <1> QED BY <1>1, <1>2, <1>3, <1>4, <1>5, <1>6, <1>7 DEF Next

LEMMA TaskInvariant == Spec => []TaskInv
  <1>1. Init => TaskInv BY InitTrue
  <1>2. TaskInv /\ [Next]_vars => TaskInv' BY NextKeeps
  <1> QED BY <1>1, <1>2, PTL DEF Spec

\* The rows: only the consumer writes them.
LEMMA RowsWritten ==
  [Next]_vars => store' = store \/ \E t \in Tasks : Consume(t)
  <1> SUFFICES ASSUME [Next]_vars PROVE store' = store \/ \E t \in Tasks : Consume(t) OBVIOUS
  <1>1. CASE UNCHANGED vars BY <1>1 DEF vars
  <1>2. ASSUME NEW c \in Calls, Step(c) PROVE store' = store
    BY <1>2 DEF Step, Build, Run, Sent, SdkCancel, CancelEnds
  <1>3. ASSUME NEW c \in Calls, NEW t \in Tasks, Get(c, t) \/ Cancel(c, t)
        PROVE  store' = store
    BY <1>3 DEF Get, Cancel
  <1>4. ASSUME NEW c \in Calls, NEW t \in Tasks, NEW m \in Wishes,
               NEW n \in SUBSET Needs, NEW r \in SUBSET Needs, Send(c, t, m, n, r)
        PROVE  store' = store
    BY <1>4 DEF Send
  <1>5. ASSUME NEW t \in Tasks, SaveFails(t) PROVE store' = store
    BY <1>5 DEF SaveFails
  <1>6. ASSUME NEW t \in Tasks, NEW e \in Events, Emit(t, e) PROVE store' = store
    BY <1>6 DEF Emit
  <1>7. CASE Restart BY <1>7 DEF Restart
  <1> QED BY <1>1, <1>2, <1>3, <1>4, <1>5, <1>6, <1>7 DEF Next

\* The one loss of a restriction: a whole task made afresh, after a restart.
LossExcused(t) == restarts > 0 /\ registry[t] = Unset /\ Head(queue[t]) \in DOMAIN Afresh

LEMMA ConsumeSettles ==
  ASSUME TaskInv, NEW u \in Tasks, Consume(u), NEW t \in Tasks
  PROVE  /\ store[t].state \in Terminal => store'[t] = store[t]
         /\ store[t].modes # AnyMode /\ store'[t].modes = AnyMode => LossExcused(t)
  <1> DEFINE event == Head(queue[u])
             task == Applied(u, active[u], event)
  <1>0. /\ TypeOK /\ RowTrue(u) /\ active[u] \in Task /\ active[u] # NoTask
        /\ queue[u] \in Seq(Events \cup Terminal) /\ queue[u] # <<>> /\ store[u] \in Task
        /\ store[u].state \notin Terminal /\ restarts \in 0..MaxRestarts
    BY InvParts DEF TypeOK, Consume, RowTrue
  <1>1. /\ InOrder(active[u].text) /\ event \in Events \cup Terminal
        /\ active[u].state # "none"
        /\ FlattenSeq(store[u].text) = FlattenSeq(active[u].text)
    BY <1>0 DEF RowTrue
  <1>2. /\ task \in Task /\ task.state # "none"
        /\ task.modes = IF event \in DOMAIN Afresh THEN AnyMode
                        ELSE IF event = "snapshot" THEN store[u].modes ELSE active[u].modes
    BY <1>0, <1>1, AppliedGrows
  <1>3. Save(u, task) BY DEF Consume
  <1> HIDE DEF task
  <1>4. /\ store' = [store EXCEPT ![u] = store'[u]]
        /\ store'[u].modes = IF registry[u] \in {Unset, AnyMode} THEN task.modes
                             ELSE registry[u]
    BY <1>0, <1>2, <1>3, SaveWrites
  <1>5. CASE t = u
    <2>1. SUFFICES ASSUME store[u].modes # AnyMode, store'[u].modes = AnyMode
                   PROVE  LossExcused(u)
      BY <1>0, <1>5
    <2>2. registry[u] = Unset /\ task.modes = AnyMode
      BY <1>0, <1>4, <2>1, Values DEF RowTrue
    <2>3. active[u].modes # AnyMode BY <1>0, <2>1, <2>2 DEF RowTrue
    <2>4. event \in DOMAIN Afresh BY <1>2, <2>1, <2>2, <2>3
    <2>5. restarts > 0
      <3>1. restarts # 0 BY <1>0, <2>1, <2>2 DEF RowTrue
      <3> QED BY <1>0, <3>1, TaskAssumption
    <2> QED BY <2>2, <2>4, <2>5 DEF LossExcused
  <1>6. CASE t # u
    <2>1. store'[t] = store[t] BY <1>0, <1>4, <1>6 DEF TypeOK
    <2> QED BY <2>1
  <1> QED BY <1>5, <1>6

\* CancelTask's verdict is true of the task at every later moment: "canceled"
\* and "not cancelable" both rest on a terminal row, and on_cancel_task reads the
\* row again when the SDK refuses (request_handler.py).
THEOREM CancelsTellTheTruth == Spec => []CancelVerdict
  <1>1. TaskInv => CancelVerdict BY DEF TaskInv
  <1> QED BY <1>1, TaskInvariant, PTL

\* The stored text is the chunks in the order they were emitted, each once and
\* however often the appended parts are compacted between two saves, and a client
\* that restricted its output modes is given nothing else (output_modes.py,
\* task_store.py).
THEOREM AnswersHoldTheText == Spec => []AnswersAreWhole
  <1>1. TaskInv => AnswersAreWhole BY DEF TaskInv
  <1> QED BY <1>1, TaskInvariant, PTL

\* A row that reached a terminal state is never written again: not by an event
\* behind the terminal one, a cancel that crosses a completion, a failed save
\* or a restart.  A restriction of the output modes that a row records is never
\* lost while the process lives; after a restart has emptied the registry no
\* update, snapshot, cancel or later message loses it, and only a whole task the
\* non-streaming path makes afresh does (task_store.py, coordinator.py:466).
THEOREM RowsAreKept == Spec => RowIsKept
  <1> DEFINE Ended == \A t \in Tasks : store[t].state \in Terminal => store'[t] = store[t]
             Restricted == \A t \in Tasks :
                             store[t].modes # AnyMode /\ store'[t].modes = AnyMode =>
                               LossExcused(t)
  <1>1. TaskInv /\ [Next]_vars => Ended /\ Restricted
    BY RowsWritten, ConsumeSettles
  <1>2. Spec => [][Ended]_vars /\ [][Restricted]_vars
    BY <1>1, TaskInvariant, PTL DEF Spec
  <1> QED BY <1>2 DEF RowIsKept, TerminalIsFinal, RestrictionSticks, LossExcused

===========================================================================
