---------------------------- MODULE TaskService ----------------------------
(* Tasks as clients see them: OpencodeRequestHandler                         *)
(* (server/request_handler.py) over the negotiating task store               *)
(* (server/task_store.py) and the output-mode rules (output_modes.py).  The  *)
(* SDK's active task is external: it queues the executor's events, applies   *)
(* them to its own copy of the task and saves it through the wrapper, up to  *)
(* and including the first terminal event.  An update changes the copy, a    *)
(* whole task takes its place.                                               *)
EXTENDS Integers, Sequences, FiniteSets, SequencesExt

CONSTANTS
  Tasks, Calls,
  Wishes,       \* what a message may say of output modes: AnyMode or a set
  AnyMode,      \* no restriction: absent, "*" or "*/*"
  Needs,        \* extensions a message's metadata may call for
  MaxChunks,    \* bound on a task's text chunks
  MaxQueued,    \* bound on the events that wait while the executor emits more
  MaxRestarts   \* bound on restarts

Text == "text/plain"
Json == "application/json"
Terminal == {"completed", "failed", "canceled"}
TaskStates ==
  {"none", "submitted", "working", "input_required", "auth_required"} \cup Terminal

VARIABLES
  store,      \* task -> the persisted row
  active,     \* task -> the SDK's copy of a task it works on, or NoTask
  queue,      \* task -> events the executor has emitted and nobody consumed
  working,    \* task -> how the executor runs it: as a stream, for one reply, or "no"
  registry,   \* task -> TaskOutputModeRegistry, Unset for no entry
  emitted,    \* task -> chunks emitted since the task was created
  call,       \* call -> the request it serves and how far it is
  restarts

vars == <<store, active, queue, working, registry, emitted, call, restarts>>

Unset == {"unset"}
Modes == {AnyMode} \cup (SUBSET {Text, Json} \ {{}})

ASSUME TaskAssumption ==
  /\ Tasks # {} /\ MaxChunks \in Nat /\ MaxQueued \in Nat /\ MaxRestarts \in Nat
  /\ AnyMode \notin (SUBSET {Text, Json}) \cup {Unset}
  /\ Wishes \subseteq Modes

(* A task: its state, the modes in its metadata, its text artifact as a      *)
(* sequence of parts (each the chunks it is made of), and a data part.       *)
NoTask == [state |-> "none", modes |-> AnyMode, text |-> <<>>, data |-> FALSE]
Idle == [kind |-> "idle", task |-> CHOOSE t \in Tasks : TRUE, modes |-> AnyMode,
         pc |-> "idle", result |-> "none", view |-> {}]

Init ==
  /\ store = [t \in Tasks |-> NoTask]
  /\ active = store
  /\ queue = [t \in Tasks |-> <<>>]
  /\ working = [t \in Tasks |-> "no"]
  /\ registry = [t \in Tasks |-> Unset]
  /\ emitted = [t \in Tasks |-> 0]
  /\ call = [c \in Calls |-> Idle]
  /\ restarts = 0

----------------------------------------------------------------------------
(* Output modes.                                                             *)

AcceptsMode(modes, type) == modes = AnyMode \/ type \in modes

\* The registry first, then the metadata of the task.
Resolve(t, task) == IF registry[t] # Unset THEN registry[t] ELSE task.modes

\* annotate_output_negotiation_metadata: no restriction leaves the task alone.
Annotate(task, modes) == IF modes = AnyMode THEN task ELSE [task EXCEPT !.modes = modes]

\* Defect: only the newest part of the text is kept
CanonicalLast(task) ==
  IF task.text = <<>> THEN task ELSE [task EXCEPT !.text = <<Last(@)>>]

\* canonicalize_stream_artifacts: the appended text parts become one.
Canonical(task) == IF task.text = <<>> THEN task ELSE [task EXCEPT !.text = <<FlattenSeq(@)>>]

\* Defect: data is passed on in a mode the client does not accept
FilterPartsLoose(task, modes) ==
  {type \in {Text, Json} :
     \/ type = Text /\ task.text # <<>> /\ AcceptsMode(modes, Text)
     \/ type = Json /\ task.data}

\* The media types a client gets: data it does not accept becomes text.
FilterParts(task, modes) ==
  {type \in {Text, Json} :
     \/ type = Text /\ task.text # <<>> /\ AcceptsMode(modes, Text)
     \/ type = Json /\ task.data /\ AcceptsMode(modes, Json)
     \/ type = Text /\ task.data /\ ~AcceptsMode(modes, Json) /\ AcceptsMode(modes, Text)}

\* apply_accepted_output_modes on a task and the metadata that records them.
Negotiate(t, task) == FilterParts(task, Resolve(t, task))

----------------------------------------------------------------------------
(* The store's wrapper.                                                      *)

Remember(t, modes) == registry' = [registry EXCEPT ![t] = modes]
Clear(t) == registry' = [registry EXCEPT ![t] = Unset]

\* Defect: the registry entry is dropped after every save
AfterSaveAlways(t, state) == Clear(t)

AfterSave(t, state) == IF state \in Terminal THEN Clear(t) ELSE UNCHANGED registry

\* NegotiatingVersionedTaskStore.save: what is written is a copy, compacted and
\* annotated; the SDK's own copy stays as it is.
Save(t, task) ==
  /\ store' = [store EXCEPT ![t] = Annotate(Canonical(task), Resolve(t, task))]
  /\ AfterSave(t, task.state)

----------------------------------------------------------------------------
(* SendMessage.                                                              *)

Finish(c, result, view) ==
  call' = [call EXCEPT ![c].pc = "done", ![c].result = result, ![c].view = view]

\* _validate_chat_output_modes: a restriction must leave plain text.
ModesUsable(modes) == modes = AnyMode \/ Text \in modes

\* _validate_shared_extension_negotiation: metadata that needs an extension is
\* only accepted from a client that asked for it.
Negotiated(needs, requested) == needs \subseteq requested

Send(c, t, modes, needs, requested) ==
  /\ call[c].pc = "idle"
  /\ IF ModesUsable(modes) /\ Negotiated(needs, requested)
     THEN call' = [call EXCEPT ![c] = [Idle EXCEPT !.kind = "send", !.task = t,
                                                   !.modes = modes, !.pc = "build"]]
     ELSE call' = [call EXCEPT ![c] = [Idle EXCEPT !.kind = "send", !.task = t,
                                                   !.pc = "done", !.result = "unsupported"]]
  /\ UNCHANGED <<store, active, queue, working, registry, emitted, restarts>>

\* The request context is built: modes are remembered before the SDK has decided
\* what becomes of the message.
Build(c) ==
  /\ call[c].kind = "send" /\ call[c].pc = "build"
  /\ IF call[c].modes # AnyMode THEN Remember(call[c].task, call[c].modes)
                                ELSE UNCHANGED registry
  /\ call' = [call EXCEPT ![c].pc = "run"]
  /\ UNCHANGED <<store, active, queue, working, emitted, restarts>>

\* The SDK takes the message on, unless the task has ended; the executor streams
\* or replies once, as the client's call and the settings have it.
Run(c) ==
  LET t == call[c].task IN
  /\ call[c].kind = "send" /\ call[c].pc = "run" /\ working[t] = "no"
  /\ IF store[t].state \in Terminal
     THEN /\ Finish(c, "unsupported", {})
          /\ UNCHANGED <<active, working>>
     ELSE /\ call' = [call EXCEPT ![c].pc = "wait"]
          /\ \E how \in {"stream", "reply"} : working' = [working EXCEPT ![t] = how]
          /\ active' = [active EXCEPT ![t] =
                          IF @ # NoTask THEN @ ELSE [store[t] EXCEPT !.state = "submitted"]]
  /\ UNCHANGED <<store, queue, registry, emitted, restarts>>

\* What a run may emit: a copy of the task it began with, updates of it, and
\* for one reply a whole task made afresh, of a response or of an error.
Emits == [no |-> {},
          stream |-> {"snapshot", "chunk", "data", "working"} \cup
                     {"input_required", "auth_required", "completed", "failed"},
          reply |-> {"snapshot", "response", "error", "denied"}]

Ends == {"auth_required", "completed", "failed", "response", "error", "denied"}
TextEvents == {"chunk", "response"}

Begun(t) == \/ active[t].state \in {"working", "input_required"}
            \/ Contains(queue[t], "snapshot")

\* The executor emits an event.  A stream begins with its snapshot, unless it
\* fails before.
Emit(t, event) ==
  /\ event \in Emits[working[t]]
  /\ Len(queue[t]) < MaxQueued
  /\ event \in TextEvents => emitted[t] < MaxChunks
  /\ event = "snapshot" => ~Begun(t) /\ queue[t] = <<>>
  /\ event \in Emits.stream \ {"snapshot", "failed"} => Begun(t)
  /\ event = "data" => ~active[t].data /\ ~Contains(queue[t], "data")
  /\ event = "working" => "input_required" \in {active[t].state} \cup ToSet(queue[t])
  /\ queue' = [queue EXCEPT ![t] = Append(@, event)]
  /\ emitted' = [emitted EXCEPT ![t] = IF event \in TextEvents THEN @ + 1 ELSE @]
  /\ working' = [working EXCEPT ![t] = IF event \in Ends THEN "no" ELSE @]
  /\ UNCHANGED <<store, active, registry, call, restarts>>

\* A whole task made afresh has nothing of the one before: no output modes, no
\* data, and of text only what the response brings.
Afresh == [response |-> [NoTask EXCEPT !.state = "completed", !.text = <<<<1>>>>],
           error |-> [NoTask EXCEPT !.state = "failed"],
           denied |-> [NoTask EXCEPT !.state = "auth_required"]]

\* Defect: the snapshot is a new task although there is one
AppliedBare(t, task, event) ==
  CASE event \in DOMAIN Afresh -> Afresh[event]
    [] event = "snapshot" -> [NoTask EXCEPT !.state = "working"]
    [] event = "chunk" -> [task EXCEPT !.text = Append(@, <<Len(FlattenSeq(@)) + 1>>)]
    [] event = "data" -> [task EXCEPT !.data = TRUE]
    [] OTHER -> [task EXCEPT !.state = event]

\* An event applied to the SDK's copy; nothing has written the row since the
\* snapshot was made of it.
Applied(t, task, event) ==
  CASE event \in DOMAIN Afresh -> Afresh[event]
    [] event = "snapshot" -> [store[t] EXCEPT !.state = "working"]
    [] event = "chunk" -> [task EXCEPT !.text = Append(@, <<Len(FlattenSeq(@)) + 1>>)]
    [] event = "data" -> [task EXCEPT !.data = TRUE]
    [] OTHER -> [task EXCEPT !.state = event]

\* Defect: events after the terminal one are consumed as well
ConsumeAll(t) ==
  /\ queue[t] # <<>>
  /\ LET task == Applied(t, active[t], Head(queue[t]))
     IN  /\ Save(t, task)
         /\ active' = [active EXCEPT ![t] = task]
         /\ queue' = [queue EXCEPT ![t] = Tail(@)]
         /\ working' = [working EXCEPT ![t] = IF task.state \in Terminal THEN "no" ELSE @]
  /\ UNCHANGED <<emitted, call, restarts>>

\* The SDK consumes an event, saves the task, and lets go of it when it ends:
\* whatever is still queued is dropped.
Consume(t) ==
  /\ queue[t] # <<>> /\ active[t] # NoTask
  /\ LET task == Applied(t, active[t], Head(queue[t]))
         over == task.state \in Terminal
     IN  /\ Save(t, task)
         /\ active' = [active EXCEPT ![t] = IF over THEN NoTask ELSE task]
         /\ queue' = [queue EXCEPT ![t] = IF over THEN <<>> ELSE Tail(@)]
         /\ working' = [working EXCEPT ![t] = IF over THEN "no" ELSE @]
  /\ UNCHANGED <<emitted, call, restarts>>

\* Defect: the queue of a task that was let go is kept
SaveFailsQueued(t) ==
  /\ queue[t] # <<>> /\ active[t] # NoTask
  /\ active' = [active EXCEPT ![t] = NoTask]
  /\ working' = [working EXCEPT ![t] = "no"]
  /\ UNCHANGED <<store, queue, registry, emitted, call, restarts>>

\* The backend fails under a save: a service error, the task is let go.
SaveFails(t) ==
  /\ queue[t] # <<>> /\ active[t] # NoTask
  /\ active' = [active EXCEPT ![t] = NoTask]
  /\ queue' = [queue EXCEPT ![t] = <<>>]
  /\ working' = [working EXCEPT ![t] = "no"]
  /\ call' = [c \in Calls |->
                IF call[c].task = t /\ call[c].pc \in {"wait", "cancelling"}
                THEN [call[c] EXCEPT !.pc = "done", !.result = "internal"] ELSE call[c]]
  /\ UNCHANGED <<store, registry, emitted, restarts>>

\* A message is answered with the task when it has settled.
Sent(c) ==
  LET t == call[c].task IN
  /\ call[c].kind = "send" /\ call[c].pc = "wait"
  /\ working[t] = "no" /\ queue[t] = <<>> /\ store[t] # NoTask
  /\ LET modes == IF call[c].modes # AnyMode THEN call[c].modes ELSE Resolve(t, store[t])
     IN  Finish(c, "task", FilterParts(store[t], modes))
  /\ UNCHANGED <<store, active, queue, working, registry, emitted, restarts>>

----------------------------------------------------------------------------
(* GetTask and CancelTask.                                                   *)

Get(c, t) ==
  /\ call[c].pc = "idle"
  /\ call' = [call EXCEPT ![c] =
                [Idle EXCEPT !.kind = "get", !.task = t, !.pc = "done",
                   !.modes = Resolve(t, store[t]),
                   !.result = IF store[t] = NoTask THEN "not_found" ELSE "task",
                   !.view = Negotiate(t, store[t])]]
  /\ UNCHANGED <<store, active, queue, working, registry, emitted, restarts>>

Canceled(c, t) == Finish(c, "canceled", Negotiate(t, store[t]))

\* Defect: the task is not looked at again when the SDK refuses
RefusedAtOnce(c, t) == Finish(c, "not_cancelable", {})

\* TaskNotCancelableError: somebody else may have canceled it in the meantime.
Refused(c, t) ==
  IF store[t].state = "canceled" THEN Canceled(c, t) ELSE Finish(c, "not_cancelable", {})

\* on_cancel_task reads the task before it hands over to the SDK; one that has
\* ended otherwise is refused there as the SDK refuses it.
Cancel(c, t) ==
  /\ call[c].pc = "idle"
  /\ call' = [call EXCEPT ![c] =
       LET start == [Idle EXCEPT !.kind = "cancel", !.task = t]
           over(r) == [start EXCEPT !.pc = "done", !.result = r]
       IN  CASE store[t] = NoTask -> over("not_found")
             [] store[t].state = "canceled" ->
                  [over("canceled") EXCEPT !.view = Negotiate(t, store[t])]
             [] OTHER -> [start EXCEPT !.pc = "cancel"]]
  /\ UNCHANGED <<store, active, queue, working, registry, emitted, restarts>>

\* The SDK: a task that ended since is refused; otherwise the executor's cancel
\* puts "canceled" on the queue, and an error behind it when cancelling fails.
SdkCancel(c) ==
  LET t == call[c].task IN
  /\ call[c].kind = "cancel" /\ call[c].pc = "cancel"
  /\ IF store[t].state \in Terminal
     THEN Refused(c, t) /\ UNCHANGED <<active, queue, working>>
     ELSE /\ call' = [call EXCEPT ![c].pc = "cancelling"]
          /\ active' = [active EXCEPT ![t] = IF @ # NoTask THEN @ ELSE store[t]]
          /\ \E tail \in {<<"canceled">>, <<"canceled", "error">>} :
               queue' = [queue EXCEPT ![t] = @ \o tail]
          /\ working' = [working EXCEPT ![t] = "no"]
  /\ UNCHANGED <<store, registry, emitted, restarts>>

\* Defect: only a canceled task ends the wait
CancelEndsCanceled(c) ==
  /\ call[c].kind = "cancel" /\ call[c].pc = "cancelling"
  /\ store[call[c].task].state = "canceled"
  /\ Canceled(c, call[c].task)
  /\ UNCHANGED <<store, active, queue, working, registry, emitted, restarts>>

CancelEnds(c) ==
  LET t == call[c].task IN
  /\ call[c].kind = "cancel" /\ call[c].pc = "cancelling"
  /\ store[t].state \in Terminal
  /\ IF store[t].state = "canceled" THEN Canceled(c, t) ELSE Refused(c, t)
  /\ UNCHANGED <<store, active, queue, working, registry, emitted, restarts>>

\* The process stops: what was not saved is gone, with every call.
Restart ==
  /\ restarts < MaxRestarts /\ restarts' = restarts + 1
  /\ active' = [t \in Tasks |-> NoTask]
  /\ queue' = [t \in Tasks |-> <<>>]
  /\ working' = [t \in Tasks |-> "no"]
  /\ registry' = [t \in Tasks |-> Unset]
  /\ call' = [c \in Calls |-> IF call[c].pc \in {"idle", "done"} THEN call[c]
                              ELSE [call[c] EXCEPT !.pc = "done", !.result = "lost"]]
  /\ emitted' = [t \in Tasks |-> Len(FlattenSeq(store[t].text))]
  /\ UNCHANGED store

Events == Emits.stream \cup Emits.reply

Step(c) == Build(c) \/ Run(c) \/ Sent(c) \/ SdkCancel(c) \/ CancelEnds(c)

Next ==
  \/ \E c \in Calls : Step(c)
  \/ \E c \in Calls, t \in Tasks :
       \/ Get(c, t) \/ Cancel(c, t)
       \/ \E m \in Wishes, n, r \in SUBSET Needs : Send(c, t, m, n, r)
  \/ \E t \in Tasks : Consume(t) \/ SaveFails(t) \/ \E e \in Events : Emit(t, e)
  \/ Restart

Spec == Init /\ [][Next]_vars

\* The event loop runs the handlers and the SDK's consumer; the executor and the
\* clients do as they please.
Fairness ==
  /\ \A c \in Calls : WF_vars(SdkCancel(c)) /\ WF_vars(CancelEnds(c))
  /\ \A t \in Tasks : WF_vars(Consume(t))

FairSpec == Spec /\ Fairness

----------------------------------------------------------------------------
Task == [state : TaskStates, modes : Modes, text : Seq(Seq(Nat)), data : BOOLEAN]

Call == [kind : {"idle", "send", "get", "cancel"}, task : Tasks, modes : Modes,
         pc : {"idle", "build", "run", "wait", "cancel", "cancelling", "done"},
         result : {"none", "task", "not_found", "unsupported", "canceled",
                   "not_cancelable", "internal", "lost"},
         view : SUBSET {Text, Json}]

\* Types; only a task somebody works on has an executor or events.
TypeOK ==
  /\ store \in [Tasks -> Task] /\ active \in [Tasks -> Task]
  /\ queue \in [Tasks -> Seq(Events \cup Terminal)] /\ working \in [Tasks -> DOMAIN Emits]
  /\ registry \in [Tasks -> Modes \cup {Unset}] /\ emitted \in [Tasks -> 0 .. MaxChunks]
  /\ call \in [Calls -> Call] /\ restarts \in 0 .. MaxRestarts
  /\ \A t \in Tasks : working[t] # "no" \/ queue[t] # <<>> => active[t] # NoTask

\* A task that has ended stays as it ended, also when a failing cancel emits
\* a failed task behind "canceled", a completion and a cancel cross, or the process
\* restarts in between (docs/compatibility.md: no mutations are persisted after
\* the terminal event).
TerminalIsFinal ==
  [][\A t \in Tasks : store[t].state \in Terminal => store'[t] = store[t]]_vars

\* What guide.md promises: a client's restriction of the output modes, once saved
\* with a task, is there in every later save, so that later reads keep it.
RestrictionNeverLost ==
  [][\A t \in Tasks : store[t].modes # AnyMode => store'[t].modes # AnyMode]_vars

\* What the code keeps of it: only a whole task made afresh takes the restriction
\* away, and only when a restart has emptied the registry since the client set
\* it.  No update, snapshot, cancel or later message does, and nothing does as
\* long as the process lives.
RestrictionSticks ==
  [][\A t \in Tasks : store[t].modes # AnyMode /\ store'[t].modes = AnyMode =>
       restarts > 0 /\ registry[t] = Unset /\ Head(queue[t]) \in DOMAIN Afresh]_vars

\* The verdict of a cancel is true of the task it leaves behind: "canceled" means
\* it is canceled, also for the second of two cancels, and "not cancelable" that
\* it ended otherwise.
CancelVerdict ==
  \A c \in Calls :
    /\ call[c].result = "canceled" => store[call[c].task].state = "canceled"
    /\ call[c].result = "not_cancelable" =>
         store[call[c].task].state \in Terminal \ {"canceled"}

\* Compacting the appended parts loses and repeats nothing: the stored text is
\* the chunks in order, whatever was saved in between.
TextIsWhole ==
  \A t \in Tasks :
    LET text == FlattenSeq(store[t].text)
    IN  Len(text) <= emitted[t] /\ \A i \in DOMAIN text : text[i] = i

\* A client that named modes gets nothing else, and data it does not take as
\* such it gets as text.
OnlyAcceptedModes ==
  \A c \in Calls :
    call[c].result = "task" /\ call[c].modes # AnyMode => call[c].view \subseteq call[c].modes

\* A cancel that was handed to the SDK comes to an end.
CancelAnswered == \A c \in Calls : call[c].pc = "cancel" ~> call[c].pc = "done"

\* What a client reads of a task is all of its text in the modes it accepts, and
\* nothing else, while the task grows and its chunks are compacted
\* (output_modes.py, request_handler.py).
AnswersAreWhole == TypeOK /\ TextIsWhole /\ OnlyAcceptedModes

\* No save, late event or restart takes back what a task's row has settled: its
\* terminal state and its restriction of output modes (task_store.py).
RowIsKept == TerminalIsFinal /\ RestrictionSticks

----------------------------------------------------------------------------
(* What makes these properties inductive.                                    *)

\* Nobody works on a task that has ended: SendMessage and CancelTask look at the
\* row, and the consumer lets go of the task with its terminal event.
EndedIsIdle == \A t \in Tasks : store[t].state \in Terminal => active[t] = NoTask

\* A task that is known has a state, and one a cancel waits for is known.
KnownTasks ==
  /\ \A t \in Tasks : /\ active[t] # NoTask => active[t].state # "none"
                      /\ store[t] # NoTask => store[t].state # "none"
  /\ \A c \in Calls : call[c].kind = "cancel" /\ call[c].pc = "cancel" =>
                        store[call[c].task] # NoTask

\* While somebody works on a task with a restriction, the registry still has it
\* or the SDK's copy was read from a row that had it; without a restart the
\* registry has it until the task ends.
RestrictionKnown ==
  \A t \in Tasks :
    /\ registry[t] # AnyMode
    /\ store[t].modes # AnyMode /\ active[t] # NoTask =>
         registry[t] # Unset \/ active[t].modes # AnyMode
    /\ restarts = 0 =>
         /\ active[t].modes # AnyMode => registry[t] # Unset
         /\ store[t].modes # AnyMode /\ store[t].state \notin Terminal => registry[t] # Unset

InOrder(text) == \A i \in DOMAIN FlattenSeq(text) : FlattenSeq(text)[i] = i

Chunks(q) == Cardinality({i \in DOMAIN q : q[i] \in TextEvents})

\* The SDK's copy is whole too and has the text of the row, and with the chunks
\* still queued no more than was emitted.
CopyIsWhole ==
  \A t \in Tasks :
    /\ InOrder(active[t].text)
    /\ active[t] # NoTask =>
         /\ FlattenSeq(active[t].text) = FlattenSeq(store[t].text)
         /\ Len(FlattenSeq(active[t].text)) + Chunks(queue[t]) <= emitted[t]

TaskInv == /\ AnswersAreWhole /\ CancelVerdict
           /\ EndedIsIdle /\ KnownTasks /\ RestrictionKnown /\ CopyIsWhole

============================================================================
