----------------------------- MODULE Lifespan -----------------------------
(* The application's start and stop in server/lifespan.py.  The task store   *)
(* and the runtime state start one after the other and either may fail; the  *)
(* finally block closes what there is, last opened first, and goes on when   *)
(* one of the closings raises.                                               *)
EXTENDS Integers, Sequences, SequencesExt

\* Closing the handler drains its tasks; the stores write to the engine, and
\* the tasks of the handler to the stores.
Uses ==
  {<<"handler", "clients">>, <<"handler", "upstream">>, <<"handler", "engine">>,
   <<"handler", "task_store">>, <<"handler", "state">>,
   <<"state", "engine">>, <<"task_store", "engine">>}

VARIABLES
  database,  \* whether this application has an engine
  phase,
  live,      \* the resources that are open
  stack,     \* the callbacks still to run, the top last
  raised     \* the closings that have raised

vars == <<database, phase, live, stack, raised>>

\* create_app has built the engine, the clients and the handler before.
Built(d) == {"upstream", "clients", "handler"} \cup IF d THEN {"engine"} ELSE {}

Init == /\ database \in BOOLEAN /\ phase = "task_store"
        /\ live = Built(database) /\ stack = <<>> /\ raised = {}

\* cleanup.push_async_callback for what there is, of the resources it names.
Pushed(x, started) == IF x \in started THEN <<x>> ELSE <<>>

Push(order, started) ==
  Pushed(order[1], started) \o Pushed(order[2], started) \o Pushed(order[3], started)
    \o Pushed(order[4], started) \o Pushed(order[5], started) \o Pushed(order[6], started)

\* In the order of their use.
Order == <<"engine", "task_store", "state", "upstream", "clients", "handler">>

\* Defect: what was opened first is closed first
CleanupFifo(started) == Push(Reverse(Order), started)

\* Defect: both stores are shut down, started or not
CleanupAll(started) == Push(Order, started \cup {"task_store", "state"})

\* The callbacks of the finally block, in the order they are pushed.
Cleanup(started) == Push(Order, started)

\* One store starts, or fails and leaves the rest to the cleanup.
StartStore(x, next) ==
  /\ phase = x
  /\ \/ phase' = next /\ live' = live \cup {x} /\ UNCHANGED stack
     \/ phase' = "closing" /\ stack' = Cleanup(live) /\ UNCHANGED live
  /\ UNCHANGED <<database, raised>>

\* The server stops, or a request cancels it.
Stop == /\ phase = "serving"
        /\ phase' = "closing" /\ stack' = Cleanup(live)
        /\ UNCHANGED <<database, live, raised>>

\* Defect: a closing that raises ends the cleanup
CloseUntilFailure ==
  /\ phase = "closing" /\ stack # <<>>
  /\ \/ stack' = Front(stack) /\ UNCHANGED raised
     \/ stack' = <<>> /\ raised' = raised \cup {Last(stack)}
  /\ live' = live \ {Last(stack)}
  /\ UNCHANGED <<database, phase>>

\* AsyncExitStack runs the callback pushed last; an exception of it, a
\* cancellation included, does not keep the others from running.
Close ==
  /\ phase = "closing" /\ stack # <<>>
  /\ stack' = Front(stack)
  /\ live' = live \ {Last(stack)}
  /\ raised' \in {raised, raised \cup {Last(stack)}}
  /\ UNCHANGED <<database, phase>>

End == /\ phase = "closing" /\ stack = <<>>
       /\ phase' = "ended"
       /\ UNCHANGED <<database, live, stack, raised>>

Next == StartStore("task_store", "state") \/ StartStore("state", "serving") \/ Stop \/ Close \/ End

Spec == Init /\ [][Next]_vars

-----------------------------------------------------------------------------
(* Properties *)

\* lifespan: however the start went and whatever raised on the way, an
\* application that has ended has closed everything it had opened.
EverythingClosed == phase = "ended" => live = {}

\* Nothing is closed while something is open whose closing may use it: the
\* handler drains its tasks while the clients and the stores are there.
UsersCloseFirst ==
  [][\A u \in Uses : u[2] \in live \ live' => u[1] \notin live']_vars

\* A store that did not start is never shut down.
OnlyStartedIsClosed == Range(stack) \subseteq live
=============================================================================
