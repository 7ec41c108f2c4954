-------------------------- MODULE UpstreamClient --------------------------
(* The OpenCode HTTP client of opencode_upstream_client.py: the two          *)
(* fast-fail concurrency budgets, the scope of every request, the outcomes   *)
(* of a call and the reader of the event stream.  reserve() never waits: the *)
(* lock's critical sections contain no await, so taking and giving back a    *)
(* slot are single steps.  A stream is an async generator: while its         *)
(* consumer holds an event the generator is paused inside its reservation,   *)
(* and a consumer that leaves then only drops it; the event loop closes it   *)
(* in a later step.                                                          *)
EXTENDS Integers, Sequences, FiniteSets, TLC

CONSTANTS
  Callers,      \* turns and handlers that call the client
  Operations,   \* the endpoints they use
  Limit,        \* category -> concurrency limit, 0 for none
  Directory,    \* the directory of the settings, or NoValue
  Directories, Workspaces,  \* what the callers pass (NoValue included)
  ExtraKeys,    \* query parameters a remote caller may ask for
  NoValue,
  LineKinds,    \* the lines the event stream may send
  MaxLines      \* bound on the lines of one stream

Categories == {"request", "stream"}

VARIABLES
  inflight,  \* category -> the counter of its budget
  call,      \* caller -> its call
  reader     \* caller -> the state of stream_events

vars == <<inflight, call, reader>>

Endpoint(reply, scope) == [reply |-> reply, scope |-> scope]

\* What each method expects back, and which query it sends: "query" for
\* _query_params, "merge" for _merge_params, "none" for no query at all.
CreateSession == "create_session" :> Endpoint("id", "query")

SessionReads ==
  [session_status |-> Endpoint("json", "query"),
   get_session |-> Endpoint("json", "query"),
   list_child_sessions |-> Endpoint("json", "query"),
   get_session_todo |-> Endpoint("json", "query"),
   get_session_diff |-> Endpoint("json", "merge")]

AbortAndLists ==
  [abort_session |-> Endpoint("bool", "query"),
   list_sessions |-> Endpoint("json", "merge"),
   list_messages |-> Endpoint("json", "merge"),
   get_message |-> Endpoint("json", "query")]

PromptAsync == "session_prompt_async" :> Endpoint("void", "query")

SessionMutations ==
  [session_command |-> Endpoint("json", "query"),
   session_shell |-> Endpoint("json", "query"),
   fork_session |-> Endpoint("json", "query"),
   share_session |-> Endpoint("json", "query"),
   unshare_session |-> Endpoint("json", "query"),
   summarize_session |-> Endpoint("bool", "query"),
   revert_session |-> Endpoint("json", "query"),
   unrevert_session |-> Endpoint("json", "query")]

WorkspaceEndpoints ==
  [list_provider_catalog |-> Endpoint("json", "query"),
   list_projects |-> Endpoint("json", "none"),
   get_current_project |-> Endpoint("json", "none"),
   list_workspaces |-> Endpoint("json", "none"),
   create_workspace |-> Endpoint("json", "none"),
   remove_workspace |-> Endpoint("json", "none"),
   list_worktrees |-> Endpoint("json", "none"),
   create_worktree |-> Endpoint("json", "none"),
   remove_worktree |-> Endpoint("bool", "none"),
   reset_worktree |-> Endpoint("bool", "none")]

SendMessage == "send_message" :> Endpoint("message", "query")

InterruptReplies ==
  [permission_reply |-> Endpoint("bool", "query"),
   question_reply |-> Endpoint("bool", "query"),
   question_reject |-> Endpoint("bool", "query")]

StreamEvents == "stream_events" :> Endpoint("stream", "query")

Endpoints ==
  CreateSession @@ SessionReads @@ AbortAndLists @@ PromptAsync @@ SessionMutations
    @@ WorkspaceEndpoints @@ SendMessage @@ InterruptReplies @@ StreamEvents

Category(op) == IF Endpoints[op].reply = "stream" THEN "stream" ELSE "request"

-----------------------------------------------------------------------------
(* Requests *)

Query(keys, v) == [k \in keys |-> v]

\* Defect: a directory the caller passes wins over the workspace
QueryParamsDirectoryFirst(dir, ws) ==
  IF dir \notin {NoValue, ""} THEN Query({"directory"}, dir)
  ELSE IF ws \notin {NoValue, ""} THEN Query({"workspace"}, ws)
  ELSE Query({}, "")

\* The scope of a request: the workspace if one is bound, else a directory.
QueryParams(dir, ws) ==
  LET d == IF dir \in {NoValue, ""} THEN Directory ELSE dir
  IN  IF ws \notin {NoValue, ""} THEN Query({"workspace"}, ws)
      ELSE Query(IF d \in {NoValue, ""} THEN {} ELSE {"directory"}, d)

\* list_messages takes no directory of its own.
MergeParams(op, dir, ws, extra) ==
  LET scope == QueryParams(IF op = "list_messages" THEN NoValue ELSE dir, ws)
      keys == DOMAIN scope \cup (extra \ {"directory", "workspace"})
  IN  [k \in keys |-> IF k \in DOMAIN scope THEN scope[k] ELSE "remote"]

Params(op, dir, ws, extra) ==
  CASE Endpoints[op].scope = "query" -> QueryParams(dir, ws)
    [] Endpoints[op].scope = "merge" -> MergeParams(op, dir, ws, extra)
    [] OTHER -> Query({}, "")

\* What OpenCode may answer, by status and by the JSON of the body.
Answers == {"object", "object_with_id", "boolean", "list", "not_json", "no_content",
            "error_status", "no_answer"}
Json == {"object", "object_with_id", "boolean", "list"}

\* _get_json, _post_json, _delete_json: the status, then the JSON.
Decoded(answer) ==
  CASE answer = "no_answer" -> "transport_error"
    [] answer = "error_status" -> "http_error"
    [] answer \in Json -> "decoded"
    [] OTHER -> "contract_error"

\* _require_boolean_response, after decoding.
BooleanOutcome(answer) ==
  IF Decoded(answer) # "decoded" THEN Decoded(answer)
  ELSE IF answer = "boolean" THEN "ok" ELSE "runtime_error"

\* create_session looks for an id in what must be an object (a body that is
\* none raises an AttributeError, counted as a runtime error).
IdOutcome(answer) ==
  CASE Decoded(answer) # "decoded" -> Decoded(answer)
    [] answer = "object_with_id" -> "ok"
    [] OTHER -> "runtime_error"

MessageOutcome(answer) ==
  CASE Decoded(answer) # "decoded" -> Decoded(answer)
    [] answer \in {"object", "object_with_id"} -> "ok"
    [] OTHER -> "runtime_error"

\* session_prompt_async succeeds on 204 alone.
VoidOutcome(answer) ==
  CASE answer \in {"no_answer", "error_status"} -> Decoded(answer)
    [] answer = "no_content" -> "ok"
    [] OTHER -> "contract_error"

Outcome(op, answer) ==
  CASE Endpoints[op].reply = "bool" -> BooleanOutcome(answer)
    [] Endpoints[op].reply = "id" -> IdOutcome(answer)
    [] Endpoints[op].reply = "message" -> MessageOutcome(answer)
    [] Endpoints[op].reply = "void" -> VoidOutcome(answer)
    [] OTHER -> IF Decoded(answer) = "decoded" THEN "ok" ELSE Decoded(answer)

NoReader == [lines |-> <<>>, data |-> {}, events |-> <<>>, stop |-> FALSE]
NoCall == [op |-> NoValue, phase |-> "idle", query |-> Query({}, ""), asked |-> NoValue,
           result |-> NoValue, sent |-> FALSE]

Init ==
  /\ inflight = [g \in Categories |-> 0]
  /\ call = [c \in Callers |-> NoCall]
  /\ reader = [c \in Callers |-> NoReader]

\* Defect: the budget admits one call more than its limit
FullLate(g) == Limit[g] > 0 /\ inflight[g] > Limit[g]

Full(g) == Limit[g] > 0 /\ inflight[g] >= Limit[g]

Taken(g) == IF Limit[g] = 0 THEN inflight ELSE [inflight EXCEPT ![g] = @ + 1]

GivenBack(g) ==
  IF Limit[g] = 0 \/ inflight[g] = 0 THEN inflight ELSE [inflight EXCEPT ![g] = @ - 1]

\* send_message refuses a message without parts before it reserves a slot.
Malformed(op, body) == op = "send_message" /\ body = "empty"

\* Defect: the request is sent before the budget is asked
CallSendsFirst(c, op, dir, ws, extra, body) ==
  /\ call[c].phase = "idle" /\ ~Malformed(op, body)
  /\ LET made == [NoCall EXCEPT !.op = op, !.query = Params(op, dir, ws, extra),
                                !.asked = <<dir, ws>>, !.sent = TRUE]
     IN  IF Full(Category(op))
         THEN /\ call' = [call EXCEPT ![c] = [made EXCEPT !.phase = "done", !.result = "busy"]]
              /\ UNCHANGED inflight
         ELSE /\ call' = [call EXCEPT ![c] = [made EXCEPT !.phase = "waiting"]]
              /\ inflight' = Taken(Category(op))
  /\ UNCHANGED reader

\* A caller calls a method: arguments, reservation, request.
Call(c, op, dir, ws, extra, body) ==
  /\ call[c].phase = "idle"
  /\ LET made == [NoCall EXCEPT !.op = op, !.query = Params(op, dir, ws, extra),
                                !.asked = <<dir, ws>>]
         end(r) == call' = [call EXCEPT ![c] = [made EXCEPT !.phase = "done", !.result = r]]
     IN  \/ /\ Malformed(op, body) /\ end("value_error") /\ UNCHANGED inflight
         \/ /\ ~Malformed(op, body) /\ Full(Category(op)) /\ end("busy") /\ UNCHANGED inflight
         \/ /\ ~Malformed(op, body) /\ ~Full(Category(op))
            /\ inflight' = Taken(Category(op))
            /\ call' = [call EXCEPT ![c] = [made EXCEPT !.phase = "waiting", !.sent = TRUE]]
  /\ UNCHANGED reader

\* Every way out of a reservation: the slot goes back whatever the result is.
Leave(c, result) ==
  /\ inflight' = GivenBack(Category(call[c].op))
  /\ call' = [call EXCEPT ![c].phase = "done", ![c].result = result]
  /\ reader' = [reader EXCEPT ![c] = NoReader]

\* Defect: an answer of the wrong shape keeps the slot
AnswerKeepsSlot(c, answer) ==
  /\ call[c].phase = "waiting" /\ Category(call[c].op) = "request"
  /\ call' = [call EXCEPT ![c].phase = "done", ![c].result = Outcome(call[c].op, answer)]
  /\ inflight' = IF Outcome(call[c].op, answer) = "contract_error" THEN inflight
                 ELSE GivenBack("request")
  /\ UNCHANGED reader

Answer(c, answer) ==
  /\ call[c].phase = "waiting" /\ Category(call[c].op) = "request"
  /\ Leave(c, Outcome(call[c].op, answer))

\* The caller's task is cancelled in the await of the request or of a line.
Cancel(c) == /\ call[c].phase \in {"waiting", "reading"}
             /\ Leave(c, "cancelled")

-----------------------------------------------------------------------------
(* The event stream *)

StreamOpens(c) ==
  /\ call[c].phase = "waiting" /\ Category(call[c].op) = "stream"
  /\ call' = [call EXCEPT ![c].phase = "reading"]
  /\ UNCHANGED <<inflight, reader>>

\* The connection or the status fails, the stream ends, or it breaks.
StreamEnds(c, result) ==
  /\ \/ call[c].phase = "waiting" /\ result # "ended"
     \/ call[c].phase = "reading" /\ result # "http_error"
  /\ Category(call[c].op) = "stream"
  /\ Leave(c, result)

\* Data lines are told by their position in what was read.  Those of a block
\* are a JSON object: one line, or the two halves of one with blank data at
\* most around them; numbers and fragments are not.
IsEvent(lines, data) ==
  LET full == {k \in data : lines[k] # "data_empty"}
  IN  \/ \E k \in full : full = {k} /\ lines[k] = "data_object"
      \/ \E k, l \in full :
           k < l /\ full = {k, l} /\ lines[k] = "data_head" /\ lines[l] = "data_tail"

IsData(line) == line \notin {"blank", "comment", "other"}

\* Defect: a block that is not an event is not cleared
WithLineUncleared(r, line) ==
  LET event == line = "blank" /\ IsEvent(r.lines, r.data)
  IN  [lines |-> Append(r.lines, line), stop |-> r.stop,
       data |-> IF event THEN {}
                ELSE r.data \cup IF IsData(line) THEN {Len(r.lines) + 1} ELSE {},
       events |-> IF event THEN Append(r.events, r.data) ELSE r.events]

\* One line: a comment and an unknown field are skipped, data is collected, a
\* blank line ends the block.
WithLine(r, line) ==
  LET event == line = "blank" /\ IsEvent(r.lines, r.data)
  IN  [lines |-> Append(r.lines, line), stop |-> r.stop,
       data |-> IF line = "blank" THEN {}
                ELSE r.data \cup IF IsData(line) THEN {Len(r.lines) + 1} ELSE {},
       events |-> IF event THEN Append(r.events, r.data) ELSE r.events]

\* Defect: the reader does not look at the stop event
LineIgnoresStop(c, line) ==
  /\ call[c].phase = "reading" /\ Len(reader[c].lines) < MaxLines
  /\ LET r == WithLine(reader[c], line)
     IN  /\ reader' = [reader EXCEPT ![c] = r]
         /\ call' = IF Len(r.events) > Len(reader[c].events)
                    THEN [call EXCEPT ![c].phase = "paused"] ELSE call
  /\ UNCHANGED inflight

\* A line arrives: the stop event is looked at first, and an event pauses the
\* generator at its yield.
Line(c, line) ==
  /\ call[c].phase = "reading" /\ Len(reader[c].lines) < MaxLines
  /\ \/ /\ reader[c].stop /\ Leave(c, "stopped")
     \/ /\ ~reader[c].stop
        /\ LET r == WithLine(reader[c], line)
           IN  /\ reader' = [reader EXCEPT ![c] = r]
               /\ call' = IF Len(r.events) > Len(reader[c].events)
                          THEN [call EXCEPT ![c].phase = "paused"] ELSE call
        /\ UNCHANGED inflight

\* The consumer has handled the event and asks for the next one.
Resume(c) == /\ call[c].phase = "paused"
             /\ call' = [call EXCEPT ![c].phase = "reading"]
             /\ UNCHANGED <<inflight, reader>>

\* The turn sets its stop event, while the stream is open.
SetStop(c) == /\ call[c].phase \in {"reading", "paused"} /\ ~reader[c].stop
              /\ reader' = [reader EXCEPT ![c].stop = TRUE]
              /\ UNCHANGED <<inflight, call>>

\* The consumer fails or is cancelled while it handles an event: it leaves the
\* loop, and the paused generator keeps its slot.
Drop(c) == /\ call[c].phase = "paused"
           /\ call' = [call EXCEPT ![c].phase = "dropped"]
           /\ UNCHANGED <<inflight, reader>>

\* Defect: nobody closes a dropped generator
FinalizeNever(c) == FALSE /\ UNCHANGED vars

\* The event loop closes the dropped generator: its finally runs.
Finalize(c) == call[c].phase = "dropped" /\ Leave(c, "dropped")

\* The caller goes on and will make another call.
Return(c) == /\ call[c].phase = "done"
            /\ call' = [call EXCEPT ![c] = NoCall]
            /\ UNCHANGED <<inflight, reader>>

\* What these callers do with these operations, scopes and lines.
Within(callers, operations, directories, workspaces, extras, lines) ==
  \E c \in callers :
    \/ \E op \in operations, dir \in directories, ws \in workspaces,
          extra \in SUBSET extras, body \in {"full", "empty"} :
         Call(c, op, dir, ws, extra, body)
    \/ \E answer \in Answers : Answer(c, answer)
    \/ Cancel(c) \/ StreamOpens(c) \/ Resume(c) \/ SetStop(c) \/ Drop(c) \/ Finalize(c)
    \/ \E result \in {"http_error", "transport_error", "ended"} : StreamEnds(c, result)
    \/ \E line \in lines : Line(c, line)
    \/ Return(c)

Next == Within(Callers, Operations, Directories, Workspaces, ExtraKeys, LineKinds)

Spec == Init /\ [][Next]_vars

\* The event loop closes the generators it finds dropped.
Fairness == \A c \in Callers : WF_vars(Finalize(c))

FairSpec == Spec /\ Fairness

-----------------------------------------------------------------------------
(* Properties *)

Holding(g) == {c \in Callers : /\ call[c].phase \in {"waiting", "reading", "paused", "dropped"}
                               /\ Category(call[c].op) = g}

\* The counters stay natural numbers within their limits.
TypeOK ==
  /\ inflight \in [Categories -> Nat]
  /\ \A c \in Callers :
       /\ call[c].op \in Operations \cup {NoValue}
       /\ call[c].phase \in {"idle", "waiting", "reading", "paused", "dropped", "done"}
       /\ Len(reader[c].lines) <= MaxLines

\* _FastFailConcurrencyBudget: whatever way its calls end - an answer of any
\* shape, a timeout, a cancellation, an abandoned stream - a budget counts
\* exactly the calls that are inside it, so no slot is lost or given back twice.
SlotsAccounted ==
  \A g \in Categories : inflight[g] = IF Limit[g] = 0 THEN 0 ELSE Cardinality(Holding(g))

\* Calls that are inside OpenCode at once never exceed the limit.
WithinLimit == \A g \in Categories : Limit[g] > 0 => Cardinality(Holding(g)) <= Limit[g]

\* A call that failed fast, or was malformed, never reached OpenCode, so
\* making it again repeats nothing.
RefusedIsUnsent ==
  \A c \in Callers : call[c].result \in {"busy", "value_error"} => ~call[c].sent

\* _query_params and _merge_params: whatever a remote caller puts into its
\* query, a request addresses one scope, chosen by the server: the bound
\* workspace, else the directory that was passed or configured.
ScopeIsServers ==
  \A c \in Callers :
    call[c].phase # "idle" =>
      LET q == call[c].query
          scope == DOMAIN q \cap {"directory", "workspace"}
          dir == call[c].asked[1]
          ws == call[c].asked[2]
      IN  /\ Cardinality(scope) <= 1
          /\ \A k \in scope : q[k] # "remote"
          /\ Endpoints[call[c].op].scope \in {"query", "merge"} /\ ws \notin {NoValue, ""}
               => scope = {"workspace"} /\ q["workspace"] = ws
          /\ "directory" \in scope => q["directory"] \in {dir, Directory}

\* The events a whole stream of lines means: the data of each block, the lines
\* between two blank ones or before the first, that joins to an object.
Ends(lines, j) == j = 0 \/ lines[j] = "blank"

Blocks(lines) ==
  {b \in (0 .. Len(lines)) \X (1 .. Len(lines)) :
     /\ b[1] < b[2] /\ Ends(lines, b[1]) /\ Ends(lines, b[2])
     /\ \A k \in b[1] + 1 .. b[2] - 1 : lines[k] # "blank"}

DataIn(lines, i, j) == {k \in i + 1 .. j - 1 : IsData(lines[k])}

EventsIn(lines) ==
  {d \in {DataIn(lines, b[1], b[2]) : b \in Blocks(lines)} : IsEvent(lines, d)}

\* stream_events: the consumer has been given one event for every block of the
\* lines read that is a JSON object, in their order, and nothing else - no
\* block leaks into the next one, and a block the stream cut off is no event.
EventsOfTheStream ==
  \A c \in Callers :
    LET e == reader[c].events
    IN  /\ {e[n] : n \in DOMAIN e} = EventsIn(reader[c].lines)
        /\ \A m, n \in DOMAIN e : m < n => \A k \in e[m], l \in e[n] : k < l

\* Once the turn has set its stop event, the consumer is given no event more.
StoppedIsQuiet ==
  [][\A c \in Callers : reader[c].stop => reader'[c].events \in {reader[c].events, <<>>}]_vars

\* A stream its consumer has walked away from gives its slot back.
DroppedIsReleased == \A c \in Callers : call[c].phase = "dropped" ~> call[c].phase # "dropped"
=============================================================================
