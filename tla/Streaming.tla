------------------------------ MODULE Streaming ------------------------------
(***************************************************************************)
(* One streaming turn: the upstream event stream, the task that consumes   *)
(* it (execution/stream_runtime.py), the output state it shares with the   *)
(* coordinator (stream_state.py), the coordinator that waits for the       *)
(* response and for the terminal signal (coordinator.py), a cancel         *)
(* (executor.py) and the client that assembles the artifacts.              *)
(*                                                                         *)
(* Text is a sequence of tokens, one of which is blank.  An event of the   *)
(* task is seen by the client when it is put on the event queue; taking    *)
(* its sequence number is an earlier step.                                 *)
(***************************************************************************)
EXTENDS Integers, Sequences, SequencesExt

CONSTANTS
    None,
    Tokens, Blank,
    UserText,    \* the text of the request
    Turns        \* the turns a behaviour may be about

Bounds == {"text", "wire", "drops", "rounds", "events"}

\* What an artifact may be called, and what is put on the event queue: a chunk
\* of an artifact or a progress status, with its sequence number.
Lanes == {"text", "reasoning"} \cup UNION {DOMAIN t.block : t \in Turns}
Sent == [art : {None}, seq : Nat] \cup
        [art : Lanes, text : Seq(Tokens), append : BOOLEAN, seq : Nat]

\* A turn: block type and role of the parts upstream will name, the texts the
\* HTTP response may carry, whether the turn holds a pending claim until the
\* response, whether upstream may rewrite the text of a part; and the bounds.
ASSUME StreamingAssumption ==
    /\ Blank \in Tokens /\ UserText \in Seq(Tokens)
    /\ \A t \in Turns :
        /\ DOMAIN t.block = DOMAIN t.role
        /\ Range(t.block) \subseteq {"text", "reasoning", "tool", "other"}
        /\ Range(t.role) \subseteq {"none", "agent", "user"}
        /\ t.responses \subseteq Seq(Tokens)
        /\ {t.preferred, t.rewrites} \subseteq BOOLEAN
        /\ t.max \in [Bounds -> Nat]
        /\ DOMAIN t.block \cap {"text", "reasoning"} = {}
    /\ None \notin Sent \cup Seq(Tokens) \cup Lanes \cup {"completed", "failed"}

VARIABLES
    turn,        \* the turn this behaviour is about
    \* upstream: text of the parts, events on the wire, what was dropped
    truth, wire, said, lost, drops,
    \* consume(): control, part_states, pending_deltas, chunks being emitted
    st, buffer, pend, todo, held,
    \* _StreamOutputState, the terminal signal and the stop event
    abuf, emitted, progress, err, sig, stop, seq,
    \* the coordinator and a cancel
    pc, resp, claim, rounds, cx,
    \* the client: artifacts, sequence numbers seen, terminal states, artifacts after them
    client, got, ended, late

upstream == <<truth, wire, said, lost, drops>>
runtime  == <<st, buffer, pend, todo, held>>
output   == <<abuf, emitted, progress, err, sig, stop, seq>>
coord    == <<pc, resp, claim, rounds>>
seen     == <<client, got, ended, late>>
vars     == <<upstream, runtime, output, coord, cx, seen>>

Parts     == DOMAIN turn.block
Block     == turn.block
Role      == turn.role
Responses == turn.responses

\* _resolve_stream_artifact_id: one text and one reasoning lane, a tool lane per part.
Artifact(p) == CASE Block[p] = "text" -> "text" [] Block[p] = "reasoning" -> "reasoning"
                 [] OTHER -> p
Artifacts == {"text", "reasoning"} \cup Parts

Init ==
    /\ turn \in Turns
    /\ truth = [p \in Parts |-> <<>>] /\ wire = <<>> /\ said = 0 /\ lost = "none" /\ drops = 0
    /\ st = "connect" /\ buffer = [p \in Parts |-> None] /\ pend = [p \in Parts |-> <<>>]
    /\ todo = <<>> /\ held = None
    /\ abuf = [a \in Artifacts |-> <<>>] /\ emitted = {} /\ progress = None
    /\ err = FALSE /\ sig = None /\ stop = FALSE /\ seq = 0
    /\ pc = "send" /\ resp = None /\ claim = turn.preferred /\ rounds = 0 /\ cx = "idle"
    /\ client = [a \in Artifacts |-> <<>>] /\ got = <<>> /\ ended = <<>> /\ late = {}

-----------------------------------------------------------------------------
(* Texts *)

\* str.strip()
Strip(s) ==
    LET ink == {i \in DOMAIN s : s[i] # Blank}
    IN  IF ink = {} THEN <<>> ELSE SubSeq(s, Min(ink), Max(ink))

-----------------------------------------------------------------------------
(* Upstream (external): what it tells anybody who reads the event stream *)

Terminal(e) == e.kind \in {"idle", "error"}

\* What a reader that is not connected loses of the events S.
Missed(S) == IF \E e \in S : Terminal(e) THEN "terminal"
             ELSE IF S # {} /\ lost = "none" THEN "some" ELSE lost

\* An event reaches the wire of a connected reader and is lost by one that
\* is between two connections.
Say(e) ==
    /\ pc # "done" /\ Len(wire) < turn.max.wire
    /\ said < turn.max.events \/ (said = turn.max.events /\ Terminal(e))
    /\ said' = said + 1
    /\ CASE st \in {"read", "emit"} -> wire' = Append(wire, e) /\ UNCHANGED lost
         [] st \in {"connect", "backoff"} -> lost' = Missed({e}) /\ UNCHANGED wire
         [] OTHER -> UNCHANGED <<wire, lost>>
    /\ UNCHANGED drops

Grow(p, t) == Len(truth[p]) < turn.max.text /\ truth' = [truth EXCEPT ![p] = Append(@, t)]

UpstreamText(p, t) ==
    /\ Grow(p, t)
    /\ \/ Block[p] # "tool" /\ Say([kind |-> "delta", part |-> p, text |-> <<t>>])
       \/ Block[p] # "tool" /\ Say([kind |-> "inline", part |-> p, text |-> <<t>>])
       \/ Say([kind |-> "updated", part |-> p, text |-> truth'[p]])
    /\ UNCHANGED <<runtime, output, coord, cx, seen>>

\* The text of a part is announced again, or rewritten.
UpstreamRepeats(p) ==
    /\ \/ UNCHANGED truth
       \/ turn.rewrites /\ truth[p] # <<>> /\ truth' = [truth EXCEPT ![p] = Tail(@)]
    /\ Say([kind |-> "updated", part |-> p, text |-> truth'[p]])
    /\ UNCHANGED <<runtime, output, coord, cx, seen>>

UpstreamSays(k) ==
    /\ Say([kind |-> k])
    /\ UNCHANGED <<truth, runtime, output, coord, cx, seen>>

-----------------------------------------------------------------------------
(* The client (external): artifacts are replaced or appended to *)

Put(a, text, append) ==
    /\ client' = [client EXCEPT ![a] = IF append THEN @ \o text ELSE text]
    /\ late' = late \cup Range(ended)

-----------------------------------------------------------------------------
(* consume() *)

Chunk(p, text) == [art |-> Artifact(p), part |-> p, text |-> text]

\* _extract_upstream_error_from_event
ErrorIn(e) == e.kind \in {"error", "message_error"}

\* An event that produces chunks: they are emitted one by one.
Emit(chunks) == todo' = chunks /\ st' = IF chunks = <<>> THEN "read" ELSE "emit"

\* _upsert_part_state: the part becomes known; an unmapped type or the part
\* of another role is not streamed.
Known(p) == IF buffer[p] = None THEN <<>> ELSE buffer[p]
Streamed(p) == Block[p] # "other" /\ Role[p] # "user"

\* Mutant of DeltaEvent: a delta of a part not yet known is dropped.
DeltaEventForgets(e) ==
    LET p == e.part IN
    /\ IF buffer[p] = None THEN Emit(<<>>) /\ UNCHANGED buffer
       ELSE buffer' = [buffer EXCEPT ![p] = @ \o e.text] /\ Emit(<<Chunk(p, e.text)>>)
    /\ UNCHANGED <<pend, abuf, emitted, progress, err, sig, stop, seq>>

\* _delta_chunks: the text goes to the buffer of the part and out.
DeltaEvent(e) ==
    LET p == e.part IN
    /\ IF buffer[p] = None
       THEN /\ pend' = [pend EXCEPT ![p] = Append(@, e.text)]
            /\ Emit(<<>>) /\ UNCHANGED buffer
       ELSE IF ~ Streamed(p)
       THEN Emit(<<>>) /\ UNCHANGED <<buffer, pend>>
       ELSE /\ buffer' = [buffer EXCEPT ![p] = @ \o e.text]
            /\ Emit(<<Chunk(p, e.text)>>) /\ UNCHANGED pend
    /\ UNCHANGED <<abuf, emitted, progress, err, sig, stop, seq>>

\* _snapshot_chunks: what a (stripped) snapshot adds; a rewrite is taken over
\* silently.
Added(b, s) == IF s # b /\ IsPrefix(b, s) THEN <<SubSeq(s, Len(b) + 1, Len(s))>> ELSE <<>>

\* _tool_chunks: the payload replaces the last one, unless it is the same.
Payload(b, s) == IF s = b THEN <<>> ELSE <<s>>

\* The replay of pending deltas, then the inline delta, the tool payload or
\* the snapshot.
UpdatedEvent(e) ==
    LET p      == e.part
        queued == Known(p) \o FlattenSeq(pend[p])
        text   == Strip(e.text)
        new    == IF e.kind = "inline"     THEN queued \o e.text
                  ELSE IF Block[p] = "tool" THEN e.text
                  ELSE IF text = <<>>       THEN queued
                  ELSE text
        tail   == IF e.kind = "inline"     THEN <<e.text>>
                  ELSE IF Block[p] = "tool" THEN Payload(queued, e.text)
                  ELSE IF text = <<>>       THEN <<>>
                  ELSE Added(queued, text)
        chunks == [i \in DOMAIN (pend[p] \o tail) |-> Chunk(p, (pend[p] \o tail)[i])]
    IN  /\ pend' = [pend EXCEPT ![p] = <<>>]
        /\ IF Streamed(p)
           THEN Emit(chunks) /\ buffer' = [buffer EXCEPT ![p] = new]
           ELSE /\ Emit(<<>>)
                /\ buffer' = IF Block[p] = "other" THEN buffer ELSE [buffer EXCEPT ![p] = Known(p)]
        /\ UNCHANGED <<abuf, emitted, progress, err, sig, stop, seq>>

\* session.idle and session.error signal the end of the turn, once, and stop
\* the reader; an error there or in message.updated is kept, the first one.
SessionEvent(e) ==
    /\ err' = (err \/ ErrorIn(e))
    /\ IF Terminal(e) /\ sig = None
       THEN sig' = (IF e.kind = "idle" THEN "completed" ELSE "failed") /\ stop' = TRUE
       ELSE UNCHANGED <<sig, stop>>
    /\ Emit(<<>>)
    /\ UNCHANGED <<buffer, pend, abuf, emitted, progress, seq>>

\* register_progress suppresses repetitions.
ProgressEvent(e) ==
    /\ progress' = e.kind
    /\ Emit(IF progress = e.kind THEN <<>> ELSE <<[art |-> None, part |-> None, text |-> <<>>]>>)
    /\ UNCHANGED <<buffer, pend, abuf, emitted, err, sig, stop, seq>>

Handle(e) ==
    CASE e.kind = "delta" -> DeltaEvent(e)
      [] e.kind \in {"inline", "updated"} -> UpdatedEvent(e)
      [] e.kind \in {"idle", "error", "message_error"} -> SessionEvent(e)
      [] OTHER -> ProgressEvent(e)

Read ==
    /\ st = "read" /\ wire # <<>>
    /\ wire' = Tail(wire)
    /\ IF stop
       THEN st' = "ended" /\ UNCHANGED <<buffer, pend, todo, output>>
       ELSE Handle(Head(wire))
    /\ UNCHANGED <<truth, said, lost, drops, held, coord, cx, seen>>

\* should_drop_initial_user_echo; saw_any_chunk is emitted # {}.
Echo(c) == /\ Block[c.part] = "text" /\ Role[c.part] = "none" /\ emitted = {}
           /\ Strip(UserText) # <<>> /\ Strip(c.text) = Strip(UserText)

\* Mutant of NextValue: the chunk replaces what was sent before.
NextValueReplaces(c) == c.text

\* register_chunk: what the adapter believes the artifact to hold.
NextValue(c) == IF Block[c.part] = "tool" THEN c.text ELSE abuf[c.art] \o c.text

EmitNext ==
    LET c == Head(todo) IN
    /\ st = "emit" /\ todo # <<>> /\ held = None
    /\ todo' = Tail(todo)
    /\ CASE c.art = None ->
              /\ seq' = seq + 1 /\ held' = [art |-> None, seq |-> seq']
              /\ UNCHANGED <<st, abuf, emitted>>
         [] c.art # None /\ (Echo(c) \/ NextValue(c) = abuf[c.art]) ->
              /\ st' = IF todo' = <<>> THEN "read" ELSE st
              /\ UNCHANGED <<held, abuf, emitted, seq>>
         [] OTHER ->
              /\ abuf' = [abuf EXCEPT ![c.art] = NextValue(c)]
              /\ emitted' = emitted \cup {c.art}
              /\ seq' = seq + 1
              /\ held' = [art |-> c.art, text |-> c.text, append |-> c.art \in emitted, seq |-> seq']
              /\ UNCHANGED st
    /\ UNCHANGED <<upstream, buffer, pend, progress, err, sig, stop, coord, cx, seen>>

\* The enqueue of the chunk or of the progress status completes.
PutChunk ==
    /\ st = "emit" /\ held # None
    /\ got' = Append(got, held.seq)
    /\ IF held.art = None THEN UNCHANGED <<client, late>>
       ELSE Put(held.art, held.text, held.append)
    /\ held' = None
    /\ st' = IF todo = <<>> THEN "read" ELSE st
    /\ UNCHANGED <<upstream, buffer, pend, todo, output, coord, cx, ended>>

\* The connection fails, or handling an event raises: wait, then reconnect.
Fail ==
    /\ st \in {"connect", "read"} /\ drops < turn.max.drops
    /\ drops' = drops + 1
    /\ st' = IF stop THEN "ended" ELSE "backoff"
    /\ lost' = Missed(Range(wire))
    /\ wire' = <<>>
    /\ UNCHANGED <<truth, said, buffer, pend, todo, held, output, coord, cx, seen>>

Reconnect ==
    /\ \/ st = "backoff" /\ st' = IF stop THEN "ended" ELSE "connect"
       \/ st = "connect" /\ st' = IF stop THEN "ended" ELSE "read"
    /\ UNCHANGED <<upstream, buffer, pend, todo, held, output, coord, cx, seen>>

\* The server closes the stream: consume() returns.
Close ==
    /\ st = "read" /\ wire = <<>>
    /\ st' = "ended"
    /\ UNCHANGED <<upstream, buffer, pend, todo, held, output, coord, cx, seen>>

-----------------------------------------------------------------------------
(* The coordinator *)

\* The rest of _cleanup: stop_event.set(), the stream task is cancelled.
StopStream ==
    /\ pc' = "done" /\ stop' = TRUE /\ st' = "ended" /\ todo' = <<>> /\ held' = None
    /\ UNCHANGED <<buffer, pend, abuf, emitted, progress, err, sig, seq>>

\* _cleanup releases a claim that is still pending before it stops the stream.
Cleanup == IF claim THEN pc' = "release" /\ UNCHANGED <<runtime, output>> ELSE StopStream

\* Mutant of SendReturns: the response with tool calls is taken for the last.
SendReturnsTools ==
    /\ pc = "send" /\ claim' = FALSE
    /\ pc' = "signal" /\ UNCHANGED <<resp, rounds>>
    /\ UNCHANGED <<upstream, runtime, output, cx, seen>>

\* send_message returns; the claim is made final.  With tool calls in it the
\* results are sent and another response awaited.
SendReturns ==
    /\ pc = "send" /\ claim' = FALSE
    /\ \/ \E r \in Responses : resp' = r /\ pc' = "signal" /\ UNCHANGED rounds
       \/ rounds < turn.max.rounds /\ rounds' = rounds + 1 /\ UNCHANGED <<pc, resp>>
       \/ pc' = "error" /\ UNCHANGED <<resp, rounds>>     \* response.info.error
    /\ UNCHANGED <<upstream, runtime, output, cx, seen>>

\* HTTP status, timeout, contract, concurrency or any other error.
SendFails ==
    /\ pc = "send"
    /\ pc' = "error"
    /\ UNCHANGED <<upstream, runtime, output, resp, claim, rounds, cx, seen>>

\* Mutants of Signalled: the response is taken for the end of the stream; a
\* stream that ends without a signal is not noticed.
SignalledByResponse ==
    /\ pc = "signal"
    /\ pc' = IF err THEN "error" ELSE "final"
    /\ UNCHANGED <<upstream, runtime, output, resp, claim, rounds, cx, seen>>
SignalledOnly ==
    /\ pc = "signal" /\ sig # None
    /\ pc' = IF sig = "completed" /\ ~ err THEN "final" ELSE "error"
    /\ UNCHANGED <<upstream, runtime, output, resp, claim, rounds, cx, seen>>

\* _await_stream_terminal_signal, then the errors it leads to.
Signalled ==
    /\ pc = "signal"
    /\ sig # None \/ st = "ended"
    /\ pc' = IF sig = "completed" /\ ~ err THEN "final" ELSE "error"
    /\ UNCHANGED <<upstream, runtime, output, resp, claim, rounds, cx, seen>>

\* Mutants of Final: no snapshot once anything was streamed; the status first.
FinalIfSilent ==
    /\ pc = "final"
    /\ IF Strip(resp) = <<>> \/ "text" \in emitted
       THEN pc' = "complete" /\ UNCHANGED <<abuf, seq>>
       ELSE pc' = "snapshot" /\ abuf' = [abuf EXCEPT !["text"] = resp] /\ seq' = seq + 1
    /\ UNCHANGED <<upstream, runtime, emitted, progress, err, sig, stop, resp, claim, rounds, cx, seen>>
FinalAfterStatus ==
    /\ pc = "final"
    /\ pc' = "snapshot" /\ abuf' = [abuf EXCEPT !["text"] = resp] /\ seq' = seq + 1
    /\ ended' = Append(ended, "completed")
    /\ UNCHANGED <<upstream, runtime, emitted, progress, err, sig, stop, resp, claim, rounds, cx,
                   client, got, late>>

\* should_emit_final_snapshot
Final ==
    /\ pc = "final"
    /\ IF Strip(resp) = <<>> \/ Strip(abuf["text"]) = Strip(resp)
       THEN pc' = "complete" /\ UNCHANGED <<abuf, seq>>
       ELSE pc' = "snapshot" /\ abuf' = [abuf EXCEPT !["text"] = resp] /\ seq' = seq + 1
    /\ UNCHANGED <<upstream, runtime, emitted, progress, err, sig, stop, resp, claim, rounds, cx, seen>>

PutSnapshot ==
    /\ pc = "snapshot"
    /\ pc' = "complete"
    /\ Put("text", resp, FALSE)
    /\ got' = Append(got, seq)
    /\ UNCHANGED <<upstream, runtime, output, resp, claim, rounds, cx, ended>>

Complete ==
    /\ pc = "complete"
    /\ ended' = Append(ended, "completed")
    /\ Cleanup
    /\ UNCHANGED <<upstream, resp, claim, rounds, cx, client, got, late>>

\* _emit_error: an artifact of its own, then the terminal status.
ErrorArtifact ==
    /\ pc = "error"
    /\ pc' = "failing"
    /\ late' = late \cup Range(ended)
    /\ UNCHANGED <<upstream, runtime, output, resp, claim, rounds, cx, client, got, ended>>

ErrorStatus ==
    /\ pc = "failing"
    /\ ended' = Append(ended, "failed")
    /\ Cleanup
    /\ UNCHANGED <<upstream, resp, claim, rounds, cx, client, got, late>>

Released ==
    /\ pc = "release"
    /\ claim' = FALSE
    /\ StopStream
    /\ UNCHANGED <<upstream, resp, rounds, cx, seen>>

-----------------------------------------------------------------------------
(* executor.cancel: the status, the stop event, the abort, Task.cancel() *)

CancelStatus ==
    /\ cx = "idle" /\ pc # "done"
    /\ cx' = "told"
    /\ ended' = Append(ended, "canceled")
    /\ UNCHANGED <<upstream, runtime, output, coord, client, got, late>>

CancelStop ==
    /\ cx = "told"
    /\ cx' = "stopped"
    /\ stop' = TRUE
    /\ UNCHANGED <<upstream, runtime, abuf, emitted, progress, err, sig, seq, coord, seen>>

\* A cancellation that interrupts the release skips the rest of _cleanup.
CancelTask ==
    /\ cx = "stopped"
    /\ cx' = "done"
    /\ CASE pc = "done"    -> UNCHANGED <<runtime, output, pc>>
         [] pc = "release" -> pc' = "done" /\ UNCHANGED <<runtime, output>>
         [] OTHER          -> Cleanup
    /\ UNCHANGED <<upstream, resp, claim, rounds, seen>>

-----------------------------------------------------------------------------
Kinds == {"idle", "error", "message_error", "step"}

Consume == Read \/ EmitNext \/ PutChunk \/ Reconnect
Coordinate == \/ Signalled \/ Final \/ PutSnapshot \/ Complete
              \/ ErrorArtifact \/ ErrorStatus \/ Released
Cancel == CancelStatus \/ CancelStop \/ CancelTask

Next ==
    /\ UNCHANGED turn
    /\ \/ \E p \in Parts : UpstreamRepeats(p) \/ \E t \in Tokens : UpstreamText(p, t)
       \/ \E k \in Kinds : UpstreamSays(k)
       \/ Consume \/ Fail \/ Close
       \/ SendReturns \/ SendFails \/ Coordinate
       \/ Cancel

Spec == Init /\ [][Next]_<<vars, turn>>

\* The event loop runs every task that can run; the HTTP call has a timeout;
\* upstream ends every turn with an event.
FairSpec ==
    /\ Spec
    /\ WF_vars(Consume) /\ WF_vars(Coordinate) /\ WF_vars(CancelStop \/ CancelTask)
    /\ WF_vars(SendReturns \/ SendFails)
    /\ WF_vars(UpstreamSays("idle"))

-----------------------------------------------------------------------------
(* Properties *)

\* Types; past "send" the coordinator has a response, and no step of the
\* stream task uses a chunk it does not have.
TypeOK ==
    /\ turn \in Turns
    /\ st \in {"connect", "read", "emit", "backoff", "ended"}
    /\ st = "emit" => todo # <<>> \/ held # None
    /\ buffer \in [Parts -> Seq(Tokens) \cup {None}] /\ \A p \in Parts : pend[p] \in Seq(Seq(Tokens))
    /\ abuf \in [Artifacts -> Seq(Tokens)] /\ client \in [Artifacts -> Seq(Tokens)]
    /\ emitted \subseteq Artifacts
    /\ sig \in {None, "completed", "failed"} /\ (sig # None => stop)
    /\ pc \in {"send", "signal", "final", "snapshot", "complete", "error", "failing", "release", "done"}
    /\ pc \in {"signal", "final", "snapshot", "complete"} => resp \in Responses
    /\ Range(ended) \subseteq {"completed", "failed", "canceled"}
    /\ lost \in {"none", "some", "terminal"}

\* A client that is told COMPLETED has assembled the text of the response,
\* whatever was streamed, lost in a reconnect, rewritten, suppressed as an
\* echo of the request or streamed for an earlier tool round (coordinator.py
\* emits the final snapshot when its own buffer differs).
TextDelivered ==
    "completed" \in Range(ended) /\ Strip(resp) # <<>> => Strip(client["text"]) = Strip(resp)

\* The buffer from which the adapter decides on the final snapshot is what
\* the client holds (stream_state.py register_chunk, effective_append).
BufferIsClientView ==
    st # "ended" /\ held = None /\ pc # "snapshot" =>
        \A a \in {"text", "reasoning"} : client[a] = abuf[a]

\* While nothing is lost, an upstream that only appends is streamed token by
\* token: deltas, inline deltas and snapshots of one text part in any mix,
\* deltas before the part is known included, add up to its text.
StreamFaithful ==
    \A p \in Parts :
        /\ Block[p] = "text" /\ \A q \in Parts \ {p} : Block[q] # "text"
        /\ ~ turn.rewrites /\ Blank \notin Range(truth[p]) /\ Role[p] = "agent"
        /\ lost = "none" /\ st = "read" /\ wire = <<>> /\ pend[p] = <<>> /\ pc = "send"
        => client["text"] = truth[p]

\* The client sees strictly increasing sequence numbers although two tasks
\* take and send them (stream_state.py next_sequence).
SequenceIncreasing == \A i, j \in DOMAIN got : i < j => got[i] < got[j]

\* No artifact follows the COMPLETED status (the comment in coordinator.py:
\* final text artifacts must be emitted before the completed status event).
NoArtifactAfterCompleted == "completed" \notin late

\* Every turn ends, unless the terminal event was sent while the stream was
\* not connected: no timeout guards the wait for it.
TurnEnds == <>(pc = "done" \/ lost = "terminal")

\* What is streamed is what upstream wrote, and the adapter's own buffer, on which
\* it decides about the final snapshot, is what the client holds
\* (stream_runtime.py, stream_state.py).
StreamedText == TypeOK /\ BufferIsClientView /\ StreamFaithful

\* The two tasks that put events on one queue keep them in order: the sequence
\* numbers rise and the completion is the last word (stream_state.py,
\* coordinator.py).
EventsInOrder == SequenceIncreasing /\ NoArtifactAfterCompleted

-----------------------------------------------------------------------------
(* What makes these properties inductive.                                    *)

\* Events, and what consume() hands on piece by piece: a chunk or a progress status.
Event == [kind : {"delta", "inline", "updated"}, part : Parts, text : Seq(Tokens)] \cup
         [kind : Kinds]
Piece == [art : Artifacts \cup {None}, part : Parts \cup {None}, text : Seq(Tokens)]

\* The rest of the types; only an emitting stream task has pieces to emit.
Shapes ==
    /\ truth \in [Parts -> Seq(Tokens)] /\ wire \in Seq(Event)
    /\ pend \in [Parts -> Seq(Seq(Tokens))]
    /\ todo \in Seq(Piece)
    /\ \A i \in DOMAIN todo : todo[i].art # None =>
          todo[i].part \in Parts /\ todo[i].art = Artifact(todo[i].part)
    /\ held \in {None} \cup Sent /\ (held # None => held.art \in Artifacts \cup {None})
    /\ st # "emit" => todo = <<>> /\ held = None
    /\ {stop, err, claim} \subseteq BOOLEAN
    /\ seq \in Nat /\ got \in Seq(Nat)
    /\ ended \in Seq({"completed", "failed", "canceled"})

\* Who has heard the terminal signal emits nothing more, and COMPLETED is the
\* last thing a turn does; no claim is pending by then.
Settled ==
    /\ sig # None => st # "emit"
    /\ pc \in {"signal", "final", "snapshot", "complete"} => ~ claim
    /\ pc \in {"final", "snapshot", "complete"} => sig = "completed"
    /\ "completed" \in Range(ended) => sig # None /\ pc = "done"

\* The sequence numbers taken and not yet sent are ahead of those the client has.
Numbered ==
    /\ \A i \in DOMAIN got : got[i] <= seq
    /\ held # None => held.seq <= seq /\ \A i \in DOMAIN got : got[i] < held.seq
    /\ pc = "snapshot" => \A i \in DOMAIN got : got[i] < seq

OrderInv == TypeOK /\ Shapes /\ Settled /\ Numbered /\ EventsInOrder

\* What the client holds of an artifact once the chunk under way has arrived.
Shown(a) ==
    IF held # None /\ held.art = a
    THEN IF held.append THEN client[a] \o held.text ELSE held.text
    ELSE client[a]

\* Until the stream is stopped the buffer of a lane is that, or the snapshot that
\* is under way; what was not emitted yet is empty.
ViewTrue ==
    \A a \in {"text", "reasoning"} :
        /\ \/ pc = "done" /\ st = "ended"
           \/ abuf[a] = IF pc = "snapshot" /\ a = "text" THEN resp ELSE Shown(a)
        /\ sig = None /\ a \notin emitted => abuf[a] = <<>>

\* About to be told COMPLETED, the client has the text of the response.
DeliveryTrue ==
    /\ pc = "complete" /\ Strip(resp) # <<>> => Strip(client["text"]) = Strip(resp)
    /\ TextDelivered

ViewInv == OrderInv /\ ViewTrue /\ DeliveryTrue

\* The turns StreamFaithful is about, while the response is awaited.
Steady(p) ==
    /\ Block[p] = "text" /\ \A q \in Parts \ {p} : Block[q] # "text"
    /\ ~ turn.rewrites /\ Blank \notin Range(truth[p]) /\ Role[p] = "agent"
    /\ lost = "none" /\ st # "ended" /\ pc = "send"

\* The text of p that consume() has taken in, and what of it is still to be emitted.
Consumed(p) == Known(p) \o FlattenSeq(pend[p])
TextOf(c) == IF c.art = "text" THEN c.text ELSE <<>>
Unsent == FlattenSeq([i \in DOMAIN todo |-> TextOf(todo[i])])

\* How an event on the wire takes the text of p from before to after.
Carries(e, p, before, after) ==
    IF e.kind \in {"delta", "inline", "updated"} /\ e.part = p
    THEN IF e.kind = "updated" THEN e.text = after /\ IsPrefix(before, after)
         ELSE after = before \o e.text
    ELSE after = before

\* The events on the wire take what was consumed to what upstream has written.
Chain(p, F) ==
    /\ F[0] = Consumed(p) /\ F[Len(wire)] = truth[p]
    /\ \A i \in 1 .. Len(wire) : Carries(wire[i], p, F[i - 1], F[i])

Faithful(p) ==
    /\ buffer[p] # None => pend[p] = <<>>
    /\ abuf["text"] \o Unsent = Known(p)
    /\ \E F \in [0 .. Len(wire) -> Prefixes(truth[p])] : Chain(p, F)

FaithTrue == \A p \in Parts : Steady(p) => Faithful(p)

StreamInv == ViewInv /\ FaithTrue

=============================================================================
