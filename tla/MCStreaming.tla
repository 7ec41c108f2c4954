----------------------------- MODULE MCStreaming -----------------------------
(* Small turns for TLC: each is large where its own question needs it.       *)
EXTENDS Streaming, TLC

CONSTANTS t1, t2, x, a, b

\* The answers: nothing, the text of the request, a longer one with a blank.
Short == {<<>>, <<a>>, <<a, b, a>>}

MaxOf(t, w, d, r, e) ==
    [text |-> t, wire |-> w, drops |-> d, rounds |-> r, events |-> e]

\* A text part and a tool part of unknown role, rewritten, with a lost
\* connection and a tool round.
TextAndTool ==
    [block |-> t1 :> "text" @@ x :> "tool", role |-> t1 :> "none" @@ x :> "none",
     responses |-> {<<>>, <<a, b, a>>}, preferred |-> TRUE, rewrites |-> TRUE,
     max |-> MaxOf(2, 1, 1, 1, 2)]

\* The same for one part, every answer and a second event on the wire.
Rewritten ==
    [block |-> t1 :> "text", role |-> t1 :> "none",
     responses |-> Short, preferred |-> FALSE, rewrites |-> TRUE,
     max |-> MaxOf(2, 2, 1, 0, 2)]

\* Deltas and snapshots of a text part and of a part that is not streamed,
\* and no response.
Deltas ==
    [block |-> t1 :> "text" @@ t2 :> "reasoning",
     role |-> t1 :> "agent" @@ t2 :> "user",
     responses |-> {}, preferred |-> FALSE, rewrites |-> FALSE,
     max |-> MaxOf(3, 1, 0, 0, 3)]

MCUserText == <<a>>
MCTurns == {TextAndTool, Rewritten, Deltas}
=============================================================================
