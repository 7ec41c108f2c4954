---------------------------- MODULE StreamBudget ----------------------------
(* apply_stream_budget (server/runtime_limits.py): the generator between a   *)
(* streaming handler and its consumer that enforces the byte, duration and   *)
(* idle budgets and closes the handler's stream whichever way it ends.  A    *)
(* budget of 0 is switched off.                                              *)
EXTENDS Integers

CONSTANTS
  MaxBytes, MaxDuration, IdleTimeout,
  Sizes,         \* sizes of serialized events
  Hold,          \* bound on the time the consumer takes over an event
  MaxTime        \* bound on the clock

VARIABLES
  now,
  pc,          \* "waiting" in anext, "yielded", "closing" (finally), "ended"
  since,       \* when the present wait or the present yield began
  startedAt,   \* when the first event came, Never before that
  total,       \* total_bytes
  reason,      \* why the stream ended
  inner,       \* the handler's stream: "open", "over" or "closed"
  sent         \* what the consumer got: bytes, and when it got the last event

vars == <<now, pc, since, startedAt, total, reason, inner, sent>>

Never == -1
Reasons == {"none", "done", "error", "disconnect", "idle", "duration", "bytes"}

Init ==
  /\ now = 0 /\ pc = "waiting" /\ since = 0 /\ startedAt = Never /\ total = 0
  /\ reason = "none" /\ inner = "open" /\ sent = [bytes |-> 0, at |-> 0]

EndWith(why) == pc' = "closing" /\ reason' = why

\* Defect: the budget is looked at before the event is added
OverBytesLate(size) == MaxBytes > 0 /\ total > MaxBytes

OverBytes(size) == MaxBytes > 0 /\ total + size > MaxBytes

\* Defect: every event restarts the clock
OverDurationSinceLast == MaxDuration > 0 /\ startedAt # Never /\ now - since >= MaxDuration

OverDuration == MaxDuration > 0 /\ startedAt # Never /\ now - startedAt >= MaxDuration

\* The handler's stream produces an event: it is counted and passed on, or the
\* stream is over budget and the event is dropped.
Event(size) ==
  /\ pc = "waiting" /\ inner = "open"
  /\ startedAt' = IF MaxDuration > 0 /\ startedAt = Never THEN now ELSE startedAt
  /\ IF OverDuration
     THEN EndWith("duration") /\ UNCHANGED <<total, since, sent>>
     ELSE /\ total' = IF MaxBytes > 0 THEN total + size ELSE total
          /\ IF OverBytes(size)
             THEN EndWith("bytes") /\ UNCHANGED <<since, sent>>
             ELSE /\ pc' = "yielded" /\ since' = now /\ UNCHANGED reason
                  /\ sent' = [bytes |-> IF MaxBytes > 0 THEN sent.bytes + size ELSE 0,
                              at |-> now]
  /\ UNCHANGED <<now, inner>>

\* Defect: the idle timer only runs once something was sent
IdleOutStarted ==
  /\ pc = "waiting" /\ IdleTimeout > 0 /\ now - since >= IdleTimeout
  /\ startedAt # Never
  /\ EndWith("idle")
  /\ UNCHANGED <<now, since, startedAt, total, inner, sent>>

\* wait_for gives up; an event that is ready at the same moment may win.
IdleOut ==
  /\ pc = "waiting" /\ IdleTimeout > 0 /\ now - since >= IdleTimeout
  /\ EndWith("idle")
  /\ UNCHANGED <<now, since, startedAt, total, inner, sent>>

\* The handler's stream ends, or raises.
InnerEnds ==
  /\ pc = "waiting" /\ inner = "open"
  /\ inner' = "over" /\ (EndWith("done") \/ EndWith("error"))
  /\ UNCHANGED <<now, since, startedAt, total, sent>>

\* The consumer asks for the next event.
Resume ==
  /\ pc = "yielded"
  /\ pc' = "waiting" /\ since' = now
  /\ UNCHANGED <<now, startedAt, total, reason, inner, sent>>

\* The client goes away: GeneratorExit at the yield, a cancellation in anext.
Disconnect ==
  /\ pc \in {"waiting", "yielded"}
  /\ EndWith("disconnect")
  /\ UNCHANGED <<now, since, startedAt, total, inner, sent>>

\* Defect: a stream that was rejected is not closed
CloseUnlessRejected ==
  /\ pc = "closing" /\ pc' = "ended"
  /\ inner' = IF reason \in {"idle", "duration", "bytes"} THEN inner ELSE "closed"
  /\ UNCHANGED <<now, since, startedAt, total, reason, sent>>

\* The finally clause closes the handler's stream.
Close ==
  /\ pc = "closing" /\ pc' = "ended"
  /\ inner' = "closed"
  /\ UNCHANGED <<now, since, startedAt, total, reason, sent>>

\* The idle timer fires on time; a consumer takes at most Hold.
Tick ==
  /\ now < MaxTime /\ now' = now + 1
  /\ \/ pc = "waiting" /\ (IdleTimeout > 0 => now - since < IdleTimeout)
     \/ pc = "yielded" /\ now - since < Hold
  /\ UNCHANGED <<pc, since, startedAt, total, reason, inner, sent>>

Next ==
  \/ \E size \in Sizes : Event(size)
  \/ IdleOut \/ InnerEnds \/ Resume \/ Disconnect \/ Close \/ Tick

Spec == Init /\ [][Next]_vars

\* The event loop runs the generator and its timers; nothing is assumed of the
\* handler's stream, and a consumer that stays goes on reading.
Fairness == WF_vars(IdleOut) /\ WF_vars(Close) /\ WF_vars(Tick) /\ WF_vars(Resume)

FairSpec == Spec /\ Fairness

----------------------------------------------------------------------------
\* Types.  What the byte budget has counted is what was sent, plus the event
\* that broke it.
TypeOK ==
  /\ now \in 0..MaxTime /\ since \in 0..now /\ startedAt \in {Never} \cup 0..now
  /\ pc \in {"waiting", "yielded", "closing", "ended"} /\ reason \in Reasons
  /\ inner \in {"open", "over", "closed"}
  /\ (reason = "none") = (pc \in {"waiting", "yielded"})
  /\ total \in Nat /\ sent \in [bytes : Nat, at : 0..now]
  /\ reason = "bytes" \/ total = sent.bytes

\* The consumer never gets a byte beyond the byte budget, nor an event when the
\* duration since the first one is used up.
SentWithinBudget ==
  /\ MaxBytes > 0 => sent.bytes <= MaxBytes
  /\ MaxDuration > 0 /\ startedAt # Never => sent.at < startedAt + MaxDuration

\* However it ends - naturally, over budget, by an error or a disconnect - the
\* handler's stream is closed, so that the handler cleans up.
HandlerIsClosed == pc = "ended" => inner = "closed"

\* With both timers on, an open stream outlives its duration by no more than one
\* slow consumer and one idle gap.
LastsNoLonger ==
  (/\ MaxDuration > 0 /\ IdleTimeout > 0 /\ startedAt # Never
   /\ pc \in {"waiting", "yielded"})
    => now <= startedAt + MaxDuration - 1 + Hold + IdleTimeout

\* With the idle timer on, a stream whose handler falls silent ends: a client
\* that keeps reading is not left waiting for ever.
SilenceEnds == (pc = "waiting" /\ IdleTimeout > 0) ~> (pc # "waiting")

----------------------------------------------------------------------------
(* What makes these properties inductive: how long an open stream has been at *)
(* its present await, and that nothing is counted without a byte budget.     *)

Clocked ==
  /\ pc = "yielded" => now - since <= Hold
  /\ pc = "waiting" /\ IdleTimeout > 0 => now - since <= IdleTimeout
  /\ MaxDuration > 0 /\ startedAt # Never =>
       /\ pc = "yielded" => since < startedAt + MaxDuration
       /\ pc = "waiting" => since < startedAt + MaxDuration + Hold

Uncounted == MaxBytes = 0 => total = 0

BudgetInv == TypeOK /\ SentWithinBudget /\ HandlerIsClosed /\ Clocked /\ Uncounted
=============================================================================
