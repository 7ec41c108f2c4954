---------------------------- MODULE TaskPolling ----------------------------
(* The A2A client's send() and its polling fallback (client/client.py,       *)
(* client/polling.py).  send() drains the event stream of one SendMessage    *)
(* and, when the last event is a task that is still running, asks for it     *)
(* with GetTask until it settles or a deadline passes.  The remote task      *)
(* moves by itself; time is discrete; a timer may fire up to Jitter late and *)
(* a request is answered, or times out, within Latency.                      *)
EXTENDS Integers

CONSTANTS
  InitialInterval, MaxInterval, Multiplier, Timeout,   \* PollingFallbackPolicy
  Enabled,       \* the fallback is switched on
  SendTime,      \* bound on the duration of the SendMessage stream
  Latency,       \* default_timeout of the HTTP client: bound on one GetTask
  Jitter         \* bound on the lateness of the event loop's timers

ASSUME ValidPolicy ==
  /\ InitialInterval \in Nat \ {0}
  /\ MaxInterval \in Nat \ {0}
  /\ Multiplier \in Nat \ {0}
  /\ Timeout \in Nat \ {0}
  /\ MaxInterval >= InitialInterval

ASSUME EnvironmentBounds ==
  Enabled \in BOOLEAN /\ {SendTime, Latency, Jitter} \subseteq Nat

Running == {"submitted", "working", "unspecified"}
Terminal == {"completed", "failed", "canceled", "rejected"}
Paused == {"input_required", "auth_required"}
TaskStates == Running \cup Terminal \cup Paused
NotATask == {"none", "message", "update"}      \* a last event without a task

VARIABLES
  now,       \* the event loop's clock
  remote,    \* the state of the task at the peer
  client,    \* "none" or "built": the lazily built SDK client
  active,    \* _active_requests
  pc,        \* where send() is
  last,      \* last_event, then current_task: what send() knows
  interval, deadline, due,
  seenAt,    \* when the snapshot in last was taken at the peer
  outcome    \* what the caller gets

vars == <<now, remote, client, active, pc, last, interval, deadline, due,
          seenAt, outcome>>

Outcomes == {"pending", "event", "task", "timeout", "error", "unsupported"}

Init ==
  /\ now = 0 /\ due = 0 /\ deadline = 0 /\ seenAt = 0 /\ active = 0
  /\ remote = "submitted" /\ client = "none" /\ pc = "start"
  /\ last = "none" /\ interval = InitialInterval /\ outcome = "pending"

IsTerminal(state) == state \in Terminal
\* Defect: a task in an unknown state is taken as settled
ShouldPollKnown(state) == state = "working"

ShouldPoll(state) == state \in Running

\* Defect: the backoff is not capped
NextIntervalUncapped(current) == current * Multiplier

\* Defect: the backoff shrinks the interval, as a multiplier below 1 would
NextIntervalShrunk(current) == current \div Multiplier

NextInterval(current) ==
  LET grown == current * Multiplier
  IN  IF grown < MaxInterval THEN grown ELSE MaxInterval

Finish(result) == pc' = "done" /\ outcome' = result

Acquire == active' = active + 1
Release == active' = IF active > 0 THEN active - 1 ELSE active

\* The peer: a task settles once, and moves freely before.
RemoteStep ==
  /\ remote \notin Terminal /\ pc # "done"
  /\ \E s \in TaskStates \ {remote} : remote' = s
  /\ UNCHANGED <<now, client, active, pc, last, interval, deadline, due, seenAt,
                 outcome>>

\* _ensure_client: the SDK client is built under the lock, from the peer's card.
EnsureClient(ok) == client' = IF ok THEN "built" ELSE client

StartSend ==
  /\ pc = "start"
  /\ \/ /\ EnsureClient(TRUE) /\ pc' = "sending" /\ Acquire
        /\ UNCHANGED outcome
     \/ /\ EnsureClient(FALSE) /\ Finish("unsupported")      \* no binding in common
        /\ UNCHANGED active                 \* acquired and released in one go
  /\ UNCHANGED <<now, remote, last, interval, deadline, due, seenAt>>

SendEvent ==
  /\ pc = "sending"
  /\ \E e \in {"message", "update", remote} :
       /\ e # last
       /\ last' = e
  /\ seenAt' = now
  /\ UNCHANGED <<now, remote, client, active, pc, interval, deadline, due, outcome>>

ShouldPollAfterSend == Enabled /\ last \notin NotATask /\ ShouldPoll(last)

SendEnds ==
  /\ pc = "sending" /\ Release
  /\ IF ShouldPollAfterSend
     THEN /\ pc' = "checking" /\ deadline' = now + Timeout
          /\ UNCHANGED outcome
     ELSE Finish("event") /\ UNCHANGED deadline
  /\ UNCHANGED <<now, remote, client, last, interval, due, seenAt>>

SendFails ==
  /\ pc = "sending" /\ Release /\ Finish("error")
  /\ UNCHANGED <<now, remote, client, last, interval, deadline, due, seenAt>>

\* Defect: the last interval is given up instead of being shortened
CheckEarly ==
  /\ pc = "checking"
  /\ LET remaining == deadline - now
     IN  IF IsTerminal(last) \/ ~ShouldPoll(last)
         THEN Finish("task") /\ UNCHANGED due
         ELSE IF remaining < interval
         THEN Finish("timeout") /\ UNCHANGED due
         ELSE pc' = "sleeping" /\ due' = now + interval /\ UNCHANGED outcome
  /\ UNCHANGED <<now, remote, client, active, last, interval, deadline, seenAt>>

\* Defect: the last sleep is not shortened
CheckOverslept ==
  /\ pc = "checking"
  /\ IF IsTerminal(last) \/ ~ShouldPoll(last)
     THEN Finish("task") /\ UNCHANGED due
     ELSE IF deadline <= now
     THEN Finish("timeout") /\ UNCHANGED due
     ELSE pc' = "sleeping" /\ due' = now + interval /\ UNCHANGED outcome
  /\ UNCHANGED <<now, remote, client, active, last, interval, deadline, seenAt>>

\* The head of the polling loop, up to the sleep.
Check ==
  /\ pc = "checking"
  /\ LET remaining == deadline - now
     IN  IF IsTerminal(last) \/ ~ShouldPoll(last)
         THEN Finish("task") /\ UNCHANGED due
         ELSE IF remaining <= 0
         THEN Finish("timeout") /\ UNCHANGED due
         ELSE /\ pc' = "sleeping"
              /\ due' = now + (IF interval < remaining THEN interval ELSE remaining)
              /\ UNCHANGED outcome
  /\ UNCHANGED <<now, remote, client, active, last, interval, deadline, seenAt>>

GetTask ==
  /\ pc = "sleeping" /\ now >= due
  /\ pc' = "getting" /\ Acquire /\ due' = now + Latency
  /\ UNCHANGED <<now, remote, client, last, interval, deadline, seenAt, outcome>>

\* The peer reads the task's state when it answers.
GotTask ==
  /\ pc = "getting" /\ Release
  /\ last' = remote /\ seenAt' = now
  /\ interval' = NextInterval(interval)
  /\ pc' = "checking"
  /\ UNCHANGED <<now, remote, client, deadline, due, outcome>>

GetFails ==
  /\ pc = "getting" /\ Release /\ Finish("error")
  /\ UNCHANGED <<now, remote, client, last, interval, deadline, due, seenAt>>

\* Time stops for code that does not wait, and for what must have happened.
Tick ==
  /\ \/ pc = "sending" /\ now < SendTime
     \/ pc = "sleeping" /\ now < due + Jitter
     \/ pc = "getting" /\ now < due
  /\ now' = now + 1
  /\ UNCHANGED <<remote, client, active, pc, last, interval, deadline, due, seenAt,
                 outcome>>

Done == pc = "done" /\ UNCHANGED vars

Local == StartSend \/ SendEvent \/ SendEnds \/ SendFails \/ Check \/ GetTask
           \/ GotTask \/ GetFails
Next == RemoteStep \/ Local \/ Tick \/ Done

Spec == Init /\ [][Next]_vars

\* The loop runs, its timers fire and the HTTP client's timeout ends each
\* request; nothing is assumed of the peer's task.
Fairness ==
  /\ WF_vars(Tick) /\ WF_vars(Check) /\ WF_vars(GetTask)
  /\ WF_vars(GotTask \/ GetFails)

FairSpec == Spec /\ Fairness

----------------------------------------------------------------------------
\* Types and ranges; an interval never leaves the policy's range, however often
\* the backoff is applied, and only requests in flight are counted.
TypeOK ==
  /\ now \in Nat /\ due \in Nat /\ deadline \in Nat /\ seenAt \in 0..now
  /\ remote \in TaskStates /\ last \in TaskStates \cup NotATask
  /\ client \in {"none", "built"}
  /\ pc \in {"start", "sending", "checking", "sleeping", "getting", "done"}
  /\ active = (IF pc \in {"sending", "getting"} THEN 1 ELSE 0)
  /\ interval \in InitialInterval..MaxInterval
  /\ outcome \in Outcomes

\* A timeout is only reported on fresh knowledge: the peer said the task was
\* still running no earlier than one request before the deadline.  A task that
\* ends in the last, shortened interval is still seen
\* (_poll_task_until_terminal sleeps min(interval, remaining) and then asks).
TimeoutIsFresh ==
  outcome = "timeout" => last \in Running /\ seenAt + Latency >= deadline

\* Polling ends when promised: at the deadline, give or take the last timer and
\* the last request, whatever the backoff has grown to.
EndsInTime ==
  pc \in {"checking", "sleeping", "getting"} => now <= deadline + Jitter + Latency

\* A poll comes back with a task that settled, never with one it should have
\* kept polling, and a settled task is the truth about the peer.
SettledIsTrue ==
  outcome = "task" => /\ last \notin Running
                      /\ last \in Terminal => last = remote

\* Once send() polls, it ends, whatever the peer's task does: it never settles,
\* or goes on pausing and resuming.
PollingEnds == pc = "checking" ~> pc = "done"
============================================================================
