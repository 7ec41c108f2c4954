-------------------------------- MODULE Edge --------------------------------
(* The edge of the server: the requests in the middleware stack with the     *)
(* rate limiter they share (HttpAdmission), and a streaming response under   *)
(* its budgets (StreamBudget), which the handler of a request returns and    *)
(* which runs on after the request has passed the layers.                    *)
EXTENDS HttpAdmission

CONSTANTS
  MaxBytes, MaxDuration, IdleTimeout,   \* the budgets, 0 for none
  Sizes, Hold, StreamTime               \* bounds of StreamBudget

VARIABLES clock, pc, since, startedAt, total, reason, inner, sent

stream == <<clock, pc, since, startedAt, total, reason, inner, sent>>

Budget == INSTANCE StreamBudget WITH now <- clock, MaxTime <- StreamTime

ASSUME BudgetAssumption ==
  /\ MaxBytes \in Nat /\ MaxDuration \in Nat /\ IdleTimeout \in Nat
  /\ Sizes \subseteq Nat /\ Hold \in Nat /\ StreamTime \in Nat

EdgeInit == Init /\ Budget!Init

EdgeNext ==
  \/ Next /\ UNCHANGED stream
  \/ Budget!Next /\ UNCHANGED vars

EdgeSpec == EdgeInit /\ [][EdgeNext]_<<vars, stream>> /\ Budget!Fairness

-----------------------------------------------------------------------------
\* A stream stays within its budgets - no byte beyond the byte budget, no event
\* when the duration since the first one is used up, no longer than one slow
\* consumer and one idle gap after that - and its handler is closed however it
\* ends (apply_stream_budget).
StreamWithinBudget ==
  /\ Budget!TypeOK
  /\ Budget!SentWithinBudget
  /\ Budget!HandlerIsClosed
  /\ Budget!LastsNoLonger

\* With the idle timer on, a stream whose handler falls silent ends: a client
\* that keeps reading is not left waiting for ever (wait_for in
\* apply_stream_budget).
SilenceEnds == Budget!SilenceEnds
=============================================================================
