-------------------------- MODULE MCTaskService --------------------------
(* TaskService for TLC: one task, so that every call is about it, and calls  *)
(* that send to it, read it and cancel it in any order.                      *)
EXTENDS TaskService, TLC

CONSTANTS c1, c2, c3

\* What a call may be for: two messages, a read and two cancels at most.
MayBe == c1 :> {"send"} @@ c2 :> {"send", "cancel"} @@ c3 :> {"get", "cancel"}

\* Sends are alike and come in their order; a restart meets a cancel or a
\* second send, not both, and a read one send.
Arrivals ==
  /\ \A c \in Calls : call'[c].kind \in MayBe[c] \cup {"idle"}
  /\ call'[c2].kind = "send" => call'[c1].kind # "idle"
  /\ call'[c3].kind = "cancel" => restarts' = 0
  /\ call'[c3].kind = "get" => call'[c2].kind = "idle"

MCNext == Next /\ Arrivals
MCSpec == Init /\ [][MCNext]_vars /\ Fairness

MCWishes == {AnyMode, {Text}, {Json}}
MCAnyMode == {"*"}
==========================================================================
