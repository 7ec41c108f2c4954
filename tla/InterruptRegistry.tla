-------------------------- MODULE InterruptRegistry --------------------------
(***************************************************************************)
(* What the registry of interrupt requests promises to the JSON-RPC        *)
(* callbacks, whatever repository keeps it (state_store.py has two): the   *)
(* answer that resolve() gives for a request.                              *)
(*                                                                         *)
(* A request becomes active only by being asked, an active one is answered *)
(* as expired before it is forgotten unless someone withdraws it, and what *)
(* happens to one request only lets the others grow older.                 *)
(***************************************************************************)
CONSTANT Requests

VARIABLE answer     \* answer[r]: the status resolve(r) would return now

Answers == {"active", "expired", "missing"}

Init == answer = [r \in Requests |-> "missing"]

\* Growing older: active, then expired, then missing.
Ages(r) == \/ answer'[r] = answer[r]
           \/ answer[r] = "active" /\ answer'[r] = "expired"
           \/ answer[r] = "expired" /\ answer'[r] = "missing"

Ask(r) ==
    /\ answer' \in [Requests -> Answers]
    /\ answer'[r] = "active"
    /\ \A o \in Requests \ {r} : Ages(o)

Withdraw(r) ==
    /\ answer' \in [Requests -> Answers]
    /\ answer'[r] = "missing"
    /\ \A o \in Requests \ {r} : Ages(o)

Age ==
    /\ answer' \in [Requests -> Answers]
    /\ \A r \in Requests : Ages(r)

Next == Age \/ \E r \in Requests : Ask(r) \/ Withdraw(r)

Spec == Init /\ [][Next]_answer
=============================================================================
