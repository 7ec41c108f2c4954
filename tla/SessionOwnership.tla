-------------------------- MODULE SessionOwnership --------------------------
(***************************************************************************)
(* What the session manager promises to everybody who names a session      *)
(* (execution/session_manager.py): a session is free, reserved for one     *)
(* caller or owned by one, an owner is there to stay, and a conversation   *)
(* is bound to a session of its caller.                                    *)
(*                                                                         *)
(* The manager keeps this in three tables whose rows are written one after *)
(* the other, so sessions it creates itself are bound before their owner   *)
(* row is there.  Of the sessions that others may know it has no such      *)
(* excuse: those are Known.                                                *)
(***************************************************************************)
CONSTANTS Sessions, Known, Identities,
          Keys,     \* of conversations; the first field of a key is its caller
          None

VARIABLES
    status,   \* status[s]: whom session s is reserved for, or owned by
    bound     \* bound[k]: the session of conversation k

Free == [is |-> "free", by |-> None]
Reserved(i) == [is |-> "reserved", by |-> i]
Owned(i) == [is |-> "owned", by |-> i]

Init == status = [s \in Sessions |-> Free] /\ bound = [k \in Keys |-> None]

Become(s, what) == status' = [status EXCEPT ![s] = what] /\ UNCHANGED bound

Reserve(s, i) == status[s] = Free /\ Become(s, Reserved(i))

\* A reservation is released, or its lease ends.
Lose(s, i) == status[s] = Reserved(i) /\ Become(s, Free)

\* Nobody else has reserved the session, unless it is one the manager created:
\* that one goes to whom it was created for, whoever has named it meanwhile.
Take(s, i) ==
    /\ \/ status[s] \in {Free, Reserved(i)}
       \/ s \notin Known /\ status[s].is # "owned"
    /\ Become(s, Owned(i))

Bind(k, s) ==
    /\ \/ status[s] = Owned(k[1])
       \/ s \notin Known /\ status[s].is # "owned"
    /\ bound' = [bound EXCEPT ![k] = s]
    /\ UNCHANGED status

Unbind(k) == bound' = [bound EXCEPT ![k] = None] /\ UNCHANGED status

Next ==
    \/ \E s \in Sessions, i \in Identities : Reserve(s, i) \/ Lose(s, i) \/ Take(s, i)
    \/ \E k \in Keys : Unbind(k) \/ \E s \in Sessions : Bind(k, s)

Spec == Init /\ [][Next]_<<status, bound>>
=============================================================================
