----------------------------- MODULE MCExecution -----------------------------
(* Small instances of Execution for TLC.  A run explores several instances:  *)
(* each bounds who takes part and what they ask for, so that together they   *)
(* reach the interleavings that one instance of all of them could not.       *)
EXTENDS Execution, TLC

CONSTANTS Instances, i1, i2, c1, c2, w, s1, s2, e1, e2, e3, g1, x1, x2

VARIABLE instance   \* the instance a behaviour is about

R(i, c, scope, preferred) ==
    [identity |-> i, context |-> c, scope |-> scope, preferred |-> preferred]

\* The request of those that never start.
Filler == R(i1, c1, None, s1)

Instance(procs, cancellers, requests) ==
    [procs |-> procs, cancellers |-> cancellers, requests |-> requests,
     targets |-> procs, crashes |-> 0]

\* Two callers compete for one session that exists upstream.
Claims == Instance({e1, e2, g1}, {x1}, {R(i1, c1, None, s1), R(i2, c1, None, s1)})

\* One caller lets the adapter create a session, another one names it.
Adopt == Instance({e1, e2, g1}, {x1},
                  {R(i1, c1, None, None), R(i1, c1, None, s2), R(i2, c1, None, s2)})

\* Three requests of one caller for one session.
Turn == Instance({e1, e2, e3}, {x1, x2}, {R(i1, c1, None, s1)})

\* Conversations of two callers, with and without an explicit workspace.
Create == Instance({e1, e2, e3}, {x1},
                   {R(i1, c1, None, None), R(i1, c1, w, None), R(i2, c1, None, None),
                    R(i1, c2, None, None)})

\* What must end: creates, an execution that two requests cancel while another
\* one waits for its session, calls under a guard.  Which execution is cancelled
\* makes no difference, since they are alike.
Cancelled(p, i) == [i EXCEPT !.targets = {p}]
LiveCreate ==
    Cancelled(e1, Instance({e1, e2}, {x1}, {R(i1, c1, None, None), R(i1, c1, None, s1)}))
LiveCancels == Cancelled(e1, Instance({e1, e2}, {x1, x2}, {R(i1, c1, None, s1)}))
LiveGuards == Instance({e1, g1}, {x1}, {R(i1, c1, None, s1), R(i2, c1, None, s1)})

\* The same with a crash of the adapter instead of the cancels.
Crashing(i) == [i EXCEPT !.cancellers = {}, !.crashes = 1]

ClaimInstances == {Claims, Adopt, Crashing(Claims), Crashing(Adopt)}
TurnInstances == {Turn, Create}
LiveInstances == {LiveCreate, LiveCancels, LiveGuards}

InstanceRequests == UNION {i.requests : i \in Instances} \cup {Filler}

MCInit ==
    /\ instance \in Instances
    /\ Init
    /\ \A p \in Procs : req[p] \in IF p \in instance.procs THEN instance.requests ELSE {Filler}

\* Only those the instance has take part; cancels come in their order, since
\* they are alike.
Within ==
    /\ \A p \in Procs \ instance.procs : pc[p] = "idle"
    /\ \A x \in Cancellers \ instance.cancellers : cpc[x] = "idle"
    /\ \A x \in Cancellers : target[x] \in instance.targets \cup {None}
    /\ {x1, x2} \subseteq Cancellers /\ cpc[x2] # "idle" => cpc[x1] # "idle"
    /\ crashes <= instance.crashes

\* Everyone the instance has is done, or waits for an abandoned lock.
InstanceQuiescent ==
    /\ \A p \in instance.procs : pc[p] = "done" \/ (pc[p] = "bound" /\ sess[p] \in stuck)
    /\ \A x \in instance.cancellers : cpc[x] \in {"done", "error"}
    /\ UNCHANGED <<vars, instance>>

MCNext == \/ Next /\ UNCHANGED instance /\ Within'
          \/ InstanceQuiescent

MCSpec == MCInit /\ [][MCNext]_<<vars, instance>>
MCFairSpec == MCSpec /\ Fairness

\* The executions of an instance are alike, and so are the sessions that its
\* requests do not name.
Unnamed == Sessions \ {r.preferred : r \in InstanceRequests}
Symmetry == Permutations(Execs) \cup Permutations(Unnamed)
=============================================================================
