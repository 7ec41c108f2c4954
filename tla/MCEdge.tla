------------------------------- MODULE MCEdge -------------------------------
(* The edge of the server for TLC.  A behaviour is about one part: one        *)
(* request of any kind in the middleware stack, several requests that share   *)
(* the rate limiter, more of them that have got as far as the limiter already *)
(* while time passes, or one streaming response under its budgets.  The other *)
(* parts stand still.                                                         *)
EXTENDS Edge, TLC

VARIABLE part

-----------------------------------------------------------------------------
(* Requests: good ones for every route, and the same with one or two things   *)
(* wrong with them.                                                           *)

MCCredentials == {[principal |-> "alice", id |-> "a1"],
                  [principal |-> "automation", id |-> None]}
MCOrigins == {[site |-> "dash", form |-> "canonical"], [site |-> "tool", form |-> "port"]}
MCHosts == {[kind |-> "exact", name |-> "srv"], [kind |-> "wildcard", name |-> "example"]}

Bad == [principal |-> "alice", id |-> "guess"]
Srv == [name |-> "srv", domain |-> None, raw |-> "srv:8000"]

Good(method, route, cred) ==
  [method |-> method, route |-> route, origin |-> NoOrigin, host |-> Srv, cred |-> cred,
   peer |-> "p1", size |-> IF method = "POST" THEN 2 ELSE 0, declared |-> Undeclared,
   json |-> TRUE, version |-> "current", shape |-> "message", match |-> None,
   ext |-> {"public", "private"}]

GoodRequests ==
  {Good("GET", "card", Nobody), Good("OPTIONS", "rpc", Nobody)}
    \cup {Good(r[1], r[2], c) : c \in MCCredentials,
            r \in {<<"POST", "rpc">>, <<"GET", "extended">>}}
    \cup {Good(r[1], r[2], c) : c \in {CHOOSE x \in MCCredentials : x.id = None},
            r \in {<<"POST", "message">>, <<"GET", "task">>, <<"GET", "other">>}}

\* One thing wrong, or at least different, with a request.
Variants(q) ==
  {[q EXCEPT !.origin = o] : o \in [site : {"dash", "tool", "evil", "null"}, form : {"canonical"}]}
    \cup {[q EXCEPT !.origin = [site |-> "dash", form |-> "port"]]}
    \cup {[q EXCEPT !.host = h] :
            h \in {[name |-> "www.example", domain |-> "example", raw |-> "www.example"],
                   [name |-> "example", domain |-> None, raw |-> "example"]}}
    \cup {[q EXCEPT !.cred = c] : c \in {Bad, Nobody}}
    \cup {[q EXCEPT !.version = "old"]}
    \cup {[q EXCEPT !.match = m] : m \in {"card", "extended", "any"}}
    \cup IF q.method # "POST" THEN {}
         ELSE {[q EXCEPT !.shape = x] : x \in {"envelope", "violation"}}
                \cup {[q EXCEPT !.size = n] : n \in {0, 3}}
                \cup {[q EXCEPT !.declared = n] : n \in {1, 3}}
                \cup {[q EXCEPT !.size = 3, !.declared = 1], [q EXCEPT !.json = FALSE]}

\* For several requests at a time: the ones that differ to the limiter.
MCBusyRequests ==
  {Good("GET", "card", Nobody), Good("GET", "extended", Bad)}
    \cup {[Good("POST", "rpc", c) EXCEPT !.size = 1] : c \in MCCredentials}

MCRequests == GoodRequests \cup UNION {Variants(q) : q \in GoodRequests} \cup MCBusyRequests

-----------------------------------------------------------------------------
\* At the limiter: who differs to it, more of them than its table holds.
Kinds == <<Good("GET", "card", Nobody),
           [Good("POST", "rpc", [principal |-> "alice", id |-> "a1"]) EXCEPT !.size = 1],
           [Good("POST", "rpc", [principal |-> "automation", id |-> None]) EXCEPT !.size = 1]>>

Earlier(s, t) == s < t /\ req[s] = req[t]

AtLimiter ==
  /\ \E kind \in [Slots -> DOMAIN Kinds] :
       /\ \A s \in Slots \ {1} : kind[s - 1] <= kind[s]
       /\ req = [s \in Slots |-> Kinds[kind[s]]]
  /\ stage = [s \in Slots |-> "rate"]
  /\ principal = [s \in Slots |-> Authenticate(req[s])]
  /\ reached = [s \in Slots |-> {"boundary", "auth"}]
  /\ body = [s \in Slots |-> "unread"] /\ got = [s \in Slots |-> 0]
  /\ resp = [s \in Slots |-> NoResponse]

NoStream ==
  /\ clock = 0 /\ pc = "ended" /\ since = 0 /\ startedAt = -1 /\ total = 0
  /\ reason = "done" /\ inner = "closed" /\ sent = [bytes |-> 0, at |-> 0]

MCInit ==
  /\ part \in {"layers", "busy", "limiter", "stream"}
  /\ IF part = "limiter" THEN AtLimiter ELSE HttpInit
  /\ Limiter!Init
  /\ IF part = "stream" THEN Budget!Init ELSE NoStream

\* Slots are taken in their order, since they are alike.
InOrder == \A s \in Slots \ {1} : stage'[s] # "idle" => stage'[s - 1] # "idle"

\* Any request by itself, several that differ to the limiter, or the limiter.
\* Time passes while two requests are on their way, and at the limiter.
HttpNext ==
  \/ part = "layers" /\ Within({1}, Requests) /\ now' < 2
  \/ /\ part = "busy" /\ Within(1..3, MCBusyRequests) /\ InOrder
     /\ now' < 2 /\ (stage'[3] # "idle" => now' = 0)
  \/ /\ part = "limiter"
     /\ \/ \E s \in Slots : \/ Rate(s) /\ \A t \in Slots : Earlier(t, s) => stage[t] # "rate"
                            \/ RateLimited(s)
        \/ Tick

MCNext ==
  /\ UNCHANGED part
  /\ \/ HttpNext /\ UNCHANGED stream
     \/ part = "stream" /\ Budget!Next /\ UNCHANGED vars

MCSpec == MCInit /\ [][MCNext]_<<vars, stream, part>> /\ Budget!Fairness
=============================================================================
