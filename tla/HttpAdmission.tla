--------------------------- MODULE HttpAdmission ---------------------------
(* The HTTP side of the server: the middleware stack of server/middleware.py *)
(* in the order in which a request meets it (the last one installed is the   *)
(* outermost), around the routes of server/application.py.  Requests run     *)
(* concurrently and share the rate limiter.  A request body is read in       *)
(* chunks by the first layer that needs it and kept for the layers below.    *)
EXTENDS Integers, Sequences, FiniteSets

CONSTANTS
  Slots,            \* concurrent requests
  Requests,         \* the requests that may arrive: see Request below
  Credentials,      \* configured credentials: [principal, id], id may be None
  AllowedOrigins,   \* A2A_ALLOWED_ORIGINS as written: [site, form]
  PublicSite,       \* the site of A2A_PUBLIC_URL
  AllowedHosts,     \* A2A_ALLOWED_HOSTS: [kind, name]; empty: not enforced
  BodyLimit,        \* a2a_max_request_body_bytes, 0 for none
  LogPayloads, LogLimit,
  RateLimitEnabled, MaxRequests, Window, MaxKeys, MaxTime

VARIABLES
  stage,       \* slot -> the layer its request is about to enter
  req,         \* slot -> its request
  principal,   \* slot -> the credential it was authenticated with, or Nobody
  body,        \* slot -> "unread", "reading" or "cached" (_REQUEST_BODY_BYTES)
  got,         \* slot -> bytes buffered
  reached,     \* slot -> the layers its request has passed
  resp,        \* slot -> the response
  now, table, bucket, admitted, everAdmitted, rejected, promised

http == <<stage, req, principal, body, got, reached, resp>>
limiter == <<now, table, bucket, admitted, everAdmitted, rejected, promised>>
vars == <<http, limiter>>

None == "none"
NoOrigin == [site |-> None, form |-> None]
Nobody == [principal |-> None, id |-> None]
Undeclared == -1
CardPath == "card"
ExtendedPath == "extended"
Layers == <<"boundary", "auth", "rate", "log", "shape", "limit", "cards", "version", "route">>

(* A request: method, route, origin ([site, form]), host             *)
(* ([name, domain, raw]), cred ([principal, id]), peer, size, declared *)
(* (the Content-Length), json (its content type), version, shape,   *)
(* match (the If-None-Match), ext (the extensions asked for).             *)
Principal(c) == <<"principal", c.principal>>
RateKeys == {<<"credential", c.id>> : c \in Credentials}
              \cup {Principal(c) : c \in Credentials}
              \cup {<<"ip", q.peer>> : q \in Requests}

Limiter == INSTANCE RateLimiter
             WITH Keys <- RateKeys, NoKey <- <<None, None>>, Callers <- Slots

\* Sizes are numbers, a credential has a principal, limits are positive
\* (RateLimiter's constructor), and there are finitely many requests at a time.
ASSUME HttpAssumption ==
  /\ IsFiniteSet(Slots) /\ Requests # {}
  /\ \A q \in Requests : q.size \in Nat /\ q.declared \in Int
  /\ \A c \in Credentials : c.principal # None
  /\ BodyLimit \in Nat /\ MaxTime \in Nat
  /\ MaxRequests \in Nat \ {0} /\ Window \in Nat \ {0} /\ MaxKeys \in Nat \ {0}

NoResponse == [status |-> 0, etag |-> None, version |-> FALSE, trace |-> FALSE, ext |-> {}]

HttpInit ==
  /\ stage = [s \in Slots |-> "idle"]
  /\ req \in [Slots -> {CHOOSE q \in Requests : TRUE}]
  /\ principal = [s \in Slots |-> Nobody]
  /\ body = [s \in Slots |-> "unread"]
  /\ got = [s \in Slots |-> 0]
  /\ reached = [s \in Slots |-> {}]
  /\ resp = [s \in Slots |-> NoResponse]

Init == HttpInit /\ Limiter!Init

Arrive(s, q) ==
  /\ stage[s] = "idle"
  /\ stage' = [stage EXCEPT ![s] = "boundary"]
  /\ req' = [req EXCEPT ![s] = q]
  /\ UNCHANGED <<principal, body, got, reached, resp, limiter>>

\* Go on to the next layer.
Pass(s, layer) ==
  /\ stage' = [stage EXCEPT ![s] = layer]
  /\ reached' = [reached EXCEPT ![s] = @ \cup {stage[s]}]
  /\ UNCHANGED resp

\* Answer from this layer; the layers outside it leave the response alone.
Answer(s, response) ==
  /\ stage' = [stage EXCEPT ![s] = "done"]
  /\ resp' = [resp EXCEPT ![s] = response]
  /\ UNCHANGED reached

Error(code) == [NoResponse EXCEPT !.status = code]

----------------------------------------------------------------------------
(* The Origin and Host boundary.                                             *)

\* The scheme://host[:port] of a URL that has one: paths and default ports go.
OriginOf(o) == IF o.site = "null" THEN NoOrigin ELSE [o EXCEPT !.form = "canonical"]

AllowedAsWritten == AllowedOrigins \cup {[site |-> PublicSite, form |-> "canonical"]}

\* Defect: a canonical form is compared only by its site's name
OriginAllowedLoose(q) ==
  q.origin = NoOrigin \/ q.origin.site \in {o.site : o \in AllowedAsWritten} \cup {"null"}

OriginAllowed(q) ==
  \/ q.origin = NoOrigin
  \/ q.origin \in AllowedAsWritten
  \/ OriginOf(q.origin) \in AllowedAsWritten

MatchesAllowedHost(h) ==
  \E e \in AllowedHosts : \/ e.kind = "exact" /\ e.name \in {h.name, h.raw}
                          \/ e.kind = "wildcard" /\ e.name = h.domain

HostAllowed(q) ==
  AllowedHosts = {} \/ (q.host.name # None /\ MatchesAllowedHost(q.host))

Boundary(s) ==
  /\ stage[s] = "boundary"
  /\ IF OriginAllowed(req[s]) /\ HostAllowed(req[s])
     THEN Pass(s, "auth")
     ELSE Answer(s, Error(403))
  /\ UNCHANGED <<req, principal, body, got, limiter>>

----------------------------------------------------------------------------
(* Authentication and the rate limiter.                                      *)

\* Defect: the extended card is exempt as well
AuthExemptCards(q) == q.method = "OPTIONS" \/ q.route \in {CardPath, ExtendedPath}

AuthExempt(q) == q.method = "OPTIONS" \/ q.route = CardPath

Authenticate(q) == IF q.cred \in Credentials THEN q.cred ELSE Nobody

Auth(s) ==
  /\ stage[s] = "auth"
  /\ LET who == Authenticate(req[s])
     IN  IF AuthExempt(req[s])
         THEN Pass(s, "rate") /\ UNCHANGED principal
         ELSE IF who = Nobody
         THEN Answer(s, Error(401)) /\ UNCHANGED principal
         ELSE Pass(s, "rate") /\ principal' = [principal EXCEPT ![s] = who]
  /\ UNCHANGED <<req, body, got, limiter>>

\* Defect: everybody without a credential id shares the peer's bucket
RateKeyByPeer(s) ==
  IF principal[s] # Nobody /\ principal[s].id # None THEN <<"credential", principal[s].id>>
  ELSE <<"ip", req[s].peer>>

\* By credential, else by principal, else by the direct peer's address.
RateKey(s) ==
  IF principal[s] # Nobody /\ principal[s].id # None THEN <<"credential", principal[s].id>>
  ELSE IF principal[s] # Nobody THEN Principal(principal[s])
  ELSE <<"ip", req[s].peer>>

RateExempt(q) == ~RateLimitEnabled \/ q.method = "OPTIONS"

Rate(s) ==
  /\ stage[s] = "rate"
  /\ IF RateExempt(req[s])
     THEN Pass(s, "log") /\ UNCHANGED limiter
     ELSE /\ Limiter!CheckAndRecord(s, RateKey(s))
          /\ IF Limiter!Admits(RateKey(s))
             THEN Pass(s, "log")
             ELSE /\ stage' = [stage EXCEPT ![s] = "hint"]
                  /\ UNCHANGED <<reached, resp>>
  /\ UNCHANGED <<req, principal, body, got>>

RateLimited(s) ==
  /\ stage[s] = "hint"
  /\ Limiter!SendHint(s)
  /\ Answer(s, Error(429))
  /\ UNCHANGED <<req, principal, body, got>>

----------------------------------------------------------------------------
(* The request body: read once, by the first layer that needs it.            *)

\* Defect: a small Content-Length is believed
TooLargeDeclared(s, bytes) == BodyLimit > 0 /\ req[s].declared = Undeclared /\ bytes > BodyLimit

TooLarge(s, bytes) == BodyLimit > 0 /\ bytes > BodyLimit

IsJson(q) == q.json

LogReadsBody(q) ==
  LogPayloads /\ IsJson(q) /\ (LogLimit > 0 => q.declared # Undeclared /\ q.declared <= LogLimit)
ShapeReadsBody(q) == q.method = "POST" /\ q.route \in {"rpc", "message"}
LimitReadsBody(q) == BodyLimit > 0 /\ q.method = "POST"

NeedsBody(s) ==
  \/ stage[s] = "log" /\ LogReadsBody(req[s])
  \/ stage[s] = "shape" /\ ShapeReadsBody(req[s])
  \/ stage[s] = "limit" /\ LimitReadsBody(req[s])

BodyReady(s) == NeedsBody(s) => body[s] = "cached"

\* Defect: a body whose length is declared counts as read
OpenedDeclared(q) == IF q.size = 0 \/ q.declared > 0 THEN "cached" ELSE "reading"

Opened(q) == IF q.size = 0 THEN "cached" ELSE "reading"

\* _get_request_body: the Content-Length first, then the stream.
OpenBody(s) ==
  /\ NeedsBody(s) /\ body[s] = "unread"
  /\ IF req[s].declared # Undeclared /\ TooLarge(s, req[s].declared)
     THEN Answer(s, Error(413)) /\ UNCHANGED body
     ELSE /\ body' = [body EXCEPT ![s] = Opened(req[s])]
          /\ UNCHANGED <<stage, reached, resp>>
  /\ UNCHANGED <<req, principal, got, limiter>>

ReadChunk(s) ==
  /\ body[s] = "reading" /\ stage[s] # "done"
  /\ \E n \in 1..(req[s].size - got[s]) :
       IF TooLarge(s, got[s] + n)
       THEN Answer(s, Error(413)) /\ UNCHANGED <<got, body>>
       ELSE /\ got' = [got EXCEPT ![s] = @ + n]
            /\ body' = [body EXCEPT ![s] = IF got'[s] = req[s].size THEN "cached" ELSE @]
            /\ UNCHANGED <<stage, reached, resp>>
  /\ UNCHANGED <<req, principal, limiter>>

LogLayer(s) ==
  /\ stage[s] = "log" /\ BodyReady(s)
  /\ Pass(s, "shape")
  /\ UNCHANGED <<req, principal, body, got, limiter>>

\* A JSON-RPC error travels in a 200 response.
RpcError == Error(200)

\* The payload parses as an object with method and jsonrpc.
LooksLikeEnvelope(q) == q.shape = "envelope"

\* It has message.content, a lower-case role or parts of the old form.
ShapeViolation(q) == q.shape = "violation"

\* The payload of a message request must be a current A2A message and, on a REST
\* route, not a JSON-RPC envelope; a body that does not parse is let through.
ShapeError(q) ==
  IF q.route = "message" /\ LooksLikeEnvelope(q) THEN Error(400)
  ELSE IF ShapeViolation(q)
  THEN IF q.route = "rpc" THEN RpcError ELSE Error(400)
  ELSE NoResponse

ShapeLayer(s) ==
  /\ stage[s] = "shape" /\ BodyReady(s)
  /\ IF ShapeReadsBody(req[s]) /\ ShapeError(req[s]) # NoResponse
     THEN Answer(s, ShapeError(req[s]))
     ELSE Pass(s, "limit")
  /\ UNCHANGED <<req, principal, body, got, limiter>>

LimitLayer(s) ==
  /\ stage[s] = "limit" /\ BodyReady(s)
  /\ Pass(s, "cards")
  /\ UNCHANGED <<req, principal, body, got, limiter>>

----------------------------------------------------------------------------
(* Agent cards, protocol version and routes.                                 *)

IsPublicCard(q) == q.method = "GET" /\ q.route = CardPath
IsExtendedCard(q) == q.method = "GET" /\ q.route = ExtendedPath
EtagMatches(q, etag) == q.match \in {etag, "any"}

Supported(q) ==
  CASE q.route = ExtendedPath -> {"public", "private"}
    [] q.route = "other" -> {}
    [] OTHER -> {"public"}

Activated(q) == q.ext \cap Supported(q)

\* A public card that the client already has is answered without the route.
CardLayer(s) ==
  /\ stage[s] = "cards"
  /\ IF IsPublicCard(req[s]) /\ EtagMatches(req[s], CardPath)
     THEN Answer(s, [Error(304) EXCEPT !.etag = CardPath, !.ext = Activated(req[s])])
     ELSE Pass(s, "version")
  /\ UNCHANGED <<req, principal, body, got, limiter>>

NeedsVersion(q) ==
  (q.route = "rpc" /\ q.method = "POST") \/ q.route \in {"message", "task"}

\* Header, else query, else the default; the patch number does not matter.
VersionSupported(q) == q.version = "current"

VersionLayer(s) ==
  /\ stage[s] = "version"
  /\ IF NeedsVersion(req[s]) /\ ~VersionSupported(req[s])
     THEN Answer(s, IF req[s].route = "rpc" THEN RpcError ELSE Error(400))
     ELSE Pass(s, "route")
  /\ UNCHANGED <<req, principal, body, got, limiter>>

\* The routes of the application.  A method that a path does not serve is
\* refused there; what a handler answers is up to it.
Served(q) ==
  CASE q.route \in {CardPath, ExtendedPath, "other"} -> q.method = "GET"
    [] q.route \in {"rpc", "message"} -> q.method = "POST"
    [] OTHER -> q.method \in {"GET", "POST"}

RouteStatuses(q) ==
  IF ~Served(q) THEN {405}
  ELSE IF q.route \in {CardPath, ExtendedPath, "other", "rpc"} THEN {200}
  ELSE {200, 400, 404}

Succeeds(r) == r.status \in 200..399

\* The response of a route on its way out: the trace and version layers, then
\* the card layer, which turns an extended card the client has into a 304.
WithTrace(r) == [r EXCEPT !.trace = TRUE]

WithVersion(q, r) ==
  IF ~NeedsVersion(q) THEN r
  ELSE [r EXCEPT !.version = TRUE, !.ext = IF Succeeds(r) THEN Activated(q) ELSE @]

WithCard(q, r) ==
  IF ~(IsPublicCard(q) \/ IsExtendedCard(q)) \/ r.status # 200 THEN r
  ELSE [r EXCEPT !.etag = q.route, !.ext = Activated(q),
                 !.status = IF IsExtendedCard(q) /\ EtagMatches(q, ExtendedPath)
                            THEN 304 ELSE 200]

Route(s) ==
  /\ stage[s] = "route"
  /\ \E status \in RouteStatuses(req[s]) :
       resp' = [resp EXCEPT ![s] =
                  WithCard(req[s], WithVersion(req[s], WithTrace(Error(status))))]
  /\ stage' = [stage EXCEPT ![s] = "done"]
  /\ reached' = [reached EXCEPT ![s] = @ \cup {"route"}]
  /\ UNCHANGED <<req, principal, body, got, limiter>>

Tick == Limiter!Tick /\ UNCHANGED http

Layer(s) ==
  \/ Boundary(s) \/ Auth(s) \/ Rate(s) \/ RateLimited(s) \/ OpenBody(s) \/ ReadChunk(s)
  \/ LogLayer(s) \/ ShapeLayer(s) \/ LimitLayer(s) \/ CardLayer(s) \/ VersionLayer(s)
  \/ Route(s)

\* The requests R arrive at the slots S.
Within(S, R) ==
  \/ \E s \in S : Layer(s) \/ \E q \in R : Arrive(s, q)
  \/ Tick

Next == Within(Slots, Requests)

Spec == Init /\ [][Next]_vars

----------------------------------------------------------------------------
Response == [status : Nat, etag : {None, CardPath, ExtendedPath}, version : BOOLEAN,
             trace : BOOLEAN, ext : SUBSET {"public", "private"}]

\* Types; a request that is over has a response, and only such a one.
TypeOK ==
  /\ stage \in [Slots -> {"idle", "done", "hint"} \cup {Layers[i] : i \in DOMAIN Layers}]
  /\ req \in [Slots -> Requests]
  /\ principal \in [Slots -> Credentials \cup {Nobody}]
  /\ body \in [Slots -> {"unread", "reading", "cached"}]
  /\ got \in [Slots -> Nat]
  /\ reached \in [Slots -> SUBSET {Layers[i] : i \in DOMAIN Layers}]
  /\ resp \in [Slots -> Response]
  /\ \A s \in Slots : /\ got[s] \in 0..req[s].size
                      /\ (stage[s] = "done") = (resp[s].status # 0)
                      /\ (body[s] = "cached") => got[s] = req[s].size
  /\ Limiter!TypeOK

\* What a route handles has been cleared by every layer: it came from an allowed
\* origin, somebody is accountable for it unless it only reads the public card
\* or is a preflight, and a body that a handler will act on was seen whole,
\* within the limit, in a shape and a version that are supported.
RouteIsCleared ==
  \A s \in Slots :
    LET q == req[s] IN
    "route" \in reached[s] =>
      /\ q.origin = NoOrigin \/ OriginOf(q.origin) \in AllowedAsWritten
           \/ q.origin \in AllowedAsWritten
      /\ principal[s] # Nobody \/ q.method = "OPTIONS" \/ IsPublicCard(q)
           \/ ~Served(q)
      /\ q.method = "POST" /\ BodyLimit > 0 =>
           body[s] = "cached" /\ got[s] = q.size /\ q.size <= BodyLimit
      /\ Served(q) /\ NeedsVersion(q) => q.version = "current"

\* The server never buffers more than its limit of a request, whatever length
\* it declares, and nothing at all of one that is not authenticated or exempt.
BufferBounded ==
  \A s \in Slots :
    /\ BodyLimit > 0 => got[s] <= BodyLimit
    /\ got[s] > 0 => {"boundary", "auth", "rate"} \subseteq reached[s]

\* Quotas are charged to whoever sent the request, once per admitted request: a
\* bucket holds as many admissions as its own requests passed the limiter, so
\* callers do not use up each other's, nor strangers anybody's.
PaysWith(s, k) ==
  IF principal[s] = Nobody THEN k = <<"ip", req[s].peer>>
  ELSE k \in {<<"credential", principal[s].id>>, Principal(principal[s])}

Payers(k) == {s \in Slots : "rate" \in reached[s] /\ PaysWith(s, k)}

ChargedToSender == \A k \in RateKeys : Len(everAdmitted[k]) <= Cardinality(Payers(k))

\* The extended card, its tag and the extensions only it offers are for
\* authenticated callers, from the cache as from the route.
ExtendedCardIsPrivate ==
  \A s \in Slots :
    resp[s].etag = ExtendedPath \/ "private" \in resp[s].ext => principal[s] # Nobody

\* Nothing gets past the layers out of turn: what reaches a route, a buffer or
\* the extended card has been through every check installed outside of it
\* (middleware.py).
RequestsCleared ==
  /\ TypeOK
  /\ RouteIsCleared
  /\ BufferBounded
  /\ ExtendedCardIsPrivate

\* The quota is each caller's own, is used up before a refusal and not exceeded,
\* and a hint given after the lock was released is still true
\* (runtime_limits.py, middleware.py).
QuotaIsFair ==
  /\ ChargedToSender
  /\ Limiter!WithinQuota
  /\ Limiter!RefusalIsDeserved
  /\ Limiter!HintIsHonest

----------------------------------------------------------------------------
(* What makes these properties inductive.                                    *)

\* The layers a request has passed when it is about to enter one of them.
Before ==
  [idle |-> {}, boundary |-> {}, auth |-> {"boundary"}, rate |-> {"boundary", "auth"},
   hint |-> {"boundary", "auth"}, log |-> {"boundary", "auth", "rate"},
   shape |-> {"boundary", "auth", "rate", "log"},
   limit |-> {"boundary", "auth", "rate", "log", "shape"},
   cards |-> {"boundary", "auth", "rate", "log", "shape", "limit"},
   version |-> {"boundary", "auth", "rate", "log", "shape", "limit", "cards"},
   route |-> {"boundary", "auth", "rate", "log", "shape", "limit", "cards", "version"}]

InOrderPassed ==
  \A s \in Slots :
    /\ stage[s] # "done" => reached[s] = Before[stage[s]] /\ resp[s] = NoResponse
    /\ "route" \in reached[s] => Before["route"] \subseteq reached[s]

\* What each layer has made sure of.
LayersHold ==
  \A s \in Slots :
    LET q == req[s] IN
    /\ "boundary" \in reached[s] => OriginAllowed(q)
    /\ "auth" \in reached[s] => AuthExempt(q) \/ principal[s] # Nobody
    /\ "auth" \notin reached[s] => principal[s] = Nobody
    /\ "limit" \in reached[s] /\ q.method = "POST" /\ BodyLimit > 0 => body[s] = "cached"
    /\ "version" \in reached[s] => (NeedsVersion(q) => VersionSupported(q))

\* A body is read behind the rate limiter and counted from nothing.
BodiesCounted ==
  \A s \in Slots :
    /\ body[s] = "unread" => got[s] = 0
    /\ body[s] # "unread" => Before["log"] \subseteq reached[s]

HttpInv ==
  /\ RequestsCleared /\ InOrderPassed /\ LayersHold /\ BodiesCounted
  /\ ChargedToSender
  /\ Limiter!LimiterInv
============================================================================
