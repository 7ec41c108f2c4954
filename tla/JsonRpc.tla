------------------------------ MODULE JsonRpc ------------------------------
(* The JSON-RPC endpoint: OpencodeSessionManagementJSONRPCApplication in     *)
(* jsonrpc/application.py, the registry of extension methods in              *)
(* jsonrpc/dispatch.py and the handlers under jsonrpc/handlers/, from a      *)
(* request's body to its answer.  A handler is the order of its checks; each *)
(* check is an action that passes the request on or answers it.  The claims  *)
(* on sessions that concurrent requests contend for are in Execution, the    *)
(* interrupts in Interrupts, the tasks in TaskService: here any of their     *)
(* outcomes may come back.                                                   *)
EXTENDS RpcParams, FiniteSets

CONSTANTS
  Requests,    \* [method, id, parsed, params, extensions, capabilities, identity]
  Configs,     \* [shell, mutations, mode, scope, override]: the settings that matter
  Replies,     \* the JSON values the upstream server may answer with
  Base,        \* the resolved base directory: the upstream client's, or the workspace root
  Links        \* symbolic links of the file system: path -> path

VARIABLES
  config,      \* the deployment's settings
  req,         \* the request being handled
  todo,        \* the checks it still has to pass, <<>> once it is answered
  scope,       \* [workspace, directory] it was routed to
  claim,       \* its claim on the session: see SessionClaimGuard
  sent,        \* the call made upstream, or NoCall
  outcome,     \* [how, payload] of that call
  answer       \* [kind, type, items]

vars == <<config, req, todo, scope, claim, sent, outcome, answer>>

None == "none"
Nowhere == [workspace |-> <<>>, directory |-> <<>>]
NoRequest == [method |-> None, id |-> TRUE, parsed |-> TRUE, params |-> Null,
              extensions |-> {}, capabilities |-> {}, identity |-> TRUE]
NoCall == [method |-> None, scope |-> Nowhere]
NoOutcome == [how |-> None, payload |-> Null]
NoAnswer == [kind |-> None, type |-> None, items |-> 0]

-----------------------------------------------------------------------------
(* The methods of the endpoint. *)

SessionReads == {"status", "get_session", "get_session_children", "get_session_todo",
                 "get_session_diff", "get_session_message"}
SessionMutations == {"fork", "share", "unshare", "summarize", "revert", "unrevert"}
SessionListings == {"list_sessions", "get_session_messages"}
SessionControls == {"prompt_async", "command", "shell"}
ProviderMethods == {"list_providers", "list_models"}
WorkspaceReads == {"list_projects", "get_current_project", "list_workspaces", "list_worktrees"}
WorkspaceMutations ==
  {"create_workspace", "remove_workspace", "create_worktree", "remove_worktree", "reset_worktree"}
InterruptQueries == {"list_permissions", "list_questions"}
InterruptCallbacks == {"reply_permission", "reply_question", "reject_question"}

PushMethods == {"CreateTaskPushNotificationConfig", "GetTaskPushNotificationConfig",
                "ListTaskPushNotificationConfigs", "DeleteTaskPushNotificationConfig"}
StreamMethods == {"SendStreamingMessage", "SubscribeToTask"}
TaskMethods == {"SendMessage", "GetTask", "ListTasks", "CancelTask"}
\* The keys of the SDK dispatcher's METHOD_TO_MODEL.
CoreMethods == PushMethods \cup StreamMethods \cup TaskMethods \cup {"GetExtendedAgentCard"}

MayWrite(c) == c.mode # "read-only" /\ c.scope # "none"

\* Whether a deployment-conditional method is enabled.
Enabled(c, m) == /\ m = "shell" => c.shell /\ MayWrite(c)
                 /\ m \in WorkspaceMutations => c.mutations /\ MayWrite(c)

SupportedMethods(c) ==
  {m \in CoreMethods \cup SessionReads \cup SessionMutations \cup SessionListings
         \cup SessionControls \cup ProviderMethods \cup WorkspaceReads \cup WorkspaceMutations
         \cup InterruptQueries \cup InterruptCallbacks : Enabled(c, m)}

Spec_(name, methods, uri) == [name |-> name, methods |-> methods, uri |-> uri]

\* Defect: the registry registers the shell whatever the toggle says.
RegistryAlwaysShell(c) ==
  {Spec_("lifecycle", SessionReads \cup SessionMutations, "session_management"),
   Spec_("listing", SessionListings, "session_management"),
   Spec_("providers", ProviderMethods, "provider_discovery"),
   Spec_("interrupt_query", InterruptQueries, "interrupt_recovery"),
   Spec_("workspace", WorkspaceReads \cup {m \in WorkspaceMutations : Enabled(c, m)},
         "workspace_control"),
   Spec_("control", SessionControls, "session_management"),
   Spec_("interrupt_callback", InterruptCallbacks, "interrupt_callback")}
Registry(c) ==
  {Spec_("lifecycle", SessionReads \cup SessionMutations, "session_management"),
   Spec_("listing", SessionListings, "session_management"),
   Spec_("providers", ProviderMethods, "provider_discovery"),
   Spec_("interrupt_query", InterruptQueries, "interrupt_recovery"),
   Spec_("workspace", WorkspaceReads \cup {m \in WorkspaceMutations : Enabled(c, m)},
         "workspace_control"),
   Spec_("control", {m \in SessionControls : Enabled(c, m)}, "session_management"),
   Spec_("interrupt_callback", InterruptCallbacks, "interrupt_callback")}

\* The registry's constructor raises when two handlers claim a method.
ASSUME RegistryIsUnambiguous ==
  \A c \in Configs : \A s, t \in Registry(c) : s # t => s.methods \cap t.methods = {}

IsExtension(m) == \E s \in Registry(config) : m \in s.methods
Resolve(m) == CHOOSE s \in Registry(config) : m \in s.methods
Handler == Resolve(req.method).name

\* Defect: session control resolves its claim after the call upstream.
StepsClaimLate(name) ==
  CASE name = "lifecycle" -> <<"params", "routing", "claim", "call", "settle">>
    [] name = "control" -> <<"params", "capability", "payload", "routing", "call", "claim", "settle">>
    [] name \in {"listing", "providers"} -> <<"params", "routing", "call", "reply">>
    [] name = "workspace" -> <<"capability", "params", "call", "reply">>
    [] OTHER -> <<"interrupt">>
\* Each handler's checks, in its order.
Steps(name) ==
  CASE name = "lifecycle" -> <<"params", "routing", "claim", "call", "settle">>
    [] name = "control" -> <<"params", "capability", "payload", "routing", "claim", "call", "settle">>
    [] name \in {"listing", "providers"} -> <<"params", "routing", "call", "reply">>
    [] name = "workspace" -> <<"capability", "params", "call", "reply">>
    [] OTHER -> <<"interrupt">>

-----------------------------------------------------------------------------
(* Answers. *)

Init ==
  /\ config \in Configs
  /\ req = NoRequest
  /\ todo = <<"receive">>
  /\ scope = Nowhere
  /\ claim = None
  /\ sent = NoCall
  /\ outcome = NoOutcome
  /\ answer = NoAnswer

At(step) == todo # <<>> /\ Head(todo) = step
Proceed == todo' = Tail(todo) /\ UNCHANGED <<config, req, answer>>
Reply(kind, type, items) ==
  /\ answer' = [kind |-> kind, type |-> type, items |-> items]
  /\ todo' = <<>>
  /\ UNCHANGED <<config, req>>

\* Defect: the handler builds the error response and goes on.
ErrorGoesOn(type) ==
  /\ answer' = [kind |-> "error", type |-> type, items |-> 0]
  /\ todo' = Tail(todo)
  /\ UNCHANGED <<config, req>>
\* _generate_protocol_error_response: also for a request without an id.
Error(type) == Reply("error", type, 0)
\* build_success_response
Success(items) == Reply(IF req.id THEN "result" ELSE "empty", None, items)

handling == <<scope, claim, sent, outcome>>

\* A request arrives; the next one only after this one's answer.
Receive ==
  /\ todo = <<"receive">>
  /\ req' \in Requests
  /\ todo' = <<"dispatch">>
  /\ UNCHANGED <<config, scope, claim, sent, outcome, answer>>

\* The connection is free for the next request.
Done ==
  /\ todo = <<>>
  /\ todo' = <<"receive">>
  /\ req' = NoRequest
  /\ scope' = Nowhere /\ claim' = None /\ sent' = NoCall
  /\ outcome' = NoOutcome /\ answer' = NoAnswer
  /\ UNCHANGED config

Negotiated(spec) == spec.uri \in req.extensions
\* base_request.params or {}: no params, and an empty array, are an empty object.
ObjectParams(v) == IsNull(v) \/ IsObject(v) \/ v = Arr(<<>>)

\* handle_requests, for what is not a core method.
Dispatch ==
  /\ At("dispatch") /\ req.parsed /\ IsExtension(req.method)
  /\ LET spec == Resolve(req.method)
     IN \/ ~Negotiated(spec) /\ Error("UNSUPPORTED_OPERATION")
        \/ /\ Negotiated(spec) /\ ~ObjectParams(req.params)
           /\ Error("INVALID_PARAMS")
        \/ /\ Negotiated(spec) /\ ObjectParams(req.params)
           /\ todo' = Steps(spec.name)
           /\ UNCHANGED <<config, req, answer>>
  /\ UNCHANGED handling

\* The SDK's dispatcher answers a body that is no JSON-RPC request.
Malformed ==
  /\ At("dispatch") /\ ~req.parsed
  /\ Error("INVALID_REQUEST")
  /\ UNCHANGED handling

\* _handle_core_request up to the request handler.
CoreRequest ==
  /\ At("dispatch") /\ req.parsed /\ ~IsExtension(req.method)
  /\ \/ req.method \in PushMethods /\ Error("PUSH_NOTIFICATION_NOT_SUPPORTED")
     \/ req.method = "GetExtendedAgentCard" /\ Success(1)
     \/ /\ req.method \notin CoreMethods
        /\ IF req.id THEN Error("METHOD_NOT_SUPPORTED") ELSE Reply("empty", None, 0)
     \/ /\ req.method \in TaskMethods \cup StreamMethods
        /\ \/ Error("INVALID_PARAMS")
           \/ todo' = <<"task">> /\ UNCHANGED <<config, req, answer>>
  /\ UNCHANGED handling

\* The request handler returns, streams, or raises an A2AError.
CoreAnswer ==
  /\ At("task")
  /\ \/ req.method \in StreamMethods /\ Reply("stream", None, 0)
     \/ req.method \in TaskMethods /\ Success(1)
     \/ Error("TASK_ERROR")
  /\ UNCHANGED handling

\* The interrupt methods: see Interrupts.
InterruptAnswer ==
  /\ At("interrupt")
  /\ Success(0) \/ Error("INVALID_PARAMS") \/ Error("INTERRUPT_ERROR")
  /\ UNCHANGED handling

-----------------------------------------------------------------------------
(* Validation. *)

LifecycleParams(m, p) ==
  /\ Fields(p) \subseteq
       {"metadata", "directory"}
         \cup (IF m # "status" THEN {"session_id"} ELSE {})
         \cup (IF m \in {"get_session_diff", "get_session_message"} THEN {"message_id"} ELSE {})
         \cup (IF m \in {"fork", "summarize", "revert"} THEN {"request"} ELSE {})
  /\ OptionalText(Get(p, "directory"))
  /\ m # "status" => NonBlank(Get(p, "session_id"))
  /\ m \in {"get_session_diff", "get_session_message"} => OptionalText(Get(p, "message_id"))
  /\ m = "get_session_message" => NonBlank(Get(p, "message_id"))
  /\ m = "fork" => ForkRequest(Get(p, "request"))
  /\ m = "summarize" => SummarizeRequest(Get(p, "request"))
  /\ m = "revert" => RevertRequest(Get(p, "request"))

ControlParams(p) ==
  /\ Fields(p) \subseteq {"session_id", "request", "metadata"}
  /\ NonBlank(Get(p, "session_id"))
  /\ IsObject(Get(p, "request"))

ControlPayload(m, p) ==
  LET body == Get(p, "request")
  IN /\ m = "prompt_async" => PromptAsyncRequest(body)
     /\ m = "command" => CommandRequest(body)
     /\ m = "shell" => ShellRequest(body)

WorkspaceParams(m, p) ==
  LET HasBody == m \in WorkspaceMutations \ {"remove_workspace"}
  IN /\ Fields(p) \subseteq
          {"metadata"} \cup (IF HasBody THEN {"request"} ELSE {})
            \cup (IF m = "remove_workspace" THEN {"workspace_id"} ELSE {})
     /\ m = "remove_workspace" => NonBlank(Get(p, "workspace_id"))
     /\ HasBody => IsObject(Get(p, "request")) /\ WorkspaceRequest(m, Get(p, "request"))

ParamsOk(m, p) ==
  CASE Handler = "lifecycle" -> LifecycleParams(m, p)
    [] Handler = "control" -> ControlParams(p)
    [] Handler = "workspace" -> WorkspaceParams(m, p)
    [] Handler = "providers" -> ProviderParams(m, p)
    [] m = "list_sessions" -> ListSessionsParams(p)
    [] OTHER -> SessionMessagesParams(p)

Pass(ok, type) == IF ok THEN Proceed ELSE Error(type)

CheckParams ==
  At("params") /\ Pass(ParamsOk(req.method, req.params), "INVALID_PARAMS") /\ UNCHANGED handling
CheckPayload ==
  At("payload") /\ Pass(ControlPayload(req.method, req.params), "INVALID_PARAMS")
    /\ UNCHANGED handling

\* Defect: only the shell is guarded by a capability.
NeedsShellOnly(m) == IF m = "shell" THEN {"session_shell"} ELSE {}
Needs(m) == IF m = "shell" THEN {"session_shell"}
            ELSE IF m \in WorkspaceMutations THEN {"workspace_mutation"} ELSE {}

CheckCapability ==
  At("capability") /\ Pass(Needs(req.method) \subseteq req.capabilities, "AUTHORIZATION_FORBIDDEN")
    /\ UNCHANGED handling
-----------------------------------------------------------------------------
(* Routing: resolve_routing_context and the sandbox's directory resolver. *)

IsWithin(path, root) == IsPrefix(root, path)

\* Path.resolve(): ".." and symbolic links are followed, piece by piece.
RealPath(path) ==
  FoldLeft(LAMBDA at, piece :
             CASE piece = "/" -> <<"/">>
               [] piece = ".." -> IF Len(at) > 1 THEN Front(at) ELSE at
               [] OTHER -> LET next == Append(at, piece)
                           IN IF next \in DOMAIN Links THEN Links[next] ELSE next,
           <<"/">>, path)

IsSequence(s) == s \in Seq(Range(s))

\* A path that Path.resolve() can come to: absolute, without "..", and no
\* symbolic link on the way.
Resolved(path) ==
  /\ IsSequence(path) /\ path # <<>> /\ path[1] = "/"
  /\ \A i \in 2..Len(path) : path[i] \notin {"/", ".."} /\ SubSeq(path, 1, i) \notin DOMAIN Links

Anchored(text) == IF Head(text) = "/" THEN text ELSE Base \o text

\* Defect: the directory is tested as written and resolved afterwards.
ResolveDirectoryAsWritten(text) ==
  IF text = <<>> THEN Base
  ELSE IF IF config.override THEN IsWithin(Anchored(text), Base) ELSE Anchored(text) = Base
  THEN RealPath(Anchored(text)) ELSE <<>>
\* The directory, or <<>> when the policy refuses it.
ResolveDirectory(text) ==
  LET path == RealPath(Anchored(text))
  IN IF text = <<>> THEN Base
     ELSE IF IF config.override THEN IsWithin(path, Base) ELSE path = Base
     THEN path ELSE <<>>

\* _parse_metadata_objects; strict is how the directory's metadata is read.
MetadataObjects(md, strict) ==
  /\ Optional(md, IsObject)
  /\ Optional(Get(md, "opencode"), IsObject)
  /\ strict => /\ Fields(md) \subseteq {"opencode", "shared"}
               /\ Optional(Get(md, "shared"), IsObject)

WorkspaceMetadata(md) ==
  LET workspace == GetPath(md, <<"opencode", "workspace">>)
  IN /\ MetadataObjects(md, FALSE)
     /\ Optional(workspace, IsObject)
     /\ OptionalText(Get(workspace, "id"))
WorkspaceId(md) == GetPath(md, <<"opencode", "workspace", "id">>).text

DirectoryMetadata(md) ==
  MetadataObjects(md, TRUE) /\ OptionalText(GetPath(md, <<"opencode", "directory">>))

\* The directory of the params, where the handler reads one.
RequestedDirectory(p) ==
  IF Handler = "lifecycle" \/ req.method = "list_sessions" THEN Get(p, "directory").text ELSE <<>>

\* Workspace first, then the directory of the params, then the metadata's.
Route(p) ==
  LET md == Get(p, "metadata")
      wanted == IF RequestedDirectory(p) # <<>> THEN RequestedDirectory(p)
                ELSE GetPath(md, <<"opencode", "directory">>).text
  IN IF WorkspaceMetadata(md) /\ WorkspaceId(md) # <<>>
     THEN [ok |-> TRUE, scope |-> [workspace |-> WorkspaceId(md), directory |-> <<>>]]
     ELSE [ok |-> /\ WorkspaceMetadata(md)
                  /\ RequestedDirectory(p) # <<>> \/ DirectoryMetadata(md)
                  /\ ResolveDirectory(wanted) # <<>>,
           scope |-> [workspace |-> <<>>, directory |-> ResolveDirectory(wanted)]]

\* The limits of catalog.py are in order; a request has its fields and what it
\* writes as a directory is a text; an array of an answer is finite; the base is
\* resolved when the application is built, and the links of the file system end.
ASSUME JsonRpcAssumption ==
  /\ DefaultLimit \in Nat /\ MaxLimit \in Nat /\ DefaultLimit <= MaxLimit
  /\ \A q \in Requests :
       /\ DOMAIN q = DOMAIN NoRequest /\ {q.id, q.parsed, q.identity} \subseteq BOOLEAN
       /\ IsSequence(Get(q.params, "directory").text)
       /\ IsSequence(GetPath(Get(q.params, "metadata"), <<"opencode", "directory">>).text)
  /\ \A v \in Replies : IsFiniteSet(DOMAIN v.items)
  /\ Resolved(Base)
  /\ \A path \in DOMAIN Links : Resolved(Links[path])

ResolveRouting ==
  /\ At("routing")
  /\ Pass(Route(req.params).ok, "INVALID_PARAMS")
  /\ scope' = IF Route(req.params).ok THEN Route(req.params).scope ELSE scope
  /\ UNCHANGED <<claim, sent, outcome>>

-----------------------------------------------------------------------------
(* The claim on the session and the call upstream. *)

\* Whether SessionClaimGuard asks for a claim.
Claims(m) == m \in SessionControls \cup SessionMutations /\ req.identity

\* claim_preferred_session: it is another's, the state store fails, it is
\* already ours, or it is now pending.
EnterClaim ==
  /\ At("claim")
  /\ \/ ~Claims(req.method) /\ Proceed /\ UNCHANGED claim
     \/ Claims(req.method) /\ Proceed /\ claim' \in {"pending", "owned"}
     \/ Claims(req.method) /\ claim' = "refused" /\ Error("SESSION_FORBIDDEN")
     \/ Claims(req.method) /\ claim' = "refused" /\ Error("INTERNAL_ERROR")
  /\ UNCHANGED <<scope, sent, outcome>>

Failures == {"not_found", "status", "transport", "busy", "contract", "other"}

\* What goes upstream.  The listing of a session's messages sends no directory,
\* and the workspace methods send no scope.
SentScope ==
  IF req.method = "get_session_messages" THEN [scope EXCEPT !.directory = <<>>] ELSE scope

CallUpstream ==
  /\ At("call")
  /\ \/ \E how \in Failures : outcome' = [how |-> how, payload |-> Null]
     \/ \E v \in Replies : outcome' = [how |-> "answered", payload |-> v]
  /\ sent' = [method |-> req.method, scope |-> SentScope]
  /\ Proceed
  /\ UNCHANGED <<scope, claim>>

\* Defect: a 404 always means that the session is not there.
TranslateAnyNotFound(how) ==
  CASE how = "not_found" -> "SESSION_NOT_FOUND"
    [] how = "status" -> "UPSTREAM_HTTP_ERROR"
    [] how \in {"transport", "busy"} -> "UPSTREAM_UNREACHABLE"
    [] how = "contract" /\ Handler \in {"lifecycle", "control"} -> "UPSTREAM_PAYLOAD_ERROR"
    [] OTHER -> "INTERNAL_ERROR"
\* build_upstream_exception_response
Translate(how) ==
  CASE how = "not_found" ->
         IF req.method \in SessionControls \cup SessionMutations \cup (SessionReads \ {"status"})
                           \cup {"get_session_messages"}
         THEN "SESSION_NOT_FOUND" ELSE "UPSTREAM_HTTP_ERROR"
    [] how = "status" -> "UPSTREAM_HTTP_ERROR"
    [] how \in {"transport", "busy"} -> "UPSTREAM_UNREACHABLE"
    [] how = "contract" /\ Handler \in {"lifecycle", "control"} -> "UPSTREAM_PAYLOAD_ERROR"
    [] OTHER -> "INTERNAL_ERROR"

HasId(v) == IsObject(v) /\ NonBlank(Get(v, "id"))
HasName(v) == IsObject(v) /\ NonBlank(Get(v, "name"))
AllItems(v, P(_)) == v.t = "array" /\ \A i \in DOMAIN v.items : P(v.items[i])

\* _as_a2a_message: the message, or the info it carries, has an id.
IsMessage(v) ==
  IsObject(v) /\ HasId(IF IsObject(Get(v, "info")) THEN Get(v, "info") ELSE v)

\* _extract_provider_catalog
IsCatalog(v) ==
  /\ IsObject(v)
  /\ AllItems(Get(v, "all"), IsObject)
  /\ IsObject(Get(v, "default")) /\ \A f \in Fields(Get(v, "default")) : IsText(Get(v, "default").of[f])
  /\ AllItems(Get(v, "connected"), IsText)

\* Whether the answer has the shape the session methods can map.
SessionShape(m, v) ==
  CASE m = "prompt_async" -> TRUE
    [] m = "status" -> IsObject(v)
    [] m \in {"command", "shell", "get_session_message"} -> IsMessage(v)
    [] m \in {"get_session_children", "get_session_todo", "get_session_diff"} -> v.t = "array"
    [] m = "summarize" -> IsBool(v)
    [] OTHER -> HasId(v)

\* _normalize_response_payload
WorkspaceShape(m, v) ==
  CASE m \in {"list_projects", "list_workspaces"} -> AllItems(v, HasId)
    [] m = "list_worktrees" -> AllItems(v, HasName)
    [] m \in {"remove_worktree", "reset_worktree"} -> IsBool(v)
    [] m = "create_worktree" -> IsNull(v) \/ HasName(v)
    [] OTHER -> IsNull(v) \/ HasId(v)

Mappable(v, P(_)) == Cardinality({i \in DOMAIN v.items : P(v.items[i])})

\* Defect: the listing answers whatever came back.
AnsweredItemsAll(m, v) ==
  CASE m \in {"list_sessions", "get_session_children"} -> Mappable(v, HasId)
    [] m = "get_session_messages" -> Mappable(v, IsMessage)
    [] OTHER -> Len(v.items)
\* How many items the answer holds: the ones that map, up to the limit.
AnsweredItems(m, v) ==
  CASE m = "list_sessions" ->
         LET limit == Limit(Get(req.params, "limit"))
         IN IF Mappable(v, HasId) <= limit THEN Mappable(v, HasId) ELSE limit
    [] m = "get_session_children" -> Mappable(v, HasId)
    [] m = "get_session_messages" -> Mappable(v, IsMessage)
    [] OTHER -> Len(v.items)

\* The handlers without a claim: listings, providers, workspaces.  A null
\* that the client returns as None is raised past every except clause.
ReplyUnclaimed ==
  /\ At("reply")
  /\ LET v == outcome.payload
         shaped == CASE Handler = "workspace" -> WorkspaceShape(req.method, v)
                     [] Handler = "providers" -> IsCatalog(v)
                     [] OTHER -> v.t = "array"
     IN \/ outcome.how # "answered" /\ Error(Translate(outcome.how))
        \/ /\ outcome.how = "answered" /\ IsNull(v) /\ req.method # "get_session_messages"
           /\ Reply("raised", "HTTP_500", 0)
        \/ /\ outcome.how = "answered" /\ (~IsNull(v) \/ req.method = "get_session_messages")
           /\ IF shaped THEN Success(AnsweredItems(req.method, v))
                        ELSE Error("UPSTREAM_PAYLOAD_ERROR")
  /\ UNCHANGED handling

\* Defect: a failed call leaves the pending claim behind.
ReleaseNever == UNCHANGED claim
\* __aexit__ for a claim that was not finalized; a failure of the release is
\* logged and the claim lasts until it expires.
Release == claim' \in IF claim = "pending" THEN {"released", "stuck"} ELSE {claim}

\* The call failed or what came back cannot be mapped.
SettleFailed ==
  /\ At("settle")
  /\ \/ outcome.how # "answered" /\ Error(Translate(outcome.how))
     \/ /\ outcome.how = "answered" /\ ~SessionShape(req.method, outcome.payload)
        /\ Error("UPSTREAM_PAYLOAD_ERROR")
  /\ Release
  /\ UNCHANGED <<scope, sent, outcome>>

\* finalize() and, for a fork, the claim on the new session.  A pending claim
\* may have expired and be another's by now, and the state store may fail.
SettleOk ==
  /\ At("settle")
  /\ outcome.how = "answered" /\ SessionShape(req.method, outcome.payload)
  /\ LET final == IF claim = "pending" THEN "finalized" ELSE claim
     IN \/ claim' = final /\ Success(AnsweredItems(req.method, outcome.payload))
        \/ /\ claim = "pending" /\ Release
           /\ Error("SESSION_FORBIDDEN") \/ Error("INTERNAL_ERROR")
        \/ /\ req.method = "fork" /\ req.identity /\ claim' = final
           /\ Error("SESSION_FORBIDDEN") \/ Error("INTERNAL_ERROR")
  /\ UNCHANGED <<scope, sent, outcome>>

Next ==
  \/ Receive \/ Done \/ Dispatch \/ Malformed \/ CoreRequest \/ CoreAnswer \/ InterruptAnswer
  \/ CheckParams \/ CheckPayload \/ CheckCapability \/ ResolveRouting
  \/ EnterClaim \/ CallUpstream \/ ReplyUnclaimed \/ SettleFailed \/ SettleOk

Spec == Init /\ [][Next]_vars

-----------------------------------------------------------------------------
(* Properties. *)

Answered == todo = <<>>
Called == sent # NoCall

\* TypeOK: every variable keeps to its set.
TypeOK ==
  /\ config \in Configs
  /\ DOMAIN req = DOMAIN NoRequest
  /\ todo = <<>> \/ Last(todo) \in {"receive", "dispatch", "task", "interrupt", "reply", "settle"}
  /\ claim \in {None, "pending", "owned", "refused", "finalized", "released", "stuck"}
  /\ outcome.how \in Failures \cup {None, "answered"}
  /\ answer.kind \in {None, "result", "empty", "error", "stream", "raised"}
  /\ (answer = NoAnswer) = (todo # <<>>)

\* No request reaches the upstream server unless its extension was negotiated,
\* the deployment has the method, the credential has the capability and the
\* caller holds, or is about to own, the session it would change (the order of
\* the handlers' checks and early returns).
EffectsAuthorized ==
  Called =>
    /\ req.method \in SupportedMethods(config) \ CoreMethods
    /\ Resolve(req.method).uri \in req.extensions
    /\ req.method = "shell" => "session_shell" \in req.capabilities
    /\ req.method \in WorkspaceMutations => "workspace_mutation" \in req.capabilities
    /\ req.method \in SessionMutations \cup SessionControls /\ req.identity =>
         claim \notin {None, "refused"}

\* An answer that refuses the request (its negotiation, its params, its
\* capability) is given before anything was sent upstream; only a claim lost
\* while the call ran is refused afterwards (build_upstream_exception_response).
RefusedIsUnsent ==
  Answered /\ Called =>
    /\ answer.type \notin {"UNSUPPORTED_OPERATION", "METHOD_NOT_SUPPORTED", "INVALID_PARAMS",
                           "AUTHORIZATION_FORBIDDEN"}
    /\ answer.type = "SESSION_FORBIDDEN" =>
         claim \in {"released", "stuck"} \/ req.method = "fork"

\* A claim does not outlive its request: it is final exactly when the upstream
\* server did what was asked and the answer could be mapped, and given back
\* otherwise (SessionClaimGuard).
ClaimSettled ==
  Answered =>
    /\ claim # "pending"
    /\ claim = "finalized" => outcome.how = "answered" /\ SessionShape(req.method, outcome.payload)
    /\ claim \in {"released", "stuck"} => answer.kind = "error"

\* A success answer means that the upstream server answered, and the only way
\* to say that a session is not there is that it answered so.
AnswerTellsOutcome ==
  Answered /\ req.method \notin CoreMethods \cup InterruptQueries \cup InterruptCallbacks =>
    /\ answer.kind = "result" => outcome.how = "answered"
    /\ answer.type = "SESSION_NOT_FOUND" =>
         outcome.how = "not_found" /\ NonBlank(Get(req.params, "session_id"))
    /\ outcome.how \in Failures => answer.kind = "error"

\* The methods the endpoint says it supports are the ones it dispatches
\* (supported_jsonrpc_methods against the registry and METHOD_TO_MODEL).
SupportedIsDispatched ==
  Answered /\ req.parsed /\ req.id =>
    ((answer.type = "METHOD_NOT_SUPPORTED") <=> (req.method \notin SupportedMethods(config)))

\* A directory sent upstream is a resolved one inside the workspace, the base
\* itself when overrides are off, and never sent beside a workspace
\* (resolve_routing_context, SandboxPolicy.resolve_directory).
ScopeContained ==
  Called /\ sent.scope.directory # <<>> =>
    /\ RealPath(sent.scope.directory) = sent.scope.directory
    /\ IF config.override THEN IsWithin(sent.scope.directory, Base)
                          ELSE sent.scope.directory = Base
    /\ sent.scope.workspace = <<>>

PublishedContract(m) ==
  CASE m \in SessionReads \cup SessionListings -> SessionReadContract(m)
    [] m \in SessionControls -> SessionControlContract(m)
    [] m \in SessionMutations -> SessionMutationContract(m)
    [] m \in ProviderMethods -> ProviderContract(m)
    [] OTHER -> WorkspaceContract(m)

\* What a contract requires is there, and not null, when the call is made: no
\* handler is laxer than the published contract (the params validators).
RequiredIsRequired ==
  Called => \A path \in PublishedContract(req.method).required :
              ~IsNull(GetPath(req.params, path))

\* A model named in a prompt, a command or a shell call has its provider and
\* its model when it goes upstream (_validate_model_ref).
ModelsAreComplete ==
  Called /\ req.method \in SessionControls =>
    LET model == GetPath(req.params, <<"request", "model">>)
    IN IsNull(model) \/ \A f \in {"providerID", "modelID"} : NonBlank(Get(model, f))

\* A listing of sessions holds at most as many as were asked for, and nobody
\* is given more than the maximum (_apply_session_query_limit).
ListingWithinLimit ==
  answer.kind = "result" /\ req.method = "list_sessions" =>
    LET asked == Get(req.params, "limit")
    IN /\ answer.items <= MaxLimit
       /\ IsNull(asked) => answer.items <= DefaultLimit
       /\ ~IsNull(asked) => answer.items <= asked.n

\* Nothing goes upstream that the checks of its handler, in whatever order they
\* come, have not let through, and it goes to the scope they settled
\* (jsonrpc/handlers/, sandbox_policy.py).
EffectsAllowed == TypeOK /\ EffectsAuthorized /\ RefusedIsUnsent /\ ScopeContained

\* The answer tells what happened upstream and what happened there settles the
\* claim, also when finalizing fails (session_control.py, session_lifecycle.py).
OutcomesTold == ClaimSettled /\ AnswerTellsOutcome /\ ListingWithinLimit

\* The handlers and the registry do what the contracts of the extensions publish
\* (catalog.py, dispatch.py).
ContractsHold == RequiredIsRequired /\ ModelsAreComplete /\ SupportedIsDispatched

============================================================================
