----------------------------- MODULE RpcParams -----------------------------
(* What the handlers of the JSON-RPC extension methods ask of the params of  *)
(* a request (jsonrpc/methods.py, jsonrpc/params.py, jsonrpc/handlers/), and *)
(* what the extension contracts publish (contracts/extensions/catalog.py).   *)
(* A JSON value is a record: its type, and what it holds.  A text is the     *)
(* sequence of its pieces: <<>> is blank, <<"/", "a", "b">> the path /a/b,   *)
(* and n is the number it spells, if it spells one.                          *)
EXTENDS Integers, Sequences, SequencesExt

CONSTANTS DefaultLimit, MaxLimit   \* SESSION_QUERY_DEFAULT_LIMIT, SESSION_QUERY_MAX_LIMIT

NotANumber == -99
Value(t) == [text |-> <<>>, items |-> <<>>, t |-> t, of |-> <<>>, n |-> NotANumber]
Null == Value("null")
Text(s) == [Value("text") EXCEPT !.text = s]
Numeral(n) == [Value("text") EXCEPT !.text = <<"digits">>, !.n = n]
Number(n) == [Value("int") EXCEPT !.n = n]
Bool == [Value("bool") EXCEPT !.n = 1]
Obj(f) == [Value("object") EXCEPT !.of = f]
Arr(s) == [Value("array") EXCEPT !.items = s]

IsNull(v) == v.t = "null"
IsText(v) == v.t = "text"
IsObject(v) == v.t = "object"
IsBool(v) == v.t = "bool"
\* In Python a bool is an int.
IsInt(v) == v.t \in {"int", "bool"}
NonBlank(v) == IsText(v) /\ v.text # <<>>
Optional(v, P(_)) == IsNull(v) \/ P(v)
Fields(v) == DOMAIN v.of
Get(v, f) == IF f \in Fields(v) THEN v.of[f] ELSE Null
GetPath(v, path) == FoldLeft(Get, v, path)

-----------------------------------------------------------------------------
(* The bodies of prompt_async, command and shell. *)

\* Defect: a model reference may leave out the provider.
ModelRefAnyProvider(v) == IsObject(v) /\ NonBlank(Get(v, "modelID"))
ModelRef(v) == IsObject(v) /\ NonBlank(Get(v, "providerID")) /\ NonBlank(Get(v, "modelID"))

OptionalModel(v) == Optional(v, ModelRef)
OptionalText(v) == Optional(v, IsText)
MessageId(v) == Optional(v, LAMBDA x : NonBlank(x) /\ Head(x.text) = "msg")

Format(v) ==
  /\ IsObject(v)
  /\ LET type == Get(v, "type").text
     IN \/ type = <<"text">>
        \/ /\ type = <<"json_schema">>
           /\ IsObject(Get(v, "schema"))
           /\ Optional(Get(v, "retryCount"), LAMBDA x : IsInt(x) /\ x.n >= 0)

PromptPart(v) ==
  /\ IsObject(v)
  /\ LET type == Get(v, "type").text
         Has(fs) == \A f \in fs : IsText(Get(v, f))
     IN \/ type = <<"text">> /\ Has({"text"})
        \/ type = <<"file">> /\ Has({"mime", "url"})
        \/ type = <<"agent">> /\ Has({"name"})
        \/ /\ type = <<"subtask">> /\ Has({"prompt", "description", "agent"})
           /\ OptionalModel(Get(v, "model")) /\ OptionalText(Get(v, "command"))

PartsArray(v, Part(_)) == v.t = "array" /\ \A i \in DOMAIN v.items : Part(v.items[i])

\* Defect: a prompt may come without its parts.
PromptPartsOptional(v) ==
  Optional(Get(v, "parts"), LAMBDA x : PartsArray(x, PromptPart))
PromptParts(v) == PartsArray(Get(v, "parts"), PromptPart)

PromptAsyncRequest(v) ==
  /\ Fields(v) \subseteq {"parts", "messageID", "model", "agent", "noReply", "tools",
                          "format", "system", "variant"}
  /\ MessageId(Get(v, "messageID"))
  /\ OptionalModel(Get(v, "model"))
  /\ \A f \in {"agent", "system", "variant"} : OptionalText(Get(v, f))
  /\ Optional(Get(v, "noReply"), IsBool)
  /\ Optional(Get(v, "tools"), LAMBDA x : IsObject(x) /\ \A f \in Fields(x) : IsBool(x.of[f]))
  /\ Optional(Get(v, "format"), Format)
  /\ PromptParts(v)

CommandPart(v) ==
  IsObject(v) /\ Get(v, "type").text = <<"file">> /\ \A f \in {"mime", "url"} : NonBlank(Get(v, f))

CommandRequest(v) ==
  /\ Fields(v) \subseteq {"command", "arguments", "messageID", "agent", "model", "variant", "parts"}
  /\ \A f \in {"command", "arguments"} : NonBlank(Get(v, f))
  /\ MessageId(Get(v, "messageID"))
  /\ OptionalModel(Get(v, "model"))
  /\ \A f \in {"agent", "variant"} : OptionalText(Get(v, f))
  /\ Optional(Get(v, "parts"), LAMBDA x : PartsArray(x, CommandPart))

ShellRequest(v) ==
  /\ Fields(v) \subseteq {"agent", "command", "model"}
  /\ \A f \in {"agent", "command"} : NonBlank(Get(v, f))
  /\ OptionalModel(Get(v, "model"))

-----------------------------------------------------------------------------
(* The bodies of the lifecycle and workspace methods. *)

ForkRequest(v) ==
  \/ IsNull(v)
  \/ /\ IsObject(v) /\ Fields(v) \subseteq {"messageID"}
     /\ Optional(Get(v, "messageID"), NonBlank)

SummarizeRequest(v) ==
  \/ IsNull(v)
  \/ /\ IsObject(v) /\ Fields(v) \subseteq {"providerID", "modelID", "auto"}
     /\ \/ \A f \in {"providerID", "modelID", "auto"} : IsNull(Get(v, f))
        \/ /\ ModelRef(v)
           /\ Optional(Get(v, "auto"), IsBool)

RevertRequest(v) ==
  /\ IsObject(v) /\ Fields(v) \subseteq {"messageID", "partID"}
  /\ NonBlank(Get(v, "messageID"))
  /\ Optional(Get(v, "partID"), NonBlank)

WorkspaceRequest(method, v) ==
  /\ Fields(v) \subseteq
       CASE method = "create_workspace" -> {"id", "type", "branch", "extra"}
         [] method = "create_worktree" -> {"name", "startCommand"}
         [] OTHER -> {"directory"}
  /\ method = "create_workspace" => NonBlank(Get(v, "type"))
  /\ method \in {"remove_worktree", "reset_worktree"} => NonBlank(Get(v, "directory"))
  /\ \A f \in {"id", "type", "branch", "name", "startCommand", "directory"} :
       OptionalText(Get(v, f))

-----------------------------------------------------------------------------
(* The query params of the listings: "bad" stands for a validation error. *)

ParsedInt(v) == IF v.t \in {"int", "text"} THEN v.n ELSE NotANumber

\* The limit asked for, or NotANumber when it is refused.
Limit(v) ==
  IF IsNull(v) THEN DefaultLimit
  ELSE IF ParsedInt(v) \in 1..MaxLimit THEN ParsedInt(v) ELSE NotANumber

PageOk(p) == /\ Fields(p) \cap {"query", "cursor", "page", "size"} = {}
             /\ Limit(Get(p, "limit")) # NotANumber

ListSessionsParams(p) ==
  /\ PageOk(p)
  /\ OptionalText(Get(p, "directory"))
  /\ Optional(Get(p, "roots"), LAMBDA x : IsBool(x) \/ x.text = <<"true">>)
  /\ Optional(Get(p, "start"), LAMBDA x : ParsedInt(x) >= 0)
  /\ OptionalText(Get(p, "search"))

SessionMessagesParams(p) ==
  NonBlank(Get(p, "session_id")) /\ PageOk(p) /\ OptionalText(Get(p, "before"))

ProviderParams(method, p) ==
  /\ Fields(p) \subseteq ({"metadata"} \cup IF method = "list_models" THEN {"provider_id"} ELSE {})
  /\ Optional(Get(p, "provider_id"), NonBlank)

-----------------------------------------------------------------------------
(* What the contracts publish: the params a method requires and may have. *)

Dir == {<<"directory">>}
MetaDir == {<<"metadata", "opencode", "directory">>}
MetaWorkspace == {<<"metadata", "opencode", "workspace", "id">>}
Sid == {<<"session_id">>}
Body(fs) == {<<"request", f>> : f \in fs}
Contract(required, optional) == [required |-> required, optional |-> optional]

SessionReadContract(method) ==
  CASE method = "status" -> Contract({}, Dir \cup MetaWorkspace)
    [] method = "list_sessions" ->
         Contract({}, Dir \cup MetaWorkspace \cup {<<"limit">>, <<"roots">>, <<"start">>, <<"search">>})
    [] method = "get_session_messages" ->
         Contract(Sid, MetaWorkspace \cup {<<"limit">>, <<"before">>})
    [] method = "get_session_diff" ->
         Contract(Sid, Dir \cup MetaDir \cup MetaWorkspace \cup {<<"message_id">>})
    [] method = "get_session_message" ->
         Contract(Sid \cup {<<"message_id">>}, Dir \cup MetaDir \cup MetaWorkspace)
    [] OTHER -> Contract(Sid, Dir \cup MetaDir \cup MetaWorkspace)

SessionControlContract(method) ==
  CASE method = "prompt_async" ->
         Contract(Sid \cup Body({"parts"}),
                  Body({"messageID", "model", "agent", "noReply", "tools", "format", "system",
                        "variant"}) \cup MetaDir \cup MetaWorkspace)
    [] method = "command" ->
         Contract(Sid \cup Body({"command", "arguments"}),
                  Body({"messageID", "agent", "model", "variant", "parts"})
                    \cup MetaDir \cup MetaWorkspace)
    [] OTHER ->
         Contract(Sid \cup Body({"agent", "command"}),
                  Body({"model"}) \cup MetaDir \cup MetaWorkspace)

SessionMutationContract(method) ==
  LET Where == Dir \cup MetaDir \cup MetaWorkspace
  IN CASE method = "fork" -> Contract(Sid, Where \cup Body({"messageID"}))
       [] method = "summarize" -> Contract(Sid, Where \cup Body({"providerID", "modelID", "auto"}))
       [] method = "revert" -> Contract(Sid \cup Body({"messageID"}), Where \cup Body({"partID"}))
       [] OTHER -> Contract(Sid, Where)

ProviderContract(method) ==
  Contract({}, IF method = "list_models" THEN {<<"provider_id">>} ELSE {})

WorkspaceContract(method) ==
  CASE method = "create_workspace" -> Contract(Body({"type"}), Body({"id", "branch", "extra"}))
    [] method = "remove_workspace" -> Contract({<<"workspace_id">>}, {})
    [] method = "create_worktree" -> Contract({}, Body({"name", "startCommand"}))
    [] method \in {"remove_worktree", "reset_worktree"} -> Contract(Body({"directory"}), {})
    [] OTHER -> Contract({}, {})
============================================================================
