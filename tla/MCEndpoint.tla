----------------------------- MODULE MCEndpoint -----------------------------
(* Endpoint for TLC: a behaviour is about one part, as the parts share no     *)
(* variable.                                                                 *)
(* Requests are a good one for every method, and the same with one or two    *)
(* things wrong with it; prompts are two, with racing replies to them.       *)
EXTENDS Endpoint, TLC

CONSTANTS r1, r2, i1, i2

VARIABLE part

\* The part that does not move starts in one of its initial states.
MCInit ==
  /\ part \in {"requests", "prompts"}
  /\ EndpointInit
  /\ part = "requests" => backend = "memory"
  /\ part = "prompts" => config = CHOOSE c \in Configs : TRUE

MCNext ==
  /\ UNCHANGED part
  /\ \/ part = "requests" /\ Next /\ UNCHANGED prompts
     \/ part = "prompts" /\ Prompt!Next /\ UNCHANGED vars

MCSpec == MCInit /\ [][MCNext]_<<part, vars, prompts>>

-----------------------------------------------------------------------------
(* Prompts *)

OwnerOf == [r \in Prompts |-> i1]
KindOf == [r \in Prompts |-> IF r = r1 THEN "permission" ELSE "question"]

C(r, m, i, d) == [request |-> r, method |-> m, caller |-> i, defect |-> d]

\* Good replies of the owner and of an anonymous caller, one of a stranger,
\* one by the wrong method, and the malformed ones.
AllCalls == {C(r1, "permission_reply", i1, "none"), C(r1, "permission_reply", Never, "none"),
             C(r1, "permission_reply", i2, "none"), C(r1, "question_reply", i1, "none"),
             C(r2, "question_reply", i1, "none"), C(r2, "question_reject", i1, "fields"),
             C(r1, "permission_reply", i1, "value"), C(r1, "permission_reply", i1, "request_id")}

Symmetry == Permutations(Repliers)

-----------------------------------------------------------------------------
(* Requests *)

MCBase == <<"/", "ws">>
MCLinks == (<<"/", "ws", "out">> :> <<"/", "etc">>)

MCConfigs ==
  [shell : BOOLEAN, mutations : BOOLEAN, mode : {"read-only", "workspace-write"},
   scope : {"workspace_only"}, override : {TRUE}]
   \cup [shell : {TRUE}, mutations : {TRUE}, mode : {"workspace-write"},
         scope : {"none"}, override : {TRUE}]
   \cup [shell : {TRUE}, mutations : {TRUE}, mode : {"workspace-write"},
         scope : {"workspace_only"}, override : {FALSE}]

Word == Text(<<"x">>)
Model == Obj([providerID |-> Word, modelID |-> Word])
Where == Obj([opencode |-> Obj([directory |-> Text(<<"sub">>)])])

\* A good body for each method that has one.
GoodBody(m) ==
  CASE m = "prompt_async" ->
         [parts |-> Arr(<<Obj([type |-> Text(<<"text">>), text |-> Word])>>), model |-> Model,
          messageID |-> Text(<<"msg", "1">>), noReply |-> Bool, tools |-> Obj([bash |-> Bool]),
          format |-> Obj([type |-> Text(<<"json_schema">>), schema |-> Obj(<<>>),
                          retryCount |-> Number(0)])]
    [] m = "command" ->
         [command |-> Word, arguments |-> Word, model |-> Model,
          parts |-> Arr(<<Obj([type |-> Text(<<"file">>), mime |-> Word, url |-> Word])>>)]
    [] m = "shell" -> [agent |-> Word, command |-> Word, model |-> Model]
    [] m = "fork" -> [messageID |-> Word]
    [] m = "summarize" -> [providerID |-> Word, modelID |-> Word, auto |-> Bool]
    [] m = "revert" -> [messageID |-> Word, partID |-> Word]
    [] m = "create_workspace" -> [type |-> Word, branch |-> Word, extra |-> Obj(<<>>)]
    [] m = "create_worktree" -> [name |-> Word]
    [] m \in {"remove_worktree", "reset_worktree"} -> [directory |-> Word]
    [] OTHER -> <<>>

HasBody(m) == GoodBody(m) # <<>>

GoodParams(m) ==
  CASE m \in SessionControls -> [session_id |-> Word, metadata |-> Where]
    [] m \in SessionMutations \cup (SessionReads \ {"status", "get_session_message"}) ->
         [session_id |-> Word, directory |-> Text(<<"sub">>)]
    [] m = "get_session_message" -> [session_id |-> Word, message_id |-> Word]
    [] m = "get_session_messages" -> [session_id |-> Word, limit |-> Number(1)]
    [] m = "list_sessions" -> [limit |-> Numeral(1), roots |-> Bool, metadata |-> Where]
    [] m = "remove_workspace" -> [workspace_id |-> Word]
    [] m = "list_models" -> [provider_id |-> Word]
    [] OTHER -> <<>>

Params(m) == IF HasBody(m) THEN ("request" :> Obj(GoodBody(m))) @@ GoodParams(m)
             ELSE GoodParams(m)

Capabilities == {"session_shell", "workspace_mutation"}
Uris == {"session_management", "provider_discovery", "interrupt_recovery", "workspace_control",
         "interrupt_callback"}

Good(m) == [method |-> m, id |-> TRUE, parsed |-> TRUE, params |-> Obj(Params(m)),
            extensions |-> Uris, capabilities |-> Capabilities, identity |-> TRUE]

\* All of the methods, and one that nobody has.
Methods == SupportedMethods([shell |-> TRUE, mutations |-> TRUE, mode |-> "workspace-write",
                             scope |-> "workspace_only"]) \cup {"nonesuch"}
Extensions == Methods \ (CoreMethods \cup {"nonesuch"})

\* Headers: the id, the negotiation, the credential, the identity.
MCHeaders ==
  UNION {{[Good(m) EXCEPT !.id = i, !.extensions = e, !.capabilities = c, !.identity = who,
                          !.params = p] :
            i, who \in BOOLEAN, e \in {{}, Uris}, c \in {{}, Capabilities},
            p \in {Obj(Params(m)), Arr(<<>>), Arr(<<Word>>)}} : m \in Methods}
    \cup {[Good(None) EXCEPT !.parsed = FALSE]}

Odd == {Null, Text(<<>>), Word, Number(0), Bool, Arr(<<Word>>), Obj(<<>>), Obj([bogus |-> Word]),
        Obj([modelID |-> Word])}

Without(f, x) ==
  FoldLeft(LAMBDA g, y : (y :> f[y]) @@ g, <<>>, SetToSeq(DOMAIN f \ {x}))

\* A record of fields with one of them, or one that does not belong there, changed.
Variants(f, extra) ==
  {Without(f, x) : x \in DOMAIN f}
    \cup {(x :> v) @@ f : x \in DOMAIN f \cup extra, v \in Odd}

ParamVariants(m) ==
  LET f == Params(m)
  IN Variants(f, {"bogus", "metadata", "directory"})
       \cup (IF ~HasBody(m) THEN {}
             ELSE {("request" :> Obj(g)) @@ f : g \in Variants(GoodBody(m), {"bogus", "model"})})

\* Params of every shape.
MCParams ==
  UNION {{[Good(m) EXCEPT !.params = Obj(f)] : f \in ParamVariants(m)} :
           m \in Extensions \ (InterruptQueries \cup InterruptCallbacks)}

Metadatas ==
  {Obj([opencode |-> v]) : v \in Odd}
    \cup {Obj([opencode |-> Obj([workspace |-> v])]) : v \in Odd}
    \cup {Obj([opencode |-> Obj([workspace |-> Obj([id |-> v]), directory |-> w])]) :
            v \in {Null, Text(<<>>), Word, Number(0)}, w \in {Null, Word, Number(0)}}
    \cup {Obj([opencode |-> Obj([directory |-> Text(d)]), shared |-> s]) :
            s \in {Obj(<<>>), Word},
            d \in {<<"sub">>, <<"..">>, <<"sub", "..", "..", "etc">>, <<"out", "x">>,
                   <<"/", "ws">>, <<"/", "ws", "sub">>, <<"/", "ws2">>, <<"/", "ws", "sub", "..">>}}

\* Directories and workspaces of every shape.
MCScopes ==
  UNION {{[Good(m) EXCEPT !.params = Obj(("metadata" :> md) @@ Params(m))] : md \in Metadatas}
           \cup {[Good(m) EXCEPT !.params = Obj(("directory" :> Text(d)) @@ Params(m))] :
                   d \in {<<>>, <<"..">>, <<"out">>, <<"/", "ws", "sub">>, <<"sub", "..">>}} :
         m \in {"prompt_async", "share", "status", "list_sessions", "get_session_messages",
                "list_providers", "list_projects"}}

\* Limits around their bounds.
MCLimits ==
  {[Good("list_sessions") EXCEPT !.params = Obj("limit" :> v)] :
     v \in {Null, Number(0), Number(1), Number(2), Number(3), Numeral(2), Numeral(3), Word, Bool}}

MCRequests == MCHeaders \cup MCParams \cup MCScopes \cup MCLimits

Session == Obj([id |-> Word])
Named == Obj([name |-> Word])

\* Answers of every shape.
MCReplies ==
  Odd \cup {Session, Named, Obj([id |-> Text(<<>>)]), Obj([info |-> Session]),
            Arr(<<Session>>), Arr(<<Named>>), Arr(<<Session, Word>>),
            Arr(<<Session, Session, Session, Session>>),
            Obj([all |-> Arr(<<Session>>), default |-> Obj([x |-> Word]), connected |-> Arr(<<Word>>)]),
            Obj([all |-> Arr(<<Word>>), default |-> Obj(<<>>), connected |-> Arr(<<>>)])}
============================================================================
