------------------------------ MODULE Endpoint ------------------------------
(* The JSON-RPC endpoint with the registry of interrupt requests that it     *)
(* answers callbacks from: a request in its handler (JsonRpc), and the       *)
(* prompts of the upstream agent that the event stream remembers and the     *)
(* callbacks settle (Interrupts).  A request here is never an interrupt      *)
(* request there, which is called a prompt.                                  *)
EXTENDS JsonRpc

CONSTANTS
  Never,
  Prompts, Owner, Kind, Identities, Repliers, Calls,
  RequestTTL, TombstoneTTL, MaxTime                        \* Interrupts

VARIABLES backend, now, exp, tomb, up, heard, pc, call, verdict, due

Prompt == INSTANCE Interrupts WITH Requests <- Prompts, None <- Never

prompts == <<backend, now, exp, tomb, up, heard, pc, call, verdict, due>>

ASSUME PromptAssumption ==
  /\ Owner \in [Prompts -> Identities] /\ Kind \in [Prompts -> {"permission", "question"}]
  /\ RequestTTL \in Nat \ {0} /\ TombstoneTTL \in Nat /\ MaxTime \in Nat
  /\ Never \notin Nat
  /\ \A c \in Calls : c.request \in Prompts /\ c.caller \in Identities \cup {Never}

EndpointInit == Init /\ Prompt!Init

EndpointNext ==
  \/ Next /\ UNCHANGED prompts
  \/ Prompt!Next /\ UNCHANGED vars

EndpointSpec == EndpointInit /\ [][EndpointNext]_<<vars, prompts>>

-----------------------------------------------------------------------------
\* A reply settles its prompt once: whatever other replies, sweeps and closings
\* raced with it, at most one caller is told ok, and nothing brings back what was
\* answered (interrupt_callbacks.py).
RepliesSettle == Prompt!RepliesSettle

\* A prompt that was not withdrawn can be answered until it expires and is known
\* as expired for the tombstone window, whoever fails a reply or sweeps the
\* registry meanwhile (state_store.py).
OpenUntilAnswered == Prompt!OpenUntilAnswered

\* Both repositories of state_store.py keep what the registry of interrupt
\* requests promises the callbacks (InterruptRegistry).
RefinesRegistry == Prompt!RefinesRegistry
=============================================================================
