---------------------------- MODULE StreamProofs ----------------------------
(* Theorems about Streaming, for every set of turns: any number of parts,    *)
(* any text, any number of dropped connections and tool rounds.  StreamInv   *)
(* is the inductive invariant; its parts are proved one on the other: types, *)
(* the order of what is sent, what the client holds, what upstream wrote.    *)
EXTENDS Streaming, FlattenLemmas

----------------------------------------------------------------------------
(* Texts.                                                                    *)

LEMMA GreatestMember ==
  ASSUME NEW n \in Nat, NEW T, T \subseteq 1 .. n, T # {}
  PROVE  \E m \in T : \A x \in T : x <= m
  <1> DEFINE B == {k \in Nat : \A x \in T : x <= k}
  <1>1. n \in B OBVIOUS
  <1>2. PICK m \in B : \A k \in B : m <= k BY <1>1, LeastMember
  <1>3. m \in T
    <2> SUFFICES ASSUME m \notin T PROVE FALSE OBVIOUS
    <2>0. m \in Nat BY <1>2
    <2>1. PICK y \in T : TRUE OBVIOUS
    <2>2. \A x \in T : x \in Nat /\ x >= 1 /\ x <= m /\ x # m BY <1>2
    <2>3. m - 1 \in Nat BY <1>2, <2>1, <2>2
    <2>4. \A x \in T : x <= m - 1 BY <1>2, <2>2
    <2> HIDE DEF B
    <2>5. m - 1 \in B BY <2>3, <2>4 DEF B
    <2>6. m <= m - 1 BY <1>2, <2>5
    <2> QED BY <2>0, <2>6
  <1> QED BY <1>2, <1>3

\* Strip cuts a piece out of the text, and nothing off a text without blanks.
LEMMA StripFacts ==
  ASSUME NEW s \in Seq(Tokens)
  PROVE  Strip(s) \in Seq(Tokens) /\ (Blank \notin Range(s) => Strip(s) = s)
  <1> DEFINE ink == {i \in DOMAIN s : s[i] # Blank}
  <1>0. Len(s) \in Nat /\ DOMAIN s = 1 .. Len(s) OBVIOUS
  <1>1. CASE ink = {}
    <2>1. Strip(s) = <<>> BY <1>1 DEF Strip
    <2>2. Blank \notin Range(s) => DOMAIN s = {} BY <1>1 DEF Range
    <2>3. DOMAIN s = {} => s = <<>> BY <1>0
    <2>4. <<>> \in Seq(Tokens) OBVIOUS
    <2> QED BY <2>1, <2>2, <2>3, <2>4
  <1>2. CASE ink # {}
    <2>1. Strip(s) = SubSeq(s, Min(ink), Max(ink)) BY <1>2 DEF Strip
    <2>2. ink \subseteq 1 .. Len(s) /\ ink \subseteq Nat BY <1>0
    <2> HIDE DEF ink
    <2>3. Min(ink) \in ink /\ \A x \in ink : Min(ink) <= x
      <3>1. \E m \in ink : \A x \in ink : m <= x BY <1>2, <2>2, LeastMember
      <3> QED BY <3>1 DEF Min
    <2>4. Max(ink) \in ink /\ \A x \in ink : Max(ink) >= x
      <3>1. \E m \in ink : \A x \in ink : x <= m BY <1>0, <1>2, <2>2, GreatestMember
      <3>2. \E m \in ink : \A x \in ink : m >= x BY <2>2, <3>1
      <3> QED BY <3>2 DEF Max
    <2>5. Min(ink) \in 1 .. Len(s) /\ Max(ink) \in 1 .. Len(s) BY <2>2, <2>3, <2>4
    <2>6. SubSeq(s, Min(ink), Max(ink)) \in Seq(Tokens) BY <1>0, <2>5
    <2>7. ASSUME Blank \notin Range(s) PROVE SubSeq(s, Min(ink), Max(ink)) = s
      <3>1. ink = DOMAIN s BY <2>7 DEF ink, Range
      <3>2. 1 \in ink /\ Len(s) \in ink BY <1>0, <2>5, <3>1
      <3>3. Min(ink) = 1 /\ Max(ink) = Len(s) BY <1>0, <2>3, <2>4, <2>5, <3>2
      <3>4. SubSeq(s, 1, Len(s)) = s BY <1>0
      <3> QED BY <3>3, <3>4
    <2> QED BY <2>1, <2>6, <2>7
  <1> QED BY <1>1, <1>2

LEMMA Associates ==
  ASSUME NEW S, NEW a \in Seq(S), NEW b \in Seq(S), NEW c \in Seq(S)
  PROVE  /\ (a \o b) \o c = a \o (b \o c) /\ a \o b \in Seq(S)
         /\ a \o <<>> = a /\ <<>> \o a = a
  OBVIOUS

LEMMA FlattenConcat ==
  ASSUME NEW S, NEW s \in Seq(Seq(S)), NEW t \in Seq(Seq(S))
  PROVE  FlattenSeq(s \o t) = FlattenSeq(s) \o FlattenSeq(t)
  <1> DEFINE Good(u) == FlattenSeq(s \o u) = FlattenSeq(s) \o FlattenSeq(u)
             T == {u \in Seq(Seq(S)) : Good(u)}
  <1>0. FlattenSeq(s) \in Seq(S) BY FlattenType
  <1>1. <<>> \in T
    <2>1. <<>> \in Seq(Seq(S)) /\ s \o <<>> = s OBVIOUS
    <2>2. FlattenSeq(s) \o <<>> = FlattenSeq(s) BY <1>0
    <2> QED BY <2>1, <2>2, FlattenEmpty
  <1>2. ASSUME NEW u \in Seq(Seq(S)), NEW x \in Seq(S), u \in T PROVE Append(u, x) \in T
    <2>1. s \o u \in Seq(Seq(S)) /\ Append(u, x) \in Seq(Seq(S)) OBVIOUS
    <2>2. s \o Append(u, x) = Append(s \o u, x) OBVIOUS
    <2>3. FlattenSeq(Append(s \o u, x)) = FlattenSeq(s \o u) \o x BY <2>1, FlattenAppend
    <2>4. FlattenSeq(Append(u, x)) = FlattenSeq(u) \o x BY FlattenAppend
    <2>5. FlattenSeq(u) \in Seq(S) BY FlattenType
    <2>6. (FlattenSeq(s) \o FlattenSeq(u)) \o x = FlattenSeq(s) \o (FlattenSeq(u) \o x)
      <3> DEFINE a == FlattenSeq(s)
                 b == FlattenSeq(u)
      <3>1. a \in Seq(S) /\ b \in Seq(S) BY <1>0, <2>5
      <3> HIDE DEF a, b
      <3>2. (a \o b) \o x = a \o (b \o x) BY <3>1, SMTT(60)
      <3> QED BY <3>2 DEF a, b
    <2>7. Good(u) BY <1>2
    <2>8. Good(Append(u, x)) BY <2>2, <2>3, <2>4, <2>6, <2>7
    <2>9. Append(u, x) \in Seq(Seq(S)) BY <2>1
    <2> HIDE DEF Good
    <2> QED BY <2>8, <2>9
  <1>3. Seq(Seq(S)) \subseteq T
    <2> HIDE DEF T
    <2> QED BY <1>1, <1>2, SequenceInduction
  <1> QED BY <1>3

----------------------------------------------------------------------------
(* Types, by the groups of variables the actions leave alone.                *)

UpTyped ==
  /\ truth \in [Parts -> Seq(Tokens)] /\ wire \in Seq(Event)
  /\ lost \in {"none", "some", "terminal"}

RunTyped ==
  /\ st \in {"connect", "read", "emit", "backoff", "ended"}
  /\ st = "emit" => todo # <<>> \/ held # None
  /\ st # "emit" => todo = <<>> /\ held = None
  /\ buffer \in [Parts -> Seq(Tokens) \cup {None}] /\ pend \in [Parts -> Seq(Seq(Tokens))]
  /\ todo \in Seq(Piece)
  /\ \A i \in DOMAIN todo : todo[i].art # None =>
       todo[i].part \in Parts /\ todo[i].art = Artifact(todo[i].part)
  /\ held \in {None} \cup Sent /\ (held # None => held.art \in Artifacts \cup {None})

OutTyped ==
  /\ abuf \in [Artifacts -> Seq(Tokens)] /\ emitted \subseteq Artifacts
  /\ sig \in {None, "completed", "failed"} /\ (sig # None => stop)
  /\ stop \in BOOLEAN /\ err \in BOOLEAN /\ seq \in Nat

CoordTyped ==
  /\ pc \in {"send", "signal", "final", "snapshot", "complete", "error", "failing",
             "release", "done"}
  /\ pc \in {"signal", "final", "snapshot", "complete"} => resp \in Responses
  /\ claim \in BOOLEAN

SeenTyped ==
  /\ client \in [Artifacts -> Seq(Tokens)] /\ got \in Seq(Nat)
  /\ ended \in Seq({"completed", "failed", "canceled"})

Typed ==
  /\ turn \in Turns
  /\ UpTyped /\ RunTyped /\ OutTyped /\ CoordTyped /\ SeenTyped

LEMMA TypedIsTypes == TypeOK /\ Shapes <=> Typed
  <1>1. TypeOK /\ Shapes => Typed
    BY DEF TypeOK, Shapes, Typed, UpTyped, RunTyped, OutTyped, CoordTyped, SeenTyped
  <1>2. ASSUME Typed PROVE TypeOK /\ Shapes
    <2>1. Range(ended) \subseteq {"completed", "failed", "canceled"}
      BY <1>2 DEF Typed, SeenTyped, Range
    <2>2. \A p \in Parts : pend[p] \in Seq(Seq(Tokens)) BY <1>2 DEF Typed, RunTyped
    <2> QED BY <1>2, <2>1, <2>2
         DEF TypeOK, Shapes, Typed, UpTyped, RunTyped, OutTyped, CoordTyped, SeenTyped
  <1> QED BY <1>1, <1>2

\* What the assumptions say of a turn.
LEMMA TurnFacts ==
  ASSUME turn \in Turns
  PROVE  /\ Parts \cap {"text", "reasoning"} = {} /\ Artifacts \subseteq Lanes
         /\ None \notin Artifacts /\ None \notin Seq(Tokens) /\ None \notin Sent
         /\ None \notin {"completed", "failed"}
         /\ {"text", "reasoning"} \subseteq Artifacts
         /\ \A p \in Parts : Artifact(p) \in Artifacts
         /\ \A p \in Parts : Artifact(p) = "text" <=> Block[p] = "text"
         /\ \A p \in Parts : Artifact(p) = "reasoning" <=> Block[p] = "reasoning"
         /\ Responses \subseteq Seq(Tokens) /\ turn.preferred \in BOOLEAN
  <1>1. Parts \cap {"text", "reasoning"} = {} /\ Responses \subseteq Seq(Tokens)
        /\ turn.preferred \in BOOLEAN
    BY StreamingAssumption DEF Parts, Responses
  <1>2. Artifacts \subseteq Lanes BY DEF Artifacts, Lanes, Parts
  <1>3. None \notin Artifacts /\ None \notin Seq(Tokens) /\ None \notin Sent
        /\ None \notin {"completed", "failed"}
    BY <1>2, StreamingAssumption
  <1>4. {"text", "reasoning"} \subseteq Artifacts BY DEF Artifacts
  <1>5. ASSUME NEW p \in Parts
        PROVE  /\ Artifact(p) \in Artifacts
               /\ Artifact(p) = "text" <=> Block[p] = "text"
               /\ Artifact(p) = "reasoning" <=> Block[p] = "reasoning"
    <2>1. CASE Block[p] = "text" BY <2>1 DEF Artifact, Artifacts
    <2>2. CASE Block[p] = "reasoning" BY <2>2 DEF Artifact, Artifacts
    <2>3. CASE Block[p] \notin {"text", "reasoning"}
      <3>1. Artifact(p) = p BY <2>3 DEF Artifact
      <3> QED BY <1>1, <2>3, <3>1 DEF Artifacts
    <2> QED BY <2>1, <2>2, <2>3
  <1> QED BY <1>1, <1>2, <1>3, <1>4, <1>5

LEMMA TurnFixed ==
  ASSUME turn' = turn
  PROVE  /\ Parts' = Parts /\ Block' = Block /\ Role' = Role /\ Responses' = Responses
         /\ Artifacts' = Artifacts /\ Event' = Event /\ Piece' = Piece
         /\ \A p : Artifact(p)' = Artifact(p) /\ Streamed(p)' = Streamed(p)
  BY DEF Parts, Block, Role, Responses, Artifacts, Event, Piece, Artifact, Streamed

LEMMA TypesStand ==
  ASSUME Typed, turn' = turn
  PROVE  /\ UNCHANGED upstream => UpTyped'
         /\ UNCHANGED runtime => RunTyped'
         /\ UNCHANGED output => OutTyped'
         /\ UNCHANGED <<pc, resp, claim>> => CoordTyped'
         /\ UNCHANGED seen => SeenTyped'
  <1>1. UNCHANGED upstream => UpTyped' BY TurnFixed DEF Typed, UpTyped, upstream
  <1>2. UNCHANGED runtime => RunTyped' BY TurnFixed DEF Typed, RunTyped, runtime
  <1>3. UNCHANGED output => OutTyped' BY TurnFixed DEF Typed, OutTyped, output
  <1>4. UNCHANGED <<pc, resp, claim>> => CoordTyped' BY TurnFixed DEF Typed, CoordTyped
  <1>5. UNCHANGED seen => SeenTyped' BY TurnFixed DEF Typed, SeenTyped, seen
  <1> QED BY <1>1, <1>2, <1>3, <1>4, <1>5

\* Upstream speaks.
LEMMA SayTyped ==
  ASSUME Typed, turn' = turn, NEW e \in Event, Say(e), truth' \in [Parts -> Seq(Tokens)],
         UNCHANGED <<runtime, output, coord, cx, seen>>
  PROVE  Typed'
  <1>1. wire' \in Seq(Event) /\ lost' \in {"none", "some", "terminal"}
    <2>1. wire \in Seq(Event) /\ Append(wire, e) \in Seq(Event) BY DEF Typed, UpTyped
    <2>2. wire' = Append(wire, e) \/ wire' = wire BY DEF Say
    <2>3. \A S : Missed(S) \in {"none", "some", "terminal"} BY DEF Missed, Typed, UpTyped
    <2>4. lost' = lost \/ lost' = Missed({e}) BY DEF Say
    <2> QED BY <2>1, <2>2, <2>3, <2>4 DEF Typed, UpTyped
  <1>2. UpTyped' BY <1>1, TurnFixed DEF UpTyped
  <1> QED BY <1>2, TypesStand DEF Typed, coord

\* What the texts of upstream are, and what is said of them.
LEMMA UpstreamWrites ==
  ASSUME Typed, NEW p \in Parts, NEW t \in Tokens, Grow(p, t)
  PROVE  truth' \in [Parts -> Seq(Tokens)] /\ truth'[p] = Append(truth[p], t)
         /\ \A q \in Parts \ {p} : truth'[q] = truth[q]
  BY DEF Typed, UpTyped, Grow

LEMMA SpeechTyped ==
  ASSUME Typed, turn' = turn,
         \/ \E p \in Parts : UpstreamRepeats(p) \/ \E t \in Tokens : UpstreamText(p, t)
         \/ \E k \in Kinds : UpstreamSays(k)
  PROVE  Typed'
  <1>1. ASSUME NEW p \in Parts, NEW t \in Tokens, UpstreamText(p, t) PROVE Typed'
    <2>1. /\ truth' \in [Parts -> Seq(Tokens)] /\ truth'[p] \in Seq(Tokens)
          /\ <<t>> \in Seq(Tokens)
      BY <1>1, UpstreamWrites DEF UpstreamText
    <2>2. \A k \in {"delta", "inline", "updated"}, x \in Seq(Tokens) :
            [kind |-> k, part |-> p, text |-> x] \in Event
      BY DEF Event
    <2>3. PICK e \in Event : Say(e) BY <1>1, <2>1, <2>2 DEF UpstreamText
    <2> QED BY <1>1, <2>1, <2>3, SayTyped DEF UpstreamText
  <1>2. ASSUME NEW p \in Parts, UpstreamRepeats(p) PROVE Typed'
    <2>1. truth' \in [Parts -> Seq(Tokens)]
      <3>1. truth \in [Parts -> Seq(Tokens)] BY DEF Typed, UpTyped
      <3>2. \A x \in Seq(Tokens) : x # <<>> => Tail(x) \in Seq(Tokens) OBVIOUS
      <3> QED BY <1>2, <3>1, <3>2 DEF UpstreamRepeats
    <2>2. [kind |-> "updated", part |-> p, text |-> truth'[p]] \in Event
      BY <2>1 DEF Event
    <2> QED BY <1>2, <2>1, <2>2, SayTyped DEF UpstreamRepeats
  <1>3. ASSUME NEW k \in Kinds, UpstreamSays(k) PROVE Typed'
    <2>1. [kind |-> k] \in Event BY DEF Event
    <2>2. truth' \in [Parts -> Seq(Tokens)] BY <1>3 DEF UpstreamSays, Typed, UpTyped
    <2> QED BY <1>3, <2>1, <2>2, SayTyped DEF UpstreamSays
  <1> QED BY <1>1, <1>2, <1>3

\* An event about a part names it and holds a text.
LEMMA EventFacts ==
  ASSUME NEW e \in Event
  PROVE  /\ e.kind \in {"delta", "inline", "updated"} => e.part \in Parts /\ e.text \in Seq(Tokens)
         /\ e.kind \in {"delta", "inline", "updated"} \cup Kinds
  BY DEF Event, Kinds

\* The chunks that texts of a part are emitted as.
Chunks(p, texts) == [i \in DOMAIN texts |-> Chunk(p, texts[i])]

LEMMA ChunksTyped ==
  ASSUME turn \in Turns, NEW p \in Parts, NEW texts \in Seq(Seq(Tokens))
  PROVE  /\ Chunks(p, texts) \in Seq(Piece) /\ DOMAIN Chunks(p, texts) = DOMAIN texts
         /\ \A i \in DOMAIN texts : /\ Chunks(p, texts)[i].part = p
                                    /\ Chunks(p, texts)[i].art = Artifact(p)
                                    /\ Chunks(p, texts)[i].text = texts[i]
         /\ Chunks(p, texts) = <<>> <=> texts = <<>>
         /\ Len(Chunks(p, texts)) = Len(texts)
  <1> DEFINE cs == Chunks(p, texts)
  <1>1. DOMAIN texts = 1 .. Len(texts) /\ Len(texts) \in Nat OBVIOUS
  <1>2. \A i \in DOMAIN texts : texts[i] \in Seq(Tokens) OBVIOUS
  <1>3. ASSUME NEW x \in Seq(Tokens)
        PROVE  /\ Chunk(p, x) \in Piece /\ Chunk(p, x).part = p
               /\ Chunk(p, x).art = Artifact(p) /\ Chunk(p, x).text = x
    BY TurnFacts DEF Chunk, Piece
  <1>4. cs = [i \in 1 .. Len(texts) |-> Chunk(p, texts[i])] BY <1>1 DEF Chunks
  <1> HIDE DEF cs
  <1>5. cs \in Seq(Piece) /\ DOMAIN cs = DOMAIN texts /\ Len(cs) = Len(texts)
        /\ \A i \in DOMAIN texts : cs[i] = Chunk(p, texts[i])
    BY <1>1, <1>2, <1>3, <1>4
  <1>6. cs = <<>> <=> texts = <<>> BY <1>5
  <1> QED BY <1>2, <1>3, <1>5, <1>6 DEF cs

LEMMA OneChunk == \A p, text : Chunks(p, <<text>>) = <<Chunk(p, text)>>
  BY DEF Chunks

\* What an update of a part makes of its text, and the texts it emits.
NewText(e) ==
  LET text == Strip(e.text)
  IN  IF e.kind = "inline"          THEN Consumed(e.part) \o e.text
      ELSE IF Block[e.part] = "tool" THEN e.text
      ELSE IF text = <<>>            THEN Consumed(e.part)
      ELSE text
TailTexts(e) ==
  LET text == Strip(e.text)
  IN  IF e.kind = "inline"          THEN <<e.text>>
      ELSE IF Block[e.part] = "tool" THEN Payload(Consumed(e.part), e.text)
      ELSE IF text = <<>>            THEN <<>>
      ELSE Added(Consumed(e.part), text)

LEMMA UpdatedIs ==
  ASSUME NEW e, UpdatedEvent(e)
  PROVE  /\ pend' = [pend EXCEPT ![e.part] = <<>>]
         /\ IF Streamed(e.part)
            THEN /\ Emit(Chunks(e.part, pend[e.part] \o TailTexts(e)))
                 /\ buffer' = [buffer EXCEPT ![e.part] = NewText(e)]
            ELSE /\ Emit(<<>>)
                 /\ buffer' = IF Block[e.part] = "other" THEN buffer
                              ELSE [buffer EXCEPT ![e.part] = Known(e.part)]
         /\ UNCHANGED <<abuf, emitted, progress, err, sig, stop, seq>>
  BY DEF UpdatedEvent, NewText, TailTexts, Consumed, Chunks

LEMMA ConsumedTyped ==
  ASSUME Typed, NEW p \in Parts
  PROVE  /\ Known(p) \in Seq(Tokens) /\ Consumed(p) \in Seq(Tokens)
         /\ pend[p] \in Seq(Seq(Tokens)) /\ FlattenSeq(pend[p]) \in Seq(Tokens)
  <1>1. pend[p] \in Seq(Seq(Tokens)) BY DEF Typed, RunTyped
  <1>2. Known(p) \in Seq(Tokens)
    <2>1. <<>> \in Seq(Tokens) OBVIOUS
    <2> QED BY <2>1 DEF Typed, RunTyped, Known
  <1>3. FlattenSeq(pend[p]) \in Seq(Tokens) BY <1>1, FlattenType
  <1> QED BY <1>1, <1>2, <1>3 DEF Consumed

LEMMA UpdateTyped ==
  ASSUME Typed, NEW e \in Event, e.kind \in {"inline", "updated"}
  PROVE  NewText(e) \in Seq(Tokens) /\ TailTexts(e) \in Seq(Seq(Tokens))
  <1>1. e.part \in Parts /\ e.text \in Seq(Tokens) BY EventFacts
  <1>2. Consumed(e.part) \in Seq(Tokens) /\ Strip(e.text) \in Seq(Tokens)
    BY <1>1, ConsumedTyped, StripFacts
  <1>3. \A x \in Seq(Tokens) : <<x>> \in Seq(Seq(Tokens)) OBVIOUS
  <1>4. <<>> \in Seq(Seq(Tokens)) OBVIOUS
  <1>5. NewText(e) \in Seq(Tokens)
    <2>1. CASE e.kind = "inline" BY <1>1, <1>2, <2>1 DEF NewText
    <2>2. CASE e.kind # "inline" /\ Block[e.part] = "tool"
      <3>1. NewText(e) = e.text BY <2>2 DEF NewText
      <3> QED BY <1>1, <3>1
    <2>3. CASE e.kind # "inline" /\ Block[e.part] # "tool" /\ Strip(e.text) = <<>>
      BY <1>2, <2>3 DEF NewText
    <2>4. CASE e.kind # "inline" /\ Block[e.part] # "tool" /\ Strip(e.text) # <<>>
      BY <1>2, <2>4 DEF NewText
    <2> QED BY <2>1, <2>2, <2>3, <2>4
  <1>6. TailTexts(e) \in Seq(Seq(Tokens))
    <2>1. CASE e.kind = "inline"
      <3>1. TailTexts(e) = <<e.text>> BY <2>1 DEF TailTexts
      <3> QED BY <1>1, <1>3, <3>1
    <2>2. CASE e.kind # "inline" /\ Block[e.part] = "tool"
      BY <1>1, <1>3, <1>4, <2>2 DEF TailTexts, Payload
    <2>3. CASE e.kind # "inline" /\ Block[e.part] # "tool" /\ Strip(e.text) = <<>>
      BY <1>4, <2>3 DEF TailTexts
    <2>4. CASE e.kind # "inline" /\ Block[e.part] # "tool" /\ Strip(e.text) # <<>>
      <3> DEFINE b == Consumed(e.part)
                 x == Strip(e.text)
      <3>1. b \in Seq(Tokens) /\ x \in Seq(Tokens) BY <1>2
      <3>2. TailTexts(e) = Added(b, x) BY <2>4 DEF TailTexts
      <3> HIDE DEF b, x
      <3>3. SubSeq(x, Len(b) + 1, Len(x)) \in Seq(Tokens) BY <3>1
      <3> QED BY <1>3, <1>4, <3>2, <3>3 DEF Added
    <2> QED BY <2>1, <2>2, <2>3, <2>4
  <1> QED BY <1>5, <1>6

\* Pieces to emit that are typed leave the stream task typed.
LEMMA EmitTyped ==
  ASSUME Typed, turn' = turn, st = "read", held' = held, NEW cs \in Seq(Piece), Emit(cs),
         \A i \in DOMAIN cs : cs[i].art # None =>
           cs[i].part \in Parts /\ cs[i].art = Artifact(cs[i].part),
         buffer' \in [Parts -> Seq(Tokens) \cup {None}], pend' \in [Parts -> Seq(Seq(Tokens))]
  PROVE  RunTyped'
  <1>1. todo' = cs /\ st' = (IF cs = <<>> THEN "read" ELSE "emit") BY DEF Emit
  <1>2. held = None BY DEF Typed, RunTyped
  <1>3. held' = None /\ st' \in {"read", "emit"} BY <1>1, <1>2
  <1>4. /\ st' = "emit" => todo' # <<>>
        /\ st' # "emit" => todo' = <<>>
    BY <1>1
  <1> QED BY <1>1, <1>3, <1>4, TurnFixed DEF RunTyped

LEMMA EmitNothingTyped ==
  ASSUME Typed, turn' = turn, st = "read", held' = held, Emit(<<>>),
         buffer' \in [Parts -> Seq(Tokens) \cup {None}], pend' \in [Parts -> Seq(Seq(Tokens))]
  PROVE  RunTyped'
  <1>1. <<>> \in Seq(Piece) /\ DOMAIN <<>> = {} OBVIOUS
  <1>2. todo' = <<>> /\ st' = "read" BY DEF Emit
  <1>3. held' = None BY DEF Typed, RunTyped
  <1> QED BY <1>1, <1>2, <1>3, TurnFixed DEF RunTyped

LEMMA HandleTyped ==
  ASSUME Typed, turn' = turn, st = "read", held' = held, NEW e \in Event, Handle(e)
  PROVE  RunTyped' /\ OutTyped'
  <1>0. turn \in Turns /\ RunTyped /\ OutTyped BY DEF Typed
  <1>1. <<>> \in Seq(Piece) /\ <<>> \in Seq(Tokens) /\ <<>> \in Seq(Seq(Tokens)) OBVIOUS
  <1>2. /\ buffer \in [Parts -> Seq(Tokens) \cup {None}] /\ pend \in [Parts -> Seq(Seq(Tokens))]
    BY <1>0 DEF RunTyped
  <1>3. CASE e.kind = "delta"
    <2> DEFINE p == e.part
    <2>1. p \in Parts /\ e.text \in Seq(Tokens) BY <1>3, EventFacts
    <2>2. DeltaEvent(e) BY <1>3 DEF Handle
    <2>3. OutTyped' BY <1>0, <2>2, TurnFixed DEF DeltaEvent, OutTyped
    <2>4. CASE buffer[p] = None
      <3>1. Append(pend[p], e.text) \in Seq(Seq(Tokens)) BY <1>2, <2>1
      <3>2. pend' = [pend EXCEPT ![p] = Append(pend[p], e.text)] /\ Emit(<<>>) /\ buffer' = buffer
        BY <1>2, <2>1, <2>2, <2>4 DEF DeltaEvent
      <3>3. pend' \in [Parts -> Seq(Seq(Tokens))] BY <1>2, <3>1, <3>2
      <3> QED BY <1>2, <2>3, <3>2, <3>3, EmitNothingTyped
    <2>5. CASE buffer[p] # None /\ ~ Streamed(p)
      <3>1. Emit(<<>>) /\ buffer' = buffer /\ pend' = pend BY <2>2, <2>5 DEF DeltaEvent
      <3> QED BY <1>2, <2>3, <3>1, EmitNothingTyped
    <2>6. CASE buffer[p] # None /\ Streamed(p)
      <3>1. buffer[p] \o e.text \in Seq(Tokens)
        <4>1. buffer[p] \in Seq(Tokens) BY <1>2, <2>1, <2>6
        <4> QED BY <2>1, <4>1
      <3>2. /\ buffer' = [buffer EXCEPT ![p] = buffer[p] \o e.text] /\ pend' = pend
            /\ Emit(<<Chunk(p, e.text)>>)
        BY <1>2, <2>1, <2>2, <2>6 DEF DeltaEvent
      <3>3. buffer' \in [Parts -> Seq(Tokens) \cup {None}] BY <1>2, <3>1, <3>2
      <3> DEFINE ts == <<e.text>>
      <3>4. ts \in Seq(Seq(Tokens)) BY <2>1
      <3>5. Emit(Chunks(p, ts)) BY <3>2, OneChunk
      <3> HIDE DEF ts, p
      <3>6. /\ Chunks(p, ts) \in Seq(Piece)
            /\ \A i \in DOMAIN Chunks(p, ts) : /\ Chunks(p, ts)[i].part = p
                                               /\ Chunks(p, ts)[i].art = Artifact(p)
        BY <1>0, <2>1, <3>4, ChunksTyped
      <3> QED BY <1>2, <2>1, <2>3, <3>2, <3>3, <3>5, <3>6, EmitTyped
    <2> QED BY <2>4, <2>5, <2>6
  <1>4. CASE e.kind \in {"inline", "updated"}
    <2> DEFINE p == e.part
               texts == pend[p] \o TailTexts(e)
    <2>1. p \in Parts BY <1>4, EventFacts
    <2>2. UpdatedEvent(e) BY <1>4 DEF Handle
    <2>3. OutTyped' BY <1>0, <2>2, TurnFixed DEF UpdatedEvent, OutTyped
    <2>4. pend' = [pend EXCEPT ![p] = <<>>] BY <2>2, UpdatedIs
    <2>5. pend' \in [Parts -> Seq(Seq(Tokens))] BY <1>1, <1>2, <2>4
    <2>6. NewText(e) \in Seq(Tokens) /\ TailTexts(e) \in Seq(Seq(Tokens)) BY <1>4, UpdateTyped
    <2>7. texts \in Seq(Seq(Tokens)) BY <1>2, <2>1, <2>6
    <2>8. Known(p) \in Seq(Tokens) BY <2>1, ConsumedTyped
    <2>9. CASE Streamed(p)
      <3>1. Emit(Chunks(p, texts)) /\ buffer' = [buffer EXCEPT ![p] = NewText(e)]
        BY <2>2, <2>9, UpdatedIs
      <3>2. buffer' \in [Parts -> Seq(Tokens) \cup {None}] BY <1>2, <2>6, <3>1
      <3> HIDE DEF p, texts
      <3>3. /\ Chunks(p, texts) \in Seq(Piece)
            /\ \A i \in DOMAIN Chunks(p, texts) : /\ Chunks(p, texts)[i].part = p
                                                  /\ Chunks(p, texts)[i].art = Artifact(p)
        BY <1>0, <2>1, <2>7, ChunksTyped
      <3> QED BY <2>1, <2>3, <2>5, <3>1, <3>2, <3>3, EmitTyped
    <2>10. CASE ~ Streamed(p)
      <3>1. /\ Emit(<<>>)
            /\ buffer' = buffer \/ buffer' = [buffer EXCEPT ![p] = Known(p)]
        BY <2>2, <2>10, UpdatedIs
      <3>2. buffer' \in [Parts -> Seq(Tokens) \cup {None}] BY <1>2, <2>8, <3>1
      <3> QED BY <2>3, <2>5, <3>1, <3>2, EmitNothingTyped
    <2> QED BY <2>9, <2>10
  <1>5. CASE e.kind \in {"idle", "error", "message_error"}
    <2>1. SessionEvent(e) BY <1>5 DEF Handle
    <2>2. OutTyped' BY <1>0, <2>1, TurnFixed DEF SessionEvent, OutTyped, ErrorIn
    <2> QED BY <1>2, <2>1, <2>2, EmitNothingTyped DEF SessionEvent
  <1>6. CASE e.kind = "step"
    <2>1. ProgressEvent(e) BY <1>6 DEF Handle
    <2>2. OutTyped' BY <1>0, <2>1, TurnFixed DEF ProgressEvent, OutTyped
    <2> DEFINE c == [art |-> None, part |-> None, text |-> <<>>]
    <2>3. c \in Piece /\ c.art = None BY <1>1 DEF Piece
    <2> HIDE DEF c
    <2>4. <<c>> \in Seq(Piece) /\ \A i \in DOMAIN <<c>> : <<c>>[i].art = None BY <2>3
    <2>5. Emit(<<>>) \/ Emit(<<c>>) BY <2>1 DEF ProgressEvent, c
    <2>6. buffer' = buffer /\ pend' = pend BY <2>1 DEF ProgressEvent
    <2>7. CASE Emit(<<>>) BY <1>2, <2>2, <2>6, <2>7, EmitNothingTyped
    <2>8. CASE Emit(<<c>>)
      <3> DEFINE cs == <<c>>
      <3> HIDE DEF cs
      <3>1. cs \in Seq(Piece) /\ Emit(cs) /\ \A i \in DOMAIN cs : cs[i].art = None
        BY <2>4, <2>8 DEF cs
      <3> QED BY <1>2, <2>2, <2>6, <3>1, EmitTyped
    <2> QED BY <2>5, <2>7, <2>8
  <1> QED BY <1>3, <1>4, <1>5, <1>6, EventFacts DEF Kinds

LEMMA ReadTyped ==
  ASSUME Typed, turn' = turn, Read
  PROVE  Typed'
  <1>1. wire \in Seq(Event) /\ wire # <<>> /\ wire' = Tail(wire) BY DEF Typed, UpTyped, Read
  <1>2. Head(wire) \in Event /\ wire' \in Seq(Event) BY <1>1
  <1>3. UpTyped' BY <1>2, TurnFixed DEF Typed, UpTyped, Read
  <1>4. RunTyped' /\ OutTyped'
    <2>1. CASE stop
      <3>1. OutTyped' BY <2>1, TypesStand DEF Read
      <3>2. st = "read" /\ st' = "ended" /\ UNCHANGED <<buffer, pend, todo, held>>
        BY <2>1 DEF Read
      <3> QED BY <3>1, <3>2, TurnFixed DEF Typed, RunTyped
    <2>2. CASE ~ stop BY <1>2, <2>2, HandleTyped DEF Read
    <2> QED BY <2>1, <2>2
  <1> QED BY <1>3, <1>4, TypesStand DEF Typed, Read, coord

LEMMA EmitNextTyped ==
  ASSUME Typed, turn' = turn, EmitNext
  PROVE  Typed'
  <1> DEFINE c == Head(todo)
  <1>0. /\ st = "emit" /\ todo # <<>> /\ held = None /\ todo' = Tail(todo)
        /\ UNCHANGED <<upstream, buffer, pend, progress, err, sig, stop, coord, cx, seen>>
    BY DEF EmitNext
  <1>1. turn \in Turns /\ RunTyped /\ OutTyped BY DEF Typed
  <1>2. /\ c \in Piece /\ (c.art # None => c.part \in Parts /\ c.art = Artifact(c.part))
        /\ Tail(todo) \in Seq(Piece)
        /\ \A i \in DOMAIN Tail(todo) : i + 1 \in DOMAIN todo /\ Tail(todo)[i] = todo[i+1]
    <2>1. todo \in Seq(Piece) /\ todo # <<>> BY <1>0, <1>1 DEF RunTyped
    <2>2. 1 \in DOMAIN todo /\ c = todo[1] BY <2>1
    <2>3. /\ Tail(todo) \in Seq(Piece)
          /\ \A i \in DOMAIN Tail(todo) : i + 1 \in DOMAIN todo /\ Tail(todo)[i] = todo[i+1]
      BY <2>1
    <2> QED BY <1>1, <2>1, <2>2, <2>3 DEF RunTyped
  <1>3. \A i \in DOMAIN Tail(todo) : Tail(todo)[i].art # None =>
          Tail(todo)[i].part \in Parts /\ Tail(todo)[i].art = Artifact(Tail(todo)[i].part)
    BY <1>1, <1>2 DEF RunTyped
  <1>4. /\ c.art \in Artifacts \cup {None} /\ c.text \in Seq(Tokens) BY <1>2 DEF Piece
  <1>5. seq \in Nat /\ seq + 1 \in Nat BY <1>1 DEF OutTyped
  <1> HIDE DEF c
  <1>6. /\ st' \in {"read", "emit"} /\ (st' = "emit" => todo' # <<>> \/ held' # None)
        /\ st' # "emit" => todo' = <<>> /\ held' = None
        /\ held' \in {None} \cup Sent /\ (held' # None => held'.art \in Artifacts \cup {None})
        /\ abuf' \in [Artifacts -> Seq(Tokens)] /\ emitted' \subseteq Artifacts /\ seq' \in Nat
    <2>1. CASE c.art = None
      <3>1. /\ seq' = seq + 1 /\ held' = [art |-> None, seq |-> seq + 1]
            /\ UNCHANGED <<st, abuf, emitted>>
        BY <2>1 DEF EmitNext, c
      <3>2. held' \in Sent /\ held'.art = None BY <1>5, <3>1 DEF Sent
      <3>3. held' # None BY <1>1, <3>2, TurnFacts
      <3> QED BY <1>0, <1>1, <1>5, <3>1, <3>2, <3>3 DEF OutTyped
    <2>2. CASE c.art # None /\ (Echo(c) \/ NextValue(c) = abuf[c.art])
      <3>1. /\ st' = (IF todo' = <<>> THEN "read" ELSE st)
            /\ UNCHANGED <<held, abuf, emitted, seq>>
        BY <2>2 DEF EmitNext, c
      <3> QED BY <1>0, <1>1, <3>1 DEF OutTyped
    <2>3. CASE c.art # None /\ ~ (Echo(c) \/ NextValue(c) = abuf[c.art])
      <3>1. /\ abuf' = [abuf EXCEPT ![c.art] = NextValue(c)]
            /\ emitted' = emitted \cup {c.art} /\ seq' = seq + 1 /\ UNCHANGED st
            /\ held' = [art |-> c.art, text |-> c.text, append |-> c.art \in emitted,
                        seq |-> seq + 1]
        BY <2>3 DEF EmitNext, c
      <3>2. c.art \in Artifacts /\ c.art \in Lanes BY <1>1, <1>4, <2>3, TurnFacts
      <3>3. held' \in Sent /\ held'.art = c.art BY <1>4, <1>5, <3>1, <3>2 DEF Sent
      <3>4. held' # None BY <1>1, <3>3, TurnFacts
      <3>5. NextValue(c) \in Seq(Tokens)
        <4>1. abuf[c.art] \in Seq(Tokens) BY <1>1, <3>2 DEF OutTyped
        <4>2. abuf[c.art] \o c.text \in Seq(Tokens) BY <1>4, <4>1
        <4> QED BY <1>4, <4>2 DEF NextValue
      <3>6. abuf' \in [Artifacts -> Seq(Tokens)] BY <1>1, <3>1, <3>5 DEF OutTyped
      <3> QED BY <1>0, <1>1, <1>5, <3>1, <3>2, <3>3, <3>4, <3>6 DEF OutTyped
    <2> QED BY <2>1, <2>2, <2>3
  <1>7. RunTyped'
    BY <1>0, <1>1, <1>2, <1>3, <1>6, TurnFixed DEF RunTyped
  <1>8. OutTyped' BY <1>0, <1>1, <1>6, TurnFixed DEF OutTyped
  <1> QED BY <1>0, <1>7, <1>8, TypesStand DEF Typed, coord, upstream

\* What a chunk or a snapshot does to an artifact of the client.
LEMMA PutTyped ==
  ASSUME Typed, turn' = turn, NEW a \in Artifacts, NEW text \in Seq(Tokens), NEW append \in BOOLEAN,
         Put(a, text, append), got' \in Seq(Nat), UNCHANGED ended
  PROVE  SeenTyped'
  <1>1. client[a] \in Seq(Tokens) /\ client \in [Artifacts -> Seq(Tokens)]
    BY DEF Typed, SeenTyped
  <1>2. client[a] \o text \in Seq(Tokens) BY <1>1
  <1>3. client' = [client EXCEPT ![a] = client[a] \o text] \/ client' = [client EXCEPT ![a] = text]
    BY <1>1 DEF Put
  <1>4. client' \in [Artifacts -> Seq(Tokens)] BY <1>1, <1>2, <1>3
  <1> QED BY <1>4, TurnFixed DEF Typed, SeenTyped

LEMMA PutChunkTyped ==
  ASSUME Typed, turn' = turn, PutChunk
  PROVE  Typed'
  <1>0. /\ st = "emit" /\ held # None /\ got' = Append(got, held.seq) /\ held' = None
        /\ st' = (IF todo = <<>> THEN "read" ELSE st)
        /\ UNCHANGED <<upstream, buffer, pend, todo, output, coord, cx, ended>>
    BY DEF PutChunk
  <1>1. turn \in Turns /\ RunTyped /\ SeenTyped BY DEF Typed
  <1>2. held \in Sent /\ held.art \in Artifacts \cup {None} BY <1>0, <1>1 DEF RunTyped
  <1>3. held.seq \in Nat BY <1>2 DEF Sent
  <1>4. got' \in Seq(Nat) BY <1>0, <1>1, <1>3 DEF SeenTyped
  <1>5. SeenTyped'
    <2>1. CASE held.art = None
      BY <1>0, <1>1, <1>4, <2>1, TurnFixed DEF PutChunk, SeenTyped
    <2>2. CASE held.art # None
      <3>1. held.art \in Artifacts /\ held.text \in Seq(Tokens) /\ held.append \in BOOLEAN
        BY <1>2, <2>2 DEF Sent
      <3> QED BY <1>0, <1>4, <2>2, <3>1, PutTyped DEF PutChunk
    <2> QED BY <2>1, <2>2
  <1>6. RunTyped' BY <1>0, <1>1, TurnFixed DEF RunTyped
  <1> QED BY <1>0, <1>5, <1>6, TypesStand DEF Typed, coord

LEMMA ConnectionTyped ==
  ASSUME Typed, turn' = turn, Reconnect \/ Fail \/ Close
  PROVE  Typed'
  <1>1. /\ st \in {"connect", "read", "backoff"} /\ st' \in {"connect", "read", "backoff", "ended"}
        /\ UNCHANGED <<buffer, pend, todo, held, output, coord, cx, seen>>
    BY DEF Reconnect, Fail, Close
  <1>2. RunTyped' BY <1>1, TurnFixed DEF Typed, RunTyped
  <1>3. UpTyped'
    <2>1. CASE Reconnect \/ Close BY <2>1, TypesStand DEF Reconnect, Close
    <2>2. CASE Fail
      <3>1. \A S : Missed(S) \in {"none", "some", "terminal"} BY DEF Missed, Typed, UpTyped
      <3>2. <<>> \in Seq(Event)' OBVIOUS
      <3> QED BY <2>2, <3>1, <3>2, TurnFixed DEF Fail, Typed, UpTyped
    <2> QED BY <2>1, <2>2
  <1> QED BY <1>1, <1>2, <1>3, TypesStand DEF Typed, coord

LEMMA CleanupTyped ==
  ASSUME Typed, turn' = turn, Cleanup \/ StopStream, UNCHANGED resp, claim' \in BOOLEAN
  PROVE  RunTyped' /\ OutTyped' /\ CoordTyped' /\ pc' \in {"release", "done"}
  <1>1. pc' \in {"release", "done"} BY DEF Cleanup, StopStream
  <1>2. CASE UNCHANGED <<runtime, output>>
    <2>1. RunTyped' /\ OutTyped' BY <1>2, TypesStand
    <2> QED BY <1>1, <2>1 DEF CoordTyped
  <1>3. CASE StopStream
    <2>1. <<>> \in Seq(Piece)' OBVIOUS
    <2>2. RunTyped' BY <1>3, <2>1, TurnFixed DEF Typed, RunTyped, StopStream
    <2>3. OutTyped' BY <1>3, TurnFixed DEF Typed, OutTyped, StopStream
    <2> QED BY <1>1, <2>2, <2>3 DEF CoordTyped
  <1> QED BY <1>2, <1>3 DEF Cleanup

\* A terminal status is told.
LEMMA EndedTyped ==
  ASSUME Typed, NEW s \in {"completed", "failed", "canceled"}, ended' = Append(ended, s)
  PROVE  ended' \in Seq({"completed", "failed", "canceled"})
  BY DEF Typed, SeenTyped

LEMMA CoordinatorTyped ==
  ASSUME Typed, turn' = turn,
         \/ SendReturns \/ SendFails \/ Signalled \/ Final \/ PutSnapshot
         \/ Complete \/ ErrorArtifact \/ ErrorStatus \/ Released
  PROVE  Typed'
  <1>0. turn \in Turns /\ CoordTyped /\ SeenTyped /\ OutTyped BY DEF Typed
  <1>1. CASE SendReturns \/ SendFails \/ Signalled \/ ErrorArtifact
    <2>1. UNCHANGED <<upstream, runtime, output, client, got, ended>>
      BY <1>1 DEF SendReturns, SendFails, Signalled, ErrorArtifact, seen
    <2>2. CoordTyped'
      BY <1>0, <1>1, TurnFixed DEF SendReturns, SendFails, Signalled, ErrorArtifact, CoordTyped
    <2>3. SeenTyped' BY <1>0, <2>1, TurnFixed DEF SeenTyped
    <2> QED BY <2>1, <2>2, <2>3, TypesStand DEF Typed
  <1>2. CASE Final
    <2>1. resp \in Seq(Tokens) BY <1>0, <1>2, TurnFacts DEF Final, CoordTyped
    <2>2. /\ pc' \in {"complete", "snapshot"} /\ seq' \in {seq, seq + 1}
          /\ abuf' = abuf \/ abuf' = [abuf EXCEPT !["text"] = resp]
          /\ UNCHANGED <<upstream, runtime, emitted, progress, err, sig, stop, resp, claim, seen>>
      BY <1>2 DEF Final
    <2>3. abuf' \in [Artifacts -> Seq(Tokens)] BY <1>0, <2>1, <2>2 DEF OutTyped
    <2>4. OutTyped' BY <1>0, <2>2, <2>3, TurnFixed DEF OutTyped
    <2>5. CoordTyped' BY <1>0, <1>2, <2>2, TurnFixed DEF CoordTyped, Final
    <2> QED BY <2>2, <2>4, <2>5, TypesStand DEF Typed
  <1>3. CASE PutSnapshot
    <2>1. /\ Put("text", resp, FALSE) /\ got' = Append(got, seq) /\ pc' = "complete"
          /\ UNCHANGED <<upstream, runtime, output, resp, claim, ended>>
      BY <1>3 DEF PutSnapshot
    <2>2. resp \in Seq(Tokens) /\ "text" \in Artifacts
      BY <1>0, <1>3, TurnFacts DEF PutSnapshot, CoordTyped
    <2>3. got' \in Seq(Nat) BY <1>0, <2>1 DEF SeenTyped, OutTyped
    <2>4. SeenTyped' BY <2>1, <2>2, <2>3, PutTyped
    <2>5. CoordTyped' BY <1>0, <1>3, <2>1, TurnFixed DEF CoordTyped, PutSnapshot
    <2> QED BY <2>1, <2>4, <2>5, TypesStand DEF Typed
  <1>4. CASE Complete \/ ErrorStatus
    <2>1. /\ Cleanup /\ UNCHANGED <<upstream, resp, claim, client, got, late>>
          /\ ended' = Append(ended, "completed") \/ ended' = Append(ended, "failed")
      BY <1>4 DEF Complete, ErrorStatus
    <2>2. SeenTyped' BY <1>0, <2>1, EndedTyped, TurnFixed DEF SeenTyped
    <2>3. RunTyped' /\ OutTyped' /\ CoordTyped' BY <1>0, <2>1, CleanupTyped DEF CoordTyped
    <2> QED BY <2>1, <2>2, <2>3, TypesStand DEF Typed
  <1>5. CASE Released
    <2>1. StopStream /\ claim' = FALSE /\ UNCHANGED <<upstream, resp, seen>>
      BY <1>5 DEF Released
    <2>2. RunTyped' /\ OutTyped' /\ CoordTyped' BY <2>1, CleanupTyped
    <2> QED BY <2>1, <2>2, TypesStand DEF Typed
  <1> QED BY <1>1, <1>2, <1>3, <1>4, <1>5

LEMMA CancelTyped ==
  ASSUME Typed, turn' = turn, Cancel
  PROVE  Typed'
  <1>0. turn \in Turns /\ CoordTyped /\ SeenTyped /\ OutTyped BY DEF Typed
  <1>1. CASE CancelStatus
    <2>1. /\ UNCHANGED <<upstream, runtime, output, coord, client, got>>
          /\ ended' = Append(ended, "canceled")
      BY <1>1 DEF CancelStatus
    <2>2. SeenTyped' BY <1>0, <2>1, EndedTyped, TurnFixed DEF SeenTyped
    <2> QED BY <2>1, <2>2, TypesStand DEF Typed, coord
  <1>2. CASE CancelStop
    <2>1. OutTyped' BY <1>0, <1>2, TurnFixed DEF CancelStop, OutTyped
    <2> QED BY <1>2, <2>1, TypesStand DEF CancelStop, Typed, coord
  <1>3. CASE CancelTask
    <2>1. UNCHANGED <<upstream, resp, claim, seen>> BY <1>3 DEF CancelTask
    <2>2. CASE pc = "done" /\ UNCHANGED <<runtime, output, pc>>
      BY <2>1, <2>2, TypesStand DEF Typed
    <2>3. CASE pc' = "done" /\ UNCHANGED <<runtime, output>>
      <3>1. CoordTyped' BY <1>0, <2>1, <2>3, TurnFixed DEF CoordTyped
      <3> QED BY <2>1, <2>3, <3>1, TypesStand DEF Typed
    <2>4. CASE Cleanup
      <3>1. RunTyped' /\ OutTyped' /\ CoordTyped'
        BY <1>0, <2>1, <2>4, CleanupTyped DEF CoordTyped
      <3> QED BY <2>1, <3>1, TypesStand DEF Typed
    <2> QED BY <1>3, <2>2, <2>3, <2>4 DEF CancelTask
  <1> QED BY <1>1, <1>2, <1>3 DEF Cancel

LEMMA InitTyped == Init => Typed
  <1> SUFFICES ASSUME Init PROVE Typed OBVIOUS
  <1>1. <<>> \in Seq(Tokens) /\ <<>> \in Seq(Event) /\ <<>> \in Seq(Piece) /\ <<>> \in Seq(Nat)
        /\ <<>> \in Seq({"completed", "failed", "canceled"}) /\ <<>> \in Seq(Seq(Tokens))
    OBVIOUS
  <1>2. turn \in Turns /\ turn.preferred \in BOOLEAN BY TurnFacts DEF Init
  <1>3. UpTyped BY <1>1 DEF Init, UpTyped
  <1>4. RunTyped BY <1>1 DEF Init, RunTyped
  <1>5. OutTyped BY <1>1 DEF Init, OutTyped
  <1>6. CoordTyped BY <1>2 DEF Init, CoordTyped
  <1>7. SeenTyped BY <1>1 DEF Init, SeenTyped
  <1> QED BY <1>2, <1>3, <1>4, <1>5, <1>6, <1>7 DEF Typed

LEMMA NextTyped ==
  ASSUME Typed, [Next]_<<vars, turn>>
  PROVE  Typed' /\ turn' = turn
  <1>1. turn' = turn BY DEF Next
  <1>2. CASE UNCHANGED <<vars, turn>>
    BY <1>2, TypesStand DEF vars, coord, Typed
  <1>3. CASE Next
    BY <1>1, <1>3, SpeechTyped, ReadTyped, EmitNextTyped, PutChunkTyped, ConnectionTyped,
       CoordinatorTyped, CancelTyped DEF Next, Consume, Coordinate
  <1> QED BY <1>1, <1>2, <1>3

----------------------------------------------------------------------------
(* The order of what is put on the event queue.                              *)

Order == Settled /\ Numbered /\ EventsInOrder

LEMMA OrderStands ==
  ASSUME Order, UNCHANGED <<sig, st, pc, claim, ended, got, seq, held, late>>
  PROVE  Order'
  BY DEF Order, Settled, Numbered, EventsInOrder, SequenceIncreasing, NoArtifactAfterCompleted, Range

\* One more number, ahead of those the client has, keeps them rising.
LEMMA NumbersRise ==
  ASSUME got \in Seq(Nat), SequenceIncreasing, NEW n \in Nat,
         \A i \in DOMAIN got : got[i] < n, got' = Append(got, n)
  PROVE  SequenceIncreasing' /\ \A i \in DOMAIN got' : got'[i] <= n
  <1>1. /\ DOMAIN got' = 1 .. Len(got) + 1 /\ DOMAIN got = 1 .. Len(got) /\ Len(got) \in Nat
        /\ got'[Len(got) + 1] = n /\ \A i \in DOMAIN got : got'[i] = got[i] /\ got[i] \in Nat
    OBVIOUS
  <1>2. ASSUME NEW i \in DOMAIN got', NEW j \in DOMAIN got', i < j PROVE got'[i] < got'[j]
    <2>1. i \in DOMAIN got BY <1>1, <1>2
    <2>2. CASE j \in DOMAIN got BY <1>1, <1>2, <2>1, <2>2 DEF SequenceIncreasing
    <2>3. CASE j = Len(got) + 1 BY <1>1, <2>1, <2>3
    <2> QED BY <1>1, <2>2, <2>3
  <1>3. ASSUME NEW i \in DOMAIN got' PROVE got'[i] <= n
    <2>1. CASE i \in DOMAIN got BY <1>1, <2>1
    <2>2. CASE i = Len(got) + 1 BY <1>1, <2>2
    <2> QED BY <1>1, <2>1, <2>2
  <1> QED BY <1>2, <1>3 DEF SequenceIncreasing

\* Reading may be the end of the emitting, never the start of it after the signal.
LEMMA ReadOrdered ==
  ASSUME Typed, Order, Read
  PROVE  Order'
  <1>0. /\ st = "read" /\ UNCHANGED <<held, pc, claim, ended, got, late>> BY DEF Read, coord, seen
  <1>1. OutTyped /\ RunTyped BY DEF Typed
  <1>2. held = None BY <1>0, <1>1 DEF RunTyped
  <1>3. seq' = seq BY DEF Read, output, Handle, DeltaEvent, UpdatedEvent, SessionEvent, ProgressEvent
  <1>4. (sig' # None => st' # "emit") /\ (sig # None => sig' = sig)
    <2>1. CASE stop BY <1>0, <2>1 DEF Read, output
    <2>2. CASE ~ stop
      <3>1. sig = None BY <1>1, <2>2 DEF OutTyped
      <3>2. Handle(Head(wire)) BY <2>2 DEF Read
      <3>3. CASE SessionEvent(Head(wire))
        BY <1>0, <3>1, <3>3 DEF SessionEvent, Emit
      <3>4. CASE ~ SessionEvent(Head(wire))
        <4>1. sig' = sig
          BY <3>2, <3>4 DEF Handle, DeltaEvent, UpdatedEvent, ProgressEvent
        <4> QED BY <3>1, <4>1
      <3> QED BY <3>3, <3>4
    <2> QED BY <2>1, <2>2
  <1>5. Settled' BY <1>0, <1>4, StreamingAssumption DEF Order, Settled, Range
  <1>6. Numbered' BY <1>0, <1>2, <1>3 DEF Order, Numbered
  <1>7. EventsInOrder' BY <1>0
    DEF Order, EventsInOrder, SequenceIncreasing, NoArtifactAfterCompleted
  <1> QED BY <1>5, <1>6, <1>7 DEF Order

LEMMA EmitNextOrdered ==
  ASSUME Typed, Order, EmitNext
  PROVE  Order'
  <1>0. /\ st = "emit" /\ held = None /\ UNCHANGED <<sig, pc, claim, ended, got, late>>
    BY DEF EmitNext, coord, seen
  <1>1. sig = None BY <1>0 DEF Order, Settled
  <1>2. pc # "snapshot" BY <1>1, TurnFacts DEF Order, Settled, Typed, OutTyped
  <1>3. seq \in Nat /\ got \in Seq(Nat) BY DEF Typed, OutTyped, SeenTyped
  <1>4. \/ seq' = seq /\ held' = None
        \/ seq' = seq + 1 /\ held'.seq = seq + 1
    BY <1>0 DEF EmitNext
  <1>5. Settled' BY <1>0, <1>1 DEF Order, Settled, Range
  <1>6. \A i \in DOMAIN got : got[i] \in Nat /\ got[i] <= seq BY <1>3 DEF Order, Numbered
  <1>7. Numbered' BY <1>0, <1>2, <1>3, <1>4, <1>6 DEF Numbered
  <1>8. EventsInOrder' BY <1>0
    DEF Order, EventsInOrder, SequenceIncreasing, NoArtifactAfterCompleted
  <1> QED BY <1>5, <1>7, <1>8 DEF Order

LEMMA PutChunkOrdered ==
  ASSUME Typed, Order, PutChunk
  PROVE  Order'
  <1>0. /\ st = "emit" /\ held # None /\ held' = None /\ got' = Append(got, held.seq)
        /\ late' \in {late, late \cup Range(ended)}
        /\ UNCHANGED <<sig, pc, claim, ended, seq>>
    BY DEF PutChunk, coord, output, Put
  <1>1. sig = None BY <1>0 DEF Order, Settled
  <1>2. pc # "snapshot" /\ "completed" \notin Range(ended) BY <1>1, TurnFacts DEF Order, Settled, Typed, OutTyped
  <1>3. seq \in Nat /\ got \in Seq(Nat) /\ held.seq \in Nat
    BY <1>0 DEF Typed, OutTyped, SeenTyped, RunTyped, Sent
  <1>4. held.seq <= seq /\ \A i \in DOMAIN got : got[i] < held.seq
    BY <1>0 DEF Order, Numbered
  <1>5. SequenceIncreasing' /\ \A i \in DOMAIN got' : got'[i] <= held.seq
    BY <1>0, <1>3, <1>4, NumbersRise DEF Order, EventsInOrder
  <1>6. got' \in Seq(Nat) BY <1>0, <1>3
  <1>7. \A i \in DOMAIN got' : got'[i] \in Nat BY <1>6
  <1>8. Settled' BY <1>0, <1>1, <1>2 DEF Order, Settled, Range
  <1>9. Numbered' BY <1>0, <1>2, <1>3, <1>4, <1>5, <1>7 DEF Numbered
  <1>10. EventsInOrder' BY <1>0, <1>2, <1>5 DEF Order, EventsInOrder, NoArtifactAfterCompleted
  <1> QED BY <1>8, <1>9, <1>10 DEF Order

LEMMA ConnectionOrdered ==
  ASSUME Typed, Order, Reconnect \/ Fail \/ Close
  PROVE  Order'
  <1>1. /\ st' # "emit" /\ UNCHANGED <<sig, pc, claim, ended, got, seq, held, late>>
    BY DEF Reconnect, Fail, Close, coord, seen, output
  <1> QED BY <1>1 DEF Order, Settled, Numbered, EventsInOrder, SequenceIncreasing,
                      NoArtifactAfterCompleted, Range

\* A turn that is cleaned up: the stream goes on or is stopped.
LEMMA CleanupOrdered ==
  ASSUME Typed, Order, Cleanup \/ StopStream, UNCHANGED <<got, late>>, claim' \in BOOLEAN,
         "completed" \in Range(ended)' => sig # None /\ pc' = "done"
  PROVE  Order'
  <1>1. /\ pc' \in {"release", "done"} /\ UNCHANGED <<seq, sig>>
        /\ UNCHANGED <<st, held>> \/ (st' = "ended" /\ held' = None)
    BY DEF Cleanup, StopStream, runtime, output
  <1>2. Settled' BY <1>1 DEF Order, Settled
  <1>3. Numbered' BY <1>1 DEF Order, Numbered
  <1> QED BY <1>2, <1>3 DEF Order, EventsInOrder, SequenceIncreasing, NoArtifactAfterCompleted

LEMMA AppendRange ==
  ASSUME NEW s, ended \in Seq({"completed", "failed", "canceled"}), ended' = Append(ended, s)
  PROVE  Range(ended)' = Range(ended) \cup {s}
  <1>1. /\ DOMAIN ended' = DOMAIN ended \cup {Len(ended) + 1} /\ ended'[Len(ended) + 1] = s
        /\ \A i \in DOMAIN ended : ended'[i] = ended[i]
    OBVIOUS
  <1> QED BY <1>1 DEF Range

LEMMA CoordinatorOrdered ==
  ASSUME Typed, Order,
         \/ SendReturns \/ SendFails \/ Signalled \/ Final \/ PutSnapshot
         \/ Complete \/ ErrorArtifact \/ ErrorStatus \/ Released
  PROVE  Order'
  <1>0. /\ CoordTyped /\ SeenTyped /\ OutTyped /\ RunTyped /\ turn \in Turns BY DEF Typed
  <1>1. CASE SendReturns \/ SendFails \/ Signalled \/ ErrorArtifact
    <2>1. /\ UNCHANGED <<sig, st, ended, got, seq, held>> /\ pc' # "snapshot" /\ pc # "done"
          /\ pc \notin {"snapshot", "complete", "final"}
          /\ pc' = "final" => sig = "completed"
          /\ pc' # "complete"
          /\ pc' = "signal" => claim' = FALSE
          /\ pc' = "final" => pc = "signal" /\ claim' = claim
          /\ late' \in {late, late \cup Range(ended)}
      BY <1>1 DEF SendReturns, SendFails, Signalled, ErrorArtifact, runtime, output, seen
    <2>2. "completed" \notin Range(ended) BY <2>1 DEF Order, Settled
    <2>3. Settled' BY <2>1, <2>2 DEF Order, Settled
    <2>4. Numbered' BY <2>1 DEF Order, Numbered
    <2> QED BY <2>1, <2>2, <2>3, <2>4
         DEF Order, EventsInOrder, SequenceIncreasing, NoArtifactAfterCompleted
  <1>2. CASE Final
    <2>1. /\ pc = "final" /\ UNCHANGED <<sig, st, claim, ended, got, held, late>>
          /\ \/ pc' = "complete" /\ seq' = seq
             \/ pc' = "snapshot" /\ seq' = seq + 1
      BY <1>2 DEF Final, runtime, seen
    <2>2. sig = "completed" /\ ~ claim /\ "completed" \notin Range(ended)
      BY <2>1 DEF Order, Settled
    <2>3. held = None BY <1>0, <2>2, TurnFacts DEF Order, Settled, RunTyped, Typed, OutTyped
    <2>4. seq \in Nat /\ \A i \in DOMAIN got : got[i] \in Nat /\ got[i] <= seq
      BY <1>0 DEF OutTyped, SeenTyped, Order, Numbered
    <2>5. Settled' BY <2>1, <2>2 DEF Order, Settled
    <2>6. Numbered' BY <2>1, <2>3, <2>4 DEF Numbered
    <2> QED BY <2>1, <2>5, <2>6
         DEF Order, EventsInOrder, SequenceIncreasing, NoArtifactAfterCompleted
  <1>3. CASE PutSnapshot
    <2>1. /\ pc = "snapshot" /\ pc' = "complete" /\ got' = Append(got, seq)
          /\ late' = late \cup Range(ended) /\ UNCHANGED <<sig, st, claim, ended, seq, held>>
      BY <1>3 DEF PutSnapshot, Put, runtime, output
    <2>2. sig = "completed" /\ ~ claim /\ "completed" \notin Range(ended)
      BY <2>1 DEF Order, Settled
    <2>3. held = None BY <1>0, <2>2, TurnFacts DEF Order, Settled, RunTyped, Typed, OutTyped
    <2>4. seq \in Nat /\ got \in Seq(Nat) /\ \A i \in DOMAIN got : got[i] < seq
      BY <1>0, <2>1 DEF OutTyped, SeenTyped, Order, Numbered
    <2>5. SequenceIncreasing' /\ \A i \in DOMAIN got' : got'[i] <= seq
      BY <2>1, <2>4, NumbersRise DEF Order, EventsInOrder
    <2>6. Settled' BY <2>1, <2>2 DEF Order, Settled
    <2>7. Numbered' BY <2>1, <2>3, <2>5 DEF Numbered
    <2> QED BY <2>1, <2>2, <2>5, <2>6, <2>7 DEF Order, EventsInOrder, NoArtifactAfterCompleted
  <1>4. CASE Complete
    <2>1. /\ pc = "complete" /\ Cleanup /\ UNCHANGED <<claim, got, late>>
      BY <1>4 DEF Complete
    <2>2. sig = "completed" /\ ~ claim BY <2>1 DEF Order, Settled
    <2>3. pc' = "done" BY <2>1, <2>2 DEF Cleanup, StopStream
    <2>4. sig # None BY <2>2, StreamingAssumption
    <2> QED BY <1>0, <2>1, <2>3, <2>4, CleanupOrdered DEF CoordTyped
  <1>5. CASE ErrorStatus
    <2>1. /\ pc = "failing" /\ Cleanup /\ UNCHANGED <<claim, got, late>>
          /\ ended' = Append(ended, "failed")
      BY <1>5 DEF ErrorStatus
    <2>2. "completed" \notin Range(ended) BY <2>1 DEF Order, Settled
    <2>3. "completed" \notin Range(ended)' BY <1>0, <2>1, <2>2, AppendRange DEF SeenTyped
    <2> QED BY <1>0, <2>1, <2>3, CleanupOrdered DEF CoordTyped
  <1>6. CASE Released
    <2>1. /\ pc = "release" /\ StopStream /\ claim' = FALSE /\ UNCHANGED <<ended, got, late>>
      BY <1>6 DEF Released, seen
    <2>2. "completed" \notin Range(ended)' BY <2>1 DEF Order, Settled, Range
    <2> QED BY <2>1, <2>2, CleanupOrdered
  <1> QED BY <1>1, <1>2, <1>3, <1>4, <1>5, <1>6

LEMMA CancelOrdered ==
  ASSUME Typed, Order, Cancel
  PROVE  Order'
  <1>0. CoordTyped /\ SeenTyped BY DEF Typed
  <1>1. CASE CancelStatus
    <2>1. /\ UNCHANGED <<sig, st, pc, claim, got, seq, held, late>>
          /\ ended' = Append(ended, "canceled")
      BY <1>1 DEF CancelStatus, runtime, output, coord
    <2>2. "completed" \in Range(ended)' => "completed" \in Range(ended)
      BY <1>0, <2>1, AppendRange DEF SeenTyped
    <2>3. Settled' BY <2>1, <2>2 DEF Order, Settled
    <2>4. Numbered' BY <2>1 DEF Order, Numbered
    <2> QED BY <2>1, <2>3, <2>4
         DEF Order, EventsInOrder, SequenceIncreasing, NoArtifactAfterCompleted
  <1>2. CASE CancelStop
    BY <1>2, OrderStands DEF CancelStop, runtime, coord, seen
  <1>3. CASE CancelTask
    <2>1. UNCHANGED <<claim, got, ended, late>> BY <1>3 DEF CancelTask, seen
    <2>2. CASE pc = "done" /\ UNCHANGED <<runtime, output, pc>>
      BY <2>1, <2>2, OrderStands DEF runtime, output
    <2>3. CASE pc = "release" /\ pc' = "done" /\ UNCHANGED <<runtime, output>>
      <3>1. UNCHANGED <<sig, st, seq, held>> BY <2>3 DEF runtime, output
      <3>2. Settled' BY <2>1, <2>3, <3>1 DEF Order, Settled, Range
      <3>3. Numbered' BY <2>1, <2>3, <3>1 DEF Order, Numbered
      <3> QED BY <2>1, <3>2, <3>3
           DEF Order, EventsInOrder, SequenceIncreasing, NoArtifactAfterCompleted
    <2>4. CASE pc # "done" /\ Cleanup
      <3>1. "completed" \notin Range(ended)' BY <2>1, <2>4 DEF Order, Settled, Range
      <3> QED BY <1>0, <2>1, <2>4, <3>1, CleanupOrdered DEF CoordTyped
    <2> QED BY <1>3, <2>2, <2>3, <2>4 DEF CancelTask
  <1> QED BY <1>1, <1>2, <1>3 DEF Cancel

LEMMA InitOrdered == Init => Order
  <1> SUFFICES ASSUME Init PROVE Order OBVIOUS
  <1>1. DOMAIN got = {} /\ Range(ended) = {} BY DEF Init, Range
  <1> QED BY <1>1 DEF Init, Order, Settled, Numbered, EventsInOrder, SequenceIncreasing,
       NoArtifactAfterCompleted

LEMMA NextOrdered ==
  ASSUME Typed, Order, [Next]_<<vars, turn>>
  PROVE  Order'
  <1>1. CASE \/ \E p \in Parts : UpstreamRepeats(p) \/ \E t \in Tokens : UpstreamText(p, t)
             \/ \E k \in Kinds : UpstreamSays(k)
             \/ UNCHANGED <<vars, turn>>
    <2>1. UNCHANGED <<runtime, output, coord, seen>>
      BY <1>1 DEF UpstreamRepeats, UpstreamText, UpstreamSays, vars
    <2> QED BY <2>1, OrderStands DEF runtime, output, coord, seen
  <1>2. CASE ~ (\/ \E p \in Parts : UpstreamRepeats(p) \/ \E t \in Tokens : UpstreamText(p, t)
                \/ \E k \in Kinds : UpstreamSays(k)
                \/ UNCHANGED <<vars, turn>>)
    BY <1>2, ReadOrdered, EmitNextOrdered, PutChunkOrdered, ConnectionOrdered,
       CoordinatorOrdered, CancelOrdered DEF Next, Consume, Coordinate
  <1> QED BY <1>1, <1>2

----------------------------------------------------------------------------
(* What the client holds.                                                    *)

Viewed == ViewTrue /\ DeliveryTrue

\* Steps that neither send anything nor change what is to be delivered.
LEMMA ViewStands ==
  ASSUME Viewed, UNCHANGED <<held, client, abuf, emitted>>,
         resp' = resp \/ (pc # "snapshot" /\ pc' \notin {"snapshot", "complete"}),
         sig' = None => sig = None,
         pc = "done" /\ st = "ended" => pc' = "done" /\ st' = "ended",
         pc' = pc \/ (pc # "snapshot" /\ pc' \notin {"snapshot", "complete"}),
         TextDelivered'
  PROVE  Viewed'
  <1>1. \A a : Shown(a)' = Shown(a) BY DEF Shown
  <1>2. ViewTrue' BY <1>1 DEF Viewed, ViewTrue
  <1>3. DeliveryTrue' BY DEF Viewed, DeliveryTrue
  <1> QED BY <1>2, <1>3 DEF Viewed

LEMMA DeliveredStands ==
  ASSUME Viewed, UNCHANGED <<client, resp>>,
         "completed" \in Range(ended)' => "completed" \in Range(ended)
  PROVE  TextDelivered'
  BY DEF Viewed, DeliveryTrue, TextDelivered

LEMMA NotDelivered ==
  ASSUME "completed" \notin Range(ended)'
  PROVE  TextDelivered'
  BY DEF TextDelivered

LEMMA ReadViewed ==
  ASSUME Typed, Order, Viewed, Read
  PROVE  Viewed'
  <1>1. /\ st = "read" /\ UNCHANGED <<held, client, resp, pc, ended>> BY DEF Read, coord, seen
  <1>2. UNCHANGED <<abuf, emitted>>
    BY DEF Read, output, Handle, DeltaEvent, UpdatedEvent, SessionEvent, ProgressEvent
  <1>3. sig' = None => sig = None
    BY StreamingAssumption
       DEF Read, output, Handle, DeltaEvent, UpdatedEvent, SessionEvent, ProgressEvent
  <1>4. TextDelivered' BY <1>1, DeliveredStands DEF Range
  <1> QED BY <1>1, <1>2, <1>3, <1>4, ViewStands

LEMMA EmitNextViewed ==
  ASSUME Typed, Order, Viewed, EmitNext
  PROVE  Viewed'
  <1> DEFINE c == Head(todo)
  <1>0. /\ st = "emit" /\ held = None /\ todo # <<>>
        /\ UNCHANGED <<sig, pc, resp, ended, client>>
    BY DEF EmitNext, coord, seen
  <1>1. sig = None BY <1>0 DEF Order, Settled
  <1>2. pc \notin {"snapshot", "complete"} /\ "completed" \notin Range(ended)
    BY <1>1, StreamingAssumption DEF Order, Settled
  <1>3. \A a \in {"text", "reasoning"} :
          client[a] = abuf[a] /\ (a \notin emitted => abuf[a] = <<>>)
    BY <1>0, <1>1, <1>2 DEF Viewed, ViewTrue, Shown
  <1>4. turn \in Turns /\ OutTyped BY DEF Typed
  <1>5. c \in Piece /\ (c.art # None => c.part \in Parts /\ c.art = Artifact(c.part))
    <2>1. todo \in Seq(Piece) BY DEF Typed, RunTyped
    <2>2. 1 \in DOMAIN todo /\ c = todo[1] BY <1>0, <2>1
    <2> QED BY <2>1, <2>2 DEF Typed, RunTyped
  <1>6. c.text \in Seq(Tokens) BY <1>5 DEF Piece
  <1> HIDE DEF c
  <1>7. ASSUME NEW a \in {"text", "reasoning"}
        PROVE  abuf'[a] = Shown(a)' /\ (a \notin emitted' => abuf'[a] = <<>>)
    <2>0. a \in Artifacts /\ None # a BY <1>4, TurnFacts
    <2>1. CASE c.art = None
      <3>1. held'.art = None /\ UNCHANGED <<abuf, emitted>> BY <2>1 DEF EmitNext, c
      <3>2. Shown(a)' = client[a] BY <1>0, <2>0, <3>1 DEF Shown
      <3> QED BY <1>3, <3>1, <3>2
    <2>2. CASE c.art # None /\ (Echo(c) \/ NextValue(c) = abuf[c.art])
      <3>1. held' = None /\ UNCHANGED <<abuf, emitted>> BY <1>0, <2>2 DEF EmitNext, c
      <3>2. Shown(a)' = client[a] BY <1>0, <3>1 DEF Shown
      <3> QED BY <1>3, <3>1, <3>2
    <2>3. CASE c.art # None /\ ~ (Echo(c) \/ NextValue(c) = abuf[c.art])
      <3>1. /\ abuf' = [abuf EXCEPT ![c.art] = NextValue(c)] /\ emitted' = emitted \cup {c.art}
            /\ held' = [art |-> c.art, text |-> c.text, append |-> c.art \in emitted,
                        seq |-> seq']
        BY <2>3 DEF EmitNext, c
      <3>2. CASE a # c.art
        <4>1. Shown(a)' = client[a] BY <1>0, <3>1, <3>2 DEF Shown
        <4>2. abuf'[a] = abuf[a] BY <1>4, <2>0, <3>1, <3>2 DEF OutTyped
        <4> QED BY <1>3, <3>1, <4>1, <4>2
      <3>3. CASE a = c.art
        <4>1. Block[c.part] # "tool" BY <1>4, <1>5, <2>3, <3>3, TurnFacts
        <4>2. abuf'[a] = abuf[a] \o c.text
          BY <1>4, <2>0, <3>1, <3>3, <4>1 DEF OutTyped, NextValue
        <4>3. held' # None
          <5>1. c.art \in Lanes BY <1>4, <2>0, <3>3, TurnFacts
          <5>2. seq' \in Nat BY <2>3 DEF EmitNext, c, Typed, OutTyped
          <5>3. held' \in Sent BY <1>6, <3>1, <5>1, <5>2 DEF Sent
          <5> QED BY <1>4, <5>3, TurnFacts
        <4>4. Shown(a)' = IF a \in emitted THEN client[a] \o c.text ELSE c.text
          BY <1>0, <3>1, <3>3, <4>3 DEF Shown
        <4>5. <<>> \o c.text = c.text BY <1>6, Associates
        <4> QED BY <1>3, <3>1, <3>3, <4>2, <4>4, <4>5
      <3> QED BY <3>2, <3>3
    <2> QED BY <2>1, <2>2, <2>3
  <1>8. ViewTrue' BY <1>0, <1>2, <1>7 DEF ViewTrue
  <1>9. DeliveryTrue' BY <1>0, <1>2 DEF DeliveryTrue, TextDelivered, Range
  <1> QED BY <1>8, <1>9 DEF Viewed

LEMMA PutChunkViewed ==
  ASSUME Typed, Order, Viewed, PutChunk
  PROVE  Viewed'
  <1>0. /\ st = "emit" /\ held # None /\ held' = None
        /\ UNCHANGED <<sig, pc, resp, ended, abuf, emitted>>
    BY DEF PutChunk, coord, output
  <1>1. sig = None BY <1>0 DEF Order, Settled
  <1>2. pc \notin {"snapshot", "complete"} /\ "completed" \notin Range(ended)
    BY <1>1, StreamingAssumption DEF Order, Settled
  <1>3. \A a \in {"text", "reasoning"} :
          Shown(a) = abuf[a] /\ (a \notin emitted => abuf[a] = <<>>)
    BY <1>0, <1>1, <1>2 DEF Viewed, ViewTrue
  <1>4. turn \in Turns /\ client \in [Artifacts -> Seq(Tokens)] BY DEF Typed, SeenTyped
  <1>5. ASSUME NEW a \in {"text", "reasoning"} PROVE client'[a] = Shown(a)
    <2>0. a \in Artifacts /\ None # a BY <1>4, TurnFacts
    <2>1. CASE held.art = None BY <1>0, <2>0, <2>1 DEF PutChunk, Shown
    <2>2. CASE held.art # None
      BY <1>0, <1>4, <2>0, <2>2 DEF PutChunk, Put, Shown
    <2> QED BY <2>1, <2>2
  <1>6. \A a : Shown(a)' = client'[a] BY <1>0 DEF Shown
  <1>7. ViewTrue' BY <1>0, <1>2, <1>3, <1>5, <1>6 DEF ViewTrue
  <1>8. DeliveryTrue' BY <1>0, <1>2 DEF DeliveryTrue, TextDelivered, Range
  <1> QED BY <1>7, <1>8 DEF Viewed

LEMMA CleanupViewed ==
  ASSUME Typed, Order, Viewed, Cleanup \/ StopStream, UNCHANGED <<client, resp>>, TextDelivered',
         pc # "done"
  PROVE  Viewed'
  <1>1. UNCHANGED <<abuf, emitted, sig>> BY DEF Cleanup, StopStream, output
  <1>2. CASE StopStream
    <2>1. pc' = "done" /\ st' = "ended" BY <1>2 DEF StopStream
    <2> QED BY <1>1, <2>1 DEF Viewed, ViewTrue, DeliveryTrue
  <1>3. CASE claim /\ pc' = "release" /\ UNCHANGED <<runtime, output>>
    <2>1. pc # "snapshot" BY <1>3 DEF Order, Settled
    <2> QED BY <1>1, <1>3, <2>1, ViewStands DEF runtime
  <1> QED BY <1>2, <1>3 DEF Cleanup

LEMMA CoordinatorViewed ==
  ASSUME Typed, Order, Viewed,
         \/ SendReturns \/ SendFails \/ Signalled \/ Final \/ PutSnapshot
         \/ Complete \/ ErrorArtifact \/ ErrorStatus \/ Released
  PROVE  Viewed'
  <1>0. /\ CoordTyped /\ SeenTyped /\ OutTyped /\ RunTyped /\ turn \in Turns BY DEF Typed
  <1>1. CASE SendReturns \/ SendFails \/ Signalled \/ ErrorArtifact
    <2>1. /\ UNCHANGED <<held, client, abuf, emitted, sig, ended>>
          /\ pc \in {"send", "signal", "error"} /\ pc' \notin {"snapshot", "complete"}
      BY <1>1 DEF SendReturns, SendFails, Signalled, ErrorArtifact, runtime, output, seen
    <2>2. "completed" \notin Range(ended)' BY <2>1 DEF Order, Settled, Range
    <2> QED BY <2>1, <2>2, NotDelivered, ViewStands
  <1>2. CASE Final
    <2>1. /\ pc = "final" /\ UNCHANGED <<held, client, emitted, sig, st, ended, resp>>
      BY <1>2 DEF Final, runtime, seen
    <2>2. sig = "completed" /\ "completed" \notin Range(ended)'
      BY <2>1 DEF Order, Settled, Range
    <2>3. sig # None BY <1>0, <2>2, TurnFacts
    <2>4. held = None BY <1>0, <2>3 DEF Order, Settled, RunTyped
    <2>5. \A a : Shown(a) = client[a] /\ Shown(a)' = client[a] BY <2>1, <2>4 DEF Shown
    <2>6. \A a \in {"text", "reasoning"} : abuf[a] = client[a] /\ a \in Artifacts
      BY <1>0, <2>1, <2>5, TurnFacts DEF Viewed, ViewTrue
    <2>7. CASE pc' = "complete" /\ abuf' = abuf /\ (Strip(resp) = <<>> \/ Strip(abuf["text"]) = Strip(resp))
      <3>1. ViewTrue' BY <2>1, <2>3, <2>5, <2>6, <2>7 DEF ViewTrue
      <3>2. DeliveryTrue' BY <2>1, <2>2, <2>6, <2>7, NotDelivered DEF DeliveryTrue
      <3> QED BY <3>1, <3>2 DEF Viewed
    <2>8. CASE pc' = "snapshot" /\ abuf' = [abuf EXCEPT !["text"] = resp]
      <3>1. abuf'["text"] = resp /\ abuf'["reasoning"] = abuf["reasoning"]
        BY <1>0, <2>6, <2>8 DEF OutTyped
      <3>2. ViewTrue' BY <2>1, <2>3, <2>5, <2>6, <2>8, <3>1 DEF ViewTrue
      <3>3. DeliveryTrue' BY <2>2, <2>8, NotDelivered DEF DeliveryTrue
      <3> QED BY <3>2, <3>3 DEF Viewed
    <2> QED BY <1>2, <2>7, <2>8 DEF Final
  <1>3. CASE PutSnapshot
    <2>1. /\ pc = "snapshot" /\ pc' = "complete" /\ client' = [client EXCEPT !["text"] = resp]
          /\ UNCHANGED <<held, abuf, emitted, sig, st, ended, resp>>
      BY <1>3 DEF PutSnapshot, Put, runtime, output
    <2>2. sig = "completed" /\ "completed" \notin Range(ended)'
      BY <2>1 DEF Order, Settled, Range
    <2>3. sig # None BY <1>0, <2>2, TurnFacts
    <2>4. held = None BY <1>0, <2>3 DEF Order, Settled, RunTyped
    <2>5. \A a : Shown(a) = client[a] /\ Shown(a)' = client'[a] BY <2>1, <2>4 DEF Shown
    <2>6. client'["text"] = resp /\ client'["reasoning"] = client["reasoning"]
      BY <1>0, <2>1, TurnFacts DEF SeenTyped
    <2>7. abuf["text"] = resp /\ abuf["reasoning"] = client["reasoning"]
      BY <2>1, <2>5 DEF Viewed, ViewTrue
    <2>8. ViewTrue' BY <2>1, <2>3, <2>5, <2>6, <2>7 DEF ViewTrue
    <2>9. DeliveryTrue' BY <2>1, <2>2, <2>6, NotDelivered DEF DeliveryTrue
    <2> QED BY <2>8, <2>9 DEF Viewed
  <1>4. CASE Complete
    <2>1. pc = "complete" /\ Cleanup /\ UNCHANGED <<client, resp>> BY <1>4 DEF Complete
    <2>2. TextDelivered' BY <2>1 DEF Viewed, DeliveryTrue, TextDelivered
    <2> QED BY <2>1, <2>2, CleanupViewed
  <1>5. CASE ErrorStatus
    <2>1. /\ pc = "failing" /\ Cleanup /\ UNCHANGED <<client, resp>>
          /\ ended' = Append(ended, "failed")
      BY <1>5 DEF ErrorStatus
    <2>2. "completed" \notin Range(ended) BY <2>1 DEF Order, Settled
    <2>3. "completed" \notin Range(ended)' BY <1>0, <2>1, <2>2, AppendRange DEF SeenTyped
    <2> QED BY <2>1, <2>3, NotDelivered, CleanupViewed
  <1>6. CASE Released
    <2>1. pc = "release" /\ StopStream /\ UNCHANGED <<client, resp, ended>>
      BY <1>6 DEF Released, seen
    <2>2. TextDelivered' BY <2>1, DeliveredStands DEF Range
    <2> QED BY <2>1, <2>2, CleanupViewed
  <1> QED BY <1>1, <1>2, <1>3, <1>4, <1>5, <1>6

LEMMA CancelViewed ==
  ASSUME Typed, Order, Viewed, Cancel
  PROVE  Viewed'
  <1>1. CASE CancelStatus
    <2>1. /\ UNCHANGED <<held, client, abuf, emitted, resp, sig, st, pc>>
          /\ ended' = Append(ended, "canceled")
      BY <1>1 DEF CancelStatus, runtime, output, coord
    <2>2. "completed" \in Range(ended)' => "completed" \in Range(ended)
      BY <2>1, AppendRange DEF Typed, SeenTyped
    <2> QED BY <2>1, <2>2, DeliveredStands, ViewStands
  <1>2. CASE CancelStop
    <2>1. UNCHANGED <<held, client, abuf, emitted, resp, sig, st, pc, ended>>
      BY <1>2 DEF CancelStop, runtime, coord, seen
    <2>2. TextDelivered' BY <2>1, DeliveredStands DEF Range
    <2> QED BY <2>1, <2>2, ViewStands
  <1>3. CASE CancelTask
    <2>1. UNCHANGED <<client, resp, ended>> BY <1>3 DEF CancelTask, seen
    <2>2. TextDelivered' BY <2>1, DeliveredStands DEF Range
    <2>3. CASE UNCHANGED <<runtime, output>> /\ (pc' = pc \/ (pc = "release" /\ pc' = "done"))
      <3>1. UNCHANGED <<held, abuf, emitted, sig, st>> BY <2>3 DEF runtime, output
      <3> QED BY <2>1, <2>2, <2>3, <3>1, ViewStands
    <2>4. CASE pc # "done" /\ Cleanup BY <2>1, <2>2, <2>4, CleanupViewed
    <2> QED BY <1>3, <2>3, <2>4 DEF CancelTask
  <1> QED BY <1>1, <1>2, <1>3 DEF Cancel

LEMMA InitViewed == Init => Viewed
  <1> SUFFICES ASSUME Init PROVE Viewed OBVIOUS
  <1>1. Range(ended) = {} /\ {"text", "reasoning"} \subseteq Artifacts
    BY DEF Init, Range, Artifacts
  <1> QED BY <1>1 DEF Init, Viewed, ViewTrue, DeliveryTrue, TextDelivered, Shown

LEMMA NextViewed ==
  ASSUME Typed, Order, Viewed, [Next]_<<vars, turn>>
  PROVE  Viewed'
  <1>1. CASE \/ \E p \in Parts : UpstreamRepeats(p) \/ \E t \in Tokens : UpstreamText(p, t)
             \/ \E k \in Kinds : UpstreamSays(k)
             \/ UNCHANGED <<vars, turn>>
    <2>1. UNCHANGED <<runtime, output, coord, seen>>
      BY <1>1 DEF UpstreamRepeats, UpstreamText, UpstreamSays, vars
    <2>2. TextDelivered' BY <2>1, DeliveredStands DEF coord, seen, Range
    <2> QED BY <2>1, <2>2, ViewStands DEF runtime, output, coord, seen
  <1>2. CASE Reconnect \/ Fail \/ Close
    <2>1. /\ UNCHANGED <<held, client, abuf, emitted, resp, sig, pc, ended>> /\ st # "ended"
      BY <1>2 DEF Reconnect, Fail, Close, coord, seen, output
    <2>2. TextDelivered' BY <2>1, DeliveredStands DEF Range
    <2> QED BY <2>1, <2>2, ViewStands
  <1>3. CASE ~ (\/ \E p \in Parts : UpstreamRepeats(p) \/ \E t \in Tokens : UpstreamText(p, t)
                \/ \E k \in Kinds : UpstreamSays(k)
                \/ UNCHANGED <<vars, turn>>
                \/ Reconnect \/ Fail \/ Close)
    BY <1>3, ReadViewed, EmitNextViewed, PutChunkViewed, CoordinatorViewed, CancelViewed
       DEF Next, Consume, Coordinate
  <1> QED BY <1>1, <1>2, <1>3

----------------------------------------------------------------------------
(* What upstream wrote.                                                      *)

LEMMA PrefixFacts ==
  ASSUME NEW s \in Seq(Tokens), NEW r \in Prefixes(s)
  PROVE  r \in Seq(Tokens) /\ Range(r) \subseteq Range(s)
  <1>1. PICK n \in 0 .. Len(s) : r = SubSeq(s, 1, n) BY DEF Prefixes
  <1>2. /\ r \in Seq(Tokens) /\ Len(r) = n /\ \A i \in 1 .. n : r[i] = s[i]
        /\ DOMAIN r = 1 .. n /\ DOMAIN s = 1 .. Len(s) /\ Len(s) \in Nat
    BY <1>1
  <1>3. 1 .. n \subseteq 1 .. Len(s) BY <1>1, <1>2
  <1> QED BY <1>2, <1>3 DEF Range

LEMMA PrefixesGrow ==
  ASSUME NEW s \in Seq(Tokens), NEW t \in Tokens
  PROVE  /\ Prefixes(s) \subseteq Prefixes(Append(s, t)) /\ s \in Prefixes(s)
         /\ Append(s, t) \in Prefixes(Append(s, t))
         /\ Append(s, t) = s \o <<t>> /\ IsPrefix(s, Append(s, t)) /\ IsPrefix(s, s)
         /\ Range(s) \subseteq Range(Append(s, t))
  <1> DEFINE a == Append(s, t)
  <1>0. a \in Seq(Tokens) /\ Len(a) = Len(s) + 1 /\ Len(s) \in Nat /\ a = s \o <<t>> OBVIOUS
  <1>1. \A n \in 0 .. Len(s) : SubSeq(s, 1, n) = SubSeq(a, 1, n) OBVIOUS
  <1>2. SubSeq(s, 1, Len(s)) = s /\ SubSeq(a, 1, Len(a)) = a BY <1>0
  <1>3. /\ 0 .. Len(s) \subseteq 0 .. Len(a) /\ Len(s) \in 0 .. Len(s) /\ Len(a) \in 0 .. Len(a)
    BY <1>0
  <1> HIDE DEF a
  <1>4. Prefixes(s) \subseteq Prefixes(a) BY <1>1, <1>3 DEF Prefixes
  <1>5. s \in Prefixes(s) /\ a \in Prefixes(a) BY <1>2, <1>3 DEF Prefixes
  <1>6. IsPrefix(s, a) /\ IsPrefix(s, s) BY <1>0, <1>1, <1>3 DEF IsPrefix
  <1>7. Range(s) \subseteq Range(a) BY <1>4, <1>5, <1>0, PrefixFacts
  <1> QED BY <1>0, <1>4, <1>5, <1>6, <1>7 DEF a

\* What a snapshot adds to the text it extends.
LEMMA AddedIs ==
  ASSUME NEW b \in Seq(Tokens), NEW s \in Seq(Tokens), IsPrefix(b, s)
  PROVE  b \o FlattenSeq(Added(b, s)) = s
  <1>1. CASE s = b
    <2>1. Added(b, s) = <<>> BY <1>1 DEF Added
    <2> QED BY <1>1, <2>1, FlattenEmpty, Associates
  <1>2. CASE s # b
    <2> DEFINE r == SubSeq(s, Len(b) + 1, Len(s))
    <2>1. Len(b) <= Len(s) /\ SubSeq(b, 1, Len(b)) = SubSeq(s, 1, Len(b)) BY DEF IsPrefix
    <2>2. r \in Seq(Tokens) BY <2>1
    <2>3. SubSeq(b, 1, Len(b)) = b OBVIOUS
    <2>4. \A i \in 1 .. Len(b) : b[i] = s[i] BY <2>1, <2>3
    <2>5. b \o r = s BY <2>1, <2>4
    <2>6. Added(b, s) = <<r>> BY <1>2 DEF Added
    <2> HIDE DEF r
    <2> QED BY <2>2, <2>5, <2>6, FlattenOne
  <1> QED BY <1>1, <1>2

\* The texts of pieces that go to the text lane.
Texts(s) == [i \in DOMAIN s |-> TextOf(s[i])]

LEMMA UnsentIs == Unsent = FlattenSeq(Texts(todo))
  BY DEF Unsent, Texts

LEMMA TextsTyped ==
  ASSUME NEW s \in Seq(Piece)
  PROVE  /\ Texts(s) \in Seq(Seq(Tokens)) /\ Len(Texts(s)) = Len(s)
         /\ \A i \in DOMAIN s : Texts(s)[i] = TextOf(s[i])
  <1>1. \A c \in Piece : TextOf(c) \in Seq(Tokens)
    <2>1. <<>> \in Seq(Tokens) OBVIOUS
    <2> QED BY <2>1 DEF Piece, TextOf
  <1>2. DOMAIN s = 1 .. Len(s) /\ Len(s) \in Nat /\ \A i \in DOMAIN s : s[i] \in Piece OBVIOUS
  <1>3. Texts(s) = [i \in 1 .. Len(s) |-> TextOf(s[i])] BY <1>2 DEF Texts
  <1> QED BY <1>1, <1>2, <1>3

\* Pieces that do not go there add nothing to it.
LEMMA SilentTexts ==
  ASSUME NEW s \in Seq(Piece), \A i \in DOMAIN s : s[i].art # "text"
  PROVE  FlattenSeq(Texts(s)) = <<>>
  <1>1. Texts(s) \in Seq(Seq({}))
    <2>1. <<>> \in Seq({}) OBVIOUS
    <2>2. \A i \in DOMAIN s : TextOf(s[i]) = <<>> BY DEF TextOf
    <2>3. DOMAIN s = 1 .. Len(s) /\ Len(s) \in Nat OBVIOUS
    <2>4. Texts(s) = [i \in 1 .. Len(s) |-> <<>>] BY <2>2, <2>3 DEF Texts
    <2> QED BY <2>1, <2>3, <2>4
  <1>2. FlattenSeq(Texts(s)) \in Seq({}) BY <1>1, FlattenType
  <1> QED BY <1>2

LEMMA FirstText ==
  ASSUME NEW s \in Seq(Piece), s # <<>>
  PROVE  FlattenSeq(Texts(s)) = TextOf(Head(s)) \o FlattenSeq(Texts(Tail(s)))
  <1> DEFINE x == TextOf(Head(s))
             t == Texts(Tail(s))
  <1>1. Tail(s) \in Seq(Piece) /\ Head(s) = s[1] /\ 1 \in DOMAIN s OBVIOUS
  <1>2. /\ Len(Tail(s)) = Len(s) - 1 /\ Len(s) \in Nat /\ Len(s) # 0
        /\ \A i \in 1 .. Len(s) - 1 : Tail(s)[i] = s[i + 1]
        /\ DOMAIN s = 1 .. Len(s) /\ DOMAIN Tail(s) = 1 .. Len(s) - 1
    OBVIOUS
  <1>3. /\ t \in Seq(Seq(Tokens)) /\ Len(t) = Len(s) - 1
        /\ \A i \in 1 .. Len(s) - 1 : t[i] = TextOf(s[i + 1])
    BY <1>1, <1>2, TextsTyped
  <1>4. /\ Texts(s) \in Seq(Seq(Tokens)) /\ Len(Texts(s)) = Len(s)
        /\ \A i \in 1 .. Len(s) : Texts(s)[i] = TextOf(s[i])
    BY <1>2, TextsTyped
  <1>5. x \in Seq(Tokens) /\ Texts(s)[1] = x BY <1>1, <1>2, <1>4
  <1>6. \A i \in 2 .. Len(s) : Texts(s)[i] = t[i - 1]
    <2> SUFFICES ASSUME NEW i \in 2 .. Len(s) PROVE Texts(s)[i] = t[i - 1] OBVIOUS
    <2>1. i - 1 \in 1 .. Len(s) - 1 /\ i \in 1 .. Len(s) /\ (i - 1) + 1 = i BY <1>2
    <2> QED BY <1>3, <1>4, <2>1
  <1> HIDE DEF x, t
  <1>7. <<x>> \in Seq(Seq(Tokens)) BY <1>5
  <1>8. Texts(s) = <<x>> \o t
    <2> DEFINE u == <<x>> \o t
    <2>1. Len(<<x>>) = 1 /\ <<x>>[1] = x OBVIOUS
    <2>2. u \in Seq(Seq(Tokens)) BY <1>3, <1>7
    <2>3. Len(u) = 1 + Len(t) BY <1>3, <1>7, <2>1
    <2>4. u[1] = x BY <1>3, <1>7, <2>1
    <2>5. \A i \in 2 .. Len(t) + 1 : u[i] = t[i - 1] BY <1>3, <1>7, <2>1
    <2>6. 1 + Len(t) = Len(s) /\ Len(t) + 1 = Len(s) BY <1>2, <1>3
    <2> HIDE DEF u
    <2>7. \A i \in 1 .. Len(s) : Texts(s)[i] = u[i]
      <3> SUFFICES ASSUME NEW i \in 1 .. Len(s) PROVE Texts(s)[i] = u[i] OBVIOUS
      <3>1. CASE i = 1 BY <1>5, <2>4, <3>1
      <3>2. CASE i # 1
        <4>1. i \in 2 .. Len(s) BY <1>2, <3>2
        <4> QED BY <1>6, <2>5, <2>6, <4>1
      <3> QED BY <3>1, <3>2
    <2>8. Texts(s) = [i \in 1 .. Len(s) |-> Texts(s)[i]] BY <1>2 DEF Texts
    <2>9. u = [i \in 1 .. Len(s) |-> u[i]]
      <3>1. Len(u) = Len(s) BY <2>3, <2>6
      <3> QED BY <2>2, <3>1
    <2>10. [i \in 1 .. Len(s) |-> Texts(s)[i]] = [i \in 1 .. Len(s) |-> u[i]] BY <2>7
    <2>11. Texts(s) = u BY <2>8, <2>9, <2>10
    <2> QED BY <2>11 DEF u
  <1>9. FlattenSeq(<<x>> \o t) = FlattenSeq(<<x>>) \o FlattenSeq(t) BY <1>3, <1>7, FlattenConcat
  <1> QED BY <1>5, <1>8, <1>9, FlattenOne DEF x, t

\* Nothing but the speech of upstream and the consumption of its events touches
\* the texts of a steady turn.
LEMMA FaithStands ==
  ASSUME FaithTrue, turn' = turn, UNCHANGED <<truth, wire, buffer, pend, todo, abuf>>,
         lost' = "none" => lost = "none", st' # "ended" => st # "ended",
         pc' = "send" => pc = "send"
  PROVE  FaithTrue'
  <1> SUFFICES ASSUME NEW p \in Parts, Steady(p)' PROVE Faithful(p)'
    BY TurnFixed DEF FaithTrue
  <1>1. Steady(p) BY TurnFixed DEF Steady
  <1>2. Faithful(p) BY <1>1 DEF FaithTrue
  <1>3. Consumed(p)' = Consumed(p) /\ Known(p)' = Known(p) BY DEF Consumed, Known
  <1>4. Unsent' = Unsent BY DEF Unsent
  <1>5. \A F : Chain(p, F)' <=> Chain(p, F) BY <1>3 DEF Chain, Carries
  <1> QED BY <1>2, <1>3, <1>4, <1>5 DEF Faithful

\* Who speaks on a live wire says how the text of a steady part grew.
LEMMA SpeechCarries ==
  ASSUME Typed, turn' = turn, NEW p \in Parts, Steady(p)',
         \/ \E q \in Parts : UpstreamRepeats(q) \/ \E t \in Tokens : UpstreamText(q, t)
         \/ \E k \in Kinds : UpstreamSays(k)
  PROVE  /\ Steady(p) /\ UNCHANGED <<runtime, output, coord>>
         /\ \E e \in Event : wire' = Append(wire, e) /\ Carries(e, p, truth[p], truth'[p])
         /\ Prefixes(truth[p]) \subseteq Prefixes(truth'[p]) /\ truth'[p] \in Prefixes(truth'[p])
  <1>1. UNCHANGED <<runtime, output, coord>> BY DEF UpstreamRepeats, UpstreamText, UpstreamSays
  <1>2. /\ st \in {"connect", "read", "emit", "backoff"} /\ lost' = "none"
        /\ Block[p] = "text" /\ ~ turn.rewrites
    BY <1>1, TurnFixed DEF Steady, Typed, RunTyped, runtime
  <1>3. /\ truth \in [Parts -> Seq(Tokens)] /\ truth[p] \in Seq(Tokens)
        /\ truth[p] \in Prefixes(truth[p]) /\ IsPrefix(truth[p], truth[p])
        /\ \E t : t \in Tokens
    BY PrefixesGrow, StreamingAssumption DEF Typed, UpTyped
  <1>4. ASSUME NEW e \in Event, Say(e) PROVE wire' = Append(wire, e) /\ lost = "none"
    <2>1. CASE st \in {"read", "emit"} BY <1>2, <1>4, <2>1 DEF Say
    <2>2. CASE st \in {"connect", "backoff"}
      <3>1. lost' = Missed({e}) BY <1>4, <2>2 DEF Say
      <3>2. Missed({e}) # "none" BY DEF Missed
      <3> QED BY <1>2, <3>1, <3>2
    <2> QED BY <1>2, <2>1, <2>2
  <1> DEFINE Grown == /\ \E e \in Event : Say(e) /\ Carries(e, p, truth[p], truth'[p])
                      /\ Prefixes(truth[p]) \subseteq Prefixes(truth'[p])
                      /\ truth'[p] \in Prefixes(truth'[p])
                      /\ Range(truth[p]) \subseteq Range(truth'[p])
  <1>5. ASSUME NEW q \in Parts, NEW t \in Tokens, UpstreamText(q, t) PROVE Grown
    <2>0. Grow(q, t) BY <1>5 DEF UpstreamText
    <2>1. /\ truth' \in [Parts -> Seq(Tokens)] /\ truth'[q] = Append(truth[q], t)
          /\ \A r \in Parts \ {q} : truth'[r] = truth[r]
          /\ <<t>> \in Seq(Tokens)
      BY <2>0, UpstreamWrites
    <2>2. \E e \in Event : /\ Say(e) /\ e.part = q /\ e.kind \in {"delta", "inline", "updated"}
                           /\ e.text = IF e.kind = "updated" THEN truth'[q] ELSE <<t>>
      <3>1. \A k \in {"delta", "inline", "updated"}, x \in Seq(Tokens) :
              [kind |-> k, part |-> q, text |-> x] \in Event
        BY DEF Event
      <3>2. CASE Say([kind |-> "delta", part |-> q, text |-> <<t>>]) BY <2>1, <3>1, <3>2
      <3>3. CASE Say([kind |-> "inline", part |-> q, text |-> <<t>>]) BY <2>1, <3>1, <3>3
      <3>4. CASE Say([kind |-> "updated", part |-> q, text |-> truth'[q]])
        <4>1. truth'[q] \in Seq(Tokens) BY <2>1
        <4> QED BY <3>1, <3>4, <4>1
      <3> QED BY <1>5, <3>2, <3>3, <3>4 DEF UpstreamText
    <2>3. CASE p = q
      <3>1. /\ Prefixes(truth[p]) \subseteq Prefixes(truth'[p])
            /\ truth'[p] \in Prefixes(truth'[p]) /\ truth'[p] = truth[p] \o <<t>>
            /\ IsPrefix(truth[p], truth'[p]) /\ Range(truth[p]) \subseteq Range(truth'[p])
        <4> DEFINE s == truth[p]
                   a == truth'[p]
        <4>1. s \in Seq(Tokens) /\ a = Append(s, t) BY <1>3, <2>1, <2>3
        <4> HIDE DEF s, a
        <4>2. /\ Prefixes(s) \subseteq Prefixes(a) /\ a \in Prefixes(a) /\ a = s \o <<t>>
              /\ IsPrefix(s, a) /\ Range(s) \subseteq Range(a)
          BY <4>1, PrefixesGrow
        <4> QED BY <4>2 DEF s, a
      <3>2. PICK e \in Event :
              /\ Say(e) /\ e.part = p /\ e.kind \in {"delta", "inline", "updated"}
              /\ e.text = IF e.kind = "updated" THEN truth'[p] ELSE <<t>>
        BY <2>2, <2>3
      <3>3. Carries(e, p, truth[p], truth'[p]) BY <3>1, <3>2 DEF Carries
      <3> QED BY <3>1, <3>2, <3>3
    <2>4. CASE p # q BY <1>3, <2>1, <2>2, <2>4 DEF Carries
    <2> QED BY <2>3, <2>4
  <1>6. ASSUME NEW q \in Parts, UpstreamRepeats(q) PROVE Grown
    <2>1. truth' = truth BY <1>2, <1>6 DEF UpstreamRepeats
    <2>2. Say([kind |-> "updated", part |-> q, text |-> truth[q]])
      BY <1>6, <2>1 DEF UpstreamRepeats
    <2>3. [kind |-> "updated", part |-> q, text |-> truth[q]] \in Event BY <1>3 DEF Event
    <2> QED BY <1>3, <2>1, <2>2, <2>3 DEF Carries
  <1>7. ASSUME NEW k \in Kinds, UpstreamSays(k) PROVE Grown
    <2>1. truth' = truth /\ Say([kind |-> k]) BY <1>7 DEF UpstreamSays
    <2>2. [kind |-> k] \in Event /\ k \notin {"delta", "inline", "updated"} BY DEF Event, Kinds
    <2> QED BY <1>3, <2>1, <2>2 DEF Carries
  <1>8. Grown BY <1>5, <1>6, <1>7
  <1>9. Steady(p)
    BY <1>1, <1>4, <1>8, TurnFixed DEF Steady, runtime, coord
  <1> QED BY <1>1, <1>4, <1>8, <1>9

LEMMA SpeechFaithful ==
  ASSUME Typed, FaithTrue, turn' = turn,
         \/ \E p \in Parts : UpstreamRepeats(p) \/ \E t \in Tokens : UpstreamText(p, t)
         \/ \E k \in Kinds : UpstreamSays(k)
  PROVE  FaithTrue'
  <1> SUFFICES ASSUME NEW p \in Parts, Steady(p)' PROVE Faithful(p)'
    BY TurnFixed DEF FaithTrue
  <1>1. /\ Faithful(p) /\ UNCHANGED <<buffer, pend, todo, abuf>>
        /\ Prefixes(truth[p]) \subseteq Prefixes(truth'[p]) /\ truth'[p] \in Prefixes(truth'[p])
    BY SpeechCarries DEF FaithTrue, runtime, output
  <1>2. PICK e \in Event : wire' = Append(wire, e) /\ Carries(e, p, truth[p], truth'[p])
    BY SpeechCarries
  <1>3. PICK F \in [0 .. Len(wire) -> Prefixes(truth[p])] : Chain(p, F) BY <1>1 DEF Faithful
  <1> DEFINE n == Len(wire)
             next(i) == IF i <= n THEN F[i] ELSE truth'[p]
  <1> PICK G : G = [i \in 0 .. n + 1 |-> next(i)] OBVIOUS
  <1>4. /\ n \in Nat /\ Len(wire') = n + 1 /\ wire'[n + 1] = e
        /\ \A i \in 1 .. n : wire'[i] = wire[i]
    BY <1>2 DEF Typed, UpTyped
  <1>5. G \in [0 .. Len(wire') -> Prefixes(truth'[p])] BY <1>1, <1>3, <1>4
  <1>6. Consumed(p)' = Consumed(p) /\ Known(p)' = Known(p) /\ Unsent' = Unsent
    BY <1>1 DEF Consumed, Known, Unsent
  <1>7. G[0] = F[0] /\ G[n + 1] = truth'[p] /\ \A i \in 0 .. n : G[i] = F[i] BY <1>4
  <1>8. F[n] = truth[p] /\ F[0] = Consumed(p) BY <1>3 DEF Chain
  <1>9. ASSUME NEW i \in 1 .. Len(wire') PROVE Carries(wire'[i], p, G[i - 1], G[i])
    <2>1. CASE i = n + 1
      <3>1. (n + 1) - 1 = n /\ G[n] = truth[p] BY <1>4, <1>7, <1>8
      <3> QED BY <1>2, <1>4, <1>7, <2>1, <3>1
    <2>2. CASE i # n + 1
      <3>1. i \in 1 .. n /\ i - 1 \in 0 .. n /\ i \in 0 .. n BY <1>4, <2>2
      <3>2. Carries(wire[i], p, F[i - 1], F[i]) BY <1>3, <3>1 DEF Chain
      <3> QED BY <1>4, <1>7, <3>1, <3>2
    <2> QED BY <2>1, <2>2
  <1>10. G[Len(wire')] = truth'[p] /\ G[0] = Consumed(p)' BY <1>4, <1>6, <1>7, <1>8
  <1>11. Chain(p, G)' BY <1>9, <1>10 DEF Chain, Carries
  <1> QED BY <1>1, <1>5, <1>6, <1>11 DEF Faithful

\* Consuming an event brings the text of p to after, and emits what it adds.
Taken(p, after) ==
  /\ Consumed(p)' = after /\ (buffer'[p] # None => pend'[p] = <<>>)
  /\ abuf'["text"] \o Unsent' = Known(p)'

LEMMA NothingUnsent ==
  ASSUME Typed, NEW p \in Parts, Faithful(p), st = "read"
  PROVE  todo = <<>> /\ abuf["text"] = Known(p) /\ abuf["text"] \in Seq(Tokens)
  <1>1. todo = <<>> BY DEF Typed, RunTyped
  <1>2. Unsent = <<>>
    <2>1. <<>> \in Seq(Piece) /\ DOMAIN <<>> = {} OBVIOUS
    <2> QED BY <1>1, <2>1, UnsentIs, SilentTexts
  <1>3. abuf["text"] \in Seq(Tokens) BY TurnFacts DEF Typed, OutTyped
  <1>4. abuf["text"] \o <<>> = abuf["text"] BY <1>3, Associates
  <1> QED BY <1>1, <1>2, <1>3, <1>4 DEF Faithful

LEMMA TakesNothing ==
  ASSUME Typed, NEW p \in Parts, Faithful(p), st = "read", abuf' = abuf,
         buffer'[p] = buffer[p], pend'[p] = pend[p],
         todo' \in Seq(Piece), \A i \in DOMAIN todo' : todo'[i].art # "text"
  PROVE  Taken(p, Consumed(p))
  <1>1. Unsent' = <<>>
    <2>1. Unsent' = FlattenSeq(Texts(todo')) BY DEF Unsent, Texts, TextOf
    <2> QED BY <2>1, SilentTexts
  <1>2. abuf["text"] = Known(p) /\ abuf["text"] \in Seq(Tokens) BY NothingUnsent
  <1>3. abuf["text"] \o <<>> = abuf["text"] BY <1>2, Associates
  <1>4. Known(p)' = Known(p) /\ Consumed(p)' = Consumed(p) BY DEF Known, Consumed
  <1> QED BY <1>1, <1>2, <1>3, <1>4 DEF Taken, Faithful

LEMMA ChunkTexts ==
  ASSUME turn \in Turns, NEW p \in Parts, Block[p] = "text", NEW texts \in Seq(Seq(Tokens))
  PROVE  Texts(Chunks(p, texts)) = texts
  <1> DEFINE cs == Chunks(p, texts)
  <1>1. /\ cs \in Seq(Piece) /\ DOMAIN cs = DOMAIN texts
        /\ \A i \in DOMAIN texts : cs[i].art = "text" /\ cs[i].text = texts[i]
    BY TurnFacts, ChunksTyped
  <1>2. \A i \in DOMAIN texts : TextOf(cs[i]) = texts[i] BY <1>1 DEF TextOf
  <1>3. DOMAIN texts = 1 .. Len(texts) OBVIOUS
  <1> HIDE DEF cs
  <1>4. Texts(cs) = [i \in 1 .. Len(texts) |-> texts[i]] BY <1>1, <1>2, <1>3 DEF Texts
  <1>5. texts = [i \in 1 .. Len(texts) |-> texts[i]] OBVIOUS
  <1> QED BY <1>4, <1>5 DEF cs

LEMMA TakesText ==
  ASSUME Typed, NEW p \in Parts, Faithful(p), st = "read", abuf' = abuf, Block[p] = "text",
         NEW texts \in Seq(Seq(Tokens)), Emit(Chunks(p, texts)),
         NEW after \in Seq(Tokens), after = Known(p) \o FlattenSeq(texts),
         buffer'[p] = after, pend'[p] = <<>>
  PROVE  Taken(p, after)
  <1>1. Unsent' = FlattenSeq(texts)
    <2>1. todo' = Chunks(p, texts) BY DEF Emit
    <2>2. Unsent' = FlattenSeq(Texts(todo')) BY DEF Unsent, Texts, TextOf
    <2> QED BY <2>1, <2>2, ChunkTexts DEF Typed
  <1>2. abuf["text"] = Known(p) BY NothingUnsent
  <1>3. None \notin Seq(Tokens) BY TurnFacts DEF Typed
  <1>4. Known(p)' = after BY <1>3 DEF Known
  <1>5. Consumed(p)' = after \o <<>> BY <1>4, FlattenEmpty DEF Consumed
  <1>6. after \o <<>> = after BY Associates
  <1> QED BY <1>1, <1>2, <1>4, <1>5, <1>6 DEF Taken

LEMMA DeltaTakes ==
  ASSUME Typed, todo' \in Seq(Piece), NEW p \in Parts, Steady(p), Faithful(p), st = "read",
         NEW e \in Event, e.kind = "delta", DeltaEvent(e),
         NEW after \in Seq(Tokens), Carries(e, p, Consumed(p), after)
  PROVE  Taken(p, after)
  <1> DEFINE q == e.part
  <1>0. /\ q \in Parts /\ e.text \in Seq(Tokens) /\ turn \in Turns /\ abuf' = abuf
        /\ buffer \in [Parts -> Seq(Tokens) \cup {None}] /\ pend \in [Parts -> Seq(Seq(Tokens))]
    BY EventFacts DEF DeltaEvent, Typed, RunTyped
  <1>00. Block[p] = "text" /\ Streamed(p) BY DEF Steady, Streamed
  <1>1. CASE q # p
    <2>1. after = Consumed(p) BY <1>1 DEF Carries
    <2>2. buffer'[p] = buffer[p] /\ pend'[p] = pend[p] BY <1>0, <1>1 DEF DeltaEvent
    <2>3. todo' = <<>> \/ todo' = <<Chunk(q, e.text)>> BY DEF DeltaEvent, Emit
    <2>4. Artifact(q) # "text" BY <1>0, <1>1, TurnFacts DEF Steady
    <2>5. Chunk(q, e.text).art # "text" BY <2>4 DEF Chunk
    <2>6. \A i \in DOMAIN todo' : todo'[i].art # "text" BY <2>3, <2>5
    <2> QED BY <1>0, <2>1, <2>2, <2>6, TakesNothing
  <1>2. CASE q = p /\ buffer[p] = None
    <2>1. /\ pend' = [pend EXCEPT ![p] = Append(pend[p], e.text)] /\ buffer' = buffer
          /\ todo' = <<>>
      BY <1>0, <1>2 DEF DeltaEvent, Emit
    <2>2. pend'[p] = Append(pend[p], e.text) BY <1>0, <2>1
    <2>3. /\ FlattenSeq(pend'[p]) = FlattenSeq(pend[p]) \o e.text
          /\ FlattenSeq(pend[p]) \in Seq(Tokens)
      BY <1>0, <2>2, FlattenAppend, ConsumedTyped
    <2>4. Known(p) = <<>> /\ Known(p)' = <<>> BY <1>2, <2>1 DEF Known
    <2>5. after = Consumed(p) \o e.text BY <1>2 DEF Carries
    <2>6. /\ <<>> \o FlattenSeq(pend[p]) = FlattenSeq(pend[p])
          /\ <<>> \o (FlattenSeq(pend[p]) \o e.text) = FlattenSeq(pend[p]) \o e.text
      BY <1>0, <2>3, Associates
    <2>7. Consumed(p)' = after BY <2>3, <2>4, <2>5, <2>6 DEF Consumed
    <2>8. Unsent' = <<>>
      <3>1. <<>> \in Seq(Piece) /\ DOMAIN <<>> = {} OBVIOUS
      <3>2. Unsent' = FlattenSeq(Texts(todo')) BY DEF Unsent, Texts, TextOf
      <3> QED BY <2>1, <3>1, <3>2, SilentTexts
    <2>9. abuf'["text"] \o <<>> = Known(p)' BY <1>0, <2>4, NothingUnsent, Associates
    <2> QED BY <1>2, <2>1, <2>7, <2>8, <2>9 DEF Taken
  <1>3. CASE q = p /\ buffer[p] # None
    <2>1. /\ buffer' = [buffer EXCEPT ![p] = buffer[p] \o e.text] /\ pend' = pend
          /\ Emit(<<Chunk(p, e.text)>>)
      BY <1>0, <1>00, <1>3 DEF DeltaEvent
    <2>2. Known(p) = buffer[p] /\ pend[p] = <<>> BY <1>3 DEF Known, Faithful
    <2>3. Known(p) \in Seq(Tokens) BY ConsumedTyped
    <2>4. Consumed(p) = Known(p) BY <2>2, <2>3, FlattenEmpty, Associates DEF Consumed
    <2>5. after = Known(p) \o e.text BY <1>3, <2>4 DEF Carries
    <2> DEFINE ts == <<e.text>>
    <2>6. ts \in Seq(Seq(Tokens)) /\ Emit(Chunks(p, ts))
      <3>1. \A x \in Seq(Tokens) : <<x>> \in Seq(Seq(Tokens)) OBVIOUS
      <3>2. ts \in Seq(Seq(Tokens)) BY <1>0, <3>1
      <3>3. Chunks(p, ts) = <<Chunk(p, e.text)>> BY OneChunk
      <3> QED BY <2>1, <3>2, <3>3
    <2>7. FlattenSeq(ts) = e.text BY <1>0, FlattenOne
    <2>8. buffer'[p] = after /\ pend'[p] = <<>> BY <1>0, <2>1, <2>2, <2>5
    <2> HIDE DEF ts
    <2> QED BY <1>0, <1>00, <2>5, <2>6, <2>7, <2>8, TakesText
  <1> QED BY <1>1, <1>2, <1>3

LEMMA UpdateTakes ==
  ASSUME Typed, todo' \in Seq(Piece), NEW p \in Parts, Steady(p), Faithful(p), st = "read",
         NEW e \in Event, e.kind \in {"inline", "updated"}, UpdatedEvent(e),
         NEW after \in Seq(Tokens), Carries(e, p, Consumed(p), after), Blank \notin Range(after)
  PROVE  Taken(p, after)
  <1> DEFINE q == e.part
             texts == pend[q] \o TailTexts(e)
  <1>0. /\ q \in Parts /\ e.text \in Seq(Tokens) /\ turn \in Turns /\ abuf' = abuf
        /\ buffer \in [Parts -> Seq(Tokens) \cup {None}] /\ pend \in [Parts -> Seq(Seq(Tokens))]
        /\ pend' = [pend EXCEPT ![q] = <<>>]
        /\ TailTexts(e) \in Seq(Seq(Tokens)) /\ pend[q] \in Seq(Seq(Tokens))
    BY EventFacts, UpdatedIs, UpdateTyped DEF Typed, RunTyped
  <1>00. Block[p] = "text" /\ Streamed(p) BY DEF Steady, Streamed
  <1>000. texts \in Seq(Seq(Tokens)) BY <1>0
  <1>1. CASE q # p
    <2>1. after = Consumed(p) BY <1>1 DEF Carries
    <2>2. buffer'[p] = buffer[p] /\ pend'[p] = pend[p]
      <3> HIDE DEF texts
      <3>1. pend'[p] = pend[p] BY <1>0, <1>1
      <3>2. buffer' = buffer \/ \E v : buffer' = [buffer EXCEPT ![q] = v] BY UpdatedIs
      <3>3. buffer'[p] = buffer[p] BY <1>0, <1>1, <3>2
      <3> QED BY <3>1, <3>3
    <2>3. todo' = <<>> \/ todo' = Chunks(q, texts) BY UpdatedIs DEF Emit
    <2>4. Artifact(q) # "text" BY <1>0, <1>1, TurnFacts DEF Steady
    <2> HIDE DEF texts, q
    <2>5. \A i \in DOMAIN Chunks(q, texts) : Chunks(q, texts)[i].art # "text"
      BY <1>0, <1>000, <2>4, ChunksTyped
    <2>6. \A i \in DOMAIN todo' : todo'[i].art # "text" BY <2>3, <2>5
    <2> QED BY <1>0, <2>1, <2>2, <2>6, TakesNothing
  <1>2. CASE q = p
    <2>1. Emit(Chunks(p, texts)) /\ buffer' = [buffer EXCEPT ![p] = NewText(e)]
      BY <1>2, <1>00, UpdatedIs
    <2>2. buffer'[p] = NewText(e) /\ pend'[p] = <<>> BY <1>0, <1>2, <2>1
    <2>3. Known(p) \in Seq(Tokens) /\ Consumed(p) \in Seq(Tokens) /\ FlattenSeq(pend[p]) \in Seq(Tokens)
      BY ConsumedTyped
    <2>4. NewText(e) = after /\ Consumed(p) \o FlattenSeq(TailTexts(e)) = after
      <3>1. CASE e.kind = "inline"
        <4>1. after = Consumed(p) \o e.text BY <1>2, <3>1 DEF Carries
        <4>2. FlattenSeq(TailTexts(e)) = e.text BY <1>0, <3>1, FlattenOne DEF TailTexts
        <4> QED BY <1>2, <3>1, <4>1, <4>2 DEF NewText
      <3>2. CASE e.kind = "updated"
        <4>1. e.text = after /\ IsPrefix(Consumed(p), after) BY <1>2, <3>2 DEF Carries
        <4>2. Strip(e.text) = after BY <4>1, StripFacts
        <4>3. CASE after = <<>>
          <5>1. Len(Consumed(p)) <= Len(after) BY <4>1 DEF IsPrefix
          <5>2. Consumed(p) = <<>> BY <2>3, <4>3, <5>1
          <5>3. NewText(e) = <<>> /\ TailTexts(e) = <<>>
            BY <1>2, <1>00, <3>2, <4>2, <4>3, <5>2 DEF NewText, TailTexts
          <5> QED BY <4>3, <5>2, <5>3, FlattenEmpty
        <4>4. CASE after # <<>>
          <5>1. NewText(e) = after /\ TailTexts(e) = Added(Consumed(p), after)
            BY <1>2, <1>00, <3>2, <4>2, <4>4 DEF NewText, TailTexts
          <5> QED BY <2>3, <4>1, <5>1, AddedIs
        <4> QED BY <4>3, <4>4
      <3> QED BY <3>1, <3>2
    <2>5. after = Known(p) \o FlattenSeq(texts)
      <3>1. FlattenSeq(texts) = FlattenSeq(pend[p]) \o FlattenSeq(TailTexts(e))
        <4>1. pend[p] \in Seq(Seq(Tokens)) BY <1>0, <1>2
        <4>2. texts = pend[p] \o TailTexts(e) BY <1>2
        <4> HIDE DEF texts
        <4>3. TailTexts(e) \in Seq(Seq(Tokens)) BY <1>0
        <4> QED BY <4>1, <4>2, <4>3, FlattenConcat
      <3>2. FlattenSeq(TailTexts(e)) \in Seq(Tokens) BY <1>0, FlattenType
      <3>4. Consumed(p) = Known(p) \o FlattenSeq(pend[p]) BY DEF Consumed
      <3> HIDE DEF texts
      <3>5. (Known(p) \o FlattenSeq(pend[p])) \o FlattenSeq(TailTexts(e))
              = Known(p) \o (FlattenSeq(pend[p]) \o FlattenSeq(TailTexts(e)))
        <4> DEFINE x == Known(p)
                   y == FlattenSeq(pend[p])
                   z == FlattenSeq(TailTexts(e))
        <4>1. x \in Seq(Tokens) /\ y \in Seq(Tokens) /\ z \in Seq(Tokens) BY <2>3, <3>2
        <4> HIDE DEF x, y, z
        <4>2. (x \o y) \o z = x \o (y \o z) BY <4>1, SMTT(60)
        <4> QED BY <4>2 DEF x, y, z
      <3> QED BY <2>4, <3>1, <3>4, <3>5
    <2> HIDE DEF texts
    <2> QED BY <1>0, <1>00, <1>000, <2>1, <2>2, <2>4, <2>5, TakesText
  <1> QED BY <1>1, <1>2

LEMMA HandleTakes ==
  ASSUME Typed, todo' \in Seq(Piece), NEW p \in Parts, Steady(p), Faithful(p), st = "read",
         NEW e \in Event, Handle(e),
         NEW after \in Seq(Tokens), Carries(e, p, Consumed(p), after), Blank \notin Range(after)
  PROVE  Taken(p, after)
  <1>1. CASE e.kind = "delta" BY <1>1, DeltaTakes DEF Handle
  <1>2. CASE e.kind \in {"inline", "updated"} BY <1>2, UpdateTakes DEF Handle
  <1>3. CASE e.kind \in Kinds
    <2>1. after = Consumed(p) BY <1>3 DEF Carries, Kinds
    <2>2. UNCHANGED <<buffer, pend, abuf>>
      BY <1>3 DEF Handle, Kinds, SessionEvent, ProgressEvent
    <2>3. todo' = <<>> \/ todo' = <<[art |-> None, part |-> None, text |-> <<>>]>>
      BY <1>3 DEF Handle, Kinds, SessionEvent, ProgressEvent, Emit
    <2>4. None # "text" BY TurnFacts DEF Typed
    <2>5. \A i \in DOMAIN todo' : todo'[i].art # "text" BY <2>3, <2>4
    <2> QED BY <2>1, <2>2, <2>5, TakesNothing
  <1> QED BY <1>1, <1>2, <1>3, EventFacts

LEMMA ReadFaithful ==
  ASSUME Typed, FaithTrue, turn' = turn, Read
  PROVE  FaithTrue'
  <1> SUFFICES ASSUME NEW p \in Parts, Steady(p)' PROVE Faithful(p)'
    BY TurnFixed DEF FaithTrue
  <1>1. /\ st = "read" /\ wire # <<>> /\ wire' = Tail(wire) /\ wire \in Seq(Event)
        /\ truth[p] \in Seq(Tokens) /\ UNCHANGED <<truth, lost, pc>>
    BY DEF Read, Typed, UpTyped, coord
  <1>2. Steady(p) /\ Faithful(p)
    <2>1. Steady(p) BY <1>1, TurnFixed DEF Steady
    <2> QED BY <2>1 DEF FaithTrue
  <1>3. Handle(Head(wire)) BY DEF Read, Steady
  <1>4. PICK F \in [0 .. Len(wire) -> Prefixes(truth[p])] : Chain(p, F) BY <1>2 DEF Faithful
  <1> DEFINE n == Len(wire)
             e == Head(wire)
  <1>5. /\ n \in Nat /\ n # 0 /\ e = wire[1] /\ e \in Event /\ Len(wire') = n - 1
        /\ \A i \in 1 .. n - 1 : wire'[i] = wire[i + 1]
    BY <1>1
  <1>6. 0 \in 0 .. n /\ 1 \in 0 .. n /\ 1 \in 1 .. n /\ 1 - 1 = 0 BY <1>5
  <1>7. Carries(e, p, Consumed(p), F[1])
    <2>1. Carries(wire[1], p, F[1 - 1], F[1]) BY <1>4, <1>6 DEF Chain
    <2>2. F[0] = Consumed(p) BY <1>4 DEF Chain
    <2> QED BY <1>5, <1>6, <2>1, <2>2
  <1>8. F[1] \in Seq(Tokens) /\ Blank \notin Range(F[1])
    <2>1. F[1] \in Prefixes(truth[p]) BY <1>6
    <2> QED BY <1>1, <1>2, <2>1, PrefixFacts DEF Steady
  <1>9. Taken(p, F[1])
    <2>1. todo' \in Seq(Piece) BY ReadTyped, TurnFixed DEF Typed, RunTyped
    <2> HIDE DEF e
    <2> QED BY <1>1, <1>2, <1>3, <1>5, <1>7, <1>8, <2>1, HandleTakes DEF e
  <1> PICK G : G = [i \in 0 .. n - 1 |-> F[i + 1]] OBVIOUS
  <1>10. G \in [0 .. Len(wire') -> Prefixes(truth'[p])] BY <1>1, <1>5
  <1>11. G[0] = F[1] /\ \A i \in 0 .. n - 1 : G[i] = F[i + 1] BY <1>5
  <1>12. G[Len(wire')] = truth'[p]
    <2>1. n - 1 \in 0 .. n - 1 /\ (n - 1) + 1 = n BY <1>5
    <2>2. F[n] = truth[p] BY <1>4 DEF Chain
    <2> QED BY <1>1, <1>5, <1>11, <2>1, <2>2
  <1>13. ASSUME NEW i \in 1 .. Len(wire') PROVE Carries(wire'[i], p, G[i - 1], G[i])
    <2>1. /\ i \in 1 .. n - 1 /\ i \in 0 .. n - 1 /\ i - 1 \in 0 .. n - 1 /\ i + 1 \in 1 .. n
          /\ (i - 1) + 1 = i /\ (i + 1) - 1 = i
      BY <1>5
    <2>2. Carries(wire[i + 1], p, F[(i + 1) - 1], F[i + 1]) BY <1>4, <2>1 DEF Chain
    <2>3. G[i - 1] = F[i] /\ G[i] = F[i + 1] /\ wire'[i] = wire[i + 1] BY <1>5, <1>11, <2>1
    <2> QED BY <2>1, <2>2, <2>3
  <1>14. Chain(p, G)' BY <1>9, <1>11, <1>12, <1>13 DEF Chain, Carries, Taken
  <1> QED BY <1>9, <1>10, <1>14 DEF Faithful, Taken

LEMMA EmitNextFaithful ==
  ASSUME Typed, FaithTrue, turn' = turn, EmitNext
  PROVE  FaithTrue'
  <1> SUFFICES ASSUME NEW p \in Parts, Steady(p)' PROVE Faithful(p)'
    BY TurnFixed DEF FaithTrue
  <1> DEFINE c == Head(todo)
  <1>1. /\ st = "emit" /\ todo # <<>> /\ todo' = Tail(todo) /\ todo \in Seq(Piece)
        /\ UNCHANGED <<truth, wire, lost, pc, buffer, pend>>
        /\ turn \in Turns /\ abuf \in [Artifacts -> Seq(Tokens)]
    BY DEF EmitNext, upstream, coord, Typed, RunTyped, OutTyped
  <1>2. Steady(p) /\ Faithful(p)
    <2>1. Steady(p) BY <1>1, TurnFixed DEF Steady
    <2> QED BY <2>1 DEF FaithTrue
  <1>3. c \in Piece /\ (c.art # None => c.part \in Parts /\ c.art = Artifact(c.part))
    <2>1. 1 \in DOMAIN todo /\ c = todo[1] BY <1>1
    <2> QED BY <1>1, <2>1 DEF Typed, RunTyped
  <1>4. c.text \in Seq(Tokens) /\ abuf["text"] \in Seq(Tokens) /\ "text" \in Artifacts
        /\ None # "text"
    BY <1>1, <1>3, TurnFacts DEF Piece
  <1> HIDE DEF c
  <1>5. Unsent = TextOf(c) \o Unsent' /\ Unsent' \in Seq(Tokens)
    <2>1. Unsent' = FlattenSeq(Texts(Tail(todo))) BY <1>1 DEF Unsent, Texts, TextOf
    <2>2. Tail(todo) \in Seq(Piece) BY <1>1
    <2>3. Texts(Tail(todo)) \in Seq(Seq(Tokens)) BY <2>2, TextsTyped
    <2> QED BY <1>1, <2>1, <2>3, UnsentIs, FirstText, FlattenType DEF c
  <1>6. abuf'["text"] = abuf["text"] \o TextOf(c)
    <2>1. CASE c.art # "text"
      <3>1. abuf'["text"] = abuf["text"]
        <4>1. abuf' = abuf \/ abuf' = [abuf EXCEPT ![c.art] = NextValue(c)]
          BY DEF EmitNext, c
        <4> QED BY <1>1, <1>4, <2>1, <4>1
      <3>2. TextOf(c) = <<>> BY <2>1 DEF TextOf
      <3> QED BY <1>4, <3>1, <3>2, Associates
    <2>2. CASE c.art = "text"
      <3>1. c.part \in Parts /\ Artifact(c.part) = "text" BY <1>3, <1>4, <2>2
      <3>2. Block[c.part] = "text" BY <1>1, <3>1, TurnFacts
      <3>3. c.part = p BY <1>2, <3>1, <3>2 DEF Steady
      <3>4. ~ Echo(c) BY <1>2, <3>3 DEF Echo, Steady
      <3>5. NextValue(c) = abuf["text"] \o c.text BY <2>2, <3>2 DEF NextValue
      <3>6. CASE NextValue(c) = abuf["text"]
        <4>1. abuf' = abuf BY <1>4, <2>2, <3>6 DEF EmitNext, c
        <4> QED BY <2>2, <3>5, <3>6, <4>1 DEF TextOf
      <3>7. CASE NextValue(c) # abuf["text"]
        <4>1. abuf' = [abuf EXCEPT !["text"] = NextValue(c)]
          BY <1>4, <2>2, <3>4, <3>7 DEF EmitNext, c
        <4>2. abuf'["text"] = NextValue(c) BY <1>1, <1>4, <4>1
        <4> QED BY <2>2, <3>5, <4>2 DEF TextOf
      <3> QED BY <3>6, <3>7
    <2> QED BY <2>1, <2>2
  <1>7. abuf'["text"] \o Unsent' = abuf["text"] \o Unsent
    <2>1. TextOf(c) \in Seq(Tokens)
      <3>1. <<>> \in Seq(Tokens) OBVIOUS
      <3> QED BY <1>4, <3>1 DEF TextOf
    <2>2. \A x, y, z \in Seq(Tokens) : (x \o y) \o z = x \o (y \o z) BY Associates
    <2>3. (abuf["text"] \o TextOf(c)) \o Unsent' = abuf["text"] \o (TextOf(c) \o Unsent')
      BY <1>4, <1>5, <2>1, <2>2
    <2> QED BY <1>5, <1>6, <2>3
  <1>8. Known(p)' = Known(p) /\ Consumed(p)' = Consumed(p) BY <1>1 DEF Known, Consumed
  <1>9. \A F : Chain(p, F)' <=> Chain(p, F) BY <1>1, <1>8 DEF Chain, Carries
  <1> QED BY <1>1, <1>2, <1>7, <1>8, <1>9 DEF Faithful

\* The rest of the runtime and the coordinator leave the texts alone, or end the wait.
LEMMA OthersFaithful ==
  ASSUME Typed, FaithTrue, turn' = turn,
         \/ PutChunk \/ Fail \/ Reconnect \/ Close \/ SendReturns \/ SendFails \/ Coordinate
         \/ Cancel \/ UNCHANGED vars
  PROVE  FaithTrue'
  <1>1. CASE PutChunk \/ Reconnect \/ UNCHANGED vars \/ CancelStatus \/ CancelStop
             \/ SendReturns
    <2>1. /\ UNCHANGED <<truth, wire, lost, buffer, pend, todo, abuf>>
          /\ st' # "ended" => st # "ended"
          /\ pc' = "send" => pc = "send"
      BY <1>1 DEF PutChunk, Reconnect, vars, upstream, runtime, output, coord, CancelStatus,
           CancelStop, SendReturns
    <2> QED BY <2>1, FaithStands
  <1>2. CASE Fail
    <2>1. UNCHANGED <<truth, buffer, pend, todo, abuf, pc>> /\ st # "ended"
          /\ wire' = <<>> /\ lost' = Missed(Range(wire))
      BY <1>2 DEF Fail, output, coord
    <2>2. CASE wire = <<>>
      <3>1. Range(wire) = {} BY <2>2 DEF Range
      <3>2. Missed({}) = lost BY DEF Missed
      <3> QED BY <2>1, <2>2, <3>1, <3>2, FaithStands
    <2>3. CASE wire # <<>>
      <3>1. Range(wire) # {}
        <4>1. wire \in Seq(Event) BY DEF Typed, UpTyped
        <4>2. 1 \in DOMAIN wire BY <2>3, <4>1
        <4> QED BY <4>2 DEF Range
      <3>2. Missed(Range(wire)) # "none" BY <3>1 DEF Missed
      <3> QED BY <2>1, <3>2 DEF FaithTrue, Steady
    <2> QED BY <2>2, <2>3
  <1>3. CASE Close BY <1>3 DEF Close, FaithTrue, Steady
  <1>4. CASE SendFails BY <1>4 DEF SendFails, FaithTrue, Steady
  <1>5. CASE Coordinate
    <2>1. pc' # "send"
      BY <1>5 DEF Coordinate, Signalled, Final, PutSnapshot, Complete, ErrorArtifact,
           ErrorStatus, Released, Cleanup, StopStream
    <2> QED BY <2>1 DEF FaithTrue, Steady
  <1>6. CASE CancelTask
    <2>1. CASE pc = "done"
      <3>1. UNCHANGED <<truth, wire, lost, buffer, pend, todo, abuf, st, pc>>
        BY <1>6, <2>1 DEF CancelTask, upstream, runtime, output
      <3> QED BY <3>1, FaithStands
    <2>2. CASE pc # "done"
      <3>1. pc' # "send" BY <1>6, <2>2 DEF CancelTask, Cleanup, StopStream
      <3> QED BY <3>1 DEF FaithTrue, Steady
    <2> QED BY <2>1, <2>2
  <1> QED BY <1>1, <1>2, <1>3, <1>4, <1>5, <1>6 DEF Cancel

LEMMA InitFaithful == Init => FaithTrue
  <1> SUFFICES ASSUME Init, NEW p \in Parts PROVE Faithful(p) BY DEF FaithTrue
  <1>1. /\ buffer[p] = None /\ pend[p] = <<>> /\ truth[p] = <<>> /\ wire = <<>> /\ todo = <<>>
        /\ abuf["text"] = <<>>
    BY DEF Init, Artifacts
  <1>2. Known(p) = <<>> BY <1>1 DEF Known
  <1>3. <<>> \o <<>> = <<>> /\ Len(<<>>) = 0 /\ DOMAIN <<>> = {} /\ 0 .. 0 = {0} OBVIOUS
  <1>4. Consumed(p) = <<>> BY <1>1, <1>2, <1>3, FlattenEmpty DEF Consumed
  <1>5. Unsent = <<>>
    <2>1. <<>> \in Seq(Piece) OBVIOUS
    <2> QED BY <1>1, <1>3, <2>1, UnsentIs, SilentTexts
  <1> PICK F : F = [i \in {0} |-> <<>>] OBVIOUS
  <1>6. <<>> \in Prefixes(<<>>)
    <2>1. <<>> \in Seq(Tokens) OBVIOUS
    <2> QED BY <2>1, StreamingAssumption, PrefixesGrow
  <1>7. F \in [0 .. Len(wire) -> Prefixes(truth[p])] BY <1>1, <1>3, <1>6
  <1>8. Chain(p, F)
    <2>1. F[0] = <<>> /\ Len(wire) = 0 /\ 1 .. 0 = {} BY <1>1, <1>3
    <2> QED BY <1>1, <1>4, <2>1 DEF Chain
  <1> QED BY <1>1, <1>2, <1>3, <1>5, <1>7, <1>8 DEF Faithful

LEMMA NextFaithful ==
  ASSUME Typed, FaithTrue, [Next]_<<vars, turn>>
  PROVE  FaithTrue'
  <1>1. turn' = turn BY DEF Next
  <1> QED BY <1>1, SpeechFaithful, ReadFaithful, EmitNextFaithful, OthersFaithful
       DEF Next, Consume

----------------------------------------------------------------------------
(* The theorems.                                                             *)

\* StreamInv is inductive: at every moment of every turn the sequence numbers
\* taken and sent are in order, the adapter's buffers are what the client holds
\* or is about to hold, and what is consumed, on the wire and still to be emitted
\* adds up to what upstream wrote.
THEOREM StreamInvariant == Spec => []StreamInv
  <1> DEFINE Inv == Typed /\ Order /\ Viewed /\ FaithTrue
  <1>1. Init => Inv BY InitTyped, InitOrdered, InitViewed, InitFaithful
  <1>2. Inv /\ [Next]_<<vars, turn>> => Inv'
    BY NextTyped, NextOrdered, NextViewed, NextFaithful
  <1>3. Inv => StreamInv
    BY TypedIsTypes DEF StreamInv, ViewInv, OrderInv, Order, Viewed
  <1> HIDE DEF Inv
  <1> QED BY <1>1, <1>2, <1>3, PTL DEF Spec

\* The client sees rising sequence numbers although the stream task and the
\* coordinator both number and send (stream_state.py next_sequence), and no
\* artifact after the COMPLETED status (coordinator.py).
THEOREM EventsStayInOrder == Spec => []EventsInOrder
  <1>1. StreamInv => EventsInOrder BY DEF StreamInv, ViewInv, OrderInv
  <1> QED BY <1>1, StreamInvariant, PTL

\* A client told COMPLETED holds the text of the response, whatever was lost,
\* rewritten, suppressed or streamed for an earlier round (coordinator.py,
\* should_emit_final_snapshot).
THEOREM TextIsDelivered == Spec => []TextDelivered
  <1>1. StreamInv => TextDelivered BY DEF StreamInv, ViewInv, DeliveryTrue
  <1> QED BY <1>1, StreamInvariant, PTL

\* The buffer the final snapshot is decided on is what the client holds, and an
\* upstream that only appends is streamed token by token while nothing is lost
\* (stream_runtime.py, stream_state.py register_chunk).
THEOREM StreamedTextIsTrue == Spec => []StreamedText
  <1>1. StreamInv => StreamedText
    <2> SUFFICES ASSUME StreamInv PROVE StreamedText OBVIOUS
    <2>0. Typed /\ TypeOK /\ ViewTrue /\ FaithTrue
      BY TypedIsTypes DEF StreamInv, ViewInv, OrderInv
    <2>1. BufferIsClientView
      <3> SUFFICES ASSUME st # "ended", held = None, pc # "snapshot",
                          NEW a \in {"text", "reasoning"}
                   PROVE  client[a] = abuf[a]
        BY DEF BufferIsClientView
      <3> QED BY <2>0 DEF ViewTrue, Shown
    <2>2. StreamFaithful
      <3> SUFFICES ASSUME NEW p \in Parts,
                          Block[p] = "text", \A q \in Parts \ {p} : Block[q] # "text",
                          ~ turn.rewrites, Blank \notin Range(truth[p]), Role[p] = "agent",
                          lost = "none", st = "read", wire = <<>>, pend[p] = <<>>, pc = "send"
                   PROVE  client["text"] = truth[p]
        BY DEF StreamFaithful
      <3>1. Faithful(p) BY <2>0 DEF FaithTrue, Steady
      <3>2. PICK F \in [0 .. Len(wire) -> Prefixes(truth[p])] : Chain(p, F)
        BY <3>1 DEF Faithful
      <3>3. Len(wire) = 0 OBVIOUS
      <3>4. Consumed(p) = truth[p] BY <3>2, <3>3 DEF Chain
      <3>5. Known(p) \o <<>> = Known(p) BY <2>0, ConsumedTyped, Associates
      <3>6. Consumed(p) = Known(p) BY <3>5, FlattenEmpty DEF Consumed
      <3>7. abuf["text"] = Known(p) BY <2>0, <3>1, NothingUnsent
      <3>8. held = None BY <2>0 DEF Typed, RunTyped
      <3>9. client["text"] = abuf["text"] BY <2>0, <3>8 DEF ViewTrue, Shown
      <3> QED BY <3>4, <3>6, <3>7, <3>9
    <2> QED BY <2>0, <2>1, <2>2 DEF StreamedText
  <1> QED BY <1>1, StreamInvariant, PTL

============================================================================
