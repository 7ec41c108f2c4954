--------------------------- MODULE EndpointProofs ---------------------------
(* The JSON-RPC endpoint for every value of the constants: any deployment,   *)
(* any requests, any answers of the upstream server, and any racing replies  *)
(* to the prompts it remembers.                                              *)
(*                                                                           *)
(* A request in its handler has passed a prefix of the handler's checks, and *)
(* each check passed grants something (Granted).  What the properties ask of *)
(* a call follows from that and from the order of the checks (InOrder).  The *)
(* directories need what Path.resolve() does (RealPath), and the contracts   *)
(* what GetPath does: both are folds, taken one piece at a time.             *)
(*                                                                           *)
(* Every operation of the registry of prompts does one of three things to a  *)
(* prompt it is not about (Swept); its invariant is SettleInv.               *)
EXTENDS Endpoint, FlattenLemmas, SequenceTheorems

-----------------------------------------------------------------------------
(* Paths and fields: what the two folds of the model do, one piece at a time.*)

Walk(at, piece) ==
  CASE piece = "/" -> <<"/">>
    [] piece = ".." -> IF Len(at) > 1 THEN Front(at) ELSE at
    [] OTHER -> LET next == Append(at, piece)
                IN IF next \in DOMAIN Links THEN Links[next] ELSE next

StepOf(kind, at, piece) == IF kind = "path" THEN Walk(at, piece) ELSE Get(at, piece)
IsFold(f, kind, base, s) ==
  f = [t \in SUBSET (DOMAIN s) |->
         IF t = {} THEN base ELSE StepOf(kind, f[t \ {Max(t)}], s[Max(t)])]
FoldOf(kind, base, s) == (CHOOSE f : IsFold(f, kind, base, s))[DOMAIN s]

LEMMA RealPathIsFold == ASSUME NEW s PROVE RealPath(s) = FoldOf("path", <<"/">>, s)
  BY DEF RealPath, FoldLeft, MapThenFoldSet, IsFold, FoldOf, StepOf, Walk
LEMMA GetPathIsFold == ASSUME NEW v, NEW s PROVE GetPath(v, s) = FoldOf("get", v, s)
  BY DEF GetPath, FoldLeft, MapThenFoldSet, IsFold, FoldOf, StepOf, Get

LEMMA MaxMember ==
  ASSUME NEW n \in Nat, NEW t \in SUBSET (1..n), t # {}
  PROVE  Max(t) \in t /\ \A x \in t : Max(t) >= x
  <1> DEFINE T == {n - x : x \in t}
  <1>0. \A x \in t : x \in Nat /\ x <= n OBVIOUS
  <1>1. T \subseteq Nat
    <2>1. \A x \in t : n - x \in Nat BY <1>0
    <2> QED BY <2>1
  <1>2. T # {} OBVIOUS
  <1>3. PICK m \in T : \A y \in T : m <= y
    <2> HIDE DEF T
    <2> QED BY <1>1, <1>2, LeastMember
  <1>4. PICK x \in t : m = n - x OBVIOUS
  <1>5. ASSUME NEW y \in t PROVE x >= y
    <2>1. n - y \in T OBVIOUS
    <2>2. n - x <= n - y BY <1>3, <1>4, <2>1
    <2> QED BY <1>0, <2>2
  <1> QED BY <1>5 DEF Max

LEMMA FoldsAt ==
  ASSUME NEW f, NEW kind, NEW base, NEW s, IsFold(f, kind, base, s), NEW t \in SUBSET (DOMAIN s)
  PROVE  f[t] = IF t = {} THEN base ELSE StepOf(kind, f[t \ {Max(t)}], s[Max(t)])
  BY DEF IsFold

LEMMA FoldsExists ==
  ASSUME NEW kind, NEW base, NEW S
  PROVE  \A s \in Seq(S) : \E f : IsFold(f, kind, base, s)
  <1> DEFINE T == {n \in Nat : \A s \in Seq(S) : Len(s) = n => \E f : IsFold(f, kind, base, s)}
  <1>1. 0 \in T
    <2> SUFFICES ASSUME NEW s \in Seq(S), Len(s) = 0 PROVE \E f : IsFold(f, kind, base, s) OBVIOUS
    <2> DEFINE f == [t \in SUBSET (DOMAIN s) |-> base]
    <2>1. DOMAIN s = {} OBVIOUS
    <2>2. \A t \in SUBSET (DOMAIN s) : t = {} BY <2>1
    <2>3. f = [t \in SUBSET (DOMAIN s) |->
                IF t = {} THEN base ELSE StepOf(kind, f[t \ {Max(t)}], s[Max(t)])] BY <2>2
    <2> QED BY <2>3 DEF IsFold
  <1>2. ASSUME NEW n \in Nat, n \in T PROVE n + 1 \in T
    <2> SUFFICES ASSUME NEW s \in Seq(S), Len(s) = n + 1 PROVE \E f : IsFold(f, kind, base, s)
      OBVIOUS
    <2>1. PICK r \in Seq(S) : Len(r) = n /\ (\A i \in 1..n : r[i] = s[i]) /\ DOMAIN r = 1..n
      <3> WITNESS SubSeq(s, 1, n) \in Seq(S)
      <3> QED OBVIOUS
    <2>2. DOMAIN s = 1..n+1 OBVIOUS
    <2>3. PICK g : IsFold(g, kind, base, r) BY <1>2, <2>1
    <2> DEFINE f == [t \in SUBSET (1..n+1) |->
                       IF n + 1 \in t THEN StepOf(kind, g[t \ {n+1}], s[n+1]) ELSE g[t]]
    <2>4. ASSUME NEW t \in SUBSET (1..n+1)
          PROVE  f[t] = IF t = {} THEN base ELSE StepOf(kind, f[t \ {Max(t)}], s[Max(t)])
      <3>1. CASE n + 1 \in t
        <4>1. Max(t) = n + 1
          <5>1. Max(t) \in t /\ Max(t) >= n + 1 BY <3>1, MaxMember, n + 1 \in Nat
          <5>2. Max(t) \in 1..n+1 BY <5>1
          <5> HIDE DEF f
          <5> QED BY <5>1, <5>2
        <4>2. t \ {n+1} \in SUBSET (1..n) /\ n + 1 \notin t \ {n+1} /\ t \ {n+1} \in SUBSET (1..n+1)
          OBVIOUS
        <4>3. f[t \ {n+1}] = g[t \ {n+1}] BY <4>2
        <4>4. f[t] = StepOf(kind, g[t \ {n+1}], s[n+1]) BY <3>1
        <4> HIDE DEF f
        <4> QED BY <3>1, <4>1, <4>3, <4>4
      <3>2. CASE n + 1 \notin t
        <4>1. t \in SUBSET (1..n) BY <3>2
        <4>2. f[t] = g[t] BY <3>2
        <4>3. g[t] = IF t = {} THEN base ELSE StepOf(kind, g[t \ {Max(t)}], r[Max(t)])
          <5> HIDE DEF f
          <5>1. t \in SUBSET (DOMAIN r) BY <2>1, <4>1
          <5> QED BY <2>3, <5>1 DEF IsFold
        <4>4. CASE t = {} BY <4>2, <4>3, <4>4
        <4>5. CASE t # {}
          <5>1. Max(t) \in 1..n BY <4>1, <4>5, MaxMember
          <5>2. r[Max(t)] = s[Max(t)] BY <2>1, <5>1
          <5>3. t \ {Max(t)} \in SUBSET (1..n+1) /\ n + 1 \notin t \ {Max(t)} BY <3>2
          <5>4. f[t \ {Max(t)}] = g[t \ {Max(t)}] BY <5>3
          <5> HIDE DEF f
          <5> QED BY <4>2, <4>3, <4>5, <5>2, <5>4
        <4> QED BY <4>4, <4>5
      <3> QED BY <3>1, <3>2
    <2>5. f = [t \in SUBSET (1..n+1) |-> f[t]] OBVIOUS
    <2> HIDE DEF f
    <2>6. f = [t \in SUBSET (1..n+1) |->
                 IF t = {} THEN base ELSE StepOf(kind, f[t \ {Max(t)}], s[Max(t)])]
      BY <2>4, <2>5
    <2>7. IsFold(f, kind, base, s) BY <2>2, <2>6 DEF IsFold
    <2> QED BY <2>7
  <1> HIDE DEF T
  <1>3. Nat \subseteq T BY <1>1, <1>2, SetInduction
  <1> QED BY <1>3 DEF T

\* Two folds over sequences that begin the same agree there.
LEMMA FoldsAgree ==
  ASSUME NEW kind, NEW base, NEW S, NEW s \in Seq(S), NEW x \in S,
         NEW f, IsFold(f, kind, base, s), NEW g, IsFold(g, kind, base, Append(s, x))
  PROVE  f[DOMAIN s] = g[DOMAIN s]
  <1> DEFINE r == Append(s, x)
             T == {n \in Nat : n <= Len(s) => \A t \in SUBSET (1..n) : f[t] = g[t]}
  <1>0. DOMAIN s = 1..Len(s) /\ DOMAIN r = 1..Len(s)+1 /\ Len(s) \in Nat
        /\ \A i \in 1..Len(s) : r[i] = s[i] OBVIOUS
  <1>a. IsFold(g, kind, base, r) OBVIOUS
  <1> HIDE DEF r
  <1>1. 0 \in T
    <2>1. \A t \in SUBSET (1..0) : t = {} OBVIOUS
    <2>2. f[{}] = base /\ g[{}] = base BY <1>a, FoldsAt
    <2> QED BY <2>1, <2>2
  <1>2. ASSUME NEW n \in Nat, n \in T PROVE n + 1 \in T
    <2> SUFFICES ASSUME n + 1 <= Len(s), NEW t \in SUBSET (1..n+1) PROVE f[t] = g[t] OBVIOUS
    <2>1. CASE t = {} 
      <3>1. f[{}] = base /\ g[{}] = base BY <1>a, FoldsAt
      <3> QED BY <2>1, <3>1
    <2>2. CASE t # {}
      <3> DEFINE m == Max(t)
      <3>1. m \in t /\ \A y \in t : m >= y BY <2>2, n + 1 \in Nat, MaxMember
      <3> HIDE DEF m
      <3>2. m \in 1..n+1 /\ m \in 1..Len(s) BY <1>0, <3>1
      <3>3. t \ {m} \in SUBSET (1..n) BY <3>1, <3>2
      <3>4. f[t \ {m}] = g[t \ {m}] BY <1>0, <1>2, <3>3
      <3>5. t \in SUBSET DOMAIN s /\ t \in SUBSET DOMAIN r BY <1>0
      <3>6. f[t] = StepOf(kind, f[t \ {m}], s[m]) 
        <4>1. f[t] = IF t = {} THEN base ELSE StepOf(kind, f[t \ {Max(t)}], s[Max(t)])
          BY <3>5 DEF IsFold
        <4> QED BY <2>2, <4>1 DEF m
      <3>7. g[t] = StepOf(kind, g[t \ {m}], r[m]) 
        <4>1. g[t] = IF t = {} THEN base ELSE StepOf(kind, g[t \ {Max(t)}], r[Max(t)])
          BY <1>a, <3>5 DEF IsFold
        <4> QED BY <2>2, <4>1 DEF m
      <3>8. r[m] = s[m] BY <1>0, <3>2
      <3> QED BY <3>4, <3>6, <3>7, <3>8
    <2> QED BY <2>1, <2>2
  <1> HIDE DEF T
  <1>3. Nat \subseteq T BY <1>1, <1>2, SetInduction
  <1>4. Len(s) \in T BY <1>0, <1>3
  <1> QED BY <1>0, <1>4 DEF T

LEMMA FoldAppend ==
  ASSUME NEW kind, NEW base, NEW S, NEW s \in Seq(S), NEW x \in S
  PROVE  FoldOf(kind, base, Append(s, x)) = StepOf(kind, FoldOf(kind, base, s), x)
  <1> DEFINE n == Len(s) + 1
  <1>0. PICK r : r = Append(s, x) OBVIOUS
  <1>1. r \in Seq(S) /\ DOMAIN s = 1..Len(s) /\ DOMAIN r = 1..n /\ r[n] = x /\ n \in Nat /\ n \in 1..n
        /\ (1..n) \ {n} = 1..Len(s)
    BY <1>0
  <1>2. PICK f : f = (CHOOSE h : IsFold(h, kind, base, s)) /\ IsFold(f, kind, base, s)
    BY FoldsExists
  <1>3. PICK g : g = (CHOOSE h : IsFold(h, kind, base, r)) /\ IsFold(g, kind, base, r)
    BY FoldsExists, <1>1
  <1>4. f[DOMAIN s] = g[DOMAIN s] BY <1>0, <1>2, <1>3, FoldsAgree
  <1>5. Max(DOMAIN r) = n
    <2> DEFINE m == Max(1..n)
    <2>1. m \in 1..n /\ \A y \in 1..n : m >= y BY <1>1, MaxMember
    <2> HIDE DEF m, n
    <2>2. m = n BY <1>1, <2>1
    <2> QED BY <1>1, <2>2 DEF m
  <1>6. DOMAIN r # {} BY <1>1
  <1>7. g[DOMAIN r] = StepOf(kind, g[DOMAIN r \ {Max(DOMAIN r)}], r[Max(DOMAIN r)])
    <2>1. DOMAIN r \in SUBSET (DOMAIN r) OBVIOUS
    <2>2. g[DOMAIN r] = IF DOMAIN r = {} THEN base
                        ELSE StepOf(kind, g[DOMAIN r \ {Max(DOMAIN r)}], r[Max(DOMAIN r)])
      BY <1>3, <2>1 DEF IsFold
    <2> QED BY <1>6, <2>2
  <1>8. g[DOMAIN r] = StepOf(kind, g[DOMAIN s], x) BY <1>1, <1>5, <1>7
  <1> QED BY <1>0, <1>2, <1>3, <1>4, <1>8 DEF FoldOf

LEMMA FoldEmpty ==
  ASSUME NEW kind, NEW base PROVE FoldOf(kind, base, <<>>) = base
  <1>1. <<>> \in Seq({}) OBVIOUS
  <1>0. \E f : IsFold(f, kind, base, <<>>) BY <1>1, FoldsExists
  <1> DEFINE f == CHOOSE h : IsFold(h, kind, base, <<>>)
  <1>2. IsFold(f, kind, base, <<>>) BY <1>0
  <1> HIDE DEF f
  <1>3. DOMAIN <<>> = {} OBVIOUS
  <1>4. f[DOMAIN <<>>] = base BY <1>2, <1>3, FoldsAt
  <1> QED BY <1>4 DEF FoldOf, f

LEMMA GetPathAppend ==
  ASSUME NEW v, NEW S, NEW p \in Seq(S), NEW x \in S
  PROVE  GetPath(v, Append(p, x)) = Get(GetPath(v, p), x)
  BY FoldAppend, GetPathIsFold DEF StepOf

LEMMA GetPath1 ==
  ASSUME NEW v, NEW x
  PROVE  GetPath(v, <<x>>) = Get(v, x)
  <1>1. <<>> \in Seq({x}) /\ Append(<<>>, x) = <<x>> OBVIOUS
  <1>2. GetPath(v, <<>>) = v BY FoldEmpty, GetPathIsFold
  <1>3. GetPath(v, Append(<<>>, x)) = Get(GetPath(v, <<>>), x) BY <1>1, GetPathAppend
  <1> QED BY <1>1, <1>2, <1>3
LEMMA AppendPair == ASSUME NEW x, NEW y PROVE Append(<<x>>, y) = <<x, y>>
  <1>1. <<x, y>> \in Seq({x, y}) /\ <<x>> \in Seq({x, y}) OBVIOUS
  <1>2. Append(<<x>>, y) \in Seq({x, y}) BY <1>1
  <1>3. Len(Append(<<x>>, y)) = 2 /\ Len(<<x, y>>) = 2 OBVIOUS
  <1>4. Append(<<x>>, y)[1] = x /\ Append(<<x>>, y)[2] = y OBVIOUS
  <1>5. \A i \in 1..2 : Append(<<x>>, y)[i] = <<x, y>>[i]
    <2> SUFFICES ASSUME NEW i \in 1..2 PROVE Append(<<x>>, y)[i] = <<x, y>>[i] OBVIOUS
    <2>1. i = 1 \/ i = 2 OBVIOUS
    <2> QED BY <1>4, <2>1
  <1> QED BY <1>1, <1>2, <1>3, <1>5, SeqEqual
LEMMA GetPath2 ==
  ASSUME NEW v, NEW x, NEW y
  PROVE  GetPath(v, <<x, y>>) = Get(Get(v, x), y)
  <1>1. <<x>> \in Seq({x, y}) /\ y \in {x, y} OBVIOUS
  <1>3. GetPath(v, Append(<<x>>, y)) = Get(GetPath(v, <<x>>), y) BY <1>1, GetPathAppend
  <1> QED BY <1>3, GetPath1, AppendPair
LEMMA RealPathAppend ==
  ASSUME NEW S, NEW p \in Seq(S), NEW x \in S
  PROVE  RealPath(Append(p, x)) = Walk(RealPath(p), x)
  BY FoldAppend, RealPathIsFold DEF StepOf

LEMMA SingletonFacts ==
  ASSUME NEW S, NEW x \in S
  PROVE  <<x>> \in Seq(S) /\ Len(<<x>>) = 1 /\ <<x>> # <<>> /\ <<x>>[1] = x
  OBVIOUS

\* A sequence of anything is one of its own elements.
LEMMA IsSequenceOf ==
  ASSUME NEW S, NEW s \in Seq(S)
  PROVE  IsSequence(s)
  <1>1. \A i \in 1..Len(s) : s[i] \in Range(s) BY DEF Range
  <1> QED BY <1>1 DEF IsSequence

LEMMA AppendFacts ==
  ASSUME NEW S, NEW s \in Seq(S), NEW x \in S
  PROVE  /\ Append(s, x) \in Seq(S) /\ Append(s, x) # <<>> /\ Len(Append(s, x)) = Len(s) + 1
         /\ Append(s, x)[Len(s) + 1] = x /\ SubSeq(Append(s, x), 1, Len(s) + 1) = Append(s, x)
         /\ \A i \in 1..Len(s) :
              Append(s, x)[i] = s[i] /\ SubSeq(Append(s, x), 1, i) = SubSeq(s, 1, i)
  OBVIOUS

LEMMA FrontFacts ==
  ASSUME NEW S, NEW s \in Seq(S), Len(s) > 1
  PROVE  /\ Front(s) \in Seq(S) /\ Front(s) # <<>> /\ Len(Front(s)) = Len(s) - 1
         /\ Front(s)[1] = s[1]
         /\ \A i \in 1..Len(s)-1 :
              Front(s)[i] = s[i] /\ SubSeq(Front(s), 1, i) = SubSeq(s, 1, i)
  <1> DEFINE r == SubSeq(s, 1, Len(s) - 1)
  <1>1. Front(s) = r BY DEF Front
  <1>2. r \in Seq(S) /\ Len(r) = Len(s) - 1 OBVIOUS
  <1>5. r # <<>>
    <2> HIDE DEF r
    <2>1. Len(s) \in Nat /\ Len(s) - 1 # 0 OBVIOUS
    <2>2. Len(r) # 0 BY <1>2, <2>1
    <2> QED BY <2>2
  <1>3. r[1] = s[1] /\ \A i \in 1..Len(s)-1 : r[i] = s[i] OBVIOUS
  <1>4. \A i \in 1..Len(s)-1 : SubSeq(r, 1, i) = SubSeq(s, 1, i) OBVIOUS
  <1> HIDE DEF r
  <1> QED BY <1>1, <1>2, <1>3, <1>4, <1>5

\* The part of a sequence up to an element.
LEMMA UpToFacts ==
  ASSUME NEW S, NEW s \in Seq(S), NEW n \in Nat, n + 1 <= Len(s)
  PROVE  /\ SubSeq(s, 1, n) \in Seq(S) /\ s[n+1] \in S
         /\ SubSeq(s, 1, n + 1) = Append(SubSeq(s, 1, n), s[n+1])
         /\ n = 0 => SubSeq(s, 1, n + 1) = <<s[1]>>
  <1>1. SubSeq(s, 1, n) \in Seq(S) /\ s[n+1] \in S OBVIOUS
  <1>2. SubSeq(s, 1, n + 1) = Append(SubSeq(s, 1, n), s[n+1]) OBVIOUS
  <1>3. SubSeq(s, 1, 1) = <<s[1]>>
    <2>1. SubSeq(s, 1, 1) \in Seq(S) /\ <<s[1]>> \in Seq(S) OBVIOUS
    <2>2. Len(SubSeq(s, 1, 1)) = 1 /\ Len(<<s[1]>>) = 1 OBVIOUS
    <2>3. \A i \in 1..1 : SubSeq(s, 1, 1)[i] = <<s[1]>>[i] OBVIOUS
    <2> QED BY <2>1, <2>2, <2>3, SeqEqual
  <1> QED BY <1>1, <1>2, <1>3

\* A resolved path goes on resolved.
LEMMA RootResolved == Resolved(<<"/">>)
  <1> DEFINE root == <<"/">>
  <1>1. root \in Seq({"/"}) /\ Len(root) = 1 /\ root # <<>> /\ root[1] = "/" BY SingletonFacts
  <1> HIDE DEF root
  <1>2. \A i \in 2..1 : FALSE OBVIOUS
  <1>3. IsSequence(root) BY <1>1, IsSequenceOf
  <1>4. Resolved(root) BY <1>1, <1>2, <1>3 DEF Resolved
  <1> QED BY <1>4 DEF root

LEMMA WalkResolves ==
  ASSUME NEW at, Resolved(at), NEW piece
  PROVE  Resolved(Walk(at, piece))
  <1> DEFINE S == Range(at) \cup {piece}
  <1>0. at \in Seq(S) /\ at # <<>> /\ at[1] = "/" /\ Len(at) \in Nat /\ Len(at) >= 1
        /\ \A i \in 2..Len(at) : at[i] \notin {"/", ".."} /\ SubSeq(at, 1, i) \notin DOMAIN Links
    BY DEF Resolved, IsSequence
  <1> HIDE DEF S
  <1>1. CASE piece = "/" BY <1>1, RootResolved DEF Walk
  <1>2. CASE piece = ".."
    <2>1. CASE Len(at) > 1
      <3> DEFINE parent == Front(at)
      <3>2. parent \in Seq(S) /\ Len(parent) = Len(at) - 1 /\ parent[1] = at[1] /\ parent # <<>>
            /\ \A i \in 1..Len(at)-1 : parent[i] = at[i] /\ SubSeq(parent, 1, i) = SubSeq(at, 1, i)
        BY <1>0, <2>1, FrontFacts
      <3>3. Walk(at, piece) = parent BY <1>2, <2>1 DEF Walk
      <3> HIDE DEF parent
      <3>4. \A i \in 2..Len(parent) : i \in 2..Len(at) /\ i \in 1..Len(at)-1 BY <1>0, <3>2
      <3>5. IsSequence(parent) BY <3>2, IsSequenceOf
      <3> QED BY <1>0, <3>2, <3>3, <3>4, <3>5 DEF Resolved
    <2>2. CASE ~(Len(at) > 1) BY <1>2, <2>2 DEF Walk
    <2> QED BY <2>1, <2>2
  <1>3. CASE piece \notin {"/", ".."}
    <2> DEFINE next == Append(at, piece)
    <2>1. CASE next \in DOMAIN Links BY <1>3, <2>1, JsonRpcAssumption DEF Walk
    <2>2. CASE next \notin DOMAIN Links
      <3>1. Walk(at, piece) = next BY <1>3, <2>2 DEF Walk
      <3>2. next \in Seq(S) /\ next # <<>> /\ next[1] = at[1] /\ Len(next) = Len(at) + 1
            /\ next[Len(next)] = piece /\ SubSeq(next, 1, Len(next)) = next
            /\ \A i \in 1..Len(at) : next[i] = at[i] /\ SubSeq(next, 1, i) = SubSeq(at, 1, i)
        <4>1. piece \in S BY DEF S
        <4> QED BY <1>0, <4>1, AppendFacts
      <3> HIDE DEF next
      <3>3. ASSUME NEW i \in 2..Len(next)
            PROVE  next[i] \notin {"/", ".."} /\ SubSeq(next, 1, i) \notin DOMAIN Links
        <4>1. CASE i = Len(next) BY <1>3, <2>2, <3>2, <4>1
        <4>2. CASE i # Len(next)
          <5>1. i \in 2..Len(at) /\ i \in 1..Len(at) BY <1>0, <3>2, <4>2
          <5> QED BY <1>0, <3>2, <5>1
        <4> QED BY <4>1, <4>2
      <3>4. IsSequence(next) BY <3>2, IsSequenceOf
      <3> QED BY <1>0, <3>1, <3>2, <3>3, <3>4 DEF Resolved
    <2> QED BY <2>1, <2>2
  <1> QED BY <1>1, <1>2, <1>3

\* Path.resolve() gives a resolved path.
LEMMA RealPathResolved ==
  ASSUME NEW path, IsSequence(path)
  PROVE  Resolved(RealPath(path))
  <1> DEFINE S == Range(path)
             T == {p \in Seq(S) : Resolved(RealPath(p))}
  <1>1. <<>> \in T
    <2>1. RealPath(<<>>) = <<"/">> BY FoldEmpty, RealPathIsFold
    <2> QED BY <2>1, RootResolved
  <1>2. ASSUME NEW p \in Seq(S), NEW x \in S, p \in T PROVE Append(p, x) \in T
    <2>1. RealPath(Append(p, x)) = Walk(RealPath(p), x) BY RealPathAppend
    <2>2. Resolved(RealPath(p)) BY <1>2
    <2>3. Resolved(RealPath(Append(p, x))) BY <2>1, <2>2, WalkResolves
    <2>4. Append(p, x) \in Seq(S) BY AppendFacts
    <2> QED BY <2>3, <2>4
  <1> HIDE DEF T
  <1>3. Seq(S) \subseteq T BY <1>1, <1>2, SequenceInduction
  <1> QED BY <1>3 DEF T, IsSequence

\* It leaves a resolved path as it is.
LEMMA ResolvedIsReal ==
  ASSUME NEW path, Resolved(path)
  PROVE  RealPath(path) = path
  <1> DEFINE S == Range(path)
  <1>0. path \in Seq(S) /\ path # <<>> /\ path[1] = "/" /\ Len(path) \in Nat /\ Len(path) >= 1
        /\ \A i \in 2..Len(path) : path[i] \notin {"/", ".."} /\ SubSeq(path, 1, i) \notin DOMAIN Links
    BY DEF Resolved, IsSequence
  <1> HIDE DEF S
  <1> DEFINE to(n) == SubSeq(path, 1, n)
             T == {n \in Nat : n >= 1 /\ n <= Len(path) => RealPath(to(n)) = to(n)}
  <1>1. 0 \in T OBVIOUS
  <1>2. ASSUME NEW n \in Nat, n \in T PROVE n + 1 \in T
    <2> SUFFICES ASSUME n + 1 <= Len(path) PROVE RealPath(to(n + 1)) = to(n + 1) OBVIOUS
    <2>1. /\ to(n) \in Seq(S) /\ path[n+1] \in S
          /\ to(n + 1) = Append(to(n), path[n+1])
      BY <1>0, UpToFacts
    <2>2. RealPath(to(n + 1)) = Walk(RealPath(to(n)), path[n+1]) BY <2>1, RealPathAppend
    <2>3. CASE n = 0
      <3>1. path[n+1] = "/" BY <1>0, <2>3
      <3>2. Walk(RealPath(to(n)), path[n+1]) = <<"/">> BY <3>1 DEF Walk
      <3>3. to(n + 1) = <<path[1]>> BY <1>0, <2>3, UpToFacts
      <3>4. to(n + 1) = <<"/">> BY <1>0, <3>3
      <3> QED BY <2>2, <3>2, <3>4
    <2>4. CASE n # 0
      <3>1. RealPath(to(n)) = to(n) BY <1>2, <2>4, <1>0
      <3>2. n + 1 \in 2..Len(path) BY <1>0, <2>4
      <3>3. path[n+1] \notin {"/", ".."} /\ to(n + 1) \notin DOMAIN Links BY <1>0, <3>2
      <3> HIDE DEF to
      <3>4. Walk(to(n), path[n+1]) = to(n + 1) BY <2>1, <3>3 DEF Walk
      <3> QED BY <2>2, <3>1, <3>4
    <2> QED BY <2>3, <2>4
  <1> HIDE DEF T
  <1>3. Nat \subseteq T BY <1>1, <1>2, SetInduction
  <1>4. to(Len(path)) = path BY <1>0
  <1>5. Len(path) \in T BY <1>0, <1>3
  <1> HIDE DEF to
  <1> QED BY <1>0, <1>4, <1>5 DEF T

-----------------------------------------------------------------------------
(* Routing *)

LEMMA AnchoredIsSequence ==
  ASSUME NEW text, IsSequence(text)
  PROVE  IsSequence(Anchored(text))
  <1>1. CASE Head(text) = "/" BY <1>1 DEF Anchored
  <1>2. CASE Head(text) # "/"
    <2> DEFINE S == Range(Base) \cup Range(text)
    <2>1. Base \in Seq(S) /\ text \in Seq(S) BY JsonRpcAssumption DEF Resolved, IsSequence
    <2> HIDE DEF S
    <2>2. Base \o text \in Seq(S) BY <2>1
    <2>3. Anchored(text) = Base \o text BY <1>2 DEF Anchored
    <2> QED BY <2>2, <2>3, IsSequenceOf
  <1> QED BY <1>1, <1>2

LEMMA BaseWithin == IsWithin(Base, Base)
  <1>1. Base \in Seq(Range(Base)) BY JsonRpcAssumption DEF Resolved, IsSequence
  <1> QED BY <1>1 DEF IsWithin, IsPrefix

\* A directory that the policy lets through is resolved and contained.
LEMMA DirectoryContained ==
  ASSUME NEW text, IsSequence(text), ResolveDirectory(text) # <<>>
  PROVE  LET d == ResolveDirectory(text)
         IN /\ RealPath(d) = d
            /\ IF config.override THEN IsWithin(d, Base) ELSE d = Base
  <1> DEFINE d == ResolveDirectory(text)
  <1>1. Resolved(Base) BY JsonRpcAssumption
  <1>2. Resolved(RealPath(Anchored(text))) BY AnchoredIsSequence, RealPathResolved
  <1>3. CASE text = <<>>
    <2>1. d = Base BY <1>3 DEF ResolveDirectory
    <2> HIDE DEF d
    <2> QED BY <1>1, <2>1, BaseWithin, ResolvedIsReal DEF d
  <1>4. CASE text # <<>>
    <2>1. /\ d = RealPath(Anchored(text))
          /\ IF config.override THEN IsWithin(d, Base) ELSE d = Base
      BY <1>4 DEF ResolveDirectory
    <2> HIDE DEF d
    <2> QED BY <1>2, <2>1, ResolvedIsReal DEF d
  <1> QED BY <1>3, <1>4

\* So is the directory of a route, which has no workspace beside it.
LEMMA RouteContained ==
  ASSUME req \in Requests, Route(req.params).ok, Route(req.params).scope.directory # <<>>
  PROVE  LET s == Route(req.params).scope
         IN /\ RealPath(s.directory) = s.directory
            /\ IF config.override THEN IsWithin(s.directory, Base) ELSE s.directory = Base
            /\ s.workspace = <<>>
  <1> DEFINE p == req.params
             md == Get(p, "metadata")
             asked == RequestedDirectory(p)
             wanted == IF asked # <<>> THEN asked ELSE GetPath(md, <<"opencode", "directory">>).text
  <1>1. IsSequence(wanted)
    <2>1. IsSequence(Get(p, "directory").text)
          /\ IsSequence(GetPath(md, <<"opencode", "directory">>).text)
      BY JsonRpcAssumption
    <2>2. <<>> \in Seq(Range(<<>>)) OBVIOUS
    <2>3. IsSequence(asked) BY <2>1, <2>2 DEF RequestedDirectory, IsSequence
    <2> QED BY <2>1, <2>3
  <1>2. ~(WorkspaceMetadata(md) /\ WorkspaceId(md) # <<>>) BY DEF Route
  <1>3. Route(p).scope = [workspace |-> <<>>, directory |-> ResolveDirectory(wanted)]
        /\ ResolveDirectory(wanted) # <<>>
    BY <1>2 DEF Route
  <1> HIDE DEF wanted
  <1> QED BY <1>1, <1>3, DirectoryContained

-----------------------------------------------------------------------------
(* The registry and the handlers *)

\* A method that the registry knows is handled with its own kind, and is one of
\* those the endpoint says it supports.
LEMMA HandlerKnowsMethod ==
  ASSUME IsExtension(req.method)
  PROVE  /\ req.method \in SupportedMethods(config) \ CoreMethods
         /\ \/ Handler = "lifecycle" /\ req.method \in SessionReads \cup SessionMutations
            \/ Handler = "control" /\ req.method \in SessionControls
            \/ Handler = "listing" /\ req.method \in SessionListings
            \/ Handler = "providers" /\ req.method \in ProviderMethods
            \/ Handler = "workspace" /\ req.method \in WorkspaceReads \cup WorkspaceMutations
            \/ Handler = "interrupt_query" /\ req.method \in InterruptQueries
            \/ Handler = "interrupt_callback" /\ req.method \in InterruptCallbacks
  <1> DEFINE m == req.method
             s == Resolve(m)
  <1>1. s \in Registry(config) /\ m \in s.methods BY DEF IsExtension, Resolve
  <1>2. Handler = s.name BY DEF Handler
  <1> HIDE DEF s, m
  <1>3. \/ s.name = "lifecycle" /\ m \in SessionReads \cup SessionMutations
        \/ s.name = "control" /\ m \in SessionControls /\ Enabled(config, m)
        \/ s.name = "listing" /\ m \in SessionListings
        \/ s.name = "providers" /\ m \in ProviderMethods
        \/ s.name = "workspace" /\ m \in WorkspaceReads
        \/ s.name = "workspace" /\ m \in WorkspaceMutations /\ Enabled(config, m)
        \/ s.name = "interrupt_query" /\ m \in InterruptQueries
        \/ s.name = "interrupt_callback" /\ m \in InterruptCallbacks
    BY <1>1 DEF Registry, Spec_
  <1>4. Enabled(config, m) /\ m \notin CoreMethods
    BY <1>3 DEF Enabled, SessionReads, SessionMutations, SessionListings, ProviderMethods,
                WorkspaceReads, WorkspaceMutations, InterruptQueries, InterruptCallbacks,
                SessionControls, CoreMethods, PushMethods, StreamMethods, TaskMethods
  <1>5. m \in SupportedMethods(config) BY <1>3, <1>4 DEF SupportedMethods
  <1> QED BY <1>2, <1>3, <1>4, <1>5 DEF m

\* What the endpoint supports and is no core method, the registry knows.
LEMMA SupportedIsKnown ==
  ASSUME NEW m \in SupportedMethods(config), m \notin CoreMethods
  PROVE  IsExtension(m)
  <1>1. Enabled(config, m) BY DEF SupportedMethods
  <1>2. m \in SessionReads \cup SessionMutations \cup SessionListings
              \cup SessionControls \cup ProviderMethods \cup WorkspaceReads \cup WorkspaceMutations
              \cup InterruptQueries \cup InterruptCallbacks
    BY DEF SupportedMethods
  <1>3. \E s \in Registry(config) : m \in s.methods BY <1>1, <1>2 DEF Registry, Spec_
  <1> QED BY <1>3 DEF IsExtension

LEMMA CoreIsSupported == CoreMethods \subseteq SupportedMethods(config)
  BY DEF SupportedMethods, Enabled, WorkspaceMutations, CoreMethods, PushMethods, StreamMethods,
         TaskMethods

Names == {"lifecycle", "control", "listing", "providers", "workspace", "interrupt_query",
          "interrupt_callback"}
Checks == {"params", "payload", "capability", "routing", "claim", "call"}

\* The order of the checks, s being the next one of a handler and B those it has
\* made: the call and the claim are made once, before the call the request has
\* passed every check the handler has, and the answer comes after it.
InOrder(name, s, B) ==
  /\ s \in Checks \cup {"settle", "reply", "interrupt"}
  /\ s \in Checks => "call" \notin B
  /\ s \in Checks \ {"call"} => "claim" \notin B
  /\ s \in {"call", "settle", "reply"} =>
       /\ "params" \in B
       /\ name # "workspace" => "routing" \in B
       /\ name = "workspace" => "routing" \notin B
       /\ name \in {"workspace", "control"} => "capability" \in B
       /\ name = "control" => "payload" \in B
       /\ name \in {"lifecycle", "control"} <=> "claim" \in B
  /\ s \in {"settle", "reply"} => "call" \in B
  /\ s = "settle" => name \in {"lifecycle", "control"}
  /\ s = "reply" => name \in {"listing", "providers", "workspace"}
  /\ s = "interrupt" => name \in {"interrupt_query", "interrupt_callback"} /\ B = {}

LEMMA StepsOrder ==
  ASSUME NEW name \in Names, NEW i \in 1..Len(Steps(name))
  PROVE  /\ InOrder(name, Steps(name)[i], {Steps(name)[j] : j \in 1..i-1})
         /\ Steps(name)[i] \in Checks <=> i < Len(Steps(name))
  <1> DEFINE s == Steps(name)[i]
             B == {Steps(name)[j] : j \in 1..i-1}
             Goal == InOrder(name, s, B) /\ (s \in Checks <=> i < Len(Steps(name)))
  <1> SUFFICES Goal OBVIOUS
  <1>1. CASE name = "lifecycle"
    <2> DEFINE w == <<"params", "routing", "claim", "call", "settle">>
    <2>1. Steps(name) = w /\ Len(w) = 5 BY <1>1 DEF Steps
    <2>2. w[1] = "params" /\ w[2] = "routing" /\ w[3] = "claim" /\ w[4] = "call" /\ w[5] = "settle"
      OBVIOUS
    <2> HIDE DEF w
    <2>3. i \in 1..5 BY <2>1
    <2>4. CASE i = 1
      <3>1. B = {} BY <2>1, <2>2, <2>4
      <3>2. s = "params" BY <2>1, <2>2, <2>4
      <3>3. s \in Checks <=> i < Len(Steps(name)) BY <2>1, <2>4, <3>2 DEF Checks
      <3> HIDE DEF s, B
      <3>4. InOrder(name, s, B) BY <1>1, <3>1, <3>2 DEF InOrder, Checks
      <3> QED BY <3>3, <3>4
    <2>5. CASE i = 2
      <3>1. B = {"params"} BY <2>1, <2>2, <2>5
      <3>2. s = "routing" BY <2>1, <2>2, <2>5
      <3>3. s \in Checks <=> i < Len(Steps(name)) BY <2>1, <2>5, <3>2 DEF Checks
      <3> HIDE DEF s, B
      <3>4. InOrder(name, s, B) BY <1>1, <3>1, <3>2 DEF InOrder, Checks
      <3> QED BY <3>3, <3>4
    <2>6. CASE i = 3
      <3>1. B = {"params", "routing"} BY <2>1, <2>2, <2>6
      <3>2. s = "claim" BY <2>1, <2>2, <2>6
      <3>3. s \in Checks <=> i < Len(Steps(name)) BY <2>1, <2>6, <3>2 DEF Checks
      <3> HIDE DEF s, B
      <3>4. InOrder(name, s, B) BY <1>1, <3>1, <3>2 DEF InOrder, Checks
      <3> QED BY <3>3, <3>4
    <2>7. CASE i = 4
      <3>1. B = {"params", "routing", "claim"} BY <2>1, <2>2, <2>7
      <3>2. s = "call" BY <2>1, <2>2, <2>7
      <3>3. s \in Checks <=> i < Len(Steps(name)) BY <2>1, <2>7, <3>2 DEF Checks
      <3> HIDE DEF s, B
      <3>4. InOrder(name, s, B) BY <1>1, <3>1, <3>2 DEF InOrder, Checks
      <3> QED BY <3>3, <3>4
    <2>8. CASE i = 5
      <3>1. B = {"params", "routing", "claim", "call"} BY <2>1, <2>2, <2>8
      <3>2. s = "settle" BY <2>1, <2>2, <2>8
      <3>3. s \in Checks <=> i < Len(Steps(name)) BY <2>1, <2>8, <3>2 DEF Checks
      <3> HIDE DEF s, B
      <3>4. InOrder(name, s, B) BY <1>1, <3>1, <3>2 DEF InOrder, Checks
      <3> QED BY <3>3, <3>4
    <2> HIDE DEF Goal
    <2> QED BY <2>3, <2>4, <2>5, <2>6, <2>7, <2>8
  <1>2. CASE name = "control"
    <2> DEFINE w == <<"params", "capability", "payload", "routing", "claim", "call", "settle">>
    <2>1. Steps(name) = w /\ Len(w) = 7 BY <1>2 DEF Steps
    <2>2. w[1] = "params" /\ w[2] = "capability" /\ w[3] = "payload" /\ w[4] = "routing"
          /\ w[5] = "claim" /\ w[6] = "call" /\ w[7] = "settle"
      OBVIOUS
    <2> HIDE DEF w
    <2>3. i \in 1..7 BY <2>1
    <2>4. CASE i = 1
      <3>1. B = {} BY <2>1, <2>2, <2>4
      <3>2. s = "params" BY <2>1, <2>2, <2>4
      <3>3. s \in Checks <=> i < Len(Steps(name)) BY <2>1, <2>4, <3>2 DEF Checks
      <3> HIDE DEF s, B
      <3>4. InOrder(name, s, B) BY <1>2, <3>1, <3>2 DEF InOrder, Checks
      <3> QED BY <3>3, <3>4
    <2>5. CASE i = 2
      <3>1. B = {"params"} BY <2>1, <2>2, <2>5
      <3>2. s = "capability" BY <2>1, <2>2, <2>5
      <3>3. s \in Checks <=> i < Len(Steps(name)) BY <2>1, <2>5, <3>2 DEF Checks
      <3> HIDE DEF s, B
      <3>4. InOrder(name, s, B) BY <1>2, <3>1, <3>2 DEF InOrder, Checks
      <3> QED BY <3>3, <3>4
    <2>6. CASE i = 3
      <3>1. B = {"params", "capability"} BY <2>1, <2>2, <2>6
      <3>2. s = "payload" BY <2>1, <2>2, <2>6
      <3>3. s \in Checks <=> i < Len(Steps(name)) BY <2>1, <2>6, <3>2 DEF Checks
      <3> HIDE DEF s, B
      <3>4. InOrder(name, s, B) BY <1>2, <3>1, <3>2 DEF InOrder, Checks
      <3> QED BY <3>3, <3>4
    <2>7. CASE i = 4
      <3>1. B = {"params", "capability", "payload"} BY <2>1, <2>2, <2>7
      <3>2. s = "routing" BY <2>1, <2>2, <2>7
      <3>3. s \in Checks <=> i < Len(Steps(name)) BY <2>1, <2>7, <3>2 DEF Checks
      <3> HIDE DEF s, B
      <3>4. InOrder(name, s, B) BY <1>2, <3>1, <3>2 DEF InOrder, Checks
      <3> QED BY <3>3, <3>4
    <2>8. CASE i = 5
      <3>1. B = {"params", "capability", "payload", "routing"} BY <2>1, <2>2, <2>8
      <3>2. s = "claim" BY <2>1, <2>2, <2>8
      <3>3. s \in Checks <=> i < Len(Steps(name)) BY <2>1, <2>8, <3>2 DEF Checks
      <3> HIDE DEF s, B
      <3>4. InOrder(name, s, B) BY <1>2, <3>1, <3>2 DEF InOrder, Checks
      <3> QED BY <3>3, <3>4
    <2>9. CASE i = 6
      <3>1. B = {"params", "capability", "payload", "routing", "claim"} BY <2>1, <2>2, <2>9
      <3>2. s = "call" BY <2>1, <2>2, <2>9
      <3>3. s \in Checks <=> i < Len(Steps(name)) BY <2>1, <2>9, <3>2 DEF Checks
      <3> HIDE DEF s, B
      <3>4. InOrder(name, s, B) BY <1>2, <3>1, <3>2 DEF InOrder, Checks
      <3> QED BY <3>3, <3>4
    <2>10. CASE i = 7
      <3>1. B = {"params", "capability", "payload", "routing", "claim", "call"}
        BY <2>1, <2>2, <2>10
      <3>2. s = "settle" BY <2>1, <2>2, <2>10
      <3>3. s \in Checks <=> i < Len(Steps(name)) BY <2>1, <2>10, <3>2 DEF Checks
      <3> HIDE DEF s, B
      <3>4. InOrder(name, s, B) BY <1>2, <3>1, <3>2 DEF InOrder, Checks
      <3> QED BY <3>3, <3>4
    <2> HIDE DEF Goal
    <2> QED BY <2>3, <2>4, <2>5, <2>6, <2>7, <2>8, <2>9, <2>10
  <1>3. CASE name \in {"listing", "providers"}
    <2> DEFINE w == <<"params", "routing", "call", "reply">>
    <2>1. Steps(name) = w /\ Len(w) = 4 BY <1>3 DEF Steps
    <2>2. w[1] = "params" /\ w[2] = "routing" /\ w[3] = "call" /\ w[4] = "reply" OBVIOUS
    <2> HIDE DEF w
    <2>3. i \in 1..4 BY <2>1
    <2>4. CASE i = 1
      <3>1. B = {} BY <2>1, <2>2, <2>4
      <3>2. s = "params" BY <2>1, <2>2, <2>4
      <3>3. s \in Checks <=> i < Len(Steps(name)) BY <2>1, <2>4, <3>2 DEF Checks
      <3> HIDE DEF s, B
      <3>4. InOrder(name, s, B) BY <1>3, <3>1, <3>2 DEF InOrder, Checks
      <3> QED BY <3>3, <3>4
    <2>5. CASE i = 2
      <3>1. B = {"params"} BY <2>1, <2>2, <2>5
      <3>2. s = "routing" BY <2>1, <2>2, <2>5
      <3>3. s \in Checks <=> i < Len(Steps(name)) BY <2>1, <2>5, <3>2 DEF Checks
      <3> HIDE DEF s, B
      <3>4. InOrder(name, s, B) BY <1>3, <3>1, <3>2 DEF InOrder, Checks
      <3> QED BY <3>3, <3>4
    <2>6. CASE i = 3
      <3>1. B = {"params", "routing"} BY <2>1, <2>2, <2>6
      <3>2. s = "call" BY <2>1, <2>2, <2>6
      <3>3. s \in Checks <=> i < Len(Steps(name)) BY <2>1, <2>6, <3>2 DEF Checks
      <3> HIDE DEF s, B
      <3>4. InOrder(name, s, B) BY <1>3, <3>1, <3>2 DEF InOrder, Checks
      <3> QED BY <3>3, <3>4
    <2>7. CASE i = 4
      <3>1. B = {"params", "routing", "call"} BY <2>1, <2>2, <2>7
      <3>2. s = "reply" BY <2>1, <2>2, <2>7
      <3>3. s \in Checks <=> i < Len(Steps(name)) BY <2>1, <2>7, <3>2 DEF Checks
      <3> HIDE DEF s, B
      <3>4. InOrder(name, s, B) BY <1>3, <3>1, <3>2 DEF InOrder, Checks
      <3> QED BY <3>3, <3>4
    <2> HIDE DEF Goal
    <2> QED BY <2>3, <2>4, <2>5, <2>6, <2>7
  <1>4. CASE name = "workspace"
    <2> DEFINE w == <<"capability", "params", "call", "reply">>
    <2>1. Steps(name) = w /\ Len(w) = 4 BY <1>4 DEF Steps
    <2>2. w[1] = "capability" /\ w[2] = "params" /\ w[3] = "call" /\ w[4] = "reply" OBVIOUS
    <2> HIDE DEF w
    <2>3. i \in 1..4 BY <2>1
    <2>4. CASE i = 1
      <3>1. B = {} BY <2>1, <2>2, <2>4
      <3>2. s = "capability" BY <2>1, <2>2, <2>4
      <3>3. s \in Checks <=> i < Len(Steps(name)) BY <2>1, <2>4, <3>2 DEF Checks
      <3> HIDE DEF s, B
      <3>4. InOrder(name, s, B) BY <1>4, <3>1, <3>2 DEF InOrder, Checks
      <3> QED BY <3>3, <3>4
    <2>5. CASE i = 2
      <3>1. B = {"capability"} BY <2>1, <2>2, <2>5
      <3>2. s = "params" BY <2>1, <2>2, <2>5
      <3>3. s \in Checks <=> i < Len(Steps(name)) BY <2>1, <2>5, <3>2 DEF Checks
      <3> HIDE DEF s, B
      <3>4. InOrder(name, s, B) BY <1>4, <3>1, <3>2 DEF InOrder, Checks
      <3> QED BY <3>3, <3>4
    <2>6. CASE i = 3
      <3>1. B = {"capability", "params"} BY <2>1, <2>2, <2>6
      <3>2. s = "call" BY <2>1, <2>2, <2>6
      <3>3. s \in Checks <=> i < Len(Steps(name)) BY <2>1, <2>6, <3>2 DEF Checks
      <3> HIDE DEF s, B
      <3>4. InOrder(name, s, B) BY <1>4, <3>1, <3>2 DEF InOrder, Checks
      <3> QED BY <3>3, <3>4
    <2>7. CASE i = 4
      <3>1. B = {"capability", "params", "call"} BY <2>1, <2>2, <2>7
      <3>2. s = "reply" BY <2>1, <2>2, <2>7
      <3>3. s \in Checks <=> i < Len(Steps(name)) BY <2>1, <2>7, <3>2 DEF Checks
      <3> HIDE DEF s, B
      <3>4. InOrder(name, s, B) BY <1>4, <3>1, <3>2 DEF InOrder, Checks
      <3> QED BY <3>3, <3>4
    <2> HIDE DEF Goal
    <2> QED BY <2>3, <2>4, <2>5, <2>6, <2>7
  <1>5. CASE name \in {"interrupt_query", "interrupt_callback"}
    <2> DEFINE w == <<"interrupt">>
    <2>1. Steps(name) = w /\ Len(w) = 1 BY <1>5 DEF Steps
    <2>2. w[1] = "interrupt" OBVIOUS
    <2> HIDE DEF w
    <2>3. i \in 1..1 BY <2>1
    <2>4. CASE i = 1
      <3>1. B = {} BY <2>1, <2>2, <2>4
      <3>2. s = "interrupt" BY <2>1, <2>2, <2>4
      <3>3. s \in Checks <=> i < Len(Steps(name)) BY <2>1, <2>4, <3>2 DEF Checks
      <3> HIDE DEF s, B
      <3>4. InOrder(name, s, B) BY <1>5, <3>1, <3>2 DEF InOrder, Checks
      <3> QED BY <3>3, <3>4
    <2> HIDE DEF Goal
    <2> QED BY <2>3, <2>4
  <1> HIDE DEF Goal
  <1> QED BY <1>1, <1>2, <1>3, <1>4, <1>5 DEF Names

\* A handler's checks are a sequence of these, and there is at least one.
LEMMA StepsType ==
  ASSUME NEW name \in Names
  PROVE  /\ Steps(name) \in Seq(Checks \cup {"settle", "reply", "interrupt"})
         /\ Len(Steps(name)) \in Nat /\ Len(Steps(name)) >= 1
  <1> DEFINE S == Checks \cup {"settle", "reply", "interrupt"}
  <1>1. {"params", "payload", "capability", "routing", "claim", "call", "settle", "reply",
         "interrupt"} \subseteq S
    BY DEF Checks
  <1> HIDE DEF S
  <1>2. CASE name = "lifecycle"
    <2> DEFINE w == <<"params", "routing", "claim", "call", "settle">>
    <2>1. w \in Seq(S) /\ Len(w) = 5 BY <1>1
    <2>2. Steps(name) = w BY <1>2 DEF Steps
    <2> HIDE DEF w
    <2> QED BY <2>1, <2>2 DEF S
  <1>3. CASE name = "control"
    <2> DEFINE w == <<"params", "capability", "payload", "routing", "claim", "call", "settle">>
    <2>1. w \in Seq(S) /\ Len(w) = 7 BY <1>1
    <2>2. Steps(name) = w BY <1>3 DEF Steps
    <2> HIDE DEF w
    <2> QED BY <2>1, <2>2 DEF S
  <1>4. CASE name \in {"listing", "providers"}
    <2> DEFINE w == <<"params", "routing", "call", "reply">>
    <2>1. w \in Seq(S) /\ Len(w) = 4 BY <1>1
    <2>2. Steps(name) = w BY <1>4 DEF Steps
    <2> HIDE DEF w
    <2> QED BY <2>1, <2>2 DEF S
  <1>5. CASE name = "workspace"
    <2> DEFINE w == <<"capability", "params", "call", "reply">>
    <2>1. w \in Seq(S) /\ Len(w) = 4 BY <1>1
    <2>2. Steps(name) = w BY <1>5 DEF Steps
    <2> HIDE DEF w
    <2> QED BY <2>1, <2>2 DEF S
  <1>6. CASE name \in {"interrupt_query", "interrupt_callback"}
    <2> DEFINE w == <<"interrupt">>
    <2>1. w \in Seq(S) /\ Len(w) = 1 BY <1>1
    <2>2. Steps(name) = w BY <1>6 DEF Steps
    <2> HIDE DEF w
    <2> QED BY <2>1, <2>2 DEF S
  <1> QED BY <1>2, <1>3, <1>4, <1>5, <1>6 DEF Names, S

\* What is left of a sequence, and what is left one element later.
LEMMA RestFacts ==
  ASSUME NEW S, NEW s \in Seq(S), NEW i \in 1..Len(s)
  PROVE  LET t == SubSeq(s, i, Len(s))
         IN /\ t # <<>> /\ Head(t) = s[i] /\ Last(t) = s[Len(s)]
            /\ i < Len(s) => Tail(t) = SubSeq(s, i + 1, Len(s)) /\ i + 1 \in 1..Len(s)
  <1> DEFINE t == SubSeq(s, i, Len(s))
             n == Len(s) - i + 1
  <1>1. t \in Seq(S) /\ Len(t) = n /\ n \in Nat /\ n >= 1 OBVIOUS
  <1>2. t[1] = s[i] /\ t[n] = s[Len(s)] OBVIOUS
  <1>3. i < Len(s) => Tail(t) = SubSeq(s, i + 1, Len(s)) /\ i + 1 \in 1..Len(s) OBVIOUS
  <1> HIDE DEF t, n
  <1>4. t # <<>> BY <1>1
  <1>5. Head(t) = t[1] /\ Last(t) = t[n] BY <1>1, <1>4 DEF Last
  <1> QED BY <1>2, <1>3, <1>4, <1>5 DEF t

-----------------------------------------------------------------------------
(* The invariant *)

\* The checks of its handler that a request has passed when i is the next one.
Before(i) == {Steps(Handler)[j] : j \in 1..i-1}

\* The request is one for an extension that was negotiated.
Admitted == req.parsed /\ IsExtension(req.method) /\ Negotiated(Resolve(req.method))

\* The checks in P let the request through; routing settled its scope, its claim
\* is one that may be used, and what was sent is the call.
Granted(P) ==
  /\ "params" \in P => ParamsOk(req.method, req.params)
  /\ "payload" \in P => ControlPayload(req.method, req.params)
  /\ "capability" \in P => Needs(req.method) \subseteq req.capabilities
  /\ IF "routing" \in P THEN Route(req.params).ok /\ scope = Route(req.params).scope
                        ELSE scope = Nowhere
  /\ IF "claim" \in P /\ Claims(req.method) THEN claim \in {"pending", "owned"} ELSE claim = None
  /\ IF "call" \in P
     THEN /\ sent = [method |-> req.method, scope |-> SentScope]
          /\ \/ outcome.how \in Failures
             \/ outcome.how = "answered" /\ outcome.payload \in Replies
     ELSE sent = NoCall /\ outcome = NoOutcome

Untouched ==
  scope = Nowhere /\ claim = None /\ sent = NoCall /\ outcome = NoOutcome /\ answer = NoAnswer

\* The request is in its handler and i is its next check.
InHandler(i) ==
  /\ i \in 1..Len(Steps(Handler))
  /\ todo = SubSeq(Steps(Handler), i, Len(Steps(Handler)))
  /\ Granted(Before(i))

\* A request waits, or is about to be dispatched or to go to the task service,
\* and nothing has happened; or it is in its handler, past some of its checks;
\* or it is answered, and what its handler did is as the properties say.
RpcInv ==
  /\ config \in Configs
  /\ \/ todo = <<"receive">> /\ req = NoRequest /\ Untouched
     \/ todo = <<"dispatch">> /\ req \in Requests /\ Untouched
     \/ /\ todo = <<"task">> /\ req \in Requests /\ Untouched
        /\ req.parsed /\ ~IsExtension(req.method) /\ req.method \in TaskMethods \cup StreamMethods
     \/ req \in Requests /\ Admitted /\ answer = NoAnswer /\ \E i \in Nat : InHandler(i)
     \/ todo = <<>> /\ req \in Requests /\ EffectsAllowed /\ OutcomesTold /\ ContractsHold

LEMMA HandlerName == IsExtension(req.method) => Handler \in Names
  BY HandlerKnowsMethod DEF Names

\* A request at one of the checks of its handler.
LEMMA AtCheck ==
  ASSUME RpcInv, NEW step, At(step), step \notin {"receive", "dispatch", "task"}
  PROVE  /\ req \in Requests /\ Admitted /\ answer = NoAnswer
         /\ \E i \in Nat : InHandler(i) /\ Steps(Handler)[i] = step
  <1>1. todo # <<>> /\ Head(todo) = step BY DEF At
  <1>2. /\ todo # <<"receive">> /\ todo # <<"dispatch">> /\ todo # <<"task">>
    BY <1>1
  <1>3. req \in Requests /\ Admitted /\ answer = NoAnswer /\ \E i \in Nat : InHandler(i)
    BY <1>1, <1>2 DEF RpcInv
  <1>4. PICK i \in Nat : InHandler(i) BY <1>3
  <1>5. Handler \in Names BY <1>3, HandlerName DEF Admitted
  <1>6. Head(todo) = Steps(Handler)[i] BY <1>4, <1>5, StepsType, RestFacts DEF InHandler
  <1> QED BY <1>1, <1>3, <1>4, <1>6

\* A request that passes a check goes on to the next one of its handler.
LEMMA PassesCheck ==
  ASSUME RpcInv, req \in Requests, Admitted, answer = NoAnswer,
         NEW i \in Nat, InHandler(i), Steps(Handler)[i] \in Checks, Proceed,
         NEW P, P = Before(i) \cup {Steps(Handler)[i]}, Granted(P)'
  PROVE  RpcInv'
  <1>1. UNCHANGED <<config, req, answer>> /\ todo' = Tail(todo) BY DEF Proceed
  <1>2. Handler \in Names BY HandlerName DEF Admitted
  <1>3. Handler' = Handler /\ Admitted'
    BY <1>1 DEF Handler, Admitted, Resolve, IsExtension, Negotiated
  <1>4. i \in 1..Len(Steps(Handler)) BY DEF InHandler
  <1>5. i < Len(Steps(Handler)) BY <1>2, <1>4, StepsOrder
  <1>6. todo' = SubSeq(Steps(Handler), i + 1, Len(Steps(Handler))) /\ i + 1 \in 1..Len(Steps(Handler))
    BY <1>1, <1>2, <1>4, <1>5, StepsType, RestFacts DEF InHandler
  <1>7. Before(i + 1)' = P BY <1>2, <1>3, <1>4, StepsType DEF Before
  <1>8. InHandler(i + 1)' BY <1>3, <1>6, <1>7 DEF InHandler
  <1> QED BY <1>1, <1>3, <1>8 DEF RpcInv

\* An answer that is given before anything was sent.
LEMMA AnsweredEarly ==
  ASSUME config \in Configs, req \in Requests, sent = NoCall, outcome = NoOutcome,
         UNCHANGED <<config, req, sent, outcome>>, claim' \in {None, "refused"}, todo' = <<>>,
         NEW kind \in {"result", "empty", "error", "stream"}, NEW type, NEW items,
         answer' = [kind |-> kind, type |-> type, items |-> items],
         kind = "result" => req.method \in CoreMethods \cup InterruptQueries \cup InterruptCallbacks,
         type # "SESSION_NOT_FOUND",
         req.parsed /\ req.id =>
           ((type = "METHOD_NOT_SUPPORTED") <=> req.method \notin SupportedMethods(config))
  PROVE  RpcInv'
  <1>1. answer'.kind = kind /\ answer'.type = type /\ answer' # NoAnswer BY DEF NoAnswer, None
  <1>2. TypeOK'
    <2>1. outcome'.how = None BY DEF NoOutcome
    <2>2. DOMAIN req' = DOMAIN NoRequest BY JsonRpcAssumption
    <2> QED BY <1>1, <2>1, <2>2 DEF TypeOK
  <1>3. ~Called' BY DEF Called
  <1>4. EffectsAllowed'
    BY <1>2, <1>3 DEF EffectsAllowed, EffectsAuthorized, RefusedIsUnsent, ScopeContained
  <1>5. ClaimSettled' BY DEF ClaimSettled, None
  <1>6. AnswerTellsOutcome'
    <2>1. outcome'.how \notin Failures BY DEF NoOutcome, None, Failures
    <2> QED BY <1>1, <2>1 DEF AnswerTellsOutcome
  <1>7. ListingWithinLimit'
    <2>1. "list_sessions" \notin CoreMethods \cup InterruptQueries \cup InterruptCallbacks
      BY DEF CoreMethods, PushMethods, StreamMethods, TaskMethods, InterruptQueries,
             InterruptCallbacks
    <2> QED BY <1>1, <2>1 DEF ListingWithinLimit
  <1>8. RequiredIsRequired' /\ ModelsAreComplete'
    BY <1>3 DEF RequiredIsRequired, ModelsAreComplete
  <1>9. SupportedMethods(config)' = SupportedMethods(config)
    BY DEF SupportedMethods, Enabled, MayWrite
  <1>10. SupportedIsDispatched' BY <1>1, <1>9 DEF SupportedIsDispatched
  <1> QED BY <1>2, <1>4, <1>5, <1>6, <1>7, <1>8, <1>10 DEF RpcInv, OutcomesTold, ContractsHold

\* The same for a request in its handler: its method is known.
LEMMA RefusedEarly ==
  ASSUME config \in Configs, req \in Requests, Admitted, NEW P, Granted(P), "call" \notin P,
         (claim' = claim /\ "claim" \notin P) \/ claim' = "refused", UNCHANGED <<sent, outcome>>,
         NEW type, type \notin {"SESSION_NOT_FOUND", "METHOD_NOT_SUPPORTED"}, Error(type)
  PROVE  RpcInv'
  <1>1. req.method \in SupportedMethods(config) BY HandlerKnowsMethod DEF Admitted
  <1>2. sent = NoCall /\ outcome = NoOutcome /\ claim' \in {None, "refused"} BY DEF Granted
  <1>3. /\ answer' = [kind |-> "error", type |-> type, items |-> 0] /\ todo' = <<>>
        /\ UNCHANGED <<config, req>>
    BY DEF Error, Reply
  <1> QED BY <1>1, <1>2, <1>3, AnsweredEarly

\* A request in its handler is at one of the handler's checks.
LEMMA NotInHandler ==
  ASSUME Admitted, NEW i \in Nat, InHandler(i), Head(todo) \in {"receive", "dispatch", "task"}
  PROVE  FALSE
  <1>1. Handler \in Names BY HandlerName DEF Admitted
  <1>2. Head(todo) = Steps(Handler)[i] BY <1>1, StepsType, RestFacts DEF InHandler
  <1>3. Steps(Handler)[i] \in Checks \cup {"settle", "reply", "interrupt"}
    BY <1>1, StepsType DEF InHandler
  <1> QED BY <1>2, <1>3 DEF Checks

LEMMA ReceiveKeeps == RpcInv /\ Receive => RpcInv'
  <1> SUFFICES ASSUME RpcInv, Receive PROVE RpcInv' OBVIOUS
  <1>1. todo # <<>> /\ Head(todo) = "receive" BY DEF Receive
  <1>2. todo # <<"dispatch">> /\ todo # <<"task">> BY <1>1
  <1>3. config \in Configs /\ Untouched BY <1>1, <1>2, NotInHandler DEF RpcInv
  <1>4. Untouched' /\ config' \in Configs BY <1>3 DEF Receive, Untouched
  <1>5. req' \in Requests /\ todo' = <<"dispatch">> BY DEF Receive
  <1> QED BY <1>4, <1>5 DEF RpcInv

LEMMA DoneKeeps == RpcInv /\ Done => RpcInv'
  BY DEF RpcInv, Done, Untouched

\* A request at the dispatcher is untouched.
LEMMA AtDispatch ==
  ASSUME RpcInv, At("dispatch")
  PROVE  config \in Configs /\ req \in Requests /\ Untouched
  <1>1. todo # <<>> /\ Head(todo) = "dispatch" BY DEF At
  <1>2. todo # <<"receive">> /\ todo # <<"task">> BY <1>1
  <1> QED BY <1>1, <1>2, NotInHandler DEF RpcInv

LEMMA DispatchKeeps == RpcInv /\ Dispatch => RpcInv'
  <1> SUFFICES ASSUME RpcInv, Dispatch PROVE RpcInv' OBVIOUS
  <1> DEFINE spec == Resolve(req.method)
  <1>1. config \in Configs /\ req \in Requests /\ Untouched BY AtDispatch DEF Dispatch
  <1>2. req.parsed /\ IsExtension(req.method) /\ UNCHANGED handling BY DEF Dispatch
  <1>3. req.method \in SupportedMethods(config) BY <1>2, HandlerKnowsMethod
  <1>4. ASSUME NEW type, type \in {"UNSUPPORTED_OPERATION", "INVALID_PARAMS"}, Error(type)
        PROVE  RpcInv'
    BY <1>1, <1>2, <1>3, <1>4, AnsweredEarly DEF Error, Reply, Untouched, handling
  <1>5. ASSUME Negotiated(spec), todo' = Steps(spec.name), UNCHANGED <<config, req, answer>>
        PROVE  RpcInv'
    <2>1. Handler \in Names /\ Handler = spec.name BY <1>2, HandlerName DEF Handler
    <2>2. Handler' = Handler /\ Admitted' /\ Admitted
      BY <1>2, <1>5 DEF Handler, Admitted, Resolve, IsExtension, Negotiated
    <2>3. Steps(Handler) = SubSeq(Steps(Handler), 1, Len(Steps(Handler))) /\ 1 \in 1..Len(Steps(Handler))
      BY <2>1, StepsType
    <2>4. Before(1)' = {} BY DEF Before
    <2>5. Granted({})' BY <1>1, <1>2 DEF Granted, Untouched, handling
    <2>6. InHandler(1)' BY <1>5, <2>1, <2>2, <2>3, <2>4, <2>5 DEF InHandler
    <2>7. answer' = NoAnswer BY <1>1, <1>5 DEF Untouched
    <2> QED BY <1>1, <1>5, <2>2, <2>6, <2>7 DEF RpcInv
  <1> QED BY <1>4, <1>5 DEF Dispatch

LEMMA MalformedKeeps == RpcInv /\ Malformed => RpcInv'
  <1> SUFFICES ASSUME RpcInv, Malformed PROVE RpcInv' OBVIOUS
  <1>1. config \in Configs /\ req \in Requests /\ Untouched BY AtDispatch DEF Malformed
  <1> QED BY <1>1, AnsweredEarly DEF Malformed, Error, Reply, Untouched, handling

LEMMA CoreRequestKeeps == RpcInv /\ CoreRequest => RpcInv'
  <1> SUFFICES ASSUME RpcInv, CoreRequest PROVE RpcInv' OBVIOUS
  <1> DEFINE m == req.method
  <1>1. config \in Configs /\ req \in Requests /\ Untouched BY AtDispatch DEF CoreRequest
  <1>2. req.parsed /\ ~IsExtension(m) /\ UNCHANGED handling BY DEF CoreRequest
  <1>3. sent = NoCall /\ outcome = NoOutcome /\ UNCHANGED <<sent, outcome>> /\ claim' = None
    BY <1>1, <1>2 DEF Untouched, handling
  <1>4. m \in CoreMethods => m \in SupportedMethods(config) BY CoreIsSupported
  <1>5. m \notin CoreMethods => m \notin SupportedMethods(config) BY <1>2, SupportedIsKnown
  <1>6. CASE m \in PushMethods /\ Error("PUSH_NOTIFICATION_NOT_SUPPORTED")
    <2>1. m \in CoreMethods BY <1>6 DEF CoreMethods
    <2> QED BY <1>1, <1>3, <1>4, <1>6, <2>1, AnsweredEarly DEF Error, Reply
  <1>7. CASE m = "GetExtendedAgentCard" /\ Success(1)
    <2>1. m \in CoreMethods BY <1>7 DEF CoreMethods
    <2>2. None \notin {"SESSION_NOT_FOUND", "METHOD_NOT_SUPPORTED"} BY DEF None
    <2> QED BY <1>1, <1>3, <1>4, <1>7, <2>1, <2>2, AnsweredEarly DEF Success, Reply
  <1>8. CASE m \notin CoreMethods
             /\ IF req.id THEN Error("METHOD_NOT_SUPPORTED") ELSE Reply("empty", None, 0)
    <2>1. None # "SESSION_NOT_FOUND" BY DEF None
    <2> QED BY <1>1, <1>3, <1>5, <1>8, <2>1, AnsweredEarly DEF Error, Reply
  <1>9. CASE m \in TaskMethods \cup StreamMethods /\ Error("INVALID_PARAMS")
    <2>1. m \in CoreMethods BY <1>9 DEF CoreMethods
    <2> QED BY <1>1, <1>3, <1>4, <1>9, <2>1, AnsweredEarly DEF Error, Reply
  <1>10. CASE /\ m \in TaskMethods \cup StreamMethods /\ todo' = <<"task">>
              /\ UNCHANGED <<config, req, answer>>
    <2>1. ~IsExtension(req.method)' BY <1>2, <1>10 DEF IsExtension
    <2> QED BY <1>1, <1>2, <1>10, <2>1 DEF RpcInv, Untouched, handling
  <1> QED BY <1>6, <1>7, <1>8, <1>9, <1>10 DEF CoreRequest

LEMMA CoreAnswerKeeps == RpcInv /\ CoreAnswer => RpcInv'
  <1> SUFFICES ASSUME RpcInv, CoreAnswer PROVE RpcInv' OBVIOUS
  <1>0. todo # <<>> /\ Head(todo) = "task" BY DEF CoreAnswer, At
  <1>1. todo # <<"receive">> /\ todo # <<"dispatch">> BY <1>0
  <1>3. config \in Configs /\ req \in Requests /\ Untouched /\ req.method \in TaskMethods \cup StreamMethods
    BY <1>0, <1>1, NotInHandler DEF RpcInv
  <1>4. req.method \in CoreMethods BY <1>3 DEF CoreMethods
  <1>5. req.method \in SupportedMethods(config) BY <1>4, CoreIsSupported
  <1>6. sent = NoCall /\ outcome = NoOutcome /\ UNCHANGED <<sent, outcome>> /\ claim' = None
    BY <1>3 DEF CoreAnswer, Untouched, handling
  <1>7. None \notin {"SESSION_NOT_FOUND", "METHOD_NOT_SUPPORTED"} BY DEF None
  <1>8. CASE Reply("stream", None, 0) BY <1>3, <1>5, <1>6, <1>7, <1>8, AnsweredEarly DEF Reply
  <1>9. CASE Success(1) BY <1>3, <1>4, <1>5, <1>6, <1>7, <1>9, AnsweredEarly DEF Success, Reply
  <1>10. CASE Error("TASK_ERROR") BY <1>3, <1>5, <1>6, <1>10, AnsweredEarly DEF Error, Reply
  <1> QED BY <1>8, <1>9, <1>10 DEF CoreAnswer

LEMMA InterruptAnswerKeeps == RpcInv /\ InterruptAnswer => RpcInv'
  <1> SUFFICES ASSUME RpcInv, InterruptAnswer PROVE RpcInv' OBVIOUS
  <1>1. At("interrupt") /\ UNCHANGED handling /\ config \in Configs BY DEF InterruptAnswer, RpcInv
  <1>2. /\ req \in Requests /\ Admitted
        /\ \E i \in Nat : InHandler(i) /\ Steps(Handler)[i] = "interrupt"
    BY <1>1, AtCheck
  <1>3. PICK i \in Nat : InHandler(i) /\ Steps(Handler)[i] = "interrupt" BY <1>2
  <1>4. Handler \in Names BY <1>2, HandlerName DEF Admitted
  <1>5. Before(i) = {} /\ Handler \in {"interrupt_query", "interrupt_callback"}
    BY <1>3, <1>4, StepsOrder DEF InHandler, InOrder, Before
  <1>6. req.method \in InterruptQueries \cup InterruptCallbacks /\ req.method \in SupportedMethods(config)
    BY <1>2, <1>5, HandlerKnowsMethod DEF Admitted
  <1>7. sent = NoCall /\ outcome = NoOutcome /\ UNCHANGED <<sent, outcome>> /\ claim' = None
    BY <1>1, <1>3, <1>5 DEF InHandler, Granted, handling
  <1>8. None \notin {"SESSION_NOT_FOUND", "METHOD_NOT_SUPPORTED"} BY DEF None
  <1>9. CASE Success(0) BY <1>1, <1>2, <1>6, <1>7, <1>8, <1>9, AnsweredEarly DEF Success, Reply
  <1>10. CASE Error("INVALID_PARAMS")
    BY <1>1, <1>2, <1>6, <1>7, <1>10, AnsweredEarly DEF Error, Reply
  <1>11. CASE Error("INTERRUPT_ERROR")
    BY <1>1, <1>2, <1>6, <1>7, <1>11, AnsweredEarly DEF Error, Reply
  <1> QED BY <1>9, <1>10, <1>11 DEF InterruptAnswer

\* What the model computes of a request is the same after a step that keeps it.
LEMMA SameRequest ==
  ASSUME UNCHANGED <<config, req>>
  PROVE  /\ Handler' = Handler
         /\ ParamsOk(req.method, req.params)' = ParamsOk(req.method, req.params)
         /\ Route(req.params)' = Route(req.params)
         /\ Claims(req.method)' = Claims(req.method)
         /\ Resolve(req.method)' = Resolve(req.method)
         /\ SupportedMethods(config)' = SupportedMethods(config)
         /\ scope' = scope => SentScope' = SentScope
  <1>1. Handler' = Handler /\ Resolve(req.method)' = Resolve(req.method) BY DEF Handler, Resolve
  <1>2. ParamsOk(req.method, req.params)' = ParamsOk(req.method, req.params) BY <1>1 DEF ParamsOk
  <1>3. RequestedDirectory(req.params)' = RequestedDirectory(req.params)
    BY <1>1 DEF RequestedDirectory
  <1>4. \A text : ResolveDirectory(text)' = ResolveDirectory(text) BY DEF ResolveDirectory
  <1>5. Route(req.params)' = Route(req.params) BY <1>3, <1>4 DEF Route
  <1>6. Claims(req.method)' = Claims(req.method) BY DEF Claims
  <1>7. scope' = scope => SentScope' = SentScope BY DEF SentScope
  <1> QED BY <1>1, <1>2, <1>5, <1>6, <1>7

\* A check that answers the request or passes it on.
LEMMA CheckKeeps ==
  ASSUME RpcInv, NEW step \in {"params", "payload", "capability", "routing"}, At(step),
         UNCHANGED <<claim, sent, outcome>>, NEW ok \in BOOLEAN,
         NEW type, type \notin {"SESSION_NOT_FOUND", "METHOD_NOT_SUPPORTED"}, Pass(ok, type),
         ok => /\ step = "params" => ParamsOk(req.method, req.params)
               /\ step = "payload" => ControlPayload(req.method, req.params)
               /\ step = "capability" => Needs(req.method) \subseteq req.capabilities
               /\ IF step = "routing"
                  THEN Route(req.params).ok /\ scope' = Route(req.params).scope
                  ELSE scope' = scope
  PROVE  RpcInv'
  <1>1. /\ req \in Requests /\ Admitted /\ answer = NoAnswer /\ config \in Configs
        /\ \E i \in Nat : InHandler(i) /\ Steps(Handler)[i] = step
    BY AtCheck DEF RpcInv
  <1>2. PICK i \in Nat : InHandler(i) /\ Steps(Handler)[i] = step BY <1>1
  <1>3. Handler \in Names BY <1>1, HandlerName DEF Admitted
  <1>a. PICK P : P = Before(i) OBVIOUS
  <1>4. Granted(P) /\ "claim" \notin P /\ "call" \notin P
    BY <1>a, <1>2, <1>3, StepsOrder DEF InHandler, InOrder, Before, Checks
  <1>5. CASE ok
    <2>1. Proceed /\ UNCHANGED <<config, req>> BY <1>5 DEF Pass, Proceed
    <2>2. PICK Q : Q = P \cup {step} OBVIOUS
    <2>3. /\ "claim" \notin Q /\ "call" \notin Q
          /\ "params" \in Q => "params" \in P \/ step = "params"
          /\ "payload" \in Q => "payload" \in P \/ step = "payload"
          /\ "capability" \in Q => "capability" \in P \/ step = "capability"
          /\ "routing" \in Q <=> "routing" \in P \/ step = "routing"
      BY <1>4, <2>2
    <2>4. Granted(Q)' BY <1>4, <1>5, <2>1, <2>3, SameRequest DEF Granted
    <2> QED BY <1>a, <1>1, <1>2, <2>1, <2>2, <2>4, PassesCheck DEF Checks
  <1>6. CASE ~ok
    <2>1. Error(type) BY <1>6 DEF Pass
    <2> QED BY <1>1, <1>4, <2>1, RefusedEarly
  <1> QED BY <1>5, <1>6

LEMMA ChecksKeep ==
  RpcInv /\ (CheckParams \/ CheckPayload \/ CheckCapability \/ ResolveRouting) => RpcInv'
  <1>1. ASSUME RpcInv, CheckParams PROVE RpcInv'
    <2>1. At("params") /\ UNCHANGED <<claim, sent, outcome>> /\ scope' = scope
          /\ Pass(ParamsOk(req.method, req.params), "INVALID_PARAMS")
      BY <1>1 DEF CheckParams, handling
    <2>2. PICK ok \in BOOLEAN : ok <=> ParamsOk(req.method, req.params) OBVIOUS
    <2>3. Pass(ok, "INVALID_PARAMS") BY <2>1, <2>2 DEF Pass
    <2> QED BY <1>1, <2>1, <2>2, <2>3, CheckKeeps
  <1>2. ASSUME RpcInv, CheckPayload PROVE RpcInv'
    <2>1. At("payload") /\ UNCHANGED <<claim, sent, outcome>> /\ scope' = scope
          /\ Pass(ControlPayload(req.method, req.params), "INVALID_PARAMS")
      BY <1>2 DEF CheckPayload, handling
    <2>2. PICK ok \in BOOLEAN : ok <=> ControlPayload(req.method, req.params) OBVIOUS
    <2>3. Pass(ok, "INVALID_PARAMS") BY <2>1, <2>2 DEF Pass
    <2> QED BY <1>2, <2>1, <2>2, <2>3, CheckKeeps
  <1>3. ASSUME RpcInv, CheckCapability PROVE RpcInv'
    <2>1. At("capability") /\ UNCHANGED <<claim, sent, outcome>> /\ scope' = scope
          /\ Pass(Needs(req.method) \subseteq req.capabilities, "AUTHORIZATION_FORBIDDEN")
      BY <1>3 DEF CheckCapability, handling
    <2>2. PICK ok \in BOOLEAN : ok <=> Needs(req.method) \subseteq req.capabilities OBVIOUS
    <2>3. Pass(ok, "AUTHORIZATION_FORBIDDEN") BY <2>1, <2>2 DEF Pass
    <2> QED BY <1>3, <2>1, <2>2, <2>3, CheckKeeps
  <1>4. ASSUME RpcInv, ResolveRouting PROVE RpcInv'
    <2>1. /\ At("routing") /\ UNCHANGED <<claim, sent, outcome>>
          /\ Pass(Route(req.params).ok, "INVALID_PARAMS")
          /\ Route(req.params).ok => scope' = Route(req.params).scope
      BY <1>4 DEF ResolveRouting
    <2>2. PICK ok \in BOOLEAN : ok <=> Route(req.params).ok OBVIOUS
    <2>3. Pass(ok, "INVALID_PARAMS") BY <2>1, <2>2 DEF Pass
    <2> QED BY <1>4, <2>1, <2>2, <2>3, CheckKeeps
  <1> QED BY <1>1, <1>2, <1>3, <1>4

LEMMA EnterClaimKeeps == RpcInv /\ EnterClaim => RpcInv'
  <1> SUFFICES ASSUME RpcInv, EnterClaim PROVE RpcInv' OBVIOUS
  <1>1. At("claim") /\ UNCHANGED <<scope, sent, outcome>> /\ config \in Configs
    BY DEF EnterClaim, RpcInv
  <1>2. /\ req \in Requests /\ Admitted /\ answer = NoAnswer
        /\ \E i \in Nat : InHandler(i) /\ Steps(Handler)[i] = "claim"
    BY <1>1, AtCheck
  <1>3. PICK i \in Nat : InHandler(i) /\ Steps(Handler)[i] = "claim" BY <1>2
  <1>4. Handler \in Names BY <1>2, HandlerName DEF Admitted
  <1>5. PICK P : P = Before(i) OBVIOUS
  <1>6. Granted(P) /\ "call" \notin P
    BY <1>3, <1>4, <1>5, StepsOrder DEF InHandler, InOrder, Before, Checks
  <1>7. ASSUME NEW type, type \in {"SESSION_FORBIDDEN", "INTERNAL_ERROR"}, Error(type), claim' = "refused"
        PROVE  RpcInv'
    BY <1>1, <1>2, <1>6, <1>7, RefusedEarly
  <1>8. ASSUME Proceed, IF Claims(req.method) THEN claim' \in {"pending", "owned"} ELSE claim' = claim
        PROVE  RpcInv'
    <2>1. PICK Q : Q = P \cup {"claim"} OBVIOUS
    <2>2. /\ "claim" \in Q /\ "claim" \notin P
          /\ \A s \in {"params", "payload", "capability", "routing", "call"} : s \in Q <=> s \in P
      BY <1>3, <1>4, <1>5, <2>1, StepsOrder DEF InHandler, InOrder, Before, Checks
    <2>3. UNCHANGED <<config, req>> BY <1>8 DEF Proceed
    <2>4. claim = None BY <1>6, <2>2 DEF Granted
    <2>5. Granted(Q)' BY <1>1, <1>6, <1>8, <2>2, <2>3, <2>4, SameRequest DEF Granted
    <2> QED BY <1>2, <1>3, <1>5, <1>8, <2>1, <2>5, PassesCheck DEF Checks
  <1> QED BY <1>7, <1>8 DEF EnterClaim

LEMMA CallUpstreamKeeps == RpcInv /\ CallUpstream => RpcInv'
  <1> SUFFICES ASSUME RpcInv, CallUpstream PROVE RpcInv' OBVIOUS
  <1>1. At("call") /\ UNCHANGED <<scope, claim>> /\ Proceed BY DEF CallUpstream
  <1>2. /\ req \in Requests /\ Admitted /\ answer = NoAnswer
        /\ \E i \in Nat : InHandler(i) /\ Steps(Handler)[i] = "call"
    BY <1>1, AtCheck
  <1>3. PICK i \in Nat : InHandler(i) /\ Steps(Handler)[i] = "call" BY <1>2
  <1>4. PICK P : P = Before(i) OBVIOUS
  <1>5. PICK Q : Q = P \cup {"call"} OBVIOUS
  <1>6. /\ "call" \in Q
        /\ \A s \in {"params", "payload", "capability", "routing", "claim"} : s \in Q <=> s \in P
    BY <1>5
  <1>7. UNCHANGED <<config, req>> BY <1>1 DEF Proceed
  <1>8. sent' = [method |-> req'.method, scope |-> SentScope']
    BY <1>1, <1>7, SameRequest DEF CallUpstream
  <1>9. \/ outcome'.how \in Failures
        \/ outcome'.how = "answered" /\ outcome'.payload \in Replies
    BY DEF CallUpstream
  <1>10. Granted(P) BY <1>3, <1>4 DEF InHandler
  <1>11. Granted(Q)' BY <1>1, <1>6, <1>7, <1>8, <1>9, <1>10, SameRequest DEF Granted
  <1> QED BY <1>1, <1>2, <1>3, <1>4, <1>5, <1>11, PassesCheck DEF Checks

\* A request about to be answered for a call that was made.
CallAllowed ==
  /\ req.method \in SupportedMethods(config) \ CoreMethods
  /\ Resolve(req.method).uri \in req.extensions
  /\ Needs(req.method) \subseteq req.capabilities
  /\ IF Claims(req.method) THEN claim \in {"pending", "owned"} ELSE claim = None
  /\ Called /\ ScopeContained /\ RequiredIsRequired /\ ModelsAreComplete
  /\ req.method = "list_sessions" => ListSessionsParams(req.params)
  /\ req.method \in SessionControls \cup SessionMutations \cup (SessionReads \ {"status"})
                    \cup {"get_session_messages"} =>
       NonBlank(Get(req.params, "session_id"))
  /\ \/ outcome.how \in Failures
     \/ outcome.how = "answered" /\ outcome.payload \in Replies

LEMMA TextIsThere ==
  ASSUME NEW v, NonBlank(v) PROVE ~IsNull(v)
  BY DEF NonBlank, IsText, IsNull

\* Each method has one contract.
LEMMA PublishedIs ==
  ASSUME NEW m
  PROVE  /\ m \in SessionReads \cup SessionListings => PublishedContract(m) = SessionReadContract(m)
         /\ m \in SessionControls => PublishedContract(m) = SessionControlContract(m)
         /\ m \in SessionMutations => PublishedContract(m) = SessionMutationContract(m)
         /\ m \in ProviderMethods => PublishedContract(m) = ProviderContract(m)
         /\ m \in WorkspaceReads \cup WorkspaceMutations =>
              PublishedContract(m) = WorkspaceContract(m)
  <1> USE DEF SessionReads, SessionListings, SessionControls, SessionMutations, ProviderMethods,
              WorkspaceReads, WorkspaceMutations
  <1>1. CASE m \in SessionReads \cup SessionListings BY <1>1 DEF PublishedContract
  <1>2. CASE m \in SessionControls BY <1>2 DEF PublishedContract
  <1>3. CASE m \in SessionMutations BY <1>3 DEF PublishedContract
  <1>4. CASE m \in ProviderMethods BY <1>4 DEF PublishedContract
  <1>5. CASE m \in WorkspaceReads \cup WorkspaceMutations BY <1>5 DEF PublishedContract
  <1> QED BY <1>1, <1>2, <1>3, <1>4, <1>5

\* The lifecycle handler asks for what the contracts of its methods require.
LEMMA LifecycleRequires ==
  ASSUME NEW m \in SessionReads \cup SessionMutations, NEW p, LifecycleParams(m, p)
  PROVE  /\ m # "status" => NonBlank(Get(p, "session_id"))
         /\ \A path \in PublishedContract(m).required : ~IsNull(GetPath(p, path))
  <1> DEFINE R == PublishedContract(m).required
             body == Get(p, "request")
  <1>1. m # "status" => NonBlank(Get(p, "session_id")) BY DEF LifecycleParams
  <1>2. GetPath(p, <<"session_id">>) = Get(p, "session_id") BY GetPath1
  <1>3. CASE m = "status"
    <2>1. R = {} BY <1>3, PublishedIs DEF SessionReads, SessionReadContract, Contract
    <2> QED BY <1>1, <2>1
  <1>4. CASE m = "get_session_message"
    <2>1. R = {<<"session_id">>, <<"message_id">>}
      BY <1>4, PublishedIs DEF SessionReads, SessionReadContract, Contract, Sid
    <2>2. ~IsNull(Get(p, "message_id")) BY <1>4, TextIsThere DEF LifecycleParams
    <2>3. GetPath(p, <<"message_id">>) = Get(p, "message_id") BY GetPath1
    <2> HIDE DEF R
    <2> QED BY <1>1, <1>2, <1>4, <2>1, <2>2, <2>3, TextIsThere DEF R
  <1>5. CASE m = "revert"
    <2>1. R = Sid \cup Body({"messageID"})
      BY <1>5, PublishedIs DEF SessionMutations, SessionMutationContract, Contract
    <2>2. ~IsNull(Get(body, "messageID")) BY <1>5, TextIsThere DEF LifecycleParams, RevertRequest
    <2>3. GetPath(p, <<"request", "messageID">>) = Get(body, "messageID") BY GetPath2
    <2> HIDE DEF R, body
    <2>4. R = {<<"session_id">>, <<"request", "messageID">>} BY <2>1 DEF Sid, Body
    <2> QED BY <1>1, <1>2, <1>5, <2>2, <2>3, <2>4, TextIsThere DEF R
  <1>6. CASE m \notin {"status", "get_session_message", "revert"}
    <2>1. R = Sid
      <3>1. CASE m \in SessionReads
        <4>1. m \notin {"list_sessions", "get_session_messages"} BY <3>1 DEF SessionReads
        <4>2. PublishedContract(m) = SessionReadContract(m) BY <3>1, PublishedIs
        <4> QED BY <1>6, <4>1, <4>2 DEF SessionReadContract, Contract
      <3>2. CASE m \notin SessionReads
        <4>1. PublishedContract(m) = SessionMutationContract(m) BY <3>2, PublishedIs
        <4> QED BY <1>6, <4>1 DEF SessionMutationContract, Contract
      <3> QED BY <3>1, <3>2
    <2> HIDE DEF R
    <2> QED BY <1>1, <1>2, <1>6, <2>1, TextIsThere DEF R, Sid
  <1> QED BY <1>3, <1>4, <1>5, <1>6

\* So does the session control handler, and a model that is named is complete.
LEMMA ControlRequires ==
  ASSUME NEW m \in SessionControls, NEW p, ControlParams(p), ControlPayload(m, p)
  PROVE  /\ NonBlank(Get(p, "session_id"))
         /\ \A path \in PublishedContract(m).required : ~IsNull(GetPath(p, path))
         /\ LET model == GetPath(p, <<"request", "model">>)
            IN IsNull(model) \/ \A f \in {"providerID", "modelID"} : NonBlank(Get(model, f))
  <1> DEFINE R == PublishedContract(m).required
             body == Get(p, "request")
             Complete(B) == /\ OptionalModel(Get(body, "model"))
                            /\ R = Sid \cup Body(B) /\ \A f \in B : ~IsNull(Get(body, f))
  <1>1. NonBlank(Get(p, "session_id")) BY DEF ControlParams
  <1>2. PublishedContract(m) = SessionControlContract(m) BY PublishedIs
  <1>3. ASSUME m = "prompt_async" PROVE \E B : Complete(B)
    <2>1. R = Sid \cup Body({"parts"}) BY <1>2, <1>3 DEF SessionControlContract, Contract
    <2>2. PromptAsyncRequest(body) BY <1>3 DEF ControlPayload
    <2> HIDE DEF R, body
    <2>3. ~IsNull(Get(body, "parts"))
      BY <2>2 DEF PromptAsyncRequest, PromptParts, PartsArray, IsNull
    <2>4. Complete({"parts"}) BY <2>1, <2>2, <2>3 DEF PromptAsyncRequest
    <2> QED BY <2>4
  <1>4. ASSUME m = "command" PROVE \E B : Complete(B)
    <2>1. R = Sid \cup Body({"command", "arguments"})
      BY <1>2, <1>4 DEF SessionControlContract, Contract
    <2>2. CommandRequest(body) BY <1>4 DEF ControlPayload
    <2> HIDE DEF R, body
    <2>3. \A f \in {"command", "arguments"} : ~IsNull(Get(body, f))
      BY <2>2, TextIsThere DEF CommandRequest
    <2>4. Complete({"command", "arguments"}) BY <2>1, <2>2, <2>3 DEF CommandRequest
    <2> QED BY <2>4
  <1>5. ASSUME m = "shell" PROVE \E B : Complete(B)
    <2>1. R = Sid \cup Body({"agent", "command"})
      BY <1>2, <1>5 DEF SessionControlContract, Contract
    <2>2. ShellRequest(body) BY <1>5 DEF ControlPayload
    <2> HIDE DEF R, body
    <2>3. \A f \in {"agent", "command"} : ~IsNull(Get(body, f))
      BY <2>2, TextIsThere DEF ShellRequest
    <2>4. Complete({"agent", "command"}) BY <2>1, <2>2, <2>3 DEF ShellRequest
    <2> QED BY <2>4
  <1>6. \E B : Complete(B) 
    <2> HIDE DEF Complete
    <2> QED BY <1>3, <1>4, <1>5 DEF SessionControls
  <1>7. PICK B : Complete(B) BY <1>6
  <1> HIDE DEF R, body
  <1>8. ASSUME NEW path \in R PROVE ~IsNull(GetPath(p, path))
    <2>1. CASE path \in Sid
      <3>1. path = <<"session_id">> BY <2>1 DEF Sid
      <3>2. GetPath(p, path) = Get(p, "session_id") BY <3>1, GetPath1
      <3> QED BY <1>1, <3>2, TextIsThere
    <2>2. CASE path \in Body(B)
      <3>1. PICK f \in B : path = <<"request", f>> BY <2>2 DEF Body
      <3>2. GetPath(p, path) = Get(body, f) BY <3>1, GetPath2 DEF body
      <3> QED BY <1>7, <3>2
    <2> QED BY <1>7, <2>1, <2>2
  <1>9. GetPath(p, <<"request", "model">>) = Get(body, "model") BY GetPath2 DEF body
  <1>10. OptionalModel(Get(body, "model")) BY <1>7
  <1>11. \A path \in R : ~IsNull(GetPath(p, path)) BY <1>8
  <1> DEFINE model == GetPath(p, <<"request", "model">>)
  <1>12. IsNull(model) \/ \A f \in {"providerID", "modelID"} : NonBlank(Get(model, f))
    BY <1>9, <1>10 DEF OptionalModel, Optional, ModelRef
  <1> QED BY <1>1, <1>11, <1>12 DEF R

\* So do the handlers of the workspaces, the listings and the providers.
LEMMA WorkspaceRequires ==
  ASSUME NEW m \in WorkspaceReads \cup WorkspaceMutations, NEW p, WorkspaceParams(m, p)
  PROVE  \A path \in PublishedContract(m).required : ~IsNull(GetPath(p, path))
  <1> DEFINE R == PublishedContract(m).required
             body == Get(p, "request")
  <1>0. R = WorkspaceContract(m).required BY PublishedIs
  <1>1. CASE m = "create_workspace"
    <2>1. R = Body({"type"}) BY <1>0, <1>1 DEF WorkspaceContract, Contract
    <2>2. WorkspaceRequest(m, body) BY <1>1 DEF WorkspaceParams, WorkspaceMutations
    <2>3. GetPath(p, <<"request", "type">>) = Get(body, "type") BY GetPath2
    <2> HIDE DEF R, body
    <2>4. ~IsNull(Get(body, "type")) BY <1>1, <2>2, TextIsThere DEF WorkspaceRequest
    <2>5. R = {<<"request", "type">>} BY <2>1 DEF Body
    <2> QED BY <2>3, <2>4, <2>5 DEF R
  <1>2. CASE m = "remove_workspace"
    <2>1. R = {<<"workspace_id">>} BY <1>0, <1>2 DEF WorkspaceContract, Contract
    <2>2. ~IsNull(Get(p, "workspace_id")) BY <1>2, TextIsThere DEF WorkspaceParams
    <2>3. GetPath(p, <<"workspace_id">>) = Get(p, "workspace_id") BY GetPath1
    <2> HIDE DEF R
    <2> QED BY <2>1, <2>2, <2>3 DEF R
  <1>3. CASE m \in {"remove_worktree", "reset_worktree"}
    <2>1. R = Body({"directory"}) BY <1>0, <1>3 DEF WorkspaceContract, Contract
    <2>2. WorkspaceRequest(m, body) BY <1>3 DEF WorkspaceParams, WorkspaceMutations
    <2>3. GetPath(p, <<"request", "directory">>) = Get(body, "directory") BY GetPath2
    <2> HIDE DEF R, body
    <2>4. ~IsNull(Get(body, "directory")) BY <1>3, <2>2, TextIsThere DEF WorkspaceRequest
    <2>5. R = {<<"request", "directory">>} BY <2>1 DEF Body
    <2> QED BY <2>3, <2>4, <2>5 DEF R
  <1>4. CASE m \notin {"create_workspace", "remove_workspace", "remove_worktree", "reset_worktree"}
    <2>1. R = {} BY <1>0, <1>4 DEF WorkspaceContract, Contract
    <2> QED BY <2>1
  <1> QED BY <1>1, <1>2, <1>3, <1>4

LEMMA ListingRequires ==
  ASSUME NEW m \in SessionListings, NEW p, m = "list_sessions" \/ SessionMessagesParams(p)
  PROVE  \A path \in PublishedContract(m).required : ~IsNull(GetPath(p, path))
  <1> DEFINE R == PublishedContract(m).required
  <1>0. R = SessionReadContract(m).required BY PublishedIs
  <1>1. CASE m = "list_sessions"
    <2>1. R = {} BY <1>0, <1>1 DEF SessionReadContract, Contract
    <2> QED BY <2>1
  <1>2. CASE m = "get_session_messages"
    <2>1. R = Sid BY <1>0, <1>2 DEF SessionReadContract, Contract
    <2>2. ~IsNull(Get(p, "session_id")) BY <1>2, TextIsThere DEF SessionMessagesParams
    <2>3. GetPath(p, <<"session_id">>) = Get(p, "session_id") BY GetPath1
    <2> HIDE DEF R
    <2> QED BY <2>1, <2>2, <2>3 DEF R, Sid
  <1> QED BY <1>1, <1>2 DEF SessionListings

LEMMA ProvidersRequire ==
  ASSUME NEW m \in ProviderMethods PROVE PublishedContract(m).required = {}
  BY PublishedIs DEF ProviderContract, Contract

\* Each handler has its methods to itself.
LEMMA OtherHandlers ==
  ASSUME NEW m
  PROVE  /\ m \in SessionReads \cup SessionMutations =>
              m \notin SessionListings \cup SessionControls \cup ProviderMethods
                         \cup WorkspaceReads \cup WorkspaceMutations
         /\ m \in SessionControls =>
              m \notin SessionListings \cup SessionReads \cup SessionMutations \cup ProviderMethods
                         \cup WorkspaceReads \cup WorkspaceMutations
         /\ m \in SessionListings \cup ProviderMethods \cup WorkspaceReads \cup WorkspaceMutations =>
              m \notin SessionReads \cup SessionMutations \cup SessionControls
         /\ m \in ProviderMethods \cup WorkspaceReads \cup WorkspaceMutations =>
              m \notin SessionListings
         /\ m \in SessionListings => m \in {"list_sessions", "get_session_messages"}
         /\ m \in {"list_sessions", "get_session_messages"} => m \in SessionListings
         /\ m \in SessionReads \cup SessionListings \cup ProviderMethods =>
              m \notin WorkspaceMutations /\ m # "shell"
         /\ "shell" \in SessionControls /\ "fork" \in SessionMutations
  BY DEF SessionReads, SessionMutations, SessionListings, SessionControls, ProviderMethods,
         WorkspaceReads, WorkspaceMutations

\* A request whose checks are all passed and whose call is made is one of those.
LEMMA CallIsAllowed ==
  ASSUME config \in Configs, req \in Requests, Admitted, NEW i \in Nat, InHandler(i),
         Steps(Handler)[i] \in {"settle", "reply"}
  PROVE  CallAllowed
  <1> DEFINE m == req.method
             p == req.params
  <1>1. Handler \in Names /\ IsExtension(m) BY HandlerName DEF Admitted
  <1>2. PICK P : P = Before(i) OBVIOUS
  <1>3. Granted(P) /\ InOrder(Handler, Steps(Handler)[i], P)
    BY <1>1, <1>2, StepsOrder DEF InHandler, Before
  <1>4. /\ "params" \in P /\ "call" \in P
        /\ Handler # "workspace" => "routing" \in P
        /\ Handler = "workspace" => "routing" \notin P
        /\ Handler \in {"workspace", "control"} => "capability" \in P
        /\ Handler = "control" => "payload" \in P
        /\ Handler \in {"lifecycle", "control"} <=> "claim" \in P
        /\ Handler \in {"lifecycle", "control", "listing", "providers", "workspace"}
    BY <1>3 DEF InOrder
  <1>5. /\ m \in SupportedMethods(config) \ CoreMethods
        /\ \/ Handler = "lifecycle" /\ m \in SessionReads \cup SessionMutations
           \/ Handler = "control" /\ m \in SessionControls
           \/ Handler = "listing" /\ m \in SessionListings
           \/ Handler = "providers" /\ m \in ProviderMethods
           \/ Handler = "workspace" /\ m \in WorkspaceReads \cup WorkspaceMutations
    BY <1>1, <1>4, HandlerKnowsMethod
  <1>6. ParamsOk(m, p) BY <1>3, <1>4 DEF Granted
  <1>7. Resolve(m).uri \in req.extensions BY DEF Admitted, Negotiated
  <1>8. Needs(m) \subseteq req.capabilities
    <2>1. CASE Handler \in {"workspace", "control"} BY <1>3, <1>4, <2>1 DEF Granted
    <2>2. CASE Handler \notin {"workspace", "control"}
      <3>1. m \notin WorkspaceMutations /\ m # "shell" BY <1>5, <2>2, OtherHandlers
      <3> QED BY <3>1 DEF Needs
    <2> QED BY <2>1, <2>2
  <1>9. IF Claims(m) THEN claim \in {"pending", "owned"} ELSE claim = None
    <2>1. Claims(m) => "claim" \in P BY <1>4, <1>5, OtherHandlers DEF Claims
    <2> QED BY <1>3, <2>1 DEF Granted
  <1>10. /\ sent = [method |-> m, scope |-> SentScope]
         /\ \/ outcome.how \in Failures
            \/ outcome.how = "answered" /\ outcome.payload \in Replies
    <2>1. Granted(P) /\ "call" \in P BY <1>3, <1>4
    <2> QED BY <2>1 DEF Granted
  <1>11. Called
    <2>1. m # None
      BY <1>5 DEF None, SessionReads, SessionMutations, SessionListings, SessionControls,
                  ProviderMethods, WorkspaceReads, WorkspaceMutations
    <2>2. sent.method = m /\ NoCall.method = None BY <1>10 DEF NoCall
    <2> HIDE DEF m
    <2> QED BY <2>1, <2>2 DEF Called
  <1>12. ScopeContained
    <2> DEFINE d == sent.scope.directory
    <2>1. sent.scope = SentScope BY <1>10
    <2>2. ASSUME d # <<>>
          PROVE  /\ RealPath(d) = d
                 /\ IF config.override THEN IsWithin(d, Base) ELSE d = Base
                 /\ sent.scope.workspace = <<>>
      <3>1. sent.scope.directory = scope.directory /\ sent.scope = scope
        <4>1. CASE m = "get_session_messages"
          <5>1. "directory" \in DOMAIN scope
            <6>1. Handler # "workspace" BY <1>5, <4>1, OtherHandlers
            <6>2. scope = Route(p).scope BY <1>3, <1>4, <6>1 DEF Granted
            <6> QED BY <6>2 DEF Route
          <5>2. d = <<>> BY <2>1, <4>1, <5>1 DEF SentScope
          <5> QED BY <2>2, <5>2
        <4>2. CASE m # "get_session_messages" BY <2>1, <4>2 DEF SentScope
        <4> QED BY <4>1, <4>2
      <3>2. Handler # "workspace"
        <4> SUFFICES ASSUME Handler = "workspace" PROVE FALSE OBVIOUS
        <4>1. scope = Nowhere BY <1>3, <1>4 DEF Granted
        <4> QED BY <2>2, <3>1, <4>1 DEF Nowhere
      <3>3. Route(p).ok /\ scope = Route(p).scope BY <1>3, <1>4, <3>2 DEF Granted
      <3> QED BY <2>2, <3>1, <3>3, RouteContained
    <2> QED BY <2>2 DEF ScopeContained
  <1> DEFINE Required == \A path \in PublishedContract(m).required : ~IsNull(GetPath(p, path))
             Listed == m = "list_sessions" => ListSessionsParams(p)
             Named == m \in SessionControls \cup SessionMutations \cup (SessionReads \ {"status"})
                              \cup {"get_session_messages"} => NonBlank(Get(p, "session_id"))
             model == GetPath(p, <<"request", "model">>)
             Complete == m \in SessionControls =>
               IsNull(model) \/ \A f \in {"providerID", "modelID"} : NonBlank(Get(model, f))
             ParamsTell == Required /\ Listed /\ Named /\ Complete
  <1>13. ASSUME Handler = "lifecycle" PROVE ParamsTell
    <2>1. m \in SessionReads \cup SessionMutations BY <1>5, <1>13
    <2>2. LifecycleParams(m, p) BY <1>6, <1>13, <2>1, OtherHandlers DEF ParamsOk
    <2>3. m # "list_sessions" /\ m \notin SessionControls /\ m # "get_session_messages"
      BY <2>1, OtherHandlers
    <2>4. m = "status" => m \notin SessionMutations BY DEF SessionMutations
    <2>5. Required /\ (m # "status" => NonBlank(Get(p, "session_id")))
      BY <2>1, <2>2, LifecycleRequires
    <2> QED BY <2>3, <2>4, <2>5
  <1>14. ASSUME Handler = "control" PROVE ParamsTell
    <2>1. m \in SessionControls BY <1>5, <1>14
    <2>2. ControlParams(p) BY <1>6, <1>14, <2>1, OtherHandlers DEF ParamsOk
    <2>3. ControlPayload(m, p) BY <1>3, <1>4, <1>14 DEF Granted
    <2>4. m # "list_sessions" BY <2>1, OtherHandlers
    <2>5. Required /\ Complete /\ NonBlank(Get(p, "session_id"))
      BY <2>1, <2>2, <2>3, ControlRequires
    <2> QED BY <2>4, <2>5
  <1>15. ASSUME Handler = "listing" PROVE ParamsTell
    <2>1. m \in SessionListings BY <1>5, <1>15
    <2>2. IF m = "list_sessions" THEN ListSessionsParams(p) ELSE SessionMessagesParams(p)
      BY <1>6, <1>15 DEF ParamsOk
    <2>3. Required BY <2>1, <2>2, ListingRequires
    <2>4. m \notin SessionReads \cup SessionMutations \cup SessionControls BY <2>1, OtherHandlers
    <2>5. m # "list_sessions" => NonBlank(Get(p, "session_id")) BY <2>2 DEF SessionMessagesParams
    <2> QED BY <2>2, <2>3, <2>4, <2>5
  <1>16. ASSUME Handler \in {"providers", "workspace"} PROVE ParamsTell
    <2>1. m \in ProviderMethods \cup WorkspaceReads \cup WorkspaceMutations BY <1>5, <1>16
    <2>2. /\ m \notin SessionReads \cup SessionMutations \cup SessionControls
          /\ m \notin {"list_sessions", "get_session_messages"}
      BY <2>1, OtherHandlers
    <2>3. CASE Handler = "providers"
      <3>1. m \in ProviderMethods BY <1>5, <2>3
      <3> QED BY <2>2, <3>1, ProvidersRequire
    <2>4. CASE Handler = "workspace"
      <3>1. m \in WorkspaceReads \cup WorkspaceMutations BY <1>5, <2>4
      <3>2. WorkspaceParams(m, p) BY <1>6, <2>2, <2>4 DEF ParamsOk
      <3>3. Required BY <3>1, <3>2, WorkspaceRequires
      <3> QED BY <2>2, <3>3
    <2> QED BY <1>16, <2>3, <2>4
  <1>17. ParamsTell
    <2> HIDE DEF ParamsTell
    <2> QED BY <1>4, <1>13, <1>14, <1>15, <1>16
  <1>18. RequiredIsRequired BY <1>17 DEF RequiredIsRequired
  <1>19. ModelsAreComplete BY <1>17 DEF ModelsAreComplete
  <1> QED BY <1>5, <1>7, <1>8, <1>9, <1>10, <1>11, <1>12, <1>17, <1>18, <1>19 DEF CallAllowed

\* What a listing answers is within the limit that was asked for.
LEMMA ListingFits ==
  ASSUME NEW v \in Replies, req.method = "list_sessions", ListSessionsParams(req.params)
  PROVE  LET asked == Get(req.params, "limit")
             n == AnsweredItems(req.method, v)
         IN /\ n <= MaxLimit
            /\ IsNull(asked) => n <= DefaultLimit
            /\ ~IsNull(asked) => n <= asked.n
  <1> DEFINE asked == Get(req.params, "limit")
             limit == Limit(asked)
             found == Mappable(v, HasId)
             n == AnsweredItems(req.method, v)
  <1>1. limit # NotANumber BY DEF ListSessionsParams, PageOk
  <1>2. DefaultLimit \in Nat /\ MaxLimit \in Nat /\ DefaultLimit <= MaxLimit BY JsonRpcAssumption
  <1>3. IF IsNull(asked) THEN limit = DefaultLimit ELSE limit = asked.n /\ limit \in 1..MaxLimit
    BY <1>1, <1>2 DEF Limit, ParsedInt, NotANumber
  <1>4. limit \in Nat /\ limit <= MaxLimit BY <1>2, <1>3
  <1>5. found \in Nat
    <2>1. IsFiniteSet(DOMAIN v.items) BY JsonRpcAssumption
    <2> DEFINE M == {j \in DOMAIN v.items : HasId(v.items[j])}
    <2>2. M \subseteq DOMAIN v.items OBVIOUS
    <2> HIDE DEF M
    <2>3. Cardinality(M) \in Nat BY <2>1, <2>2, FS_Subset, FS_CardinalityType
    <2> QED BY <2>3 DEF M, Mappable
  <1>6. n = IF found <= limit THEN found ELSE limit BY DEF AnsweredItems
  <1> HIDE DEF asked, limit, found, n
  <1>7. n <= limit /\ n \in Nat BY <1>4, <1>5, <1>6
  <1>8. n <= MaxLimit /\ (IsNull(asked) => n <= DefaultLimit) BY <1>2, <1>3, <1>4, <1>7
  <1>9. ~IsNull(asked) => n <= asked.n BY <1>3, <1>7
  <1> QED BY <1>8, <1>9 DEF asked, n

\* An answer that is given after the call was made.
LEMMA AnsweredCalled ==
  ASSUME config \in Configs, req \in Requests, CallAllowed,
         UNCHANGED <<config, req, scope, sent, outcome>>, todo' = <<>>,
         NEW kind \in {"result", "empty", "error", "raised"}, NEW type, NEW items,
         answer' = [kind |-> kind, type |-> type, items |-> items],
         type \notin {"UNSUPPORTED_OPERATION", "METHOD_NOT_SUPPORTED", "INVALID_PARAMS",
                      "AUTHORIZATION_FORBIDDEN"},
         claim' \in {None, "owned", "finalized", "released", "stuck"},
         Claims(req.method) => claim' # None,
         claim' = "finalized" =>
           outcome.how = "answered" /\ SessionShape(req.method, outcome.payload),
         claim' \in {"released", "stuck"} => kind = "error",
         type = "SESSION_FORBIDDEN" => claim' \in {"released", "stuck"} \/ req.method = "fork",
         type = "SESSION_NOT_FOUND" =>
           outcome.how = "not_found" /\ NonBlank(Get(req.params, "session_id")),
         kind \in {"result", "empty"} =>
           outcome.how = "answered" /\ items = AnsweredItems(req.method, outcome.payload),
         kind = "raised" => outcome.how = "answered"
  PROVE  RpcInv'
  <1>1. answer'.kind = kind /\ answer'.type = type /\ answer'.items = items /\ answer' # NoAnswer
    BY DEF NoAnswer, None
  <1>2. /\ Handler' = Handler /\ SupportedMethods(config)' = SupportedMethods(config)
        /\ Resolve(req.method)' = Resolve(req.method) /\ Claims(req.method)' = Claims(req.method)
    BY SameRequest
  <1>3. TypeOK'
    <2>1. DOMAIN req' = DOMAIN NoRequest BY JsonRpcAssumption
    <2>2. outcome'.how \in Failures \cup {None, "answered"} BY DEF CallAllowed
    <2> QED BY <1>1, <2>1, <2>2 DEF TypeOK
  <1>4. EffectsAuthorized'
    <2>1. /\ req.method \in SupportedMethods(config) \ CoreMethods
          /\ Resolve(req.method).uri \in req.extensions
          /\ Needs(req.method) \subseteq req.capabilities
      BY DEF CallAllowed
    <2>2. req.method = "shell" => "session_shell" \in req.capabilities BY <2>1 DEF Needs
    <2>3. req.method \in WorkspaceMutations => "workspace_mutation" \in req.capabilities
      BY <2>1 DEF Needs, WorkspaceMutations
    <2>4. req.method \in SessionMutations \cup SessionControls /\ req.identity =>
            claim' \notin {None, "refused"}
      BY DEF Claims, None
    <2> QED BY <1>2, <2>1, <2>2, <2>3, <2>4 DEF EffectsAuthorized
  <1>5. RefusedIsUnsent' BY <1>1 DEF RefusedIsUnsent
  <1>6. ScopeContained' BY DEF CallAllowed, ScopeContained, Called
  <1>7. ClaimSettled' BY <1>1 DEF ClaimSettled, None
  <1>8. AnswerTellsOutcome'
    <2>1. outcome.how \in Failures => kind = "error" BY DEF Failures
    <2> QED BY <1>1, <2>1 DEF AnswerTellsOutcome
  <1>9. ListingWithinLimit'
    <2>1. ASSUME kind = "result", req.method = "list_sessions"
          PROVE  outcome.payload \in Replies /\ ListSessionsParams(req.params)
                 /\ items = AnsweredItems(req.method, outcome.payload)
      BY <2>1 DEF CallAllowed, Failures
    <2> QED BY <1>1, <2>1, ListingFits DEF ListingWithinLimit
  <1>10. RequiredIsRequired' /\ ModelsAreComplete'
    BY DEF CallAllowed, RequiredIsRequired, ModelsAreComplete, Called
  <1>11. SupportedIsDispatched' BY <1>1, <1>2 DEF SupportedIsDispatched, CallAllowed
  <1> QED BY <1>3, <1>4, <1>5, <1>6, <1>7, <1>8, <1>9, <1>10, <1>11
          DEF RpcInv, EffectsAllowed, OutcomesTold, ContractsHold

LEMMA TranslateFacts ==
  ASSUME NEW how \in Failures
  PROVE  /\ Translate(how) \in {"SESSION_NOT_FOUND", "UPSTREAM_HTTP_ERROR", "UPSTREAM_UNREACHABLE",
                                "UPSTREAM_PAYLOAD_ERROR", "INTERNAL_ERROR"}
         /\ Translate(how) = "SESSION_NOT_FOUND" =>
              /\ how = "not_found"
              /\ req.method \in SessionControls \cup SessionMutations \cup (SessionReads \ {"status"})
                                  \cup {"get_session_messages"}
  BY DEF Translate, Failures

LEMMA ReplyUnclaimedKeeps == RpcInv /\ ReplyUnclaimed => RpcInv'
  <1> SUFFICES ASSUME RpcInv, ReplyUnclaimed PROVE RpcInv' OBVIOUS
  <1> DEFINE v == outcome.payload
  <1>1. At("reply") /\ UNCHANGED handling /\ config \in Configs BY DEF ReplyUnclaimed, RpcInv
  <1>2. /\ req \in Requests /\ Admitted
        /\ \E i \in Nat : InHandler(i) /\ Steps(Handler)[i] = "reply"
    BY <1>1, AtCheck
  <1>3. PICK i \in Nat : InHandler(i) /\ Steps(Handler)[i] = "reply" BY <1>2
  <1>4. CallAllowed BY <1>1, <1>2, <1>3, CallIsAllowed
  <1>5. claim' = None /\ ~Claims(req.method)
    <2>1. Handler \in Names BY <1>2, HandlerName DEF Admitted
    <2>2. Handler \in {"listing", "providers", "workspace"}
      BY <1>3, <2>1, StepsOrder DEF InHandler, InOrder
    <2>3. ~Claims(req.method)
      BY <1>2, <2>2, HandlerKnowsMethod, OtherHandlers DEF Admitted, Claims
    <2> QED BY <1>1, <1>4, <2>3 DEF CallAllowed, handling
  <1>6. UNCHANGED <<scope, sent, outcome>> BY <1>1 DEF handling
  <1>7. CASE outcome.how # "answered" /\ Error(Translate(outcome.how))
    <2>1. outcome.how \in Failures BY <1>4, <1>7 DEF CallAllowed
    <2>2. UNCHANGED <<config, req>> /\ todo' = <<>>
          /\ answer' = [kind |-> "error", type |-> Translate(outcome.how), items |-> 0]
      BY <1>7 DEF Error, Reply
    <2>3. Translate(outcome.how) = "SESSION_NOT_FOUND" => NonBlank(Get(req.params, "session_id"))
      BY <1>4, <2>1, TranslateFacts DEF CallAllowed
    <2> QED
      BY <1>1, <1>2, <1>4, <1>5, <1>6, <2>1, <2>2, <2>3, TranslateFacts, AnsweredCalled DEF None
  <1>8. CASE outcome.how = "answered" /\ Reply("raised", "HTTP_500", 0)
    BY <1>1, <1>2, <1>4, <1>5, <1>6, <1>8, AnsweredCalled DEF Reply, None
  <1>9. CASE outcome.how = "answered" /\ Success(AnsweredItems(req.method, v))
    BY <1>1, <1>2, <1>4, <1>5, <1>6, <1>9, AnsweredCalled DEF Success, Reply, None
  <1>10. CASE outcome.how = "answered" /\ Error("UPSTREAM_PAYLOAD_ERROR")
    BY <1>1, <1>2, <1>4, <1>5, <1>6, <1>10, AnsweredCalled DEF Error, Reply, None
  <1> QED BY <1>7, <1>8, <1>9, <1>10 DEF ReplyUnclaimed

\* A request at the end of its handler, its call made.
LEMMA AtSettle ==
  ASSUME RpcInv, At("settle")
  PROVE  config \in Configs /\ req \in Requests /\ CallAllowed
  <1>1. config \in Configs BY DEF RpcInv
  <1>2. /\ req \in Requests /\ Admitted
        /\ \E i \in Nat : InHandler(i) /\ Steps(Handler)[i] = "settle"
    BY AtCheck
  <1> QED BY <1>1, <1>2, CallIsAllowed

LEMMA SettleFailedKeeps == RpcInv /\ SettleFailed => RpcInv'
  <1> SUFFICES ASSUME RpcInv, SettleFailed PROVE RpcInv' OBVIOUS
  <1>1. config \in Configs /\ req \in Requests /\ CallAllowed BY AtSettle DEF SettleFailed
  <1>2. /\ claim' \in {None, "owned", "released", "stuck"}
        /\ Claims(req.method) => claim' # None
    BY <1>1 DEF SettleFailed, Release, CallAllowed, None
  <1>3. UNCHANGED <<scope, sent, outcome>> BY DEF SettleFailed
  <1>4. CASE outcome.how # "answered" /\ Error(Translate(outcome.how))
    <2>1. outcome.how \in Failures BY <1>1, <1>4 DEF CallAllowed
    <2>2. UNCHANGED <<config, req>> /\ todo' = <<>>
          /\ answer' = [kind |-> "error", type |-> Translate(outcome.how), items |-> 0]
      BY <1>4 DEF Error, Reply
    <2>3. Translate(outcome.how) = "SESSION_NOT_FOUND" => NonBlank(Get(req.params, "session_id"))
      BY <1>1, <2>1, TranslateFacts DEF CallAllowed
    <2> QED BY <1>1, <1>2, <1>3, <2>1, <2>2, <2>3, TranslateFacts, AnsweredCalled DEF None
  <1>5. CASE outcome.how = "answered" /\ Error("UPSTREAM_PAYLOAD_ERROR")
    BY <1>1, <1>2, <1>3, <1>5, AnsweredCalled DEF Error, Reply, None
  <1> QED BY <1>4, <1>5 DEF SettleFailed

LEMMA SettleOkKeeps == RpcInv /\ SettleOk => RpcInv'
  <1> SUFFICES ASSUME RpcInv, SettleOk PROVE RpcInv' OBVIOUS
  <1> DEFINE final == IF claim = "pending" THEN "finalized" ELSE claim
  <1>1. config \in Configs /\ req \in Requests /\ CallAllowed BY AtSettle DEF SettleOk
  <1>2. outcome.how = "answered" /\ SessionShape(req.method, outcome.payload)
        /\ UNCHANGED <<scope, sent, outcome>>
    BY DEF SettleOk
  <1>3. /\ final \in {None, "owned", "finalized"}
        /\ Claims(req.method) => final # None
    BY <1>1 DEF CallAllowed, None
  <1>4. CASE claim' = final /\ Success(AnsweredItems(req.method, outcome.payload))
    BY <1>1, <1>2, <1>3, <1>4, AnsweredCalled DEF Success, Reply, None
  <1>5. ASSUME claim = "pending", Release, NEW type \in {"SESSION_FORBIDDEN", "INTERNAL_ERROR"}, Error(type)
        PROVE  RpcInv'
    <2>1. claim' \in {"released", "stuck"} BY <1>5 DEF Release
    <2> QED BY <1>1, <1>2, <1>5, <2>1, AnsweredCalled DEF Error, Reply, None
  <1>6. ASSUME req.method = "fork", claim' = final,
               NEW type \in {"SESSION_FORBIDDEN", "INTERNAL_ERROR"}, Error(type)
        PROVE  RpcInv'
    BY <1>1, <1>2, <1>3, <1>6, AnsweredCalled DEF Error, Reply, None
  <1> QED BY <1>4, <1>5, <1>6 DEF SettleOk

-----------------------------------------------------------------------------
(* The properties *)

LEMMA RpcInvInit == Init => RpcInv
  BY DEF Init, RpcInv, Untouched

\* Nothing that is claimed of a request changes when nothing changes.
LEMMA RpcInvStutters ==
  ASSUME RpcInv, UNCHANGED vars
  PROVE  RpcInv'
  <1>1. UNCHANGED <<config, req, todo, scope, claim, sent, outcome, answer>> BY DEF vars
  <1>2. /\ Handler' = Handler /\ SupportedMethods(config)' = SupportedMethods(config)
        /\ Resolve(req.method)' = Resolve(req.method)
        /\ ParamsOk(req.method, req.params)' = ParamsOk(req.method, req.params)
        /\ Route(req.params)' = Route(req.params) /\ SentScope' = SentScope
        /\ Claims(req.method)' = Claims(req.method)
    BY <1>1, SameRequest
  <1>3. Untouched => Untouched' BY <1>1 DEF Untouched
  <1>4. IsExtension(req.method)' <=> IsExtension(req.method) BY <1>1 DEF IsExtension
  <1>5. Admitted => Admitted' BY <1>1, <1>2, <1>4 DEF Admitted, Negotiated
  <1>6. ASSUME NEW i \in Nat, InHandler(i) PROVE InHandler(i)'
    <2>1. PICK P : P = Before(i) OBVIOUS
    <2>2. Granted(P) BY <1>6, <2>1 DEF InHandler
    <2>3. Granted(P)' BY <1>1, <1>2, <2>2 DEF Granted
    <2>4. Before(i)' = P BY <1>2, <2>1 DEF Before
    <2> QED BY <1>1, <1>2, <1>6, <2>3, <2>4 DEF InHandler
  <1>7. EffectsAllowed => EffectsAllowed'
    BY <1>1, <1>2 DEF EffectsAllowed, TypeOK, EffectsAuthorized, RefusedIsUnsent, ScopeContained,
                      Called, Answered
  <1>8. OutcomesTold => OutcomesTold'
    BY <1>1, <1>2 DEF OutcomesTold, ClaimSettled, AnswerTellsOutcome, ListingWithinLimit, Answered
  <1>9. ContractsHold => ContractsHold'
    BY <1>1, <1>2 DEF ContractsHold, RequiredIsRequired, ModelsAreComplete, SupportedIsDispatched,
                      Called, Answered
  <1> QED BY <1>1, <1>3, <1>4, <1>5, <1>6, <1>7, <1>8, <1>9 DEF RpcInv

LEMMA RpcInvNext == RpcInv /\ [Next]_vars => RpcInv'
  BY ReceiveKeeps, DoneKeeps, DispatchKeeps, MalformedKeeps, CoreRequestKeeps, CoreAnswerKeeps,
     InterruptAnswerKeeps, ChecksKeep, EnterClaimKeeps, CallUpstreamKeeps, ReplyUnclaimedKeeps,
     SettleFailedKeeps, SettleOkKeeps, RpcInvStutters
     DEF Next

\* Before its answer a request is as the properties say, too.
LEMMA UnansweredIsFine ==
  ASSUME config \in Configs, DOMAIN req = DOMAIN NoRequest, todo # <<>>, answer = NoAnswer,
         Last(todo) \in {"receive", "dispatch", "task", "interrupt", "reply", "settle"},
         claim \in {None, "pending", "owned"}, (sent = NoCall /\ outcome = NoOutcome) \/ CallAllowed
  PROVE  EffectsAllowed /\ OutcomesTold /\ ContractsHold
  <1>1. ~Answered /\ answer.kind = None /\ answer.kind # "result" BY DEF Answered, NoAnswer, None
  <1>2. TypeOK
    <2>1. outcome.how \in Failures \cup {None, "answered"} BY DEF CallAllowed, NoOutcome
    <2> QED BY <1>1, <2>1 DEF TypeOK
  <1>3. CASE sent = NoCall /\ outcome = NoOutcome
    <2>1. ~Called BY <1>3 DEF Called
    <2> QED BY <1>1, <1>2, <2>1
            DEF EffectsAllowed, EffectsAuthorized, RefusedIsUnsent, ScopeContained, OutcomesTold,
                ClaimSettled, AnswerTellsOutcome, ListingWithinLimit, ContractsHold,
                RequiredIsRequired, ModelsAreComplete, SupportedIsDispatched
  <1>4. CASE CallAllowed
    <2>1. EffectsAuthorized
      <3>1. /\ req.method = "shell" => "session_shell" \in req.capabilities
            /\ req.method \in WorkspaceMutations => "workspace_mutation" \in req.capabilities
        BY <1>4 DEF CallAllowed, Needs, WorkspaceMutations
      <3>2. req.method \in SessionMutations \cup SessionControls /\ req.identity =>
              claim \notin {None, "refused"}
        BY <1>4 DEF CallAllowed, Claims, None
      <3> QED BY <1>4, <3>1, <3>2 DEF EffectsAuthorized, CallAllowed
    <2>2. ScopeContained /\ RequiredIsRequired /\ ModelsAreComplete BY <1>4 DEF CallAllowed
    <2> QED BY <1>1, <1>2, <2>1, <2>2
            DEF EffectsAllowed, RefusedIsUnsent, OutcomesTold, ClaimSettled, AnswerTellsOutcome,
                ListingWithinLimit, ContractsHold, SupportedIsDispatched
  <1> QED BY <1>3, <1>4

LEMMA RpcInvIsFine == RpcInv => EffectsAllowed /\ OutcomesTold /\ ContractsHold
  <1> SUFFICES ASSUME RpcInv PROVE EffectsAllowed /\ OutcomesTold /\ ContractsHold OBVIOUS
  <1>0. config \in Configs /\ (req \in Requests => DOMAIN req = DOMAIN NoRequest)
    BY JsonRpcAssumption DEF RpcInv
  <1>1. ASSUME NEW step \in {"receive", "dispatch", "task"}, todo = <<step>>, Untouched,
               req \in Requests \/ req = NoRequest
        PROVE  EffectsAllowed /\ OutcomesTold /\ ContractsHold
    <2>1. todo # <<>> /\ Last(todo) = step BY <1>1 DEF Last
    <2> QED BY <1>0, <1>1, <2>1, UnansweredIsFine DEF Untouched
  <1>2. ASSUME req \in Requests, Admitted, answer = NoAnswer, NEW i \in Nat, InHandler(i)
        PROVE  EffectsAllowed /\ OutcomesTold /\ ContractsHold
    <2>1. Handler \in Names BY <1>2, HandlerName DEF Admitted
    <2>2. PICK P : P = Before(i) OBVIOUS
    <2>3. Granted(P) /\ InOrder(Handler, Steps(Handler)[i], P) /\ i \in 1..Len(Steps(Handler))
      BY <1>2, <2>1, <2>2, StepsOrder DEF InHandler, Before
    <2>4. todo # <<>> /\ Last(todo) = Steps(Handler)[Len(Steps(Handler))]
      BY <1>2, <2>1, <2>3, StepsType, RestFacts DEF InHandler
    <2>5. Last(todo) \in {"interrupt", "reply", "settle"}
      <3>1. Len(Steps(Handler)) \in 1..Len(Steps(Handler)) BY <2>1, StepsType
      <3>2. Last(todo) \notin Checks
        <4> DEFINE n == Len(Steps(Handler))
        <4>1. n \in 1..n /\ ~(n < n) BY <3>1
        <4>2. Steps(Handler)[n] \in Checks <=> n < Len(Steps(Handler)) BY <2>1, <4>1, StepsOrder
        <4> QED BY <2>4, <4>1, <4>2
      <3>3. Last(todo) \in Checks \cup {"settle", "reply", "interrupt"}
        BY <2>1, <2>4, <3>1, StepsType
      <3> QED BY <3>2, <3>3
    <2>6. claim \in {None, "pending", "owned"} BY <2>3 DEF Granted
    <2>7. CASE "call" \in P
      <3>1. Steps(Handler)[i] \in {"settle", "reply"} BY <2>3, <2>7 DEF InOrder
      <3>2. CallAllowed BY <1>0, <1>2, <3>1, CallIsAllowed
      <3> QED BY <1>0, <1>2, <2>4, <2>5, <2>6, <3>2, UnansweredIsFine
    <2>8. CASE "call" \notin P
      <3>1. sent = NoCall /\ outcome = NoOutcome BY <2>3, <2>8 DEF Granted
      <3> QED BY <1>0, <1>2, <2>4, <2>5, <2>6, <3>1, UnansweredIsFine
    <2> QED BY <2>7, <2>8
  <1> QED BY <1>1, <1>2 DEF RpcInv

LEMMA RpcInvHolds == EndpointSpec => []RpcInv
  <1>1. EndpointInit => RpcInv BY RpcInvInit DEF EndpointInit
  <1>2. RpcInv /\ [EndpointNext]_<<vars, prompts>> => RpcInv'
    BY RpcInvNext DEF EndpointNext
  <1> QED BY <1>1, <1>2, PTL DEF EndpointSpec

\* Whatever a request asks for and whatever the upstream server answers, nothing is
\* sent upstream that the handler's checks have not let through, and it goes to the
\* scope they settled (jsonrpc/handlers/, sandbox_policy.py).
THEOREM EffectsAreAllowed == EndpointSpec => []EffectsAllowed
  BY RpcInvHolds, RpcInvIsFine, PTL

\* The answer tells what happened upstream and the claim on the session is settled
\* by it (session_control.py, session_lifecycle.py, session_query.py).
THEOREM OutcomesAreTold == EndpointSpec => []OutcomesTold
  BY RpcInvHolds, RpcInvIsFine, PTL

\* The handlers ask for what the published contracts require, and the registry
\* dispatches what the endpoint says it supports (catalog.py, dispatch.py).
THEOREM ContractsAreHeld == EndpointSpec => []ContractsHold
  BY RpcInvHolds, RpcInvIsFine, PTL

-----------------------------------------------------------------------------
(* The registry of prompts *)

\* What the repositories keep.
RepoTypes ==
    /\ exp \in [Prompts -> Nat \cup {Never}] /\ tomb \in [Prompts -> Nat \cup {Never}]
    /\ \A r \in Prompts : exp[r] = Never \/ tomb[r] = Never

\* What an operation may do to a request it is not about: nothing, drop its
\* past tombstone, or bury it once its binding has expired.
Swept(r) ==
    \/ exp'[r] = exp[r] /\ tomb'[r] = tomb[r]
    \/ exp'[r] = exp[r] /\ Prompt!Past(tomb[r]) /\ tomb'[r] = Never
    \/ Prompt!Past(exp[r]) /\ exp'[r] = Never /\ tomb'[r] = Prompt!Tombstone

\* Pruning sweeps every request, those buried being overdue (the
\* _prune_interrupt_requests of the in-memory repository, the deletes of the other).
LEMMA PrunedSweeps ==
    ASSUME Prompt!TypeOK, NEW R \in SUBSET Prompt!Overdue, Prompt!Become(Prompt!Pruned(R))
    PROVE  RepoTypes' /\ \A r \in Prompts : Swept(r)
  <1> USE PromptAssumption DEF Prompt!TypeOK, Prompt!Pruned, Prompt!Become
  <1>1. Prompt!Tombstone \in Nat \cup {Never} BY DEF Prompt!Tombstone
  <1>2. exp' = [r \in Prompts |-> IF r \in R THEN Never ELSE exp[r]] OBVIOUS
  <1>3. tomb' = [r \in Prompts |-> IF r \in R THEN Prompt!Tombstone
                                    ELSE IF Prompt!Past(tomb[r]) THEN Never ELSE tomb[r]] OBVIOUS
  <1>4. RepoTypes' BY <1>1, <1>2, <1>3 DEF RepoTypes
  <1>5. ASSUME NEW r \in Prompts PROVE Swept(r)
    <2>1. CASE r \in R BY <2>1, <1>2, <1>3 DEF Swept, Prompt!Overdue
    <2>2. CASE r \notin R BY <2>2, <1>2, <1>3 DEF Swept
    <2> QED BY <2>1, <2>2
  <1> QED BY <1>4, <1>5

\* list_pending() of either repository only sweeps.
LEMMA ListSweeps == Prompt!TypeOK /\ Prompt!ListPending => RepoTypes' /\ \A r \in Prompts : Swept(r)
  BY PrunedSweeps DEF Prompt!ListPending, Prompt!MemoryList, Prompt!DatabaseList

\* resolve() of either repository only sweeps.
LEMMA ResolveSweeps ==
    ASSUME Prompt!TypeOK, NEW r \in Prompts, Prompt!Resolve(r)
    PROVE  RepoTypes' /\ \A q \in Prompts : Swept(q)
  BY PrunedSweeps DEF Prompt!Resolve, Prompt!MemoryResolve, Prompt!DatabaseResolve

\* remember() of either repository binds its request and sweeps the others.
LEMMA RememberBinds ==
    ASSUME Prompt!TypeOK, NEW r \in Prompts, Prompt!Remember(r)
    PROVE  /\ RepoTypes' /\ exp'[r] = now + RequestTTL /\ tomb'[r] = Never
           /\ \A q \in Prompts \ {r} : Swept(q)
  <1> DEFINE s(R) == Prompt!Pruned(R)
             P(R) == /\ exp' = [s(R).exp EXCEPT ![r] = now + RequestTTL]
                     /\ tomb' = [s(R).tomb EXCEPT ![r] = Never]
  <1> USE PromptAssumption DEF Prompt!TypeOK
  <1>1. PICK R \in SUBSET Prompt!Overdue : P(R)
    <2>1. CASE backend = "memory"
      <3>1. P(Prompt!Overdue) BY <2>1 DEF Prompt!Remember, Prompt!MemoryRemember, Prompt!Become
      <3> QED BY <3>1
    <2>2. CASE backend # "memory"
      <3>1. P({}) BY <2>2 DEF Prompt!Remember, Prompt!DatabaseRemember, Prompt!Become
      <3> QED BY <3>1
    <2> QED BY <2>1, <2>2
  <1>2. now + RequestTTL \in Nat OBVIOUS
  <1>3. Prompt!Tombstone \in Nat \cup {Never} BY DEF Prompt!Tombstone
  <1>4. exp' = [q \in Prompts |-> IF q = r THEN now + RequestTTL
                                   ELSE IF q \in R THEN Never ELSE exp[q]]
    BY <1>1 DEF Prompt!Pruned
  <1>5. tomb' = [q \in Prompts |-> IF q = r THEN Never
                                    ELSE IF q \in R THEN Prompt!Tombstone
                                    ELSE IF Prompt!Past(tomb[q]) THEN Never ELSE tomb[q]]
    BY <1>1 DEF Prompt!Pruned
  <1>6. RepoTypes' BY <1>2, <1>3, <1>4, <1>5 DEF RepoTypes
  <1>7. ASSUME NEW q \in Prompts \ {r} PROVE Swept(q)
    <2>1. CASE q \in R BY <2>1, <1>4, <1>5 DEF Swept, Prompt!Overdue
    <2>2. CASE q \notin R BY <2>2, <1>4, <1>5 DEF Swept
    <2> QED BY <2>1, <2>2
  <1> QED BY <1>4, <1>5, <1>6, <1>7

\* discard() forgets its request and nothing else.
LEMMA DiscardForgets ==
    ASSUME Prompt!TypeOK, NEW r \in Prompts, Prompt!Discard(r)
    PROVE  /\ RepoTypes' /\ exp'[r] = Never /\ tomb'[r] = Never
           /\ \A q \in Prompts \ {r} : Swept(q)
  BY DEF Prompt!TypeOK, Prompt!Discard, Prompt!Become, RepoTypes, Swept

\* The operations that only sweep keep what is true of a binding.
LEMMA SweepKeeps ==
    ASSUME Prompt!TypeOK, NEW r \in Prompts, Prompt!BindingTrue(r), Swept(r), now' = now,
           up'[r] = up[r] \/ up'[r] = "closed", up[r] = "unasked" => up'[r] = "unasked",
           heard'[r] = heard[r], due'[r] = due[r]
    PROVE  Prompt!BindingTrue(r)'
  <1> USE PromptAssumption DEF Prompt!TypeOK, Prompt!BindingTrue, Prompt!Past
  <1>1. CASE exp'[r] = exp[r] /\ tomb'[r] = tomb[r] BY <1>1
  <1>2. CASE exp'[r] = exp[r] /\ Prompt!Past(tomb[r]) /\ tomb'[r] = Never BY <1>2
  <1>3. CASE Prompt!Past(exp[r]) /\ exp'[r] = Never /\ tomb'[r] = Prompt!Tombstone
    BY <1>3 DEF Prompt!Tombstone
  <1> QED BY <1>1, <1>2, <1>3 DEF Swept

-----------------------------------------------------------------------------
(* The invariant, action by action *)

\* Every repository operation keeps what is true of the bindings and calls when
\* nothing else changes.
LEMMA SweepStep ==
    ASSUME Prompt!SettleInv, RepoTypes', \A r \in Prompts : Swept(r),
           UNCHANGED <<backend, now, up, heard, due>>
    PROVE  \A r \in Prompts : Prompt!BindingTrue(r)'
  <1> SUFFICES ASSUME NEW r \in Prompts PROVE Prompt!BindingTrue(r)' OBVIOUS
  <1> QED BY SweepKeeps DEF Prompt!SettleInv

\* A step that leaves the calls alone, closes requests at most, never takes
\* back what the stream heard and binds no withdrawn request keeps the calls.
LEMMA CallsKept ==
    ASSUME Prompt!SettleInv, UNCHANGED <<pc, call, verdict>>,
           \A r \in Prompts :
               /\ up[r] = "closed" => up'[r] = "closed"
               /\ heard[r] \notin {"nothing", "gap"} => heard'[r] \notin {"nothing", "gap"}
               /\ heard[r] \notin {"nothing", "gap"} /\ due[r] = Never => due'[r] = Never
    PROVE  (\A p \in Repliers : Prompt!ReplyTrue(p)') /\ Prompt!OneAccepted'
  <1>1. Prompt!OneAccepted' BY DEF Prompt!SettleInv, Prompt!OneAccepted, Prompt!Accepted
  <1>2. ASSUME NEW p \in Repliers PROVE Prompt!ReplyTrue(p)'
    <2>1. Prompt!ReplyTrue(p) BY DEF Prompt!SettleInv
    <2>2. pc'[p] = pc[p] /\ call'[p] = call[p] /\ verdict'[p] = verdict[p] OBVIOUS
    <2>3. pc[p] = "send" \/ Prompt!Delivered(p) => call[p].request \in Prompts
      BY <2>1, PromptAssumption DEF Prompt!ReplyTrue
    <2> QED BY <2>1, <2>2, <2>3 DEF Prompt!ReplyTrue, Prompt!Delivered
  <1> QED BY <1>1, <1>2

\* The environment: upstream, the clock, and a lost event.
LEMMA EnvironmentKeeps ==
    ASSUME Prompt!SettleInv, UNCHANGED backend,
           \/ Prompt!Tick
           \/ \E r \in Prompts :
                Prompt!UpstreamAsks(r) \/ Prompt!UpstreamClosed(r) \/ Prompt!MissAsked(r)
    PROVE  Prompt!SettleInv'
  <1> USE PromptAssumption DEF Prompt!SettleInv
  <1>1. Prompt!TypeOK'
    BY DEF Prompt!TypeOK, Prompt!UpstreamAsks, Prompt!UpstreamClosed, Prompt!MissAsked,
           Prompt!Tick, Prompt!repo, Prompt!Hearing
  <1>2. ASSUME NEW q \in Prompts PROVE Prompt!BindingTrue(q)'
    BY DEF Prompt!TypeOK, Prompt!UpstreamAsks, Prompt!UpstreamClosed, Prompt!MissAsked,
           Prompt!Tick, Prompt!repo, Prompt!BindingTrue, Prompt!Past
  <1>3. (\A p \in Repliers : Prompt!ReplyTrue(p)') /\ Prompt!OneAccepted'
    BY CallsKept
       DEF Prompt!TypeOK, Prompt!UpstreamAsks, Prompt!UpstreamClosed, Prompt!MissAsked,
           Prompt!Tick
  <1> QED BY <1>1, <1>2, <1>3

\* The event stream: a request is remembered, announced and resolved.
LEMMA StreamKeeps ==
    ASSUME Prompt!SettleInv, UNCHANGED backend, NEW r \in Prompts,
           Prompt!Asked(r) \/ Prompt!Announce(r) \/ Prompt!Resolved(r)
    PROVE  Prompt!SettleInv'
  <1> USE PromptAssumption DEF Prompt!SettleInv
  <1>1. CASE Prompt!Asked(r)
    <2> USE <1>1 DEF Prompt!Asked
    <2>1. /\ RepoTypes' /\ exp'[r] = now + RequestTTL /\ tomb'[r] = Never
          /\ \A q \in Prompts \ {r} : Swept(q)
      BY RememberBinds
    <2>2. Prompt!TypeOK' BY <2>1, ZenonT(60) DEF Prompt!TypeOK, RepoTypes, Prompt!Hearing
    <2>3. ASSUME NEW q \in Prompts PROVE Prompt!BindingTrue(q)'
      <3>1. CASE q = r
        BY <3>1, <2>1 DEF Prompt!TypeOK, Prompt!BindingTrue, Prompt!Past, Prompt!NotPending
      <3>2. CASE q # r BY <3>2, <2>1, SweepKeeps DEF Prompt!TypeOK
      <3> QED BY <3>1, <3>2
    <2>4. (\A p \in Repliers : Prompt!ReplyTrue(p)') /\ Prompt!OneAccepted'
      BY CallsKept DEF Prompt!TypeOK, Prompt!NotPending
    <2> QED BY <2>2, <2>3, <2>4
  <1>2. CASE Prompt!Announce(r)
    <2>1. Prompt!TypeOK' BY <1>2 DEF Prompt!Announce, Prompt!TypeOK, Prompt!repo, Prompt!Hearing
    <2>2. ASSUME NEW q \in Prompts PROVE Prompt!BindingTrue(q)'
      BY <1>2 DEF Prompt!Announce, Prompt!TypeOK, Prompt!BindingTrue, Prompt!Past, Prompt!repo
    <2>3. (\A p \in Repliers : Prompt!ReplyTrue(p)') /\ Prompt!OneAccepted'
      BY <1>2, CallsKept DEF Prompt!Announce, Prompt!TypeOK
    <2> QED BY <2>1, <2>2, <2>3
  <1>3. CASE Prompt!Resolved(r)
    <2> USE <1>3 DEF Prompt!Resolved
    <2>1. /\ RepoTypes' /\ exp'[r] = Never /\ tomb'[r] = Never
          /\ \A q \in Prompts \ {r} : Swept(q)
      BY DiscardForgets
    <2>2. Prompt!TypeOK' BY <2>1, ZenonT(60) DEF Prompt!TypeOK, RepoTypes, Prompt!Hearing
    <2>3. ASSUME NEW q \in Prompts PROVE Prompt!BindingTrue(q)'
      <3>1. CASE q = r BY <3>1, <2>1 DEF Prompt!TypeOK, Prompt!BindingTrue
      <3>2. CASE q # r BY <3>2, <2>1, SweepKeeps DEF Prompt!TypeOK
      <3> QED BY <3>1, <3>2
    <2>4. (\A p \in Repliers : Prompt!ReplyTrue(p)') /\ Prompt!OneAccepted'
      BY CallsKept DEF Prompt!TypeOK
    <2> QED BY <2>2, <2>3, <2>4
  <1> QED BY <1>1, <1>2, <1>3

\* A call that resolve() finds active is about a remembered request.
LEMMA ActiveIsHeard ==
    ASSUME Prompt!SettleInv, NEW r \in Prompts, Prompt!Status(r) = "active"
    PROVE  heard[r] \notin {"nothing", "gap"}
  BY DEF Prompt!SettleInv, Prompt!BindingTrue, Prompt!Status, Prompt!MemoryStatus,
         Prompt!DatabaseStatus

\* The callbacks.
LEMMA CallbackKeeps ==
    ASSUME Prompt!SettleInv, UNCHANGED backend, NEW p \in Repliers,
           \/ \E c \in Calls : Prompt!Check(p, c)
           \/ Prompt!Send(p) \/ Prompt!SendFails(p) \/ Prompt!DiscardSent(p)
    PROVE  Prompt!SettleInv'
  <1> USE PromptAssumption DEF Prompt!SettleInv
  <1>1. ASSUME NEW c \in Calls, Prompt!Check(p, c) PROVE Prompt!SettleInv'
    <2> USE <1>1 DEF Prompt!Check, Prompt!Finish
    <2>1. c.request \in Prompts OBVIOUS
    <2>2. RepoTypes' /\ \A r \in Prompts : Swept(r)
      <3>1. CASE c.defect = "request_id" BY <3>1 DEF Prompt!TypeOK, RepoTypes, Swept, Prompt!repo
      <3>2. CASE c.defect # "request_id" BY <3>2, <2>1, ResolveSweeps
      <3> QED BY <3>1, <3>2
    <2>3. /\ pc' \in [Repliers -> {"idle", "send", "discard", "forget", "done"}]
          /\ \A q \in Repliers \ {p} : pc'[q] = pc[q] /\ verdict'[q] = verdict[q]
          /\ verdict' \in [Repliers -> {"none", "invalid", "expired", "not_found", "type_mismatch",
                                        "upstream_error", "ok", "gone"}]
          /\ \/ pc'[p] = "done" /\ verdict'[p] \notin {"ok", "gone"}
             \/ pc'[p] = "send" /\ verdict'[p] = verdict[p]
                /\ heard[c.request] \notin {"nothing", "gap"}
      <3>1. CASE c.defect = "request_id" BY <3>1 DEF Prompt!TypeOK
      <3>2. CASE c.defect # "request_id" /\ Prompt!Status(c.request) = "expired"
        BY <3>2 DEF Prompt!TypeOK
      <3>3. CASE c.defect # "request_id" /\ Prompt!Status(c.request) = "missing"
        BY <3>3 DEF Prompt!TypeOK
      <3>4. CASE c.defect # "request_id" /\ Prompt!Status(c.request) \notin {"expired", "missing"}
        <4>1. Prompt!Status(c.request) = "active"
          BY <3>4 DEF Prompt!Status, Prompt!MemoryStatus, Prompt!DatabaseStatus
        <4> QED BY <4>1, <3>4, <2>1, ActiveIsHeard DEF Prompt!TypeOK
      <3> QED BY <3>1, <3>2, <3>3, <3>4
    <2>4. Prompt!TypeOK' BY <2>2, <2>3 DEF Prompt!TypeOK, RepoTypes
    <2>5. \A r \in Prompts : Prompt!BindingTrue(r)' BY <2>2, SweepStep
    <2>6. ASSUME NEW q \in Repliers PROVE Prompt!ReplyTrue(q)'
      BY <2>3, <2>1 DEF Prompt!TypeOK, Prompt!ReplyTrue, Prompt!Delivered
    <2>7. Prompt!OneAccepted'
      BY <2>3 DEF Prompt!TypeOK, Prompt!OneAccepted, Prompt!Accepted, Prompt!ReplyTrue
    <2> QED BY <2>4, <2>5, <2>6, <2>7
  <1>2. CASE Prompt!Send(p)
    <2> USE <1>2 DEF Prompt!Send
    <2>1. /\ call[p] \in Calls /\ call[p].request \in Prompts
          /\ heard[call[p].request] \notin {"nothing", "gap"}
      BY DEF Prompt!ReplyTrue
    <2>2. Prompt!TypeOK' BY DEF Prompt!TypeOK, Prompt!repo
    <2>3. ASSUME NEW r \in Prompts PROVE Prompt!BindingTrue(r)'
      BY <2>1 DEF Prompt!TypeOK, Prompt!BindingTrue, Prompt!Past, Prompt!repo
    <2>4. ASSUME NEW q \in Repliers PROVE Prompt!ReplyTrue(q)'
      BY <2>1 DEF Prompt!TypeOK, Prompt!ReplyTrue, Prompt!Delivered
    <2>5. Prompt!OneAccepted'
      BY <2>1
         DEF Prompt!TypeOK, Prompt!OneAccepted, Prompt!Accepted, Prompt!ReplyTrue,
             Prompt!Delivered
    <2> QED BY <2>2, <2>3, <2>4, <2>5
  <1>3. CASE Prompt!SendFails(p)
    <2> USE <1>3 DEF Prompt!SendFails, Prompt!Finish
    <2>1. /\ call[p] \in Calls /\ call[p].request \in Prompts
          /\ heard[call[p].request] \notin {"nothing", "gap"}
      BY DEF Prompt!ReplyTrue
    <2>2. Prompt!TypeOK' BY DEF Prompt!TypeOK, Prompt!repo
    <2>3. ASSUME NEW r \in Prompts PROVE Prompt!BindingTrue(r)'
      BY <2>1 DEF Prompt!TypeOK, Prompt!BindingTrue, Prompt!Past, Prompt!repo
    <2>4. ASSUME NEW q \in Repliers PROVE Prompt!ReplyTrue(q)'
      BY <2>1 DEF Prompt!TypeOK, Prompt!ReplyTrue, Prompt!Delivered
    <2>5. Prompt!OneAccepted'
      BY <2>1
         DEF Prompt!TypeOK, Prompt!OneAccepted, Prompt!Accepted, Prompt!ReplyTrue,
             Prompt!Delivered
    <2> QED BY <2>2, <2>3, <2>4, <2>5
  <1>4. CASE Prompt!DiscardSent(p)
    <2> USE <1>4 DEF Prompt!DiscardSent, Prompt!Finish
    <2>1. /\ call[p] \in Calls /\ call[p].request \in Prompts
          /\ heard[call[p].request] \notin {"nothing", "gap"}
          /\ up[call[p].request] = "closed"
      BY DEF Prompt!ReplyTrue, Prompt!Delivered
    <2>2. /\ RepoTypes' /\ exp'[call[p].request] = Never /\ tomb'[call[p].request] = Never
          /\ \A q \in Prompts \ {call[p].request} : Swept(q)
      BY <2>1, DiscardForgets
    <2>3. Prompt!TypeOK' BY <2>2 DEF Prompt!TypeOK, RepoTypes
    <2>4. ASSUME NEW q \in Prompts PROVE Prompt!BindingTrue(q)'
      <3>1. CASE q = call[p].request BY <3>1, <2>1, <2>2 DEF Prompt!TypeOK, Prompt!BindingTrue
      <3>2. CASE q # call[p].request BY <3>2, <2>2, SweepKeeps DEF Prompt!TypeOK
      <3> QED BY <3>1, <3>2
    <2>5. ASSUME NEW q \in Repliers PROVE Prompt!ReplyTrue(q)'
      BY <2>1 DEF Prompt!TypeOK, Prompt!ReplyTrue, Prompt!Delivered
    <2>6. Prompt!OneAccepted' BY <2>1 DEF Prompt!TypeOK, Prompt!OneAccepted, Prompt!Accepted
    <2> QED BY <2>3, <2>4, <2>5, <2>6
  <1> QED BY <1>1, <1>2, <1>3, <1>4

\* SettleInv is inductive.
LEMMA SettleStep == Prompt!SettleInv /\ [Prompt!Next]_(Prompt!vars) => Prompt!SettleInv'
  <1> SUFFICES ASSUME Prompt!SettleInv, [Prompt!Next]_(Prompt!vars) PROVE Prompt!SettleInv'
    OBVIOUS
  <1>1. CASE UNCHANGED Prompt!vars
    BY <1>1
       DEF Prompt!vars, Prompt!repo, Prompt!SettleInv, Prompt!TypeOK, Prompt!BindingTrue,
           Prompt!ReplyTrue, Prompt!Delivered, Prompt!OneAccepted,
                Prompt!Accepted, Prompt!Past
  <1>2. CASE Prompt!Tick /\ UNCHANGED backend BY <1>2, EnvironmentKeeps
  <1>3. CASE Prompt!List /\ UNCHANGED backend
    <2>1. RepoTypes' /\ \A r \in Prompts : Swept(r)
      BY <1>3, ListSweeps DEF Prompt!SettleInv, Prompt!List
    <2>2. Prompt!TypeOK' BY <1>3, <2>1 DEF Prompt!SettleInv, Prompt!List, Prompt!TypeOK, RepoTypes
    <2>3. \A r \in Prompts : Prompt!BindingTrue(r)' BY <1>3, <2>1, SweepStep DEF Prompt!List
    <2>4. (\A p \in Repliers : Prompt!ReplyTrue(p)') /\ Prompt!OneAccepted'
      BY <1>3, CallsKept DEF Prompt!List
    <2> QED BY <2>2, <2>3, <2>4 DEF Prompt!SettleInv
  <1>4. ASSUME NEW r \in Prompts, UNCHANGED backend,
               Prompt!UpstreamAsks(r) \/ Prompt!UpstreamClosed(r) \/ Prompt!MissAsked(r)
        PROVE  Prompt!SettleInv'
    BY <1>4, EnvironmentKeeps
  <1>5. ASSUME NEW r \in Prompts, UNCHANGED backend,
               Prompt!Asked(r) \/ Prompt!Announce(r) \/ Prompt!Resolved(r)
        PROVE  Prompt!SettleInv'
    BY <1>5, StreamKeeps
  <1>6. ASSUME NEW p \in Repliers, UNCHANGED backend,
               \/ \E c \in Calls : Prompt!Check(p, c)
               \/ Prompt!Send(p) \/ Prompt!SendFails(p) \/ Prompt!DiscardSent(p)
        PROVE  Prompt!SettleInv'
    BY <1>6, CallbackKeeps
  <1> QED BY <1>1, <1>2, <1>3, <1>4, <1>5, <1>6 DEF Prompt!Next

\* A step of the endpoint is one of the registry, or leaves it alone.
LEMMA PromptStep == [EndpointNext]_<<vars, prompts>> => [Prompt!Next]_(Prompt!vars)
  BY DEF EndpointNext, prompts, Prompt!vars, Prompt!repo

LEMMA SettleInvariant == EndpointSpec => []Prompt!SettleInv
  <1>1. EndpointInit => Prompt!SettleInv
    BY PromptAssumption
    DEF EndpointInit, Prompt!Init, Prompt!SettleInv, Prompt!TypeOK, Prompt!BindingTrue,
        Prompt!ReplyTrue, Prompt!Delivered, Prompt!OneAccepted, Prompt!Accepted, Prompt!Hearing
  <1> QED BY <1>1, PromptStep, SettleStep, PTL DEF EndpointSpec

\* What Status is, the two repositories agreeing on it.
LEMMA SameStatus ==
    ASSUME Prompt!TypeOK, NEW r \in Prompts
    PROVE  Prompt!Status(r) =
             IF exp[r] # Never THEN IF Prompt!Past(exp[r]) THEN "expired" ELSE "active"
             ELSE IF tomb[r] # Never /\ ~ Prompt!Past(tomb[r]) THEN "expired" ELSE "missing"
  BY DEF Prompt!TypeOK, Prompt!Status, Prompt!MemoryStatus, Prompt!DatabaseStatus

\* A reply settles its request once: whatever other replies, sweeps and closings
\* raced with it, at most one caller is told ok, and nothing brings back what was
\* answered (interrupt_callbacks.py).
THEOREM RepliesSettleOnce == EndpointSpec => []RepliesSettle
  <1> SUFFICES ASSUME Prompt!SettleInv PROVE RepliesSettle BY SettleInvariant, PTL
  <1> USE PromptAssumption DEF Prompt!SettleInv
  <1>1. Prompt!AnsweredIsGone
    <2> SUFFICES ASSUME NEW p \in Repliers, verdict[p] \in {"ok", "gone"}
                 PROVE  Prompt!Status(call[p].request) # "active"
      BY DEF Prompt!AnsweredIsGone
    <2>1. call[p].request \in Prompts /\ due[call[p].request] = Never
      BY DEF Prompt!ReplyTrue, Prompt!Delivered
    <2> QED BY <2>1, SameStatus DEF Prompt!BindingTrue
  <1>2. Prompt!OneReplyWins BY DEF Prompt!OneReplyWins, Prompt!OneAccepted, Prompt!Accepted
  <1> QED BY <1>1, <1>2 DEF RepliesSettle, Prompt!RepliesSettle

\* A request that was not withdrawn can be answered until it expires and is known
\* as expired for the tombstone window, whoever fails a reply or sweeps the
\* registry meanwhile (state_store.py).
THEOREM OpenPromptsAreAnswerable == EndpointSpec => []OpenUntilAnswered
  <1> SUFFICES ASSUME Prompt!SettleInv PROVE OpenUntilAnswered BY SettleInvariant, PTL
  <1> USE PromptAssumption DEF Prompt!SettleInv
  <1>1. Prompt!OpenIsAnswerable
    BY SameStatus DEF Prompt!OpenIsAnswerable, Prompt!BindingTrue, Prompt!TypeOK, Prompt!Past
  <1>2. Prompt!ExpiredThroughWindow
    <2> SUFFICES ASSUME NEW r \in Prompts, due[r] # Never, Prompt!Past(due[r]),
                        now < due[r] + TombstoneTTL
                 PROVE  Prompt!Status(r) = "expired"
      BY DEF Prompt!ExpiredThroughWindow
    <2>1. CASE exp[r] # Never BY <2>1, SameStatus DEF Prompt!BindingTrue
    <2>2. CASE exp[r] = Never
      BY <2>2, SameStatus DEF Prompt!BindingTrue, Prompt!TypeOK, Prompt!Past
    <2> QED BY <2>1, <2>2
  <1> QED BY <1>1, <1>2 DEF OpenUntilAnswered, Prompt!OpenUntilAnswered

-----------------------------------------------------------------------------
(* The registry implements InterruptRegistry *)

\* What SameStatus says of the next state.
LEMMA NextStatus ==
    ASSUME Prompt!TypeOK', NEW r \in Prompts
    PROVE  Prompt!Status(r)' =
             IF exp'[r] # Never THEN IF Prompt!Past(exp[r])' THEN "expired" ELSE "active"
             ELSE IF tomb'[r] # Never /\ ~ Prompt!Past(tomb[r])' THEN "expired" ELSE "missing"
  BY DEF Prompt!TypeOK, Prompt!Status, Prompt!MemoryStatus, Prompt!DatabaseStatus

\* A swept request, and one that only the clock reaches, grow older.
LEMMA SweptAges ==
    ASSUME Prompt!TypeOK, Prompt!TypeOK', NEW r \in Prompts, UNCHANGED <<backend, now>>, Swept(r)
    PROVE  \/ Prompt!Status(r)' = Prompt!Status(r)
           \/ Prompt!Status(r) = "active" /\ Prompt!Status(r)' = "expired"
           \/ Prompt!Status(r) = "expired" /\ Prompt!Status(r)' = "missing"
  <1>1. CASE exp'[r] = exp[r] /\ tomb'[r] = tomb[r]
    BY <1>1, SameStatus, NextStatus DEF Prompt!Past
  <1>2. CASE exp'[r] = exp[r] /\ Prompt!Past(tomb[r]) /\ tomb'[r] = Never
    BY <1>2, SameStatus, NextStatus DEF Prompt!Past
  <1>3. CASE Prompt!Past(exp[r]) /\ exp'[r] = Never /\ tomb'[r] = Prompt!Tombstone
    BY <1>3, SameStatus, NextStatus, PromptAssumption
       DEF Prompt!TypeOK, Prompt!Past, Prompt!Tombstone
  <1> QED BY <1>1, <1>2, <1>3 DEF Swept

LEMMA TimeAges ==
    ASSUME Prompt!TypeOK, Prompt!TypeOK', NEW r \in Prompts, UNCHANGED <<backend, exp, tomb>>, now' >= now
    PROVE  \/ Prompt!Status(r)' = Prompt!Status(r)
           \/ Prompt!Status(r) = "active" /\ Prompt!Status(r)' = "expired"
           \/ Prompt!Status(r) = "expired" /\ Prompt!Status(r)' = "missing"
  BY SameStatus, NextStatus, PromptAssumption DEF Prompt!TypeOK, Prompt!Past

LEMMA AnswerFacts ==
    /\ Prompt!Answer = [r \in Prompts |-> Prompt!Status(r)]
    /\ Prompt!Answer' \in [Prompts -> Prompt!Registry!Answers]
  BY DEF Prompt!Answer, Prompt!Registry!Answers, Prompt!Status, Prompt!MemoryStatus,
         Prompt!DatabaseStatus

\* Whom an operation sweeps, and whom the clock reaches, the registry lets age.
LEMMA SweptAnswerAges ==
    ASSUME Prompt!TypeOK, Prompt!TypeOK', NEW r \in Prompts, UNCHANGED <<backend, now>>, Swept(r)
    PROVE  Prompt!Registry!Ages(r)
  <1>1. Prompt!Answer[r] = Prompt!Status(r) BY DEF Prompt!Answer
  <1>2. Prompt!Answer'[r] = Prompt!Status(r)' BY DEF Prompt!Answer
  <1> QED BY <1>1, <1>2, SweptAges DEF Prompt!Registry!Ages

LEMMA TimeAnswerAges ==
    ASSUME Prompt!TypeOK, Prompt!TypeOK', NEW r \in Prompts, UNCHANGED <<backend, exp, tomb>>, now' >= now
    PROVE  Prompt!Registry!Ages(r)
  <1>1. Prompt!Answer[r] = Prompt!Status(r) BY DEF Prompt!Answer
  <1>2. Prompt!Answer'[r] = Prompt!Status(r)' BY DEF Prompt!Answer
  <1> QED BY <1>1, <1>2, TimeAges DEF Prompt!Registry!Ages

\* The status of a request that is bound afresh, and of one that is forgotten.
LEMMA AskedStatus ==
    ASSUME Prompt!TypeOK', NEW r \in Prompts, exp'[r] # Never, ~ Prompt!Past(exp[r])'
    PROVE  Prompt!Answer'[r] = "active"
  BY NextStatus DEF Prompt!Answer

LEMMA ForgottenStatus ==
    ASSUME NEW r \in Prompts, exp'[r] = Never, tomb'[r] = Never
    PROVE  Prompt!Answer'[r] = "missing"
  BY DEF Prompt!Answer, Prompt!Status, Prompt!MemoryStatus, Prompt!DatabaseStatus

\* A step of the code changes what resolve() answers as the registry may.
LEMMA RegistryStep ==
    ASSUME Prompt!SettleInv, Prompt!SettleInv', [Prompt!Next]_(Prompt!vars)
    PROVE  Prompt!Registry!Next \/ UNCHANGED Prompt!Answer
  <1> USE DEF Prompt!SettleInv
  <1>0. Prompt!Answer' \in [Prompts -> Prompt!Registry!Answers] BY AnswerFacts
  <1>a. ASSUME UNCHANGED backend, \A r \in Prompts : Swept(r), now' = now
        PROVE  Prompt!Registry!Next
    <2>1. ASSUME NEW r \in Prompts PROVE Prompt!Registry!Ages(r)
      BY <1>a, SweptAnswerAges
    <2> QED BY <2>1, <1>0 DEF Prompt!Registry!Next, Prompt!Registry!Age
  <1>b. ASSUME UNCHANGED <<backend, exp, tomb, now>> PROVE UNCHANGED Prompt!Answer
    BY <1>b
       DEF Prompt!Answer, Prompt!Status, Prompt!MemoryStatus, Prompt!DatabaseStatus, Prompt!Past
  <1>c. ASSUME NEW r \in Prompts, UNCHANGED <<backend, now>>,
               exp'[r] = Never, tomb'[r] = Never, \A q \in Prompts \ {r} : Swept(q)
        PROVE  Prompt!Registry!Next
    <2>1. Prompt!Answer'[r] = "missing" BY <1>c, ForgottenStatus
    <2>2. ASSUME NEW q \in Prompts \ {r} PROVE Prompt!Registry!Ages(q) BY <1>c, SweptAnswerAges
    <2> QED BY <2>1, <2>2, <1>0 DEF Prompt!Registry!Next, Prompt!Registry!Withdraw
  <1>1. CASE UNCHANGED Prompt!vars BY <1>1, <1>b DEF Prompt!vars, Prompt!repo
  <1>2. CASE Prompt!Tick /\ UNCHANGED backend
    <2>1. now' >= now BY <1>2 DEF Prompt!Tick, Prompt!TypeOK
    <2> QED
      BY <1>2, <2>1, <1>0, TimeAnswerAges
         DEF Prompt!Tick, Prompt!repo, Prompt!Registry!Next, Prompt!Registry!Age
  <1>3. CASE Prompt!List /\ UNCHANGED backend BY <1>3, <1>a, ListSweeps DEF Prompt!List
  <1>4. ASSUME NEW r \in Prompts, UNCHANGED backend,
               \/ Prompt!UpstreamAsks(r) \/ Prompt!UpstreamClosed(r)
               \/ Prompt!MissAsked(r) \/ Prompt!Announce(r)
        PROVE  UNCHANGED Prompt!Answer
    BY <1>4, <1>b
       DEF Prompt!UpstreamAsks, Prompt!UpstreamClosed, Prompt!MissAsked, Prompt!Announce,
           Prompt!repo
  <1>5. ASSUME NEW r \in Prompts, UNCHANGED backend, Prompt!Asked(r) PROVE Prompt!Registry!Next
    <2>1. /\ exp'[r] = now + RequestTTL
          /\ \A q \in Prompts \ {r} : Swept(q)
      BY <1>5, RememberBinds DEF Prompt!Asked
    <2>2. exp'[r] # Never /\ ~ Prompt!Past(exp[r])'
      BY <1>5, <2>1, PromptAssumption DEF Prompt!Asked, Prompt!TypeOK, Prompt!Past
    <2>3. Prompt!Answer'[r] = "active" BY <2>2, AskedStatus
    <2>4. ASSUME NEW q \in Prompts \ {r} PROVE Prompt!Registry!Ages(q)
      BY <2>1, <1>5, SweptAnswerAges DEF Prompt!Asked
    <2> QED BY <2>3, <2>4, <1>0 DEF Prompt!Registry!Next, Prompt!Registry!Ask
  <1>6. ASSUME NEW r \in Prompts, UNCHANGED backend, Prompt!Resolved(r) PROVE Prompt!Registry!Next
    BY <1>6, <1>c, DiscardForgets DEF Prompt!Resolved
  <1>7. ASSUME NEW p \in Repliers, NEW c \in Calls, UNCHANGED backend, Prompt!Check(p, c)
        PROVE  Prompt!Registry!Next \/ UNCHANGED Prompt!Answer
    <2>1. CASE c.defect = "request_id" BY <1>7, <2>1, <1>b DEF Prompt!Check, Prompt!repo
    <2>2. CASE c.defect # "request_id"
      <3>1. c.request \in Prompts BY PromptAssumption
      <3> QED BY <3>1, <1>7, <2>2, <1>a, ResolveSweeps DEF Prompt!Check
    <2> QED BY <2>1, <2>2
  <1>8. ASSUME NEW p \in Repliers, UNCHANGED backend, Prompt!Send(p) \/ Prompt!SendFails(p)
        PROVE  UNCHANGED Prompt!Answer
    BY <1>8, <1>b DEF Prompt!Send, Prompt!SendFails, Prompt!repo
  <1>9. ASSUME NEW p \in Repliers, UNCHANGED backend, Prompt!DiscardSent(p)
        PROVE  Prompt!Registry!Next
    <2>1. call[p].request \in Prompts
      BY <1>9, PromptAssumption DEF Prompt!DiscardSent, Prompt!ReplyTrue, Prompt!Delivered
    <2> QED BY <2>1, <1>9, <1>c, DiscardForgets DEF Prompt!DiscardSent
  <1> QED BY <1>1, <1>2, <1>3, <1>4, <1>5, <1>6, <1>7, <1>8, <1>9 DEF Prompt!Next

\* Both repositories keep what the registry of interrupts promises: what resolve()
\* answers for a request becomes active only when it is asked, missing only when it
\* is withdrawn or has been expired, whatever happens to the other requests.
THEOREM RegistryImplemented == EndpointSpec => RefinesRegistry
  <1>1. EndpointInit => Prompt!Registry!Init
    BY DEF EndpointInit, Prompt!Init, Prompt!Registry!Init, Prompt!Answer, Prompt!Status,
           Prompt!MemoryStatus, Prompt!DatabaseStatus
  <1>2. Prompt!SettleInv /\ Prompt!SettleInv' /\ [EndpointNext]_<<vars, prompts>> =>
          [Prompt!Registry!Next]_(Prompt!Answer)
    BY PromptStep, RegistryStep
  <1> QED BY <1>1, <1>2, SettleInvariant, PTL
          DEF EndpointSpec, RefinesRegistry, Prompt!RefinesRegistry, Prompt!Registry!Spec

=============================================================================
