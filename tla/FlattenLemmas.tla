-------------------------- MODULE FlattenLemmas --------------------------
(* What FlattenSeq of the community modules does to a sequence of sequences, *)
(* for sequences of every length.  The provers cannot instantiate the        *)
(* library's induction theorems, which take a predicate as an operator, so   *)
(* induction is done here with a set: the natural numbers are well founded   *)
(* (WellFoundedInduction), hence a set that holds 0 and the successor of     *)
(* each of its members holds them all.                                       *)
EXTENDS Integers, Sequences, SequencesExt, WellFoundedInduction, FiniteSetTheorems, TLAPS

NatOrder == {x \in Nat \X Nat : x[1] < x[2]}

\* A set of natural numbers has a least one.
LEMMA LeastMember ==
  ASSUME NEW T, T \subseteq Nat, T # {}
  PROVE  \E n \in T : \A m \in T : n <= m
  <1>1. OpToRel(<, Nat) = NatOrder BY DEF OpToRel, NatOrder
  <1>2. IsWellFoundedOn(NatOrder, Nat) BY <1>1, NatLessThanWellFounded
  <1>3. PICK n \in T : \A m \in T : <<m, n>> \notin NatOrder BY <1>2, WFMin
  <1>4. ASSUME NEW m \in T PROVE n <= m
    <2>1. <<m, n>> \in Nat \X Nat OBVIOUS
    <2>2. ~ (m < n) BY <1>3, <2>1 DEF NatOrder
    <2> QED BY <2>2
  <1> QED BY <1>4

\* Induction over the natural numbers, for a predicate given as a set.
LEMMA SetInduction ==
  ASSUME NEW T, 0 \in T, \A n \in Nat : n \in T => n + 1 \in T
  PROVE  Nat \subseteq T
  <1> DEFINE U == Nat \ T
  <1> SUFFICES ASSUME U # {} PROVE FALSE OBVIOUS
  <1> HIDE DEF U
  <1>1. PICK n \in U : \A m \in U : n <= m BY LeastMember DEF U
  <1>2. n # 0 /\ n \in Nat BY DEF U
  <1>3. n - 1 \in Nat /\ n - 1 \notin U BY <1>1, <1>2 DEF U
  <1> QED BY <1>2, <1>3 DEF U

\* Induction over the sequences of a set, one element appended at a time.
LEMMA SequenceInduction ==
  ASSUME NEW S, NEW T, <<>> \in T,
         \A s \in Seq(S), x \in S : s \in T => Append(s, x) \in T
  PROVE  Seq(S) \subseteq T
  <1> DEFINE N == {n \in Nat : \A s \in Seq(S) : Len(s) = n => s \in T}
  <1>1. 0 \in N
    <2>1. \A s \in Seq(S) : Len(s) = 0 => s = <<>> OBVIOUS
    <2> QED BY <2>1
  <1>2. ASSUME NEW n \in Nat, n \in N PROVE n + 1 \in N
    <2> SUFFICES ASSUME NEW s \in Seq(S), Len(s) = n + 1 PROVE s \in T OBVIOUS
    <2> DEFINE r == SubSeq(s, 1, n)
    <2>1. r \in Seq(S) /\ Len(r) = n /\ s[n+1] \in S /\ s = Append(r, s[n+1]) OBVIOUS
    <2> HIDE DEF r
    <2>2. r \in T BY <1>2, <2>1
    <2> QED BY <2>1, <2>2
  <1> HIDE DEF N
  <1>3. Nat \subseteq N BY <1>1, <1>2, SetInduction
  <1> QED BY <1>3 DEF N

\* A finite set as a sequence: each of its elements is there, and nothing else.
LEMMA SetToSeqElements ==
  ASSUME NEW S, IsFiniteSet(S)
  PROVE  /\ SetToSeq(S) \in Seq(S)
         /\ \A x \in S : \E i \in DOMAIN SetToSeq(S) : SetToSeq(S)[i] = x
  <1> DEFINE n == Cardinality(S)
             f == SetToSeq(S)
  <1>1. n \in Nat /\ ExistsBijection(1..n, S) BY FS_CardinalityType
  <1>2. \E g \in [1..n -> S] : IsInjective(g)
    BY <1>1 DEF ExistsBijection, Bijection, Injection, IsInjective
  <1>3. f \in [1..n -> S] /\ IsInjective(f) BY <1>2 DEF SetToSeq
  <1> HIDE DEF f
  <1>4. f \in Injection(1..n, S) BY <1>3 DEF Injection, IsInjective
  <1>5. Cardinality(1..n) = n BY <1>1, FS_Interval
  <1>6. f \in Surjection(1..n, S) BY <1>4, <1>5, FS_Injection
  <1>7. f \in Seq(S) /\ DOMAIN f = 1..n BY <1>1, <1>3
  <1>8. \A x \in S : \E i \in DOMAIN f : f[i] = x BY <1>6, <1>7 DEF Surjection
  <1> QED BY <1>7, <1>8 DEF f

----------------------------------------------------------------------------
(* The function FlattenSeq is defined with: f[i] joins the first i.          *)

Joins(f, s) == f = [i \in 1..Len(s) |-> IF i = 1 THEN s[i] ELSE f[i-1] \o s[i]]

LEMMA JoinsAt ==
  ASSUME NEW s, NEW f, Joins(f, s), NEW i \in 1..Len(s)
  PROVE  f[i] = IF i = 1 THEN s[i] ELSE f[i-1] \o s[i]
  BY DEF Joins

LEMMA JoinsExists ==
  ASSUME NEW S
  PROVE  \A s \in Seq(Seq(S)) : \E f \in [1..Len(s) -> Seq(S)] : Joins(f, s)
  <1> DEFINE Good(s) == \E f \in [1..Len(s) -> Seq(S)] : Joins(f, s)
             T == {n \in Nat : \A s \in Seq(Seq(S)) : Len(s) = n => Good(s)}
  <1>1. 0 \in T
    <2> SUFFICES ASSUME NEW s \in Seq(Seq(S)), Len(s) = 0 PROVE Good(s) OBVIOUS
    <2> WITNESS [i \in 1..Len(s) |-> <<>>] \in [1..Len(s) -> Seq(S)]
    <2> QED BY DEF Joins
  <1>2. ASSUME NEW n \in Nat, n \in T PROVE n + 1 \in T
    <2> SUFFICES ASSUME NEW s \in Seq(Seq(S)), Len(s) = n + 1 PROVE Good(s) OBVIOUS
    <2> DEFINE r == SubSeq(s, 1, n)
    <2>1. r \in Seq(Seq(S)) /\ Len(r) = n /\ \A i \in 1..n : r[i] = s[i] OBVIOUS
    <2>2. PICK f \in [1..n -> Seq(S)] : Joins(f, r) BY <1>2, <2>1
    <2> DEFINE g == [i \in 1..n+1 |-> IF i \in 1..n THEN f[i]
                                      ELSE IF n = 0 THEN s[n+1] ELSE f[n] \o s[n+1]]
    <2>3. g \in [1..Len(s) -> Seq(S)] BY <2>2
    <2>4. \A i \in 1..n : f[i] = IF i = 1 THEN s[i] ELSE f[i-1] \o s[i]
      BY <2>1, <2>2 DEF Joins
    <2>5. ASSUME NEW i \in 1..n+1 PROVE g[i] = IF i = 1 THEN s[i] ELSE g[i-1] \o s[i]
      <3>1. CASE i \in 1..n
        <4>1. i # 1 => i - 1 \in 1..n BY <3>1
        <4>2. f[i] = IF i = 1 THEN s[i] ELSE f[i-1] \o s[i] BY <2>4, <3>1
        <4>3. g[i] = f[i] BY <3>1
        <4>4. i # 1 => g[i-1] = f[i-1] BY <3>1, <4>1
        <4> QED BY <4>2, <4>3, <4>4
      <3>2. CASE i = n+1 BY <3>2
      <3> QED BY <3>1, <3>2
    <2>6. Joins(g, s) BY <2>5 DEF Joins
    <2> QED BY <2>3, <2>6
  <1> HIDE DEF T
  <1>3. Nat \subseteq T BY <1>1, <1>2, SetInduction
  <1> QED BY <1>3 DEF T

\* There is only one, also for a longer sequence that begins the same.
LEMMA JoinsUnique ==
  ASSUME NEW s, NEW r, NEW f, NEW g, Joins(f, s), Joins(g, r),
         Len(s) \in Nat, Len(r) \in Nat, Len(s) <= Len(r),
         \A i \in 1..Len(s) : r[i] = s[i]
  PROVE  \A i \in 1..Len(s) : g[i] = f[i]
  <1> DEFINE T == {n \in Nat : n \in 1..Len(s) => g[n] = f[n]}
  <1>1. 0 \in T OBVIOUS
  <1>2. ASSUME NEW n \in Nat, n \in T PROVE n + 1 \in T
    <2> SUFFICES ASSUME n + 1 \in 1..Len(s) PROVE g[n+1] = f[n+1] OBVIOUS
    <2> DEFINE i == n + 1
    <2>1. /\ i \in 1..Len(s) /\ i \in 1..Len(r) /\ i - 1 = n
          /\ i # 1 => n \in 1..Len(s)
      OBVIOUS
    <2> HIDE DEF i
    <2>2. f[i] = IF i = 1 THEN s[i] ELSE f[i-1] \o s[i] BY <2>1, JoinsAt
    <2>3. g[i] = IF i = 1 THEN r[i] ELSE g[i-1] \o r[i] BY <2>1, JoinsAt
    <2>4. i # 1 => g[i-1] = f[i-1] BY <1>2, <2>1
    <2>5. g[i] = f[i] BY <2>1, <2>2, <2>3, <2>4
    <2> QED BY <2>5 DEF i
  <1> HIDE DEF T
  <1>3. Nat \subseteq T BY <1>1, <1>2, SetInduction
  <1> QED BY <1>3 DEF T

LEMMA FlattenIsJoins ==
  ASSUME NEW S, NEW s \in Seq(Seq(S)), s # <<>>
  PROVE  \E f \in [1..Len(s) -> Seq(S)] : Joins(f, s) /\ FlattenSeq(s) = f[Len(s)]
  <1> DEFINE F == CHOOSE f : Joins(f, s)
  <1>1. Joins(F, s) BY JoinsExists
  <1>2. PICK f \in [1..Len(s) -> Seq(S)] : Joins(f, s) BY JoinsExists
  <1>3. FlattenSeq(s) = F[Len(s)] BY DEF FlattenSeq, Joins
  <1>4. F[Len(s)] = f[Len(s)]
    <2> HIDE DEF F
    <2>1. Len(s) \in Nat /\ Len(s) \in 1 .. Len(s) OBVIOUS
    <2> QED BY <1>1, <1>2, <2>1, JoinsUnique
  <1> QED BY <1>2, <1>3, <1>4

----------------------------------------------------------------------------
(* The facts to cite.                                                        *)

LEMMA FlattenEmpty == FlattenSeq(<<>>) = <<>>
  BY DEF FlattenSeq

LEMMA FlattenType ==
  ASSUME NEW S, NEW s \in Seq(Seq(S))
  PROVE  FlattenSeq(s) \in Seq(S)
  <1>1. CASE s = <<>>
    <2>1. <<>> \in Seq(S) OBVIOUS
    <2> QED BY <1>1, <2>1, FlattenEmpty
  <1>2. CASE s # <<>>
    <2>1. PICK f \in [1..Len(s) -> Seq(S)] : FlattenSeq(s) = f[Len(s)]
      BY <1>2, FlattenIsJoins
    <2>2. Len(s) \in 1..Len(s) BY <1>2
    <2> QED BY <2>1, <2>2
  <1> QED BY <1>1, <1>2

\* One more part at the end is one more part of the whole.
LEMMA FlattenAppend ==
  ASSUME NEW S, NEW s \in Seq(Seq(S)), NEW x \in Seq(S)
  PROVE  FlattenSeq(Append(s, x)) = FlattenSeq(s) \o x
  <1> DEFINE r == Append(s, x)
             n == Len(s) + 1
  <1>1. /\ r \in Seq(Seq(S)) /\ r # <<>> /\ Len(r) = n /\ r[n] = x
        /\ n \in 1..Len(r) /\ n - 1 = Len(s) /\ Len(s) \in Nat /\ Len(r) \in Nat
        /\ \A i \in 1..Len(s) : r[i] = s[i]
    <2>1. r \in Seq(Seq(S)) /\ Len(r) = n /\ Len(s) \in Nat OBVIOUS
    <2>2. r[n] = x /\ \A i \in 1..Len(s) : r[i] = s[i] OBVIOUS
    <2> HIDE DEF r
    <2>3. r # <<>> BY <2>1
    <2> QED BY <2>1, <2>2, <2>3
  <1> HIDE DEF r, n
  <1>2. PICK g \in [1..Len(r) -> Seq(S)] : Joins(g, r) /\ FlattenSeq(r) = g[Len(r)]
    BY <1>1, FlattenIsJoins
  <1>3. g[n] = IF n = 1 THEN r[n] ELSE g[n-1] \o r[n] BY <1>1, <1>2, JoinsAt
  <1>4. CASE s = <<>>
    <2>1. n = 1 BY <1>4 DEF n
    <2>2. FlattenSeq(s) \o x = x BY <1>4, FlattenEmpty
    <2> QED BY <1>1, <1>2, <1>3, <2>1, <2>2 DEF r
  <1>5. CASE s # <<>>
    <2>1. PICK f \in [1..Len(s) -> Seq(S)] : Joins(f, s) /\ FlattenSeq(s) = f[Len(s)]
      BY <1>5, FlattenIsJoins
    <2>2. Len(s) \in 1..Len(s) /\ n # 1 BY <1>5 DEF n
    <2>3. Len(s) <= Len(r) BY <1>1 DEF n
    <2>4. \A i \in 1..Len(s) : g[i] = f[i]
      <3>1. \A i \in 1..Len(s) : r[i] = s[i] BY <1>1
      <3>2. Len(s) \in Nat /\ Len(r) \in Nat BY <1>1
      <3>3. Joins(f, s) /\ Joins(g, r) BY <1>2, <2>1
      <3> QED BY <2>3, <3>1, <3>2, <3>3, JoinsUnique
    <2>5. g[n-1] = f[Len(s)] BY <1>1, <2>2, <2>4
    <2> QED BY <1>1, <1>2, <1>3, <2>1, <2>2, <2>5 DEF r
  <1> QED BY <1>4, <1>5

LEMMA FlattenOne ==
  ASSUME NEW S, NEW x \in Seq(S)
  PROVE  FlattenSeq(<<x>>) = x
  <1>1. <<>> \in Seq(Seq(S)) /\ <<x>> = Append(<<>>, x) /\ <<>> \o x = x OBVIOUS
  <1>2. FlattenSeq(Append(<<>>, x)) = FlattenSeq(<<>>) \o x BY <1>1, FlattenAppend
  <1> QED BY <1>1, <1>2, FlattenEmpty

\* Element n of part i is somewhere in f.
Holds(f, r, i, n) == \E m \in DOMAIN f : f[m] = r[i][n]

\* Every element of the parts is in the whole.
LEMMA FlattenCovers ==
  ASSUME NEW S, NEW s \in Seq(Seq(S)), NEW i \in DOMAIN s, NEW n \in DOMAIN s[i]
  PROVE  Holds(FlattenSeq(s), s, i, n)
  <1> DEFINE T == {r \in Seq(Seq(S)) : \A j \in DOMAIN r : \A k \in DOMAIN r[j] :
                                         Holds(FlattenSeq(r), r, j, k)}
  <1>1. <<>> \in T OBVIOUS
  <1>2. ASSUME NEW r \in Seq(Seq(S)), NEW x \in Seq(S), r \in T PROVE Append(r, x) \in T
    <2> DEFINE a == Append(r, x)
               f == FlattenSeq(r)
               g == f \o x
    <2>1. FlattenSeq(a) = g BY FlattenAppend
    <2>2. f \in Seq(S) BY FlattenType
    <2>3. /\ a \in Seq(Seq(S)) /\ DOMAIN a = 1..Len(r) + 1 /\ a[Len(r) + 1] = x
          /\ \A j \in 1..Len(r) : a[j] = r[j]
      OBVIOUS
    <2>4. /\ DOMAIN g = 1..Len(f) + Len(x) /\ Len(f) \in Nat /\ Len(x) \in Nat
          /\ \A m \in 1..Len(f) : g[m] = f[m]
          /\ \A k \in 1..Len(x) : g[Len(f) + k] = x[k]
      BY <2>2
    <2>5. \A j \in DOMAIN r : \A k \in DOMAIN r[j] : Holds(f, r, j, k) BY <1>2
    <2>6. DOMAIN f = 1..Len(f) /\ DOMAIN r = 1..Len(r) /\ DOMAIN x = 1..Len(x)
      BY <2>2
    <2> HIDE DEF a, f, g
    <2>7. ASSUME NEW j \in DOMAIN a, NEW k \in DOMAIN a[j] PROVE Holds(g, a, j, k)
      <3>1. CASE j \in 1..Len(r)
        <4>1. a[j] = r[j] /\ k \in DOMAIN r[j] BY <2>3, <3>1
        <4>2. Holds(f, r, j, k) BY <2>5, <2>6, <3>1, <4>1
        <4>3. PICK m \in 1..Len(f) : f[m] = r[j][k] BY <2>6, <4>2 DEF Holds
        <4>4. m \in DOMAIN g /\ g[m] = f[m] BY <2>4, <4>3
        <4> QED BY <4>1, <4>3, <4>4 DEF Holds
      <3>2. CASE j = Len(r) + 1
        <4>1. a[j] = x /\ k \in 1..Len(x) BY <2>3, <2>6, <3>2
        <4>2. Len(f) + k \in DOMAIN g /\ g[Len(f) + k] = x[k] BY <2>4, <4>1
        <4> QED BY <4>1, <4>2 DEF Holds
      <3> QED BY <2>3, <3>1, <3>2
    <2> QED BY <2>1, <2>3, <2>7 DEF a
  <1> HIDE DEF T
  <1>3. Seq(Seq(S)) \subseteq T BY <1>1, <1>2, SequenceInduction
  <1> QED BY <1>3 DEF T

\* Place p of f has element n of part i, and what is before it in that part is
\* before it in f.
Stems(f, p, r, i, n) ==
  /\ f[p] = r[i][n]
  /\ \A k \in 1..n-1 : \E l \in 1..p-1 : f[l] = r[i][k]
HasPart(f, p, r) == \E i \in DOMAIN r : \E n \in DOMAIN r[i] : Stems(f, p, r, i, n)

\* Every element of the whole is one of a part, in the order of that part.
LEMMA FlattenOrigin ==
  ASSUME NEW S, NEW s \in Seq(Seq(S)), NEW m \in DOMAIN FlattenSeq(s)
  PROVE  HasPart(FlattenSeq(s), m, s)
  <1> DEFINE T == {r \in Seq(Seq(S)) : \A p \in DOMAIN FlattenSeq(r) :
                                         HasPart(FlattenSeq(r), p, r)}
  <1>1. <<>> \in T BY FlattenEmpty
  <1>2. ASSUME NEW r \in Seq(Seq(S)), NEW x \in Seq(S), r \in T PROVE Append(r, x) \in T
    <2> DEFINE a == Append(r, x)
               f == FlattenSeq(r)
               g == f \o x
    <2>1. FlattenSeq(a) = g BY FlattenAppend
    <2>2. f \in Seq(S) BY FlattenType
    <2>3. /\ a \in Seq(Seq(S)) /\ DOMAIN a = 1..Len(r) + 1 /\ a[Len(r) + 1] = x
          /\ \A j \in 1..Len(r) : a[j] = r[j]
      OBVIOUS
    <2>4. /\ DOMAIN g = 1..Len(f) + Len(x) /\ Len(f) \in Nat /\ Len(x) \in Nat
          /\ \A l \in 1..Len(f) : g[l] = f[l]
          /\ \A k \in 1..Len(x) : g[Len(f) + k] = x[k]
      BY <2>2
    <2>5. \A p \in DOMAIN f : HasPart(f, p, r) BY <1>2
    <2>6. DOMAIN f = 1..Len(f) /\ DOMAIN r = 1..Len(r) /\ DOMAIN x = 1..Len(x)
      BY <2>2
    <2> HIDE DEF a, f, g
    <2>7. ASSUME NEW p \in DOMAIN g PROVE HasPart(g, p, a)
      <3>1. CASE p \in 1..Len(f)
        <4>1. PICK i \in 1..Len(r) : \E n \in DOMAIN r[i] : Stems(f, p, r, i, n)
          BY <2>5, <2>6, <3>1 DEF HasPart
        <4>2. PICK n \in DOMAIN r[i] : Stems(f, p, r, i, n) BY <4>1
        <4>3. i \in DOMAIN a /\ a[i] = r[i] BY <2>3
        <4>4. g[p] = a[i][n] BY <2>4, <3>1, <4>2, <4>3 DEF Stems
        <4>5. ASSUME NEW k \in 1..n-1 PROVE \E l \in 1..p-1 : g[l] = a[i][k]
          <5>1. PICK l \in 1..p-1 : f[l] = r[i][k] BY <4>2 DEF Stems
          <5>2. l \in 1..Len(f) BY <2>4, <3>1
          <5> QED BY <2>4, <4>3, <5>1, <5>2
        <4>6. Stems(g, p, a, i, n) BY <4>4, <4>5 DEF Stems
        <4> QED BY <4>2, <4>3, <4>6 DEF HasPart
      <3>2. CASE p \notin 1..Len(f)
        <4> DEFINE i == Len(r) + 1
                   n == p - Len(f)
        <4>1. i \in DOMAIN a /\ a[i] = x BY <2>3
        <4>2. n \in 1..Len(x) /\ p = Len(f) + n BY <2>4, <3>2
        <4>3. g[p] = x[n] BY <2>4, <4>2
        <4>4. ASSUME NEW k \in 1..n-1 PROVE \E l \in 1..p-1 : g[l] = x[k]
          <5>1. k \in 1..Len(x) /\ Len(f) + k \in 1..p-1 BY <2>4, <4>2
          <5>2. g[Len(f) + k] = x[k] BY <2>4, <5>1
          <5> QED BY <5>1, <5>2
        <4>5. n \in DOMAIN a[i] BY <2>6, <4>1, <4>2
        <4> HIDE DEF i, n
        <4>6. Stems(g, p, a, i, n) BY <4>1, <4>3, <4>4 DEF Stems
        <4> QED BY <4>1, <4>5, <4>6 DEF HasPart
      <3> QED BY <3>1, <3>2
    <2> QED BY <2>1, <2>3, <2>7 DEF a
  <1> HIDE DEF T
  <1>3. Seq(Seq(S)) \subseteq T BY <1>1, <1>2, SequenceInduction
  <1> QED BY <1>3 DEF T

==========================================================================
