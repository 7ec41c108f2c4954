----------------------------- MODULE EdgeProofs -----------------------------
(*****************************************************************************)
(* The edge of the server, for every value of the constants.  The limiter:   *)
(* pruning a bucket drops what has left the window and commutes with time,   *)
(* so a bucket never holds more than the quota, a refusal is deserved and a  *)
(* hint stays true.  The layers: a request passes them in order, so what     *)
(* each of them made sure of holds behind it.  The stream budget: its clock  *)
(* and its count bound what is sent and how long.                            *)
(*****************************************************************************)
EXTENDS Edge, FlattenLemmas, SequenceTheorems

----------------------------------------------------------------------------
(* Windows: how much of a sequence of times has left the window.             *)

OldUpTo(s, t, n) ==
  /\ n \in 0..Len(s)
  /\ \A i \in 1..n : t - s[i] >= Window
  /\ n < Len(s) => t - s[n+1] < Window

LEMMA ExpiredFound ==
  ASSUME NEW s \in Seq(Nat), NEW t \in Nat
  PROVE  OldUpTo(s, t, Limiter!Expired(s, t))
  <1> DEFINE T == {n \in 0..Len(s) : n < Len(s) => t - s[n+1] < Window}
  <1>1. T \subseteq Nat /\ Len(s) \in T OBVIOUS
  <1>2. PICK n \in T : \A m \in T : n <= m BY <1>1, LeastMember
  <1> HIDE DEF T
  <1>3. ASSUME NEW i \in 1..n PROVE t - s[i] >= Window
    <2>1. i - 1 \in 0..Len(s) /\ i - 1 < n /\ s[i] \in Nat BY <1>1, <1>2 DEF T
    <2>2. i - 1 \notin T
      <3>1. n \in Int BY <1>1, <1>2
      <3> QED BY <1>2, <2>1, <3>1
    <2>3. ~ (t - s[(i - 1) + 1] < Window) BY <2>1, <2>2 DEF T
    <2> QED BY <2>1, <2>3, HttpAssumption
  <1>4. OldUpTo(s, t, n) BY <1>2, <1>3 DEF OldUpTo, T
  <1> QED BY <1>4 DEF OldUpTo, Limiter!Expired

\* There is only one such number.
LEMMA ExpiredIs ==
  ASSUME NEW s \in Seq(Nat), NEW t \in Nat, NEW n, OldUpTo(s, t, n)
  PROVE  Limiter!Expired(s, t) = n
  <1> DEFINE e == Limiter!Expired(s, t)
  <1>1. OldUpTo(s, t, e) BY ExpiredFound
  <1> HIDE DEF e
  <1>2. ~ (e < n)
    <2> SUFFICES ASSUME e < n PROVE FALSE OBVIOUS
    <2>1. e + 1 \in 1..n /\ e < Len(s) /\ s[e+1] \in Nat BY <1>1 DEF OldUpTo
    <2> QED BY <1>1, <2>1, HttpAssumption DEF OldUpTo
  <1>3. ~ (n < e)
    <2> SUFFICES ASSUME n < e PROVE FALSE OBVIOUS
    <2>1. n + 1 \in 1..e /\ n < Len(s) /\ s[n+1] \in Nat BY <1>1 DEF OldUpTo
    <2> QED BY <1>1, <2>1, HttpAssumption DEF OldUpTo
  <1>4. e = n BY <1>1, <1>2, <1>3 DEF OldUpTo
  <1> QED BY <1>4 DEF e

\* What is left is a sequence of the same times.
LEMMA StillInIs ==
  ASSUME NEW s \in Seq(Nat), NEW t \in Nat
  PROVE  LET e == Limiter!Expired(s, t)
             r == Limiter!StillIn(s, t)
         IN  /\ e \in 0..Len(s)
             /\ r \in Seq(Nat) /\ Len(r) = Len(s) - e
             /\ \A i \in 1..Len(s) - e : r[i] = s[i + e]
  <1> DEFINE e == Limiter!Expired(s, t)
  <1>1. e \in 0..Len(s) BY ExpiredFound DEF OldUpTo
  <1>2. Limiter!StillIn(s, t) = SubSeq(s, e + 1, Len(s)) BY DEF Limiter!StillIn
  <1> HIDE DEF e
  <1> DEFINE r == SubSeq(s, e + 1, Len(s))
  <1>3. r \in Seq(Nat) /\ Len(r) = Len(s) - e /\ \A i \in 1..Len(s) - e : r[i] = s[i + e]
    BY <1>1, SubSeqProperties
  <1> HIDE DEF r
  <1> QED BY <1>1, <1>2, <1>3 DEF e, r

LEMMA StillInAll ==
  ASSUME NEW N \in Nat, NEW s \in Seq(0..N), NEW t \in Nat
  PROVE  Limiter!StillIn(s, t) \in Seq(0..N) /\ Len(Limiter!StillIn(s, t)) <= Len(s)
  <1>1. s \in Seq(Nat) OBVIOUS
  <1> DEFINE e == Limiter!Expired(s, t)
             r == Limiter!StillIn(s, t)
  <1>2. /\ e \in 0..Len(s)
        /\ r \in Seq(Nat) /\ Len(r) = Len(s) - e
        /\ \A i \in 1..Len(s) - e : r[i] = s[i + e]
    BY <1>1, StillInIs
  <1> HIDE DEF e, r
  <1>3. ASSUME NEW i \in 1..Len(r) PROVE r[i] \in 0..N
    <2>1. i + e \in 1..Len(s) /\ i \in 1..Len(s) - e BY <1>2
    <2>2. s[i+e] \in 0..N BY <2>1
    <2> QED BY <1>2, <2>1, <2>2
  <1>4. r \in Seq(0..N)
    <2>1. r \in [1..Len(r) -> 0..N] /\ Len(r) \in Nat BY <1>2, <1>3, LenProperties
    <2> QED BY <2>1, SeqDef
  <1> QED BY <1>2, <1>4 DEF r

\* The entry at one index of two ends, counted from the whole sequences.
LEMMA EndsAlign ==
  ASSUME NEW m \in Nat, NEW n \in Nat, NEW e \in Nat, NEW d \in Nat, NEW i \in Nat,
         1 <= i, i <= n - d, n - d <= m - e
  PROVE  /\ i + (m - e) - (n - d) \in 1..m - e
         /\ i + (m - e) - (n - d) + e = i + d + m - n
         /\ i + d \in 1..n
  OBVIOUS

\* Two prunings are as good as the later one.
LEMMA StillInTwice ==
  ASSUME NEW s \in Seq(Nat), NEW t \in Nat, NEW u \in Nat, t <= u
  PROVE  Limiter!StillIn(Limiter!StillIn(s, t), u) = Limiter!StillIn(s, u)
  <1> DEFINE e == Limiter!Expired(s, t)
             r == Limiter!StillIn(s, t)
             d == Limiter!Expired(r, u)
             q == Limiter!StillIn(r, u)
             p == Limiter!StillIn(s, u)
  <1>1. /\ e \in 0..Len(s)
        /\ r \in Seq(Nat) /\ Len(r) = Len(s) - e
        /\ \A i \in 1..Len(s) - e : r[i] = s[i + e]
    BY StillInIs
  <1>2. OldUpTo(s, t, e) BY ExpiredFound
  <1> HIDE DEF e, r
  <1>3. /\ d \in 0..Len(r)
        /\ q \in Seq(Nat) /\ Len(q) = Len(r) - d
        /\ \A i \in 1..Len(r) - d : q[i] = r[i + d]
    BY <1>1, StillInIs
  <1>4. OldUpTo(r, u, d) BY <1>1, ExpiredFound
  <1> HIDE DEF d, q
  <1>5. OldUpTo(s, u, e + d)
    <2>1. e + d \in 0..Len(s) BY <1>1, <1>3
    <2>2. ASSUME NEW i \in 1..e+d PROVE u - s[i] >= Window
      <3>1. s[i] \in Nat BY <2>1
      <3>2. CASE i <= e
        <4>1. t - s[i] >= Window BY <1>1, <1>2, <3>2 DEF OldUpTo
        <4>2. t \in Nat /\ u \in Nat /\ t <= u /\ Window \in Nat BY HttpAssumption
        <4> QED BY <3>1, <4>1, <4>2
      <3>3. CASE i > e
        <4>1. i - e \in 1..d /\ i - e \in 1..Len(s) - e BY <1>1, <1>3, <3>3
        <4>2. r[i-e] = s[(i-e)+e] /\ (i-e)+e = i BY <1>1, <4>1
        <4> QED BY <1>4, <4>1, <4>2 DEF OldUpTo
      <3> QED BY <1>1, <3>2, <3>3
    <2>3. ASSUME e + d < Len(s) PROVE u - s[(e+d)+1] < Window
      <3>0. e \in Nat /\ d \in Nat /\ Len(s) \in Nat /\ Len(r) = Len(s) - e BY <1>1, <1>3
      <3>1. d < Len(r) /\ d + 1 \in 1..Len(s) - e BY <2>3, <3>0
      <3>3. r[d+1] = s[(d+1)+e] BY <1>1, <3>1
      <3>2. (d+1)+e = (e+d)+1 BY <1>1, <1>3
      <3> QED BY <1>4, <3>1, <3>2, <3>3 DEF OldUpTo
    <2> QED BY <2>1, <2>2, <2>3 DEF OldUpTo
  <1>6. Limiter!Expired(s, u) = e + d BY <1>5, ExpiredIs
  <1> DEFINE w == Limiter!Expired(s, u)
  <1>7. /\ p \in Seq(Nat) /\ Len(p) = Len(s) - w
        /\ \A i \in 1..Len(s) - w : p[i] = s[i + w]
    BY StillInIs
  <1>11. w = e + d BY <1>6
  <1> HIDE DEF p, w
  <1>8. Len(p) = Len(q) BY <1>1, <1>3, <1>7, <1>11
  <1>9. ASSUME NEW i \in 1..Len(q) PROVE p[i] = q[i]
    <2>1. q[i] = r[i + d] /\ i + d \in 1..Len(s) - e BY <1>1, <1>3
    <2>2. r[i + d] = s[(i + d) + e] BY <1>1, <2>1
    <2>3. p[i] = s[i + (e + d)] /\ (i + d) + e = i + (e + d) BY <1>1, <1>3, <1>7, <1>8, <1>11
    <2> QED BY <2>1, <2>2, <2>3
  <1>10. p = q BY <1>3, <1>7, <1>8, <1>9, SeqEqual
  <1> QED BY <1>10 DEF p, q, r

\* One that is still new stays at the end.
LEMMA StillInAppend ==
  ASSUME NEW s \in Seq(Nat), NEW t \in Nat, NEW x \in Nat, t - x < Window
  PROVE  Limiter!StillIn(Append(s, x), t) = Append(Limiter!StillIn(s, t), x)
  <1> DEFINE e == Limiter!Expired(s, t)
             r == Limiter!StillIn(s, t)
             a == Append(s, x)
             w == Limiter!Expired(a, t)
             p == Limiter!StillIn(a, t)
             q == Append(r, x)
  <1>1. /\ e \in 0..Len(s)
        /\ r \in Seq(Nat) /\ Len(r) = Len(s) - e
        /\ \A i \in 1..Len(s) - e : r[i] = s[i + e]
    BY StillInIs
  <1>2. OldUpTo(s, t, e) BY ExpiredFound
  <1>3. /\ a \in Seq(Nat) /\ Len(a) = Len(s) + 1
        /\ \A i \in 1..Len(s) : a[i] = s[i]
        /\ a[Len(s) + 1] = x
    OBVIOUS
  <1> HIDE DEF e, r, a
  <1>4. /\ p \in Seq(Nat) /\ Len(p) = Len(a) - w
        /\ \A i \in 1..Len(a) - w : p[i] = a[i + w]
    BY <1>3, StillInIs
  <1>5. OldUpTo(a, t, e)
    <2>1. e \in 0..Len(a) BY <1>1, <1>3
    <2>2. ASSUME NEW i \in 1..e PROVE t - a[i] >= Window
      <3>1. i \in 1..Len(s) BY <1>1
      <3> QED BY <1>2, <1>3, <3>1 DEF OldUpTo
    <2>3. t - a[e+1] < Window
      <3>1. CASE e = Len(s) BY <1>3, <3>1
      <3>2. CASE e < Len(s)
        <4>1. e + 1 \in 1..Len(s) BY <1>1, <3>2
        <4> QED BY <1>2, <1>3, <3>2, <4>1 DEF OldUpTo
      <3> QED BY <1>1, <3>1, <3>2
    <2> QED BY <2>1, <2>2, <2>3 DEF OldUpTo
  <1>6. w = e BY <1>3, <1>5, ExpiredIs
  <1> HIDE DEF w, p
  <1>7. /\ q \in Seq(Nat) /\ Len(q) = Len(r) + 1
        /\ \A i \in 1..Len(r) : q[i] = r[i]
        /\ q[Len(r) + 1] = x
    BY <1>1
  <1> HIDE DEF q
  <1>8. Len(p) = Len(q) BY <1>1, <1>3, <1>4, <1>6, <1>7
  <1>9. ASSUME NEW i \in 1..Len(p) PROVE p[i] = q[i]
    <2>1. i \in 1..Len(a) - w /\ i + e \in 1..Len(s) + 1 BY <1>1, <1>3, <1>4, <1>6
    <2>2. p[i] = a[i + e] BY <1>4, <1>6, <2>1
    <2>3. CASE i \in 1..Len(r)
      <3>1. i + e \in 1..Len(s) /\ i \in 1..Len(s) - e BY <1>1, <2>3
      <3> QED BY <1>1, <1>3, <1>7, <2>2, <2>3, <3>1
    <2>4. CASE i = Len(r) + 1
      <3>1. i + e = Len(s) + 1 BY <1>1, <2>4
      <3> QED BY <1>3, <1>7, <2>2, <2>4, <3>1
    <2> QED BY <1>7, <1>8, <2>3, <2>4
  <1>10. p = q BY <1>4, <1>7, <1>8, <1>9, SeqEqual
  <1> QED BY <1>10 DEF p, q, r, a

\* The end of a sequence remains its end.
LEMMA StillInEnds ==
  ASSUME NEW s \in Seq(Nat), NEW r \in Seq(Nat), NEW t \in Nat, Limiter!EndsWith(s, r)
  PROVE  Limiter!EndsWith(Limiter!StillIn(s, t), Limiter!StillIn(r, t))
  <1> DEFINE e == Limiter!Expired(s, t)
             p == Limiter!StillIn(s, t)
             d == Limiter!Expired(r, t)
             q == Limiter!StillIn(r, t)
             off == Len(s) - Len(r)
  <1>1. /\ e \in 0..Len(s)
        /\ p \in Seq(Nat) /\ Len(p) = Len(s) - e
        /\ \A i \in 1..Len(s) - e : p[i] = s[i + e]
    BY StillInIs
  <1>2. /\ d \in 0..Len(r)
        /\ q \in Seq(Nat) /\ Len(q) = Len(r) - d
        /\ \A i \in 1..Len(r) - d : q[i] = r[i + d]
    BY StillInIs
  <1>3. OldUpTo(s, t, e) /\ OldUpTo(r, t, d) BY ExpiredFound
  <1> HIDE DEF e, p, d, q
  <1>4. /\ Len(r) <= Len(s) /\ off \in Nat
        /\ \A i \in 1..Len(r) : s[i + Len(s) - Len(r)] = r[i]
    BY DEF Limiter!EndsWith
  <1>10. /\ e \in Nat /\ d \in Nat /\ Len(s) \in Nat /\ Len(r) \in Nat
         /\ e <= Len(s) /\ d <= Len(r)
    BY <1>1, <1>2
  <1>5. e <= off + d
    <2> SUFFICES ASSUME off + d < e PROVE FALSE BY <1>10
    <2>1. d + 1 \in 1..Len(r) /\ d < Len(r) BY <1>10
    <2>2. s[(d + 1) + Len(s) - Len(r)] = r[d+1] BY <1>4, <2>1
    <2>3. (d + 1) + Len(s) - Len(r) \in 1..e BY <1>10, <1>4, <2>1
    <2>4. r[d+1] \in Nat BY <2>1
    <2>5. t - r[d+1] < Window BY <1>3, <2>1 DEF OldUpTo
    <2> DEFINE m == (d + 1) + Len(s) - Len(r)
    <2>6. s[m] = r[d+1] /\ m \in 1..e BY <2>2, <2>3
    <2> HIDE DEF m
    <2>7. t - s[m] >= Window BY <1>3, <2>6 DEF OldUpTo
    <2> QED BY <2>4, <2>5, <2>6, <2>7, HttpAssumption
  <1>6. Len(q) <= Len(p) BY <1>1, <1>2, <1>4, <1>5
  <1>7. ASSUME NEW i \in 1..Len(q) PROVE p[i + Len(p) - Len(q)] = q[i]
    <2> DEFINE j == i + Len(p) - Len(q)
               k == i + d
    <2>1. j \in 1..Len(s) - e /\ j + e = k + Len(s) - Len(r) /\ k \in 1..Len(r)
          /\ i \in 1..Len(r) - d
      <3>1. Len(p) = Len(s) - e /\ Len(q) = Len(r) - d BY <1>1, <1>2
      <3>2. i \in 1..Len(r) - d BY <3>1
      <3>3. i \in Nat /\ 1 <= i /\ i <= Len(r) - d /\ Len(r) - d <= Len(s) - e
        BY <1>6, <1>10, <3>1, <3>2
      <3>4. /\ i + (Len(s) - e) - (Len(r) - d) \in 1..Len(s) - e
            /\ i + (Len(s) - e) - (Len(r) - d) + e = i + d + Len(s) - Len(r)
            /\ i + d \in 1..Len(r)
        BY <1>10, <3>3, EndsAlign
      <3> QED BY <3>1, <3>2, <3>4
    <2> HIDE DEF j
    <2>2. p[j] = s[j + e] BY <1>1, <2>1
    <2>3. q[i] = r[k] BY <1>2, <2>1
    <2> HIDE DEF k
    <2>4. s[k + Len(s) - Len(r)] = r[k] BY <1>4, <2>1
    <2>5. p[j] = q[i] BY <2>1, <2>2, <2>3, <2>4
    <2> QED BY <2>5 DEF j
  <1>8. Limiter!EndsWith(p, q) BY <1>6, <1>7 DEF Limiter!EndsWith
  <1> QED BY <1>8 DEF p, q

\* Nothing is left of nothing, and if the oldest time has left the window, one
\* entry less is left.
LEMMA StillInLess ==
  ASSUME NEW s \in Seq(Nat), NEW t \in Nat, s = <<>> \/ t - Head(s) >= Window
  PROVE  \/ s = <<>> /\ Limiter!StillIn(s, t) = <<>>
         \/ Len(Limiter!StillIn(s, t)) < Len(s)
  <1> DEFINE e == Limiter!Expired(s, t)
             r == Limiter!StillIn(s, t)
  <1>1. e \in 0..Len(s) /\ r \in Seq(Nat) /\ Len(r) = Len(s) - e BY StillInIs
  <1>2. OldUpTo(s, t, e) BY ExpiredFound
  <1> HIDE DEF e, r
  <1>3. CASE s = <<>>
    <2>1. Len(r) = 0 BY <1>1, <1>3
    <2>2. r = <<>> BY <1>1, <2>1
    <2> QED BY <1>3, <2>2 DEF r
  <1>4. CASE s # <<>>
    <2>1. Head(s) = s[1] /\ 1 \in 1..Len(s) /\ s[1] \in Nat BY <1>4
    <2>2. e # 0
      <3> SUFFICES ASSUME e = 0 PROVE FALSE OBVIOUS
      <3>1. e < Len(s) /\ e + 1 = 1 BY <2>1
      <3>2. t - s[1] < Window BY <1>2, <3>1 DEF OldUpTo
      <3> QED BY <1>4, <2>1, <3>2, HttpAssumption
    <2>3. Len(r) < Len(s) BY <1>1, <2>2
    <2> QED BY <2>3 DEF r
  <1> QED BY <1>3, <1>4

LEMMA StillInNothing ==
  ASSUME NEW t \in Nat
  PROVE  Limiter!StillIn(<<>>, t) = <<>>
  <1>1. <<>> \in Seq(Nat) /\ Len(<<>>) = 0 BY EmptySeq
  <1>2. Limiter!StillIn(<<>>, t) \in Seq(Nat) BY <1>1, StillInIs
  <1>3. ~ (Len(Limiter!StillIn(<<>>, t)) < 0) BY <1>2
  <1> QED BY <1>1, <1>3, StillInLess

----------------------------------------------------------------------------
(* The limiter.                                                              *)

\* What a bucket is before and after it is pruned.
LEMMA BucketFacts ==
  ASSUME Limiter!TypeOK, NEW k \in RateKeys
  PROVE  /\ now \in Nat /\ now + 1 \in Nat /\ promised[k] \in Nat
         /\ bucket[k] \in Seq(0..now) /\ bucket[k] \in Seq(Nat)
         /\ Limiter!Prune(bucket[k]) = Limiter!StillIn(bucket[k], now)
         /\ Limiter!Prune(bucket[k]) \in Seq(0..now) /\ Limiter!Prune(bucket[k]) \in Seq(Nat)
         /\ Len(Limiter!Prune(bucket[k])) <= Len(bucket[k])
         /\ admitted[k] \in Seq(0..now) /\ admitted[k] \in Seq(Nat)
         /\ everAdmitted[k] \in Seq(0..now) /\ everAdmitted[k] \in Seq(Nat)
  <1>1. now \in Nat /\ now + 1 \in Nat /\ promised[k] \in Nat
    BY HttpAssumption DEF Limiter!TypeOK
  <1>2. /\ bucket[k] \in Seq(0..now) /\ admitted[k] \in Seq(0..now)
        /\ everAdmitted[k] \in Seq(0..now)
    BY DEF Limiter!TypeOK
  <1>3. 0..now \subseteq Nat BY <1>1
  <1>4. /\ bucket[k] \in Seq(Nat) /\ admitted[k] \in Seq(Nat)
        /\ everAdmitted[k] \in Seq(Nat)
    BY <1>2, <1>3, SeqMonotonic
  <1>5. Limiter!Prune(bucket[k]) = Limiter!StillIn(bucket[k], now) BY DEF Limiter!Prune
  <1>6. /\ Limiter!StillIn(bucket[k], now) \in Seq(0..now)
        /\ Len(Limiter!StillIn(bucket[k], now)) <= Len(bucket[k])
    BY <1>1, <1>2, StillInAll
  <1>7. Limiter!StillIn(bucket[k], now) \in Seq(Nat) BY <1>3, <1>6, SeqMonotonic
  <1> QED BY <1>1, <1>2, <1>4, <1>5, <1>6, <1>7

\* Nothing is ever refused for a key without entries.
LEMMA RefusedHasEntries ==
  ASSUME Limiter!TypeOK, NEW k \in RateKeys, ~Limiter!Admits(k)
  PROVE  bucket[k] # <<>> /\ Limiter!WithKey(k) = table
  <1>1. bucket[k] # <<>>
    <2>1. Len(Limiter!Prune(bucket[k])) \in Nat BY BucketFacts
    <2>2. Len(bucket[k]) \in Nat /\ Len(Limiter!Prune(bucket[k])) <= Len(bucket[k])
      BY BucketFacts
    <2>3. ~ (Len(Limiter!Prune(bucket[k])) < MaxRequests) BY DEF Limiter!Admits
    <2>4. Len(bucket[k]) # 0 BY <2>1, <2>2, <2>3, HttpAssumption
    <2> QED BY <2>4
  <1>2. Limiter!Contains(table, k) BY <1>1 DEF Limiter!TypeOK
  <1> QED BY <1>1, <1>2 DEF Limiter!WithKey

\* The table after an admission holds the key and all but the one given up.
LEMMA TableAfter ==
  ASSUME Limiter!TypeOK, NEW k \in RateKeys, Limiter!Admit(k)
  PROVE  LET keys == Limiter!WithKey(k)
             kept(x) == ~ (Limiter!Full(keys) /\ x = Head(keys))
         IN  /\ table' \in Seq(RateKeys) /\ Len(table') <= MaxKeys
             /\ Limiter!IsInjective(table')
             /\ kept(k)
             /\ Limiter!Contains(table', k)
             /\ \A x \in RateKeys : kept(x) /\ Limiter!Contains(table, x)
                                      => Limiter!Contains(table', x)
  <1> DEFINE keys == Limiter!WithKey(k)
             has == Limiter!Contains(table, k)
  <1>1. /\ table \in Seq(RateKeys) /\ Len(table) \in Nat /\ Len(table) <= MaxKeys
        /\ \A i, j \in 1..Len(table) : table[i] = table[j] => i = j
    <2>1. table \in Seq(RateKeys) /\ Len(table) <= MaxKeys /\ Limiter!IsInjective(table)
      BY DEF Limiter!TypeOK
    <2>2. DOMAIN table = 1..Len(table) /\ Len(table) \in Nat BY <2>1
    <2> QED BY <2>1, <2>2 DEF Limiter!IsInjective
  <1>2. table' = IF Limiter!Full(keys) THEN Tail(keys) ELSE keys BY DEF Limiter!Admit
  <1>3. CASE has
    <2>1. keys = table BY <1>3 DEF Limiter!WithKey
    <2>2. ~Limiter!Full(keys) BY <1>1, <2>1, HttpAssumption DEF Limiter!Full
    <2>3. table' = table BY <1>2, <2>1, <2>2
    <2>4. Limiter!IsInjective(table) BY DEF Limiter!TypeOK
    <2> QED BY <1>1, <1>3, <2>2, <2>3, <2>4
  <1>4. CASE ~has
    <2>1. keys = Append(table, k) BY <1>4 DEF Limiter!WithKey
    <2>2. \A i \in 1..Len(table) : table[i] # k BY <1>4 DEF Limiter!Contains
    <2>3. /\ keys \in Seq(RateKeys) /\ Len(keys) = Len(table) + 1
          /\ keys[Len(table)+1] = k
          /\ \A i \in 1..Len(table) : keys[i] = table[i]
      BY <1>1, <2>1
    <2> HIDE DEF keys
    <2>4. \A i, j \in 1..Len(keys) : keys[i] = keys[j] => i = j
      BY <1>1, <2>2, <2>3
    <2>5. CASE ~Limiter!Full(keys)
      <3>1. table' = keys /\ Len(keys) <= MaxKeys
        BY <1>1, <1>2, <2>3, <2>5, HttpAssumption DEF Limiter!Full
      <3>2. Limiter!IsInjective(keys) BY <2>3, <2>4 DEF Limiter!IsInjective
      <3>3. Limiter!Contains(keys, k) BY <1>1, <2>3 DEF Limiter!Contains
      <3>4. ASSUME NEW x \in RateKeys, Limiter!Contains(table, x)
            PROVE  Limiter!Contains(keys, x)
        <4>1. PICK i \in 1..Len(table) : table[i] = x BY <3>4 DEF Limiter!Contains
        <4> QED BY <1>1, <2>3, <4>1 DEF Limiter!Contains
      <3> QED BY <2>3, <2>5, <3>1, <3>2, <3>3, <3>4 DEF keys
    <2>6. CASE Limiter!Full(keys)
      <3> DEFINE rest == Tail(keys)
      <3>1. Len(table) = MaxKeys /\ Len(table) >= 1
        BY <1>1, <2>3, <2>6, HttpAssumption DEF Limiter!Full
      <3>2. /\ keys # <<>> /\ Head(keys) = keys[1] /\ Head(keys) = table[1]
            /\ 1 \in 1..Len(table)
        BY <1>1, <2>3, <3>1
      <3>3. /\ rest \in Seq(RateKeys) /\ Len(rest) = Len(table)
            /\ \A i \in 1..Len(rest) : rest[i] = keys[i+1]
        BY <2>3, <3>2, HeadTailProperties
      <3>4. table' = rest BY <1>2, <2>6
      <3> HIDE DEF rest
      <3>5. Limiter!IsInjective(rest)
        <4>1. ASSUME NEW i \in 1..Len(rest), NEW j \in 1..Len(rest), rest[i] = rest[j]
              PROVE  i = j
          <5>1. i + 1 \in 1..Len(keys) /\ j + 1 \in 1..Len(keys) BY <1>1, <2>3, <3>3
          <5>2. keys[i+1] = keys[j+1] BY <3>3, <4>1
          <5>3. i + 1 = j + 1 BY <2>4, <5>1, <5>2
          <5> QED BY <5>3
        <4>2. DOMAIN rest = 1..Len(rest) BY <3>3
        <4> QED BY <4>1, <4>2 DEF Limiter!IsInjective
      <3>6. Limiter!Contains(rest, k)
        <4>1. rest[Len(table)] = k BY <1>1, <2>3, <3>1, <3>3
        <4> QED BY <3>1, <3>3, <4>1, <1>1 DEF Limiter!Contains
      <3>7. k # Head(keys) BY <2>2, <3>2
      <3>8. ASSUME NEW x \in RateKeys, x # Head(keys), Limiter!Contains(table, x)
            PROVE  Limiter!Contains(rest, x)
        <4>1. PICK i \in 1..Len(table) : table[i] = x BY <3>8 DEF Limiter!Contains
        <4>2. i # 1 BY <3>2, <3>8, <4>1
        <4>3. i - 1 \in 1..Len(rest) /\ (i - 1) + 1 = i BY <1>1, <3>3, <4>1, <4>2
        <4>4. rest[i-1] = x BY <2>3, <3>3, <4>1, <4>3
        <4> QED BY <4>3, <4>4 DEF Limiter!Contains
      <3> QED BY <1>1, <2>6, <3>1, <3>3, <3>4, <3>5, <3>6, <3>7, <3>8 DEF keys
    <2> QED BY <2>5, <2>6
  <1> QED BY <1>3, <1>4

\* An admission: a new key may push out the oldest one, bucket and all.
LEMMA LimiterAdmits ==
  ASSUME Limiter!LimiterInv, NEW k \in RateKeys, Limiter!Admit(k), UNCHANGED <<now, rejected>>
  PROVE  Limiter!LimiterInv'
  <1> DEFINE keys == Limiter!WithKey(k)
             kept(x) == ~ (Limiter!Full(keys) /\ x = Head(keys))
             with == Append(Limiter!Prune(bucket[k]), now)
  <1> USE DEF Limiter!LimiterInv
  <1>1. /\ table' \in Seq(RateKeys) /\ Len(table') <= MaxKeys /\ Limiter!IsInjective(table')
        /\ kept(k) /\ Limiter!Contains(table', k)
        /\ \A x \in RateKeys : kept(x) /\ Limiter!Contains(table, x)
                                 => Limiter!Contains(table', x)
    BY TableAfter
  <1>2. /\ bucket' = [x \in RateKeys |-> IF ~kept(x) THEN <<>>
                                         ELSE IF x = k THEN with ELSE bucket[x]]
        /\ admitted' = [x \in RateKeys |-> IF ~kept(x) THEN <<>>
                                           ELSE IF x = k THEN Append(admitted[x], now)
                                           ELSE admitted[x]]
        /\ everAdmitted' = [everAdmitted EXCEPT ![k] = Append(@, now)]
        /\ promised' = [promised EXCEPT ![k] = 0]
        /\ Limiter!Admits(k)
    BY DEF Limiter!Admit
  <1> HIDE DEF kept
  <1>3. /\ now \in Nat /\ now \in 0..now /\ now - now < Window BY BucketFacts, HttpAssumption
  <1>4. /\ with \in Seq(0..now) /\ Len(with) <= MaxRequests
        /\ Limiter!StillIn(with, now) = Append(admitted[k], now)
    <2>1. /\ Limiter!Prune(bucket[k]) \in Seq(0..now)
          /\ Limiter!Prune(bucket[k]) \in Seq(Nat)
          /\ bucket[k] \in Seq(Nat)
          /\ Limiter!Prune(bucket[k]) = Limiter!StillIn(bucket[k], now)
      BY BucketFacts
    <2>2. Len(Limiter!Prune(bucket[k])) < MaxRequests BY <1>2 DEF Limiter!Admits
    <2> DEFINE pruned == Limiter!Prune(bucket[k])
    <2>3. Limiter!StillIn(pruned, now) = admitted[k]
      <3>1. Limiter!StillIn(Limiter!StillIn(bucket[k], now), now) = Limiter!StillIn(bucket[k], now)
        BY <1>3, <2>1, StillInTwice
      <3>2. admitted[k] = Limiter!StillIn(bucket[k], now) BY DEF Limiter!AdmittedIsKept
      <3> QED BY <2>1, <3>1, <3>2
    <2> HIDE DEF pruned
    <2>4. Limiter!StillIn(Append(pruned, now), now) = Append(Limiter!StillIn(pruned, now), now)
      BY <1>3, <2>1, StillInAppend DEF pruned
    <2>5. pruned \in Seq(0..now) /\ Len(pruned) < MaxRequests BY <2>1, <2>2 DEF pruned
    <2>6. with = Append(pruned, now) BY DEF pruned
    <2>7. Append(pruned, now) \in Seq(0..now) /\ Len(Append(pruned, now)) = Len(pruned) + 1
      BY <1>3, <2>5, AppendProperties
    <2>8. Len(pruned) \in Nat BY <2>5
    <2> QED BY <2>3, <2>4, <2>5, <2>6, <2>7, <2>8, HttpAssumption
  <1> HIDE DEF with
  <1>5. \A x \in RateKeys :
          /\ bucket[x] \in Seq(0..now) /\ admitted[x] \in Seq(0..now)
          /\ everAdmitted[x] \in Seq(0..now) /\ promised[x] \in Nat
          /\ Len(bucket[x]) <= MaxRequests
          /\ bucket[x] # <<>> => Limiter!Contains(table, x)
    BY BucketFacts DEF Limiter!TypeOK
  <1>6. Append(admitted[k], now) \in Seq(0..now) /\ Append(everAdmitted[k], now) \in Seq(0..now)
    BY <1>3, <1>5, AppendProperties
  <1>7. <<>> \in Seq(0..now) /\ Len(<<>>) = 0 BY EmptySeq
  <1>8. Limiter!TypeOK'
    <2>1. bucket' \in [RateKeys -> Seq(0..now)] BY <1>2, <1>4, <1>5, <1>7
    <2>2. admitted' \in [RateKeys -> Seq(0..now)] BY <1>2, <1>5, <1>6, <1>7
    <2>3. everAdmitted' \in [RateKeys -> Seq(0..now)]
      BY <1>2, <1>6 DEF Limiter!TypeOK
    <2>4. promised' \in [RateKeys -> Nat] BY <1>2 DEF Limiter!TypeOK
    <2>5. now' = now /\ now \in 0..MaxTime BY DEF Limiter!TypeOK
    <2>6. rejected' \in [Slots -> RateKeys \cup {<<None, None>>}] BY DEF Limiter!TypeOK
    <2>7. ASSUME NEW x \in RateKeys
          PROVE  Len(bucket'[x]) <= MaxRequests
                 /\ (bucket'[x] # <<>> => Limiter!Contains(table', x))
      <3>1. CASE ~kept(x) BY <1>2, <1>7, <3>1, HttpAssumption
      <3>2. CASE kept(x) /\ x = k BY <1>1, <1>2, <1>4, <3>2
      <3>3. CASE kept(x) /\ x # k BY <1>1, <1>2, <1>5, <3>3
      <3> QED BY <3>1, <3>2, <3>3
    <2> QED BY <1>1, <2>1, <2>2, <2>3, <2>4, <2>5, <2>6, <2>7 DEF Limiter!TypeOK
  <1>9. Limiter!AdmittedIsKept'
    <2> SUFFICES ASSUME NEW x \in RateKeys
                 PROVE  admitted'[x] = Limiter!StillIn(bucket'[x], now)
      BY DEF Limiter!AdmittedIsKept, Limiter!StillIn, Limiter!Expired
    <2>1. CASE ~kept(x)
      <3>1. admitted'[x] = <<>> /\ bucket'[x] = <<>> BY <1>2, <2>1
      <3>2. Limiter!StillIn(<<>>, now) = <<>> BY <1>3, StillInNothing
      <3> QED BY <3>1, <3>2
    <2>2. CASE kept(x) /\ x = k BY <1>2, <1>4, <2>2
    <2>3. CASE kept(x) /\ x # k BY <1>2, <2>3 DEF Limiter!AdmittedIsKept
    <2> QED BY <2>1, <2>2, <2>3
  <1>10. Limiter!AdmittedIsLast'
    <2> SUFFICES ASSUME NEW x \in RateKeys
                 PROVE  Limiter!EndsWith(everAdmitted'[x], admitted'[x])
      BY DEF Limiter!AdmittedIsLast, Limiter!EndsWith
    <2>1. Limiter!EndsWith(everAdmitted[x], admitted[x]) BY DEF Limiter!AdmittedIsLast
    <2> DEFINE s == everAdmitted[x]
               r == admitted[x]
    <2>2. s \in Seq(0..now) /\ r \in Seq(0..now) BY <1>5
    <2>3. CASE ~kept(x)
      <3>1. admitted'[x] = <<>> BY <1>2, <2>3
      <3> QED
        <4>1. everAdmitted'[x] \in Seq(0..now)
          BY <1>2, <1>6, <2>2 DEF Limiter!TypeOK
        <4>2. Len(everAdmitted'[x]) \in Nat BY <4>1
        <4> QED BY <3>1, <4>2, <1>7 DEF Limiter!EndsWith
    <2>4. CASE kept(x) /\ x = k
      <3>1. everAdmitted'[x] = Append(s, now) /\ admitted'[x] = Append(r, now)
        BY <1>2, <2>4 DEF Limiter!TypeOK
      <3> HIDE DEF s, r
      <3>2. /\ Len(r) <= Len(s)
            /\ \A i \in 1..Len(r) : s[i + Len(s) - Len(r)] = r[i]
        BY <2>1 DEF Limiter!EndsWith, s, r
      <3>3. /\ Len(Append(s, now)) = Len(s) + 1 /\ Append(s, now)[Len(s) + 1] = now
            /\ \A i \in 1..Len(s) : Append(s, now)[i] = s[i]
            /\ Len(Append(r, now)) = Len(r) + 1 /\ Append(r, now)[Len(r) + 1] = now
            /\ \A i \in 1..Len(r) : Append(r, now)[i] = r[i]
            /\ Len(s) \in Nat /\ Len(r) \in Nat
        BY <2>2
      <3>4. ASSUME NEW i \in 1..Len(r)+1
            PROVE  Append(s, now)[i + (Len(s)+1) - (Len(r)+1)] = Append(r, now)[i]
        <4> DEFINE j == i + (Len(s)+1) - (Len(r)+1)
        <4>1. CASE i \in 1..Len(r)
          <5>1. j = i + Len(s) - Len(r) /\ j \in 1..Len(s) BY <3>2, <3>3, <4>1
          <5> QED BY <3>2, <3>3, <4>1, <5>1
        <4>2. CASE i = Len(r) + 1
          <5>1. j = Len(s) + 1 BY <3>3, <4>2
          <5> QED BY <3>3, <4>2, <5>1
        <4>3. i \in 1..Len(r) \/ i = Len(r) + 1 BY <3>3
        <4> QED BY <4>1, <4>2, <4>3
      <3> DEFINE a == Append(s, now)
                 b == Append(r, now)
      <3>5. Len(a) = Len(s) + 1 /\ Len(b) = Len(r) + 1 /\ Len(b) <= Len(a) BY <3>2, <3>3
      <3>6. \A i \in 1..Len(b) : a[i + Len(a) - Len(b)] = b[i] BY <3>4, <3>5
      <3> HIDE DEF a, b
      <3>7. Limiter!EndsWith(a, b) BY <3>5, <3>6 DEF Limiter!EndsWith
      <3> QED BY <3>1, <3>7 DEF a, b
    <2>5. CASE kept(x) /\ x # k BY <1>2, <2>1, <2>5 DEF Limiter!TypeOK
    <2> QED BY <2>3, <2>4, <2>5
  <1>11. Limiter!HintHolds'
    <2> SUFFICES ASSUME NEW x \in RateKeys, promised'[x] # 0
                 PROVE  Len(Limiter!StillIn(bucket'[x], Limiter!Due(x)')) < MaxRequests
      BY DEF Limiter!HintHolds, Limiter!StillIn, Limiter!Expired
    <2>1. x # k /\ promised'[x] = promised[x] BY <1>2 DEF Limiter!TypeOK
    <2>2. Limiter!Due(x)' = Limiter!Due(x) /\ Limiter!Due(x) \in Nat
      BY <1>3, <1>5, <2>1 DEF Limiter!Due
    <2>3. CASE kept(x) BY <1>2, <2>1, <2>2, <2>3 DEF Limiter!HintHolds
    <2>4. CASE ~kept(x)
      <3>1. bucket'[x] = <<>> BY <1>2, <2>4
      <3>2. Limiter!StillIn(<<>>, Limiter!Due(x)) = <<>> BY <2>2, StillInNothing
      <3> QED BY <1>7, <2>2, <3>1, <3>2, HttpAssumption
    <2> QED BY <2>3, <2>4
  <1> QED BY <1>8, <1>9, <1>10, <1>11

\* Pruning a bucket changes nothing that anybody sees, then or later.
LEMMA LimiterPrunes ==
  ASSUME Limiter!LimiterInv, NEW k \in RateKeys,
         bucket' = [bucket EXCEPT ![k] = Limiter!Prune(@)],
         UNCHANGED <<now, table, admitted, everAdmitted>>,
         rejected' \in [Slots -> RateKeys \cup {<<None, None>>}],
         promised' \in [RateKeys -> Nat],
         \A x \in RateKeys :
           \/ promised'[x] = promised[x]
           \/ x = k /\ Len(Limiter!StillIn(Limiter!Prune(bucket[k]), promised'[k])) < MaxRequests
                    /\ promised'[k] >= now
  PROVE  Limiter!LimiterInv'
  <1> USE DEF Limiter!LimiterInv
  <1> DEFINE pruned == Limiter!Prune(bucket[k])
  <1>1. /\ now \in Nat /\ pruned \in Seq(0..now) /\ pruned \in Seq(Nat)
        /\ pruned = Limiter!StillIn(bucket[k], now) /\ bucket[k] \in Seq(Nat)
        /\ Len(pruned) \in Nat /\ Len(bucket[k]) \in Nat /\ Len(pruned) <= Len(bucket[k])
    BY BucketFacts
  <1>2. \A t \in Nat : now <= t =>
          Limiter!StillIn(pruned, t) = Limiter!StillIn(bucket[k], t)
    BY <1>1, StillInTwice
  <1>3. bucket \in [RateKeys -> Seq(0..now)] BY DEF Limiter!TypeOK
  <1>4. bucket' = [bucket EXCEPT ![k] = pruned] OBVIOUS
  <1> HIDE DEF pruned
  <1>5. bucket'[k] = pruned /\ \A x \in RateKeys : x # k => bucket'[x] = bucket[x]
    BY <1>3, <1>4
  <1>6. \A x \in RateKeys, t \in Nat : now <= t =>
          Limiter!StillIn(bucket'[x], t) = Limiter!StillIn(bucket[x], t)
    BY <1>2, <1>5
  <1>7. Limiter!TypeOK'
    <2>1. bucket' \in [RateKeys -> Seq(0..now)] BY <1>1, <1>3, <1>4
    <2>2. ASSUME NEW x \in RateKeys
          PROVE  Len(bucket'[x]) <= MaxRequests
                 /\ (bucket'[x] # <<>> => Limiter!Contains(table, x))
      <3>1. Len(bucket[x]) <= MaxRequests /\ (bucket[x] # <<>> => Limiter!Contains(table, x))
        BY DEF Limiter!TypeOK
      <3>2. CASE x # k BY <1>5, <3>1, <3>2
      <3>3. CASE x = k
        <4>1. Len(pruned) <= MaxRequests BY <1>1, <3>1, <3>3, HttpAssumption
        <4>2. pruned # <<>> => bucket[k] # <<>>
          <5>1. pruned # <<>> => Len(pruned) # 0 BY <1>1
          <5>2. Len(bucket[k]) # 0 => bucket[k] # <<>> BY <1>1
          <5> QED BY <1>1, <5>1, <5>2
        <4> QED BY <1>5, <3>1, <3>3, <4>1, <4>2
      <3> QED BY <3>2, <3>3
    <2> QED BY <2>1, <2>2 DEF Limiter!TypeOK
  <1>8. Limiter!AdmittedIsKept'
    <2> SUFFICES ASSUME NEW x \in RateKeys
                 PROVE  admitted[x] = Limiter!StillIn(bucket'[x], now)
      BY DEF Limiter!AdmittedIsKept, Limiter!StillIn, Limiter!Expired
    <2>1. admitted[x] = Limiter!StillIn(bucket[x], now) BY DEF Limiter!AdmittedIsKept
    <2> QED BY <1>1, <1>6, <2>1
  <1>9. Limiter!AdmittedIsLast' BY DEF Limiter!AdmittedIsLast, Limiter!EndsWith
  <1>10. Limiter!HintHolds'
    <2> SUFFICES ASSUME NEW x \in RateKeys, promised'[x] # 0
                 PROVE  Len(Limiter!StillIn(bucket'[x], Limiter!Due(x)')) < MaxRequests
      BY DEF Limiter!HintHolds, Limiter!StillIn, Limiter!Expired
    <2>1. promised'[x] \in Nat /\ promised[x] \in Nat BY BucketFacts
    <2>2. CASE promised'[x] = promised[x]
      <3>1. Limiter!Due(x)' = Limiter!Due(x) /\ Limiter!Due(x) \in Nat /\ now <= Limiter!Due(x)
        BY <1>1, <2>1, <2>2 DEF Limiter!Due
      <3>2. Limiter!StillIn(bucket'[x], Limiter!Due(x)) = Limiter!StillIn(bucket[x], Limiter!Due(x))
        BY <1>6, <3>1
      <3> QED BY <2>2, <3>1, <3>2 DEF Limiter!HintHolds
    <2>3. CASE promised'[x] # promised[x]
      <3>1. x = k /\ Len(Limiter!StillIn(pruned, promised'[k])) < MaxRequests /\ promised'[k] >= now
        BY <2>3 DEF pruned
      <3>2. Limiter!Due(x)' = promised'[k] BY <1>1, <2>1, <3>1 DEF Limiter!Due
      <3> QED BY <1>5, <3>1, <3>2
    <2> QED BY <2>2, <2>3
  <1> QED BY <1>7, <1>8, <1>9, <1>10

LEMMA LimiterRefuses ==
  ASSUME Limiter!LimiterInv, NEW k \in RateKeys, NEW s \in Slots, Limiter!Refuse(k),
         rejected' = [rejected EXCEPT ![s] = k], UNCHANGED now
  PROVE  Limiter!LimiterInv'
  <1> USE DEF Limiter!LimiterInv
  <1>1. table' = table BY RefusedHasEntries DEF Limiter!Refuse
  <1>2. /\ bucket' = [bucket EXCEPT ![k] = Limiter!Prune(@)]
        /\ UNCHANGED <<admitted, everAdmitted, promised>>
    BY DEF Limiter!Refuse
  <1>3. /\ rejected' \in [Slots -> RateKeys \cup {<<None, None>>}]
        /\ promised' \in [RateKeys -> Nat]
    BY <1>2 DEF Limiter!TypeOK
  <1> QED BY <1>1, <1>2, <1>3, LimiterPrunes

\* When its hint is over, the oldest entry has left the window.
LEMMA LimiterHints ==
  ASSUME Limiter!LimiterInv, NEW s \in Slots, Limiter!SendHint(s)
  PROVE  Limiter!LimiterInv'
  <1> USE DEF Limiter!LimiterInv
  <1> DEFINE k == rejected[s]
             pruned == Limiter!Prune(bucket[k])
             hint == Limiter!Hint(k)
  <1>1. k \in RateKeys BY DEF Limiter!SendHint, Limiter!TypeOK
  <1>2. /\ bucket' = [bucket EXCEPT ![k] = Limiter!Prune(@)]
        /\ promised' = [promised EXCEPT ![k] = now + Limiter!Hint(k)]
        /\ rejected' = [rejected EXCEPT ![s] = <<None, None>>]
        /\ UNCHANGED <<now, table, admitted, everAdmitted>>
    BY DEF Limiter!SendHint
  <1>3. /\ now \in Nat /\ pruned \in Seq(Nat) /\ Len(pruned) \in Nat
        /\ Len(pruned) <= MaxRequests
    <2>1. /\ now \in Nat /\ pruned \in Seq(Nat) /\ Len(pruned) \in Nat
          /\ Len(pruned) <= Len(bucket[k]) /\ Len(bucket[k]) \in Nat
      BY <1>1, BucketFacts
    <2>2. Len(bucket[k]) <= MaxRequests BY <1>1 DEF Limiter!TypeOK
    <2> QED BY <2>1, <2>2, HttpAssumption
  <1>4. Limiter!RetryAfter(k) = IF pruned = <<>> THEN Window ELSE Head(pruned) + Window - now
    BY DEF Limiter!RetryAfter
  <1>5. hint \in Nat /\ hint >= 1 /\ (pruned # <<>> => hint >= Head(pruned) + Window - now)
    <2>1. pruned # <<>> => Head(pruned) \in Nat BY <1>3
    <2> QED BY <1>3, <1>4, <2>1, HttpAssumption DEF Limiter!Hint
  <1> HIDE DEF pruned, hint
  <1>6. Len(Limiter!StillIn(pruned, now + hint)) < MaxRequests
    <2> DEFINE t == now + hint
    <2>1. pruned # <<>> => Head(pruned) \in Nat /\ t - Head(pruned) >= Window
      BY <1>3, <1>5, HttpAssumption
    <2>2. t \in Nat BY <1>3, <1>5
    <2> HIDE DEF t
    <2>3. pruned = <<>> \/ t - Head(pruned) >= Window BY <2>1
    <2>4. \/ Limiter!StillIn(pruned, t) = <<>>
          \/ Len(Limiter!StillIn(pruned, t)) < Len(pruned)
      BY <1>3, <2>2, <2>3, StillInLess
    <2>5. Len(Limiter!StillIn(pruned, t)) \in Nat BY <1>3, <2>2, StillInIs
    <2>6. Len(Limiter!StillIn(pruned, t)) < MaxRequests
      BY <1>3, <2>4, <2>5, EmptySeq, HttpAssumption
    <2> QED BY <2>6 DEF t
  <1>7. promised \in [RateKeys -> Nat] /\ rejected \in [Slots -> RateKeys \cup {<<None, None>>}]
    BY DEF Limiter!TypeOK
  <1>8. promised' = [promised EXCEPT ![k] = now + hint] BY <1>2 DEF hint
  <1> HIDE DEF k
  <1>9. promised' \in [RateKeys -> Nat] /\ promised'[k] = now + hint /\ promised'[k] >= now
        /\ \A x \in RateKeys : x # k => promised'[x] = promised[x]
    BY <1>1, <1>3, <1>5, <1>7, <1>8
  <1>10. rejected' \in [Slots -> RateKeys \cup {<<None, None>>}] BY <1>2, <1>7
  <1>11. Len(Limiter!StillIn(Limiter!Prune(bucket[k]), promised'[k])) < MaxRequests
    BY <1>6, <1>9 DEF pruned
  <1> QED BY <1>1, <1>2, <1>9, <1>10, <1>11, LimiterPrunes

LEMMA LimiterTicks ==
  ASSUME Limiter!LimiterInv, Limiter!Tick
  PROVE  Limiter!LimiterInv'
  <1> USE DEF Limiter!LimiterInv
  <1>1. /\ now < MaxTime /\ now' = now + 1
        /\ admitted' = [k \in RateKeys |-> Limiter!StillIn(admitted[k], now + 1)]
        /\ everAdmitted' = [k \in RateKeys |-> Limiter!StillIn(everAdmitted[k], now + 1)]
        /\ UNCHANGED <<table, bucket, rejected, promised>>
    BY DEF Limiter!Tick
  <1>2. now \in Nat /\ now' \in 0..MaxTime /\ now' \in Nat /\ 0..now \subseteq 0..now' /\ now <= now'
    BY <1>1, HttpAssumption DEF Limiter!TypeOK
  <1>3. ASSUME NEW k \in RateKeys
        PROVE  /\ bucket[k] \in Seq(0..now') /\ admitted'[k] \in Seq(0..now')
               /\ everAdmitted'[k] \in Seq(0..now')
               /\ bucket[k] \in Seq(Nat) /\ admitted[k] \in Seq(Nat)
               /\ everAdmitted[k] \in Seq(Nat) /\ promised[k] \in Nat
    <2>1. /\ bucket[k] \in Seq(0..now) /\ admitted[k] \in Seq(0..now)
          /\ everAdmitted[k] \in Seq(0..now)
          /\ bucket[k] \in Seq(Nat) /\ admitted[k] \in Seq(Nat)
          /\ everAdmitted[k] \in Seq(Nat) /\ promised[k] \in Nat
      BY BucketFacts
    <2>2. /\ Limiter!StillIn(admitted[k], now') \in Seq(0..now)
          /\ Limiter!StillIn(everAdmitted[k], now') \in Seq(0..now)
      BY <1>2, <2>1, StillInAll
    <2>3. /\ bucket[k] \in Seq(0..now') /\ Limiter!StillIn(admitted[k], now') \in Seq(0..now')
          /\ Limiter!StillIn(everAdmitted[k], now') \in Seq(0..now')
      BY <1>2, <2>1, <2>2, SeqMonotonic
    <2> QED BY <1>1, <2>1, <2>3
  <1>4. Limiter!TypeOK'
    <2>1. /\ bucket' \in [RateKeys -> Seq(0..now')] /\ admitted' \in [RateKeys -> Seq(0..now')]
          /\ everAdmitted' \in [RateKeys -> Seq(0..now')]
      BY <1>1, <1>3 DEF Limiter!TypeOK
    <2> QED BY <1>1, <1>2, <2>1 DEF Limiter!TypeOK
  <1>5. Limiter!AdmittedIsKept'
    <2> SUFFICES ASSUME NEW k \in RateKeys
                 PROVE  admitted'[k] = Limiter!StillIn(bucket[k], now')
      BY <1>1 DEF Limiter!AdmittedIsKept, Limiter!StillIn, Limiter!Expired
    <2>1. admitted[k] = Limiter!StillIn(bucket[k], now) BY DEF Limiter!AdmittedIsKept
    <2>2. Limiter!StillIn(Limiter!StillIn(bucket[k], now), now') = Limiter!StillIn(bucket[k], now')
      BY <1>2, <1>3, StillInTwice
    <2> QED BY <1>1, <2>1, <2>2
  <1>6. Limiter!AdmittedIsLast'
    <2> SUFFICES ASSUME NEW k \in RateKeys
                 PROVE  Limiter!EndsWith(everAdmitted'[k], admitted'[k])
      BY DEF Limiter!AdmittedIsLast, Limiter!EndsWith
    <2>1. Limiter!EndsWith(everAdmitted[k], admitted[k]) BY DEF Limiter!AdmittedIsLast
    <2> QED BY <1>1, <1>2, <1>3, <2>1, StillInEnds
  <1>7. Limiter!HintHolds'
    <2> SUFFICES ASSUME NEW k \in RateKeys, promised[k] # 0
                 PROVE  Len(Limiter!StillIn(bucket[k], Limiter!Due(k)')) < MaxRequests
      BY <1>1 DEF Limiter!HintHolds, Limiter!StillIn, Limiter!Expired
    <2> DEFINE d == Limiter!Due(k)
               r == Limiter!StillIn(bucket[k], d)
    <2>1. Len(r) < MaxRequests BY DEF Limiter!HintHolds
    <2>2. d \in Nat /\ Limiter!Due(k)' \in Nat /\ d <= Limiter!Due(k)'
      BY <1>1, <1>2, <1>3 DEF Limiter!Due
    <2>3. r \in Seq(Nat) /\ Len(r) \in Nat BY <1>3, <2>2, StillInIs
    <2>4. Limiter!StillIn(r, Limiter!Due(k)') = Limiter!StillIn(bucket[k], Limiter!Due(k)')
      BY <1>3, <2>2, StillInTwice
    <2> HIDE DEF r, d
    <2>5. /\ Len(Limiter!StillIn(r, Limiter!Due(k)')) \in Nat
          /\ Len(Limiter!StillIn(r, Limiter!Due(k)')) <= Len(r)
      <3>1. Len(Limiter!StillIn(r, Limiter!Due(k)'))
              = Len(r) - Limiter!Expired(r, Limiter!Due(k)')
            /\ Limiter!Expired(r, Limiter!Due(k)') \in 0..Len(r)
        BY <2>2, <2>3, StillInIs
      <3> QED BY <2>3, <3>1
    <2> QED BY <2>1, <2>3, <2>4, <2>5, HttpAssumption
  <1> QED BY <1>4, <1>5, <1>6, <1>7

LEMMA LimiterStands ==
  ASSUME Limiter!LimiterInv, UNCHANGED limiter
  PROVE  Limiter!LimiterInv'
  <1>0. /\ now' = now /\ table' = table /\ bucket' = bucket /\ admitted' = admitted
        /\ everAdmitted' = everAdmitted /\ rejected' = rejected /\ promised' = promised
    BY DEF limiter
  <1>1. Limiter!TypeOK' BY <1>0 DEF Limiter!LimiterInv, Limiter!TypeOK
  <1>2. Limiter!AdmittedIsKept' BY <1>0 DEF Limiter!LimiterInv, Limiter!AdmittedIsKept
  <1>3. Limiter!AdmittedIsLast' BY <1>0 DEF Limiter!LimiterInv, Limiter!AdmittedIsLast
  <1>4. Limiter!HintHolds'
    BY <1>0 DEF Limiter!LimiterInv, Limiter!HintHolds, Limiter!Due
  <1> QED BY <1>1, <1>2, <1>3, <1>4 DEF Limiter!LimiterInv

\* What the limiter promises follows.
LEMMA LimiterIsFair ==
  ASSUME Limiter!LimiterInv
  PROVE  Limiter!WithinQuota /\ Limiter!RefusalIsDeserved /\ Limiter!HintIsHonest
  <1> USE DEF Limiter!LimiterInv
  <1>1. ASSUME NEW k \in RateKeys
        PROVE  /\ admitted[k] = Limiter!StillIn(bucket[k], now)
               /\ Len(admitted[k]) \in Nat /\ Len(everAdmitted[k]) \in Nat
               /\ Len(admitted[k]) <= Len(everAdmitted[k])
               /\ Len(admitted[k]) <= MaxRequests
               /\ Limiter!Admits(k) = (Len(admitted[k]) < MaxRequests)
               /\ (promised[k] # 0 /\ now >= promised[k] => Limiter!Admits(k))
    <2>1. /\ admitted[k] = Limiter!StillIn(bucket[k], now)
          /\ Limiter!EndsWith(everAdmitted[k], admitted[k])
          /\ Len(bucket[k]) <= MaxRequests
      BY DEF Limiter!AdmittedIsKept, Limiter!AdmittedIsLast, Limiter!TypeOK
    <2>2. /\ now \in Nat /\ promised[k] \in Nat
          /\ Limiter!Prune(bucket[k]) = Limiter!StillIn(bucket[k], now)
          /\ Len(Limiter!Prune(bucket[k])) <= Len(bucket[k])
          /\ Len(admitted[k]) \in Nat /\ Len(everAdmitted[k]) \in Nat /\ Len(bucket[k]) \in Nat
      BY BucketFacts
    <2>3. Len(admitted[k]) <= Len(everAdmitted[k]) BY <2>1 DEF Limiter!EndsWith
    <2>4. Len(admitted[k]) <= MaxRequests BY <2>1, <2>2, HttpAssumption
    <2>5. Limiter!Admits(k) = (Len(admitted[k]) < MaxRequests)
      BY <2>1, <2>2 DEF Limiter!Admits
    <2>6. promised[k] # 0 /\ now >= promised[k] => Limiter!Admits(k)
      <3> SUFFICES ASSUME promised[k] # 0, now >= promised[k] PROVE Limiter!Admits(k) OBVIOUS
      <3>1. Limiter!Due(k) = now BY <2>2 DEF Limiter!Due
      <3>2. Len(Limiter!StillIn(bucket[k], now)) < MaxRequests BY <3>1 DEF Limiter!HintHolds
      <3> QED BY <2>1, <2>5, <3>2
    <2> QED BY <2>1, <2>2, <2>3, <2>4, <2>5, <2>6
  <1>2. Limiter!WithinQuota BY <1>1 DEF Limiter!WithinQuota
  <1>3. Limiter!RefusalIsDeserved
    <2> SUFFICES ASSUME NEW k \in RateKeys, ~Limiter!Admits(k)
                 PROVE  Len(everAdmitted[k]) >= MaxRequests
      BY DEF Limiter!RefusalIsDeserved
    <2>1. /\ Len(admitted[k]) \in Nat /\ Len(everAdmitted[k]) \in Nat
          /\ Len(admitted[k]) <= Len(everAdmitted[k]) /\ ~ (Len(admitted[k]) < MaxRequests)
      BY <1>1
    <2> QED BY <2>1, HttpAssumption
  <1>4. Limiter!HintIsHonest BY <1>1 DEF Limiter!HintIsHonest
  <1> QED BY <1>2, <1>3, <1>4

----------------------------------------------------------------------------
(* The layers.                                                               *)

LayerNames == {"boundary", "auth", "rate", "log", "shape", "limit", "cards", "version", "route"}
Stages == {"idle", "done", "hint"} \cup LayerNames

LEMMA LayersAre == {Layers[i] : i \in DOMAIN Layers} = LayerNames
  <1>1. DOMAIN Layers = 1..9 BY DEF Layers
  <1>2. ASSUME NEW i \in 1..9 PROVE Layers[i] \in LayerNames BY DEF Layers, LayerNames
  <1>3. /\ Layers[1] = "boundary" /\ Layers[2] = "auth" /\ Layers[3] = "rate"
        /\ Layers[4] = "log" /\ Layers[5] = "shape" /\ Layers[6] = "limit"
        /\ Layers[7] = "cards" /\ Layers[8] = "version" /\ Layers[9] = "route"
    BY DEF Layers
  <1>4. {1, 2, 3, 4, 5, 6, 7, 8, 9} \subseteq 1..9 OBVIOUS
  <1>5. LayerNames \subseteq {Layers[i] : i \in 1..9} BY <1>3, <1>4 DEF LayerNames
  <1> QED BY <1>1, <1>2, <1>5

\* The part of HttpInv that is about requests one by one.
LocalTypes ==
  /\ stage \in [Slots -> Stages]
  /\ req \in [Slots -> Requests]
  /\ principal \in [Slots -> Credentials \cup {Nobody}]
  /\ body \in [Slots -> {"unread", "reading", "cached"}]
  /\ got \in [Slots -> Nat]
  /\ reached \in [Slots -> SUBSET LayerNames]
  /\ resp \in [Slots -> Response]
  /\ \A s \in Slots : /\ got[s] \in 0..req[s].size
                      /\ (stage[s] = "done") = (resp[s].status # 0)
                      /\ (body[s] = "cached") => got[s] = req[s].size

Buffered == \A s \in Slots : BodyLimit > 0 => got[s] <= BodyLimit

LocalInv ==
  /\ LocalTypes /\ Buffered /\ ExtendedCardIsPrivate
  /\ InOrderPassed /\ LayersHold /\ BodiesCounted

\* What the request of a slot is.
LEMMA RequestIs ==
  ASSUME LocalTypes, NEW s \in Slots
  PROVE  req[s] \in Requests /\ req[s].size \in Nat /\ req[s].declared \in Int
  BY HttpAssumption DEF LocalTypes

LEMMA BeforeIs ==
  /\ \A st \in Stages \ {"done"} : "route" \notin Before[st]
  /\ \A st \in {"idle", "boundary", "auth"} : "auth" \notin Before[st]
  /\ \A st \in {"idle", "boundary", "auth", "rate", "hint"} : "rate" \notin Before[st]
  /\ \A st \in {"log", "shape", "limit", "cards", "version", "route"} :
       Before["log"] \subseteq Before[st]
  BY DEF Before, Stages, LayerNames

\* A request passes a layer that has made sure of what it has to.
LEMMA PassKeeps ==
  ASSUME LocalInv, NEW s \in Slots, NEW from \in LayerNames,
         NEW to \in Stages \ {"idle", "done"},
         stage[s] = from, Pass(s, to), Before[to] = Before[from] \cup {from},
         req' = req, body' = body, got' = got,
         principal' \in [Slots -> Credentials \cup {Nobody}],
         \A x \in Slots : x # s => principal'[x] = principal[x],
         from # "auth" => principal' = principal,
         from = "boundary" => OriginAllowed(req[s]),
         from = "auth" => AuthExempt(req[s]) \/ principal'[s] # Nobody,
         from = "limit" /\ req[s].method = "POST" /\ BodyLimit > 0 => body[s] = "cached",
         from = "version" => (NeedsVersion(req[s]) => VersionSupported(req[s]))
  PROVE  LocalInv'
  <1> USE DEF LocalInv
  <1>1. LocalTypes' BY DEF LocalTypes, Pass, Stages, LayerNames
  <1>2. Buffered' BY DEF Buffered
  <1>3. /\ stage'[s] = to /\ reached'[s] = reached[s] \cup {from} /\ resp' = resp
        /\ \A x \in Slots : x # s => stage'[x] = stage[x] /\ reached'[x] = reached[x]
    BY DEF Pass, LocalTypes
  <1>4. /\ reached[s] = Before[from] /\ resp[s] = NoResponse /\ reached'[s] = Before[to]
        /\ "route" \notin Before[to] /\ to # "done"
    BY <1>3, BeforeIs DEF InOrderPassed, Stages, LayerNames
  <1>5. ExtendedCardIsPrivate'
    <2> SUFFICES ASSUME NEW x \in Slots
                 PROVE  resp[x].etag = ExtendedPath \/ "private" \in resp[x].ext
                          => principal'[x] # Nobody
      BY <1>3 DEF ExtendedCardIsPrivate
    <2>1. CASE x # s BY <2>1 DEF ExtendedCardIsPrivate
    <2>2. CASE x = s BY <1>4, <2>2 DEF NoResponse, None, ExtendedPath
    <2> QED BY <2>1, <2>2
  <1>6. InOrderPassed'
    <2> SUFFICES ASSUME NEW x \in Slots
                 PROVE  /\ stage'[x] # "done" => reached'[x] = Before[stage'[x]]
                                                 /\ resp'[x] = NoResponse
                        /\ "route" \in reached'[x] => Before["route"] \subseteq reached'[x]
      BY DEF InOrderPassed
    <2>1. CASE x # s BY <1>3, <2>1 DEF InOrderPassed
    <2>2. CASE x = s BY <1>3, <1>4, <2>2
    <2> QED BY <2>1, <2>2
  <1>7. LayersHold'
    <2> SUFFICES ASSUME NEW x \in Slots
          PROVE  LET q == req[x] IN
                 /\ "boundary" \in reached'[x] => OriginAllowed(q)
                 /\ "auth" \in reached'[x] => AuthExempt(q) \/ principal'[x] # Nobody
                 /\ "auth" \notin reached'[x] => principal'[x] = Nobody
                 /\ "limit" \in reached'[x] /\ q.method = "POST" /\ BodyLimit > 0
                      => body[x] = "cached"
                 /\ "version" \in reached'[x] => (NeedsVersion(q) => VersionSupported(q))
      BY DEF LayersHold
    <2>1. CASE x # s BY <1>3, <2>1 DEF LayersHold
    <2>2. CASE x = s
      <3>1. from = "auth" => "auth" \notin reached[s] BY <1>4, BeforeIs
      <3> QED BY <1>3, <2>2, <3>1 DEF LayersHold
    <2> QED BY <2>1, <2>2
  <1>8. BodiesCounted' BY <1>3 DEF BodiesCounted
  <1> QED BY <1>1, <1>2, <1>5, <1>6, <1>7, <1>8

\* A layer answers a request.
LEMMA AnswerKeeps ==
  ASSUME LocalInv, NEW s \in Slots, NEW r \in Response, r.status # 0,
         stage[s] # "done", stage' = [stage EXCEPT ![s] = "done"],
         resp' = [resp EXCEPT ![s] = r],
         reached' \in [Slots -> SUBSET LayerNames],
         \A x \in Slots : x # s => reached'[x] = reached[x],
         \/ reached'[s] = reached[s]
         \/ stage[s] = "route" /\ reached'[s] = reached[s] \cup {"route"},
         r.etag = ExtendedPath \/ "private" \in r.ext => principal[s] # Nobody,
         req' = req, body' = body, got' = got, principal' = principal
  PROVE  LocalInv'
  <1> USE DEF LocalInv
  <1>1. LocalTypes' BY DEF LocalTypes, Stages
  <1>2. Buffered' BY DEF Buffered
  <1>3. /\ stage'[s] = "done" /\ resp'[s] = r
        /\ \A x \in Slots : x # s => stage'[x] = stage[x] /\ resp'[x] = resp[x]
    BY DEF LocalTypes
  <1>4. reached[s] = Before[stage[s]] /\ "route" \notin reached[s]
    BY BeforeIs DEF InOrderPassed, LocalTypes
  <1>5. ExtendedCardIsPrivate' BY <1>3 DEF ExtendedCardIsPrivate
  <1>6. InOrderPassed'
    <2> SUFFICES ASSUME NEW x \in Slots
                 PROVE  /\ stage'[x] # "done" => reached'[x] = Before[stage'[x]]
                                                 /\ resp'[x] = NoResponse
                        /\ "route" \in reached'[x] => Before["route"] \subseteq reached'[x]
      BY DEF InOrderPassed
    <2>1. CASE x # s BY <1>3, <2>1 DEF InOrderPassed
    <2>2. CASE x = s BY <1>3, <1>4, <2>2
    <2> QED BY <2>1, <2>2
  <1>7. LayersHold'
    <2> SUFFICES ASSUME NEW x \in Slots
          PROVE  LET q == req[x] IN
                 /\ "boundary" \in reached'[x] => OriginAllowed(q)
                 /\ "auth" \in reached'[x] => AuthExempt(q) \/ principal[x] # Nobody
                 /\ "auth" \notin reached'[x] => principal[x] = Nobody
                 /\ "limit" \in reached'[x] /\ q.method = "POST" /\ BodyLimit > 0
                      => body[x] = "cached"
                 /\ "version" \in reached'[x] => (NeedsVersion(q) => VersionSupported(q))
      BY DEF LayersHold
    <2>1. CASE x # s BY <2>1 DEF LayersHold
    <2>2. CASE x = s BY <2>2 DEF LayersHold
    <2> QED BY <2>1, <2>2
  <1>8. BodiesCounted'
    <2> SUFFICES ASSUME NEW x \in Slots
                 PROVE  /\ body[x] = "unread" => got[x] = 0
                        /\ body[x] # "unread" => Before["log"] \subseteq reached'[x]
      BY DEF BodiesCounted
    <2>1. reached[x] \subseteq reached'[x] OBVIOUS
    <2> QED BY <2>1 DEF BodiesCounted
  <1> QED BY <1>1, <1>2, <1>5, <1>6, <1>7, <1>8

\* A request reads its body, or arrives: nothing but its counters changes.
LEMMA ReadKeeps ==
  ASSUME LocalInv, NEW s \in Slots, NEW b \in {"reading", "cached"}, NEW n \in Nat,
         Before["log"] \subseteq reached[s],
         body' = [body EXCEPT ![s] = b], got' = [got EXCEPT ![s] = n],
         n <= req[s].size, b = "cached" => n = req[s].size, BodyLimit > 0 => n <= BodyLimit,
         body[s] = "cached" => b = "cached",
         UNCHANGED <<stage, req, principal, reached, resp>>
  PROVE  LocalInv'
  <1> USE DEF LocalInv
  <1>1. /\ body'[s] = b /\ got'[s] = n
        /\ \A x \in Slots : x # s => body'[x] = body[x] /\ got'[x] = got[x]
    BY DEF LocalTypes
  <1>2. LocalTypes' BY <1>1, RequestIs DEF LocalTypes
  <1>3. Buffered' BY <1>1 DEF Buffered
  <1>4. ExtendedCardIsPrivate' BY DEF ExtendedCardIsPrivate
  <1>5. InOrderPassed' BY DEF InOrderPassed
  <1>6. LayersHold'
    <2>1. \A x \in Slots : body[x] = "cached" => body'[x] = "cached" BY <1>1
    <2> QED BY <2>1 DEF LayersHold
  <1>7. BodiesCounted' BY <1>1 DEF BodiesCounted
  <1> QED BY <1>2, <1>3, <1>4, <1>5, <1>6, <1>7

\* Which layer follows which.
LEMMA BeforeNext ==
  /\ Before["auth"] = Before["boundary"] \cup {"boundary"}
  /\ Before["rate"] = Before["auth"] \cup {"auth"}
  /\ Before["hint"] = Before["rate"]
  /\ Before["log"] = Before["rate"] \cup {"rate"}
  /\ Before["shape"] = Before["log"] \cup {"log"}
  /\ Before["limit"] = Before["shape"] \cup {"shape"}
  /\ Before["cards"] = Before["limit"] \cup {"limit"}
  /\ Before["version"] = Before["cards"] \cup {"cards"}
  /\ Before["route"] = Before["version"] \cup {"version"}
  /\ Before["boundary"] = Before["idle"]
  BY DEF Before

LEMMA ResponsesAre ==
  /\ \A c \in Nat : /\ Error(c) \in Response /\ Error(c).status = c
                    /\ Error(c).etag # ExtendedPath /\ Error(c).ext = {}
  /\ RpcError = Error(200) /\ NoResponse \in Response
  BY DEF Error, Response, NoResponse, None, ExtendedPath, RpcError

\* An error tells nothing.
LEMMA ErrorKeeps ==
  ASSUME LocalInv, NEW s \in Slots, NEW c \in Nat, c # 0, stage[s] # "done",
         Answer(s, Error(c)), UNCHANGED <<req, principal, body, got>>
  PROVE  LocalInv'
  <1>1. /\ Error(c) \in Response /\ Error(c).status # 0
        /\ ~ (Error(c).etag = ExtendedPath \/ "private" \in Error(c).ext)
    BY ResponsesAre
  <1>2. /\ stage' = [stage EXCEPT ![s] = "done"] /\ resp' = [resp EXCEPT ![s] = Error(c)]
        /\ reached' = reached
    BY DEF Answer
  <1>3. reached' \in [Slots -> SUBSET LayerNames] BY <1>2 DEF LocalInv, LocalTypes
  <1> QED BY <1>1, <1>2, <1>3, AnswerKeeps

\* A request waits for its hint, or arrives: no layer is passed.
LEMMA MoveKeeps ==
  ASSUME LocalInv, NEW s \in Slots, NEW to \in Stages \ {"done"}, stage[s] # "done",
         stage' = [stage EXCEPT ![s] = to], Before[to] = Before[stage[s]],
         UNCHANGED <<principal, body, got, reached, resp>>,
         \/ req' = req
         \/ /\ stage[s] = "idle" /\ req' \in [Slots -> Requests]
            /\ \A x \in Slots : x # s => req'[x] = req[x]
  PROVE  LocalInv'
  <1> USE DEF LocalInv
  <1>1. /\ stage'[s] = to
        /\ \A x \in Slots : x # s => stage'[x] = stage[x]
    BY DEF LocalTypes
  <1>2. /\ reached[s] = Before[stage[s]] /\ reached[s] = Before[to]
        /\ resp[s] = NoResponse
    BY DEF InOrderPassed
  <1>3. req' # req => /\ reached[s] = {} /\ body[s] = "unread" /\ got[s] = 0
    BY <1>2 DEF Before, LocalTypes, BodiesCounted
  <1>4. LocalTypes'
    <2>1. req' \in [Slots -> Requests] BY DEF LocalTypes
    <2>2. req'[s].size \in Nat BY <2>1, HttpAssumption
    <2>3. ASSUME NEW x \in Slots
          PROVE  /\ got[x] \in 0..req'[x].size
                 /\ (stage'[x] = "done") = (resp[x].status # 0)
                 /\ body[x] = "cached" => got[x] = req'[x].size
      <3>1. (stage'[x] = "done") = (resp[x].status # 0) BY <1>1 DEF LocalTypes
      <3>2. CASE req'[x] = req[x] BY <3>1, <3>2 DEF LocalTypes
      <3>3. CASE req'[x] # req[x]
        <4>1. x = s /\ req' # req BY <3>3
        <4>2. got[x] = 0 /\ body[x] = "unread" BY <1>3, <4>1
        <4> QED BY <2>2, <3>1, <4>1, <4>2
      <3> QED BY <3>2, <3>3
    <2>4. stage' \in [Slots -> Stages] BY DEF LocalTypes
    <2> QED BY <2>1, <2>3, <2>4 DEF LocalTypes
  <1>5. Buffered' BY DEF Buffered
  <1>6. ExtendedCardIsPrivate' BY DEF ExtendedCardIsPrivate
  <1>7. InOrderPassed' BY <1>1, <1>2 DEF InOrderPassed
  <1>8. LayersHold'
    <2> SUFFICES ASSUME NEW x \in Slots
          PROVE  LET q == req'[x] IN
                 /\ "boundary" \in reached[x] => OriginAllowed(q)
                 /\ "auth" \in reached[x] => AuthExempt(q) \/ principal[x] # Nobody
                 /\ "auth" \notin reached[x] => principal[x] = Nobody
                 /\ "limit" \in reached[x] /\ q.method = "POST" /\ BodyLimit > 0
                      => body[x] = "cached"
                 /\ "version" \in reached[x] => (NeedsVersion(q) => VersionSupported(q))
      BY DEF LayersHold
    <2>1. CASE req'[x] = req[x] BY <2>1 DEF LayersHold
    <2>2. CASE req'[x] # req[x]
      <3>1. x = s /\ req' # req BY <2>2
      <3>2. reached[x] = {} BY <1>3, <3>1
      <3> QED BY <3>2 DEF LayersHold
    <2> QED BY <2>1, <2>2
  <1>9. BodiesCounted' BY DEF BodiesCounted
  <1> QED BY <1>4, <1>5, <1>6, <1>7, <1>8, <1>9

LEMMA StandKeeps ==
  ASSUME LocalInv, UNCHANGED http
  PROVE  LocalInv'
  BY DEF LocalInv, LocalTypes, Buffered, ExtendedCardIsPrivate, InOrderPassed, LayersHold,
     BodiesCounted, http

\* A request passes a layer that changes nothing else.
LEMMA StepKeeps ==
  ASSUME LocalInv, NEW s \in Slots, NEW from \in LayerNames \ {"auth"},
         NEW to \in LayerNames, stage[s] = from, Pass(s, to),
         Before[to] = Before[from] \cup {from}, UNCHANGED <<req, principal, body, got>>,
         from = "boundary" => OriginAllowed(req[s]),
         from = "limit" /\ req[s].method = "POST" /\ BodyLimit > 0 => body[s] = "cached",
         from = "version" => (NeedsVersion(req[s]) => VersionSupported(req[s]))
  PROVE  LocalInv'
  <1>1. principal' \in [Slots -> Credentials \cup {Nobody}] BY DEF LocalInv, LocalTypes
  <1>2. to \in Stages \ {"idle", "done"} BY DEF Stages, LayerNames
  <1> QED BY <1>1, <1>2, PassKeeps

\* Every step of a request keeps what is known of it.
LEMMA LayerKeeps ==
  ASSUME LocalInv, NEW s \in Slots, Layer(s)
  PROVE  LocalInv'
  <1>1. LocalTypes BY DEF LocalInv
  <1>2. /\ req[s].size \in Nat /\ req[s].declared \in Int BY <1>1, RequestIs
  <1> USE DEF Stages, LayerNames
  <1>3. CASE Boundary(s)
    <2>1. CASE OriginAllowed(req[s]) /\ Pass(s, "auth")
      BY <1>3, <2>1, BeforeNext, StepKeeps DEF Boundary
    <2>2. CASE Answer(s, Error(403)) BY <1>3, <2>2, ErrorKeeps DEF Boundary
    <2> QED BY <1>3, <2>1, <2>2 DEF Boundary
  <1>4. CASE Auth(s)
    <2> DEFINE who == Authenticate(req[s])
    <2>1. who \in Credentials \cup {Nobody} BY DEF Authenticate
    <2> HIDE DEF who
    <2>2. CASE /\ Pass(s, "rate")
               /\ \/ AuthExempt(req[s]) /\ UNCHANGED principal
                  \/ who # Nobody /\ principal' = [principal EXCEPT ![s] = who]
      <3>1. principal' \in [Slots -> Credentials \cup {Nobody}]
        BY <1>1, <2>1, <2>2 DEF LocalTypes
      <3>2. /\ \A x \in Slots : x # s => principal'[x] = principal[x]
            /\ AuthExempt(req[s]) \/ principal'[s] # Nobody
        BY <1>1, <2>2 DEF LocalTypes
      <3>3. stage[s] = "auth" /\ UNCHANGED <<req, body, got>> BY <1>4 DEF Auth
      <3> QED BY <2>2, <3>1, <3>2, <3>3, BeforeNext, PassKeeps
    <2>3. CASE Answer(s, Error(401)) /\ UNCHANGED principal
      BY <1>4, <2>3, ErrorKeeps DEF Auth
    <2> QED BY <1>4, <2>2, <2>3 DEF Auth, who
  <1>5. CASE Rate(s)
    <2>1. stage[s] = "rate" /\ UNCHANGED <<req, principal, body, got>> BY <1>5 DEF Rate
    <2>2. CASE Pass(s, "log") BY <2>1, <2>2, BeforeNext, StepKeeps
    <2>3. CASE stage' = [stage EXCEPT ![s] = "hint"] /\ UNCHANGED <<reached, resp>>
      BY <2>1, <2>3, BeforeNext, MoveKeeps
    <2> QED BY <1>5, <2>2, <2>3 DEF Rate
  <1>6. CASE RateLimited(s) BY <1>6, ErrorKeeps DEF RateLimited
  <1>7. CASE OpenBody(s)
    <2>1. CASE Answer(s, Error(413)) /\ UNCHANGED body
      <3>1. stage[s] # "done" BY <1>7 DEF OpenBody, NeedsBody
      <3> QED BY <1>7, <2>1, <3>1, ErrorKeeps DEF OpenBody
    <2>2. CASE body' = [body EXCEPT ![s] = Opened(req[s])] /\ UNCHANGED <<stage, reached, resp>>
      <3>1. Opened(req[s]) \in {"reading", "cached"} BY DEF Opened
      <3>2. got[s] = 0 /\ body[s] = "unread" BY <1>7 DEF OpenBody, LocalInv, BodiesCounted
      <3>3. got' = [got EXCEPT ![s] = 0] BY <1>1, <1>7, <3>2 DEF OpenBody, LocalTypes
      <3>4. Before["log"] \subseteq reached[s]
        <4>1. stage[s] \in {"log", "shape", "limit"} BY <1>7 DEF OpenBody, NeedsBody
        <4>2. reached[s] = Before[stage[s]] BY <4>1 DEF LocalInv, InOrderPassed
        <4> QED BY <4>1, <4>2, BeforeIs
      <3>5. /\ Opened(req[s]) = "cached" => 0 = req[s].size
            /\ 0 <= req[s].size /\ (BodyLimit > 0 => 0 <= BodyLimit)
            /\ body[s] = "cached" => Opened(req[s]) = "cached"
        BY <1>2, <3>2, HttpAssumption DEF Opened
      <3>6. UNCHANGED <<req, principal>> BY <1>7 DEF OpenBody
      <3>7. PICK n \in Nat : n = 0 OBVIOUS
      <3> DEFINE b == Opened(req[s])
      <3>8. /\ got' = [got EXCEPT ![s] = n] /\ n <= req[s].size
            /\ (b = "cached" => n = req[s].size) /\ (BodyLimit > 0 => n <= BodyLimit)
            /\ (body[s] = "cached" => b = "cached") /\ b \in {"reading", "cached"}
            /\ body' = [body EXCEPT ![s] = b]
        BY <2>2, <3>1, <3>3, <3>5, <3>7
      <3> HIDE DEF b
      <3> QED BY <2>2, <3>4, <3>6, <3>8, ReadKeeps
    <2> QED BY <1>7, <2>1, <2>2 DEF OpenBody
  <1>8. CASE ReadChunk(s)
    <2>1. body[s] = "reading" /\ stage[s] # "done" /\ UNCHANGED <<req, principal, limiter>>
      BY <1>8 DEF ReadChunk
    <2>2. PICK n \in 1..(req[s].size - got[s]) :
            IF TooLarge(s, got[s] + n)
            THEN Answer(s, Error(413)) /\ UNCHANGED <<got, body>>
            ELSE /\ got' = [got EXCEPT ![s] = @ + n]
                 /\ body' = [body EXCEPT ![s] = IF got'[s] = req[s].size THEN "cached" ELSE @]
                 /\ UNCHANGED <<stage, reached, resp>>
      BY <1>8 DEF ReadChunk
    <2>3. CASE TooLarge(s, got[s] + n) BY <2>1, <2>2, <2>3, ErrorKeeps
    <2>4. CASE ~TooLarge(s, got[s] + n)
      <3> DEFINE m == got[s] + n
                 b == IF m = req[s].size THEN "cached" ELSE "reading"
      <3>1. got[s] \in Nat BY <1>1 DEF LocalTypes
      <3>2. m \in Nat /\ m <= req[s].size /\ (BodyLimit > 0 => m <= BodyLimit)
        BY <1>2, <2>4, <3>1, HttpAssumption DEF TooLarge
      <3>3. got' = [got EXCEPT ![s] = m] /\ got'[s] = m
        BY <1>1, <2>2, <2>4 DEF LocalTypes
      <3>4. body' = [body EXCEPT ![s] = b] BY <1>1, <2>1, <2>2, <2>4, <3>3 DEF LocalTypes
      <3>5. Before["log"] \subseteq reached[s] BY <2>1 DEF LocalInv, BodiesCounted
      <3>6. b \in {"reading", "cached"} /\ (b = "cached" => m = req[s].size) OBVIOUS
      <3> HIDE DEF m, b
      <3> QED BY <2>1, <2>2, <2>4, <3>2, <3>3, <3>4, <3>5, <3>6, ReadKeeps
    <2> QED BY <2>3, <2>4
  <1>9. CASE LogLayer(s) BY <1>9, BeforeNext, StepKeeps DEF LogLayer
  <1>10. CASE ShapeLayer(s)
    <2>1. CASE Pass(s, "limit") BY <1>10, <2>1, BeforeNext, StepKeeps DEF ShapeLayer
    <2>2. CASE ShapeError(req[s]) # NoResponse /\ Answer(s, ShapeError(req[s]))
      <3>1. PICK c \in {200, 400} : ShapeError(req[s]) = Error(c)
        BY <2>2 DEF ShapeError, RpcError
      <3> QED BY <1>10, <2>2, <3>1, ErrorKeeps DEF ShapeLayer
    <2> QED BY <1>10, <2>1, <2>2 DEF ShapeLayer
  <1>11. CASE LimitLayer(s)
    <2>1. req[s].method = "POST" /\ BodyLimit > 0 => body[s] = "cached"
      BY <1>11 DEF LimitLayer, BodyReady, NeedsBody, LimitReadsBody
    <2> QED BY <1>11, <2>1, BeforeNext, StepKeeps DEF LimitLayer
  <1>12. CASE CardLayer(s)
    <2> DEFINE r == [Error(304) EXCEPT !.etag = CardPath, !.ext = Activated(req[s])]
    <2>1. CASE Pass(s, "version") BY <1>12, <2>1, BeforeNext, StepKeeps DEF CardLayer
    <2>2. CASE IsPublicCard(req[s]) /\ Answer(s, r)
      <3>1. Activated(req[s]) \subseteq {"public"}
        BY <2>2 DEF Activated, Supported, IsPublicCard, CardPath, ExtendedPath
      <3>6. Error(304) \in Response /\ Error(304).status = 304 BY ResponsesAre
      <3>7. CardPath \in {None, CardPath, ExtendedPath} /\ CardPath # ExtendedPath
        BY DEF CardPath, ExtendedPath
      <3>8. r \in Response BY <3>1, <3>6, <3>7, ZenonT(60) DEF Response
      <3>9. r.status = 304 /\ r.etag = CardPath /\ r.ext = Activated(req[s])
        BY <3>6 DEF Response
      <3>2. /\ r \in Response /\ r.status # 0
            /\ ~ (r.etag = ExtendedPath \/ "private" \in r.ext)
        BY <3>1, <3>7, <3>8, <3>9
      <3> HIDE DEF r
      <3>3. /\ stage' = [stage EXCEPT ![s] = "done"] /\ resp' = [resp EXCEPT ![s] = r]
            /\ reached' = reached
        BY <2>2 DEF Answer
      <3>4. reached' \in [Slots -> SUBSET LayerNames] BY <1>1, <3>3 DEF LocalTypes
      <3>5. stage[s] # "done" /\ UNCHANGED <<req, principal, body, got>>
        BY <1>12 DEF CardLayer
      <3> QED BY <3>2, <3>3, <3>4, <3>5, AnswerKeeps
    <2> QED BY <1>12, <2>1, <2>2 DEF CardLayer
  <1>13. CASE VersionLayer(s)
    <2>1. CASE /\ NeedsVersion(req[s]) /\ ~VersionSupported(req[s])
               /\ Answer(s, IF req[s].route = "rpc" THEN RpcError ELSE Error(400))
      <3>1. PICK c \in {200, 400} : Answer(s, Error(c)) BY <2>1 DEF RpcError
      <3> QED BY <1>13, <3>1, ErrorKeeps DEF VersionLayer
    <2>2. CASE (NeedsVersion(req[s]) => VersionSupported(req[s])) /\ Pass(s, "route")
      BY <1>13, <2>2, BeforeNext, StepKeeps DEF VersionLayer
    <2> QED BY <1>13, <2>1, <2>2 DEF VersionLayer
  <1>14. CASE Route(s)
    <2>1. PICK status \in RouteStatuses(req[s]) :
            resp' = [resp EXCEPT ![s] =
                       WithCard(req[s], WithVersion(req[s], WithTrace(Error(status))))]
      BY <1>14 DEF Route
    <2> DEFINE q == req[s]
               r == WithCard(q, WithVersion(q, WithTrace(Error(status))))
    <2>2. status \in {200, 400, 404, 405} BY <2>1 DEF RouteStatuses
    <2>3. r \in Response /\ r.status # 0
      <3> DEFINE a == WithTrace(Error(status))
                 v == WithVersion(q, a)
      <3>1. Activated(q) \in SUBSET {"public", "private"}
        BY DEF Activated, Supported, CardPath, ExtendedPath
      <3>2. Error(status) \in Response /\ Error(status).status = status BY <2>2, ResponsesAre
      <3>3. a \in Response /\ a.status = status BY <3>2 DEF Response, WithTrace
      <3> HIDE DEF a
      <3>4. v \in Response /\ v.status = status
        <4>1. CASE v = a BY <3>3, <4>1
        <4>2. CASE v # a
          <5> DEFINE ext == IF Succeeds(a) THEN Activated(q) ELSE a.ext
          <5>1. v = [a EXCEPT !.version = TRUE, !.ext = ext] BY <4>2 DEF WithVersion
          <5>2. ext \in SUBSET {"public", "private"} BY <3>1, <3>3 DEF Response
          <5> HIDE DEF v, ext
          <5> QED BY <3>3, <5>1, <5>2 DEF Response
        <4> QED BY <4>1, <4>2
      <3> HIDE DEF v
      <3>5. CASE r = v BY <2>2, <3>4, <3>5
      <3>6. CASE r # v
        <4> DEFINE code == IF IsExtendedCard(q) /\ EtagMatches(q, ExtendedPath) THEN 304 ELSE 200
        <4>1. /\ r = [v EXCEPT !.etag = q.route, !.ext = Activated(q), !.status = code]
              /\ q.route \in {None, CardPath, ExtendedPath}
          <5>1. r = WithCard(q, v) BY DEF v, a
          <5> HIDE DEF r
          <5> QED BY <3>6, <5>1 DEF WithCard, IsPublicCard, IsExtendedCard
        <4>2. code \in Nat /\ code # 0 OBVIOUS
        <4> HIDE DEF r, code
        <4>3. r.status = code BY <3>4, <4>1 DEF Response
        <4> QED BY <3>1, <3>4, <4>1, <4>2, <4>3 DEF Response
      <3> QED BY <3>5, <3>6
    <2>4. r.etag = ExtendedPath \/ "private" \in r.ext => IsExtendedCard(q) /\ status = 200
      BY <2>2 DEF WithCard, WithVersion, WithTrace, Error, NoResponse, Activated,
         Supported, IsPublicCard, IsExtendedCard, CardPath, ExtendedPath, None, NeedsVersion
    <2> HIDE DEF r
    <2>5. /\ stage[s] = "route" /\ stage' = [stage EXCEPT ![s] = "done"]
          /\ reached' = [reached EXCEPT ![s] = @ \cup {"route"}]
          /\ UNCHANGED <<req, principal, body, got>>
      BY <1>14 DEF Route
    <2>6. r.etag = ExtendedPath \/ "private" \in r.ext => principal[s] # Nobody
      <3>1. reached[s] = Before["route"] BY <2>5 DEF LocalInv, InOrderPassed
      <3>2. "auth" \in reached[s] BY <3>1 DEF Before
      <3>3. AuthExempt(q) \/ principal[s] # Nobody BY <3>2 DEF LocalInv, LayersHold
      <3>4. IsExtendedCard(q) => ~AuthExempt(q)
        BY DEF IsExtendedCard, AuthExempt, CardPath, ExtendedPath
      <3> QED BY <2>4, <3>3, <3>4
    <2>7. /\ reached' \in [Slots -> SUBSET LayerNames]
          /\ reached'[s] = reached[s] \cup {"route"}
          /\ \A x \in Slots : x # s => reached'[x] = reached[x]
      BY <1>1, <2>5 DEF LocalTypes
    <2>8. resp' = [resp EXCEPT ![s] = r] BY <2>1 DEF r
    <2> QED BY <2>3, <2>5, <2>6, <2>7, <2>8, AnswerKeeps
  <1> QED BY <1>3, <1>4, <1>5, <1>6, <1>7, <1>8, <1>9, <1>10, <1>11, <1>12, <1>13, <1>14
          DEF Layer

LEMMA ArriveKeeps ==
  ASSUME LocalInv, NEW s \in Slots, NEW q \in Requests, Arrive(s, q)
  PROVE  LocalInv'
  <1>1. /\ stage[s] = "idle" /\ stage' = [stage EXCEPT ![s] = "boundary"]
        /\ req' = [req EXCEPT ![s] = q] /\ UNCHANGED <<principal, body, got, reached, resp>>
    BY DEF Arrive
  <1>2. req' \in [Slots -> Requests] /\ \A x \in Slots : x # s => req'[x] = req[x]
    BY <1>1 DEF LocalInv, LocalTypes
  <1>3. "boundary" \in Stages \ {"done"} BY DEF Stages, LayerNames
  <1> QED BY <1>1, <1>2, <1>3, BeforeNext, MoveKeeps

----------------------------------------------------------------------------
(* Layers and limiter together.                                              *)

\* What the requests promise follows from the part about them.
LEMMA ClearedFollows ==
  ASSUME LocalInv, Limiter!TypeOK
  PROVE  RequestsCleared
  <1> USE DEF LocalInv
  <1>1. TypeOK
    <2>1. {"idle", "done", "hint"} \cup {Layers[i] : i \in DOMAIN Layers} = Stages
      BY LayersAre DEF Stages
    <2> QED BY <2>1, LayersAre DEF TypeOK, LocalTypes
  <1>2. RouteIsCleared
    <2> SUFFICES ASSUME NEW s \in Slots, "route" \in reached[s]
          PROVE  LET q == req[s] IN
                 /\ q.origin = NoOrigin \/ OriginOf(q.origin) \in AllowedAsWritten
                      \/ q.origin \in AllowedAsWritten
                 /\ principal[s] # Nobody \/ q.method = "OPTIONS" \/ IsPublicCard(q)
                      \/ ~Served(q)
                 /\ q.method = "POST" /\ BodyLimit > 0 =>
                      body[s] = "cached" /\ got[s] = q.size /\ q.size <= BodyLimit
                 /\ Served(q) /\ NeedsVersion(q) => q.version = "current"
      BY DEF RouteIsCleared
    <2>1. Before["route"] \subseteq reached[s] BY DEF InOrderPassed
    <2>2. {"boundary", "auth", "limit", "version"} \subseteq reached[s] BY <2>1 DEF Before
    <2>3. OriginAllowed(req[s]) BY <2>2 DEF LayersHold
    <2>4. AuthExempt(req[s]) \/ principal[s] # Nobody BY <2>2 DEF LayersHold
    <2>5. req[s].method = "POST" /\ BodyLimit > 0 => body[s] = "cached"
      BY <2>2 DEF LayersHold
    <2>6. NeedsVersion(req[s]) => VersionSupported(req[s]) BY <2>2 DEF LayersHold
    <2>7. /\ body[s] = "cached" => got[s] = req[s].size
          /\ BodyLimit > 0 => got[s] <= BodyLimit
      BY DEF LocalTypes, Buffered
    <2>8. AuthExempt(req[s])
            => req[s].method = "OPTIONS" \/ IsPublicCard(req[s]) \/ ~Served(req[s])
      BY DEF AuthExempt, IsPublicCard, Served, CardPath
    <2> QED BY <2>3, <2>4, <2>5, <2>6, <2>7, <2>8 DEF OriginAllowed, VersionSupported
  <1>3. BufferBounded
    <2> SUFFICES ASSUME NEW s \in Slots, got[s] > 0
                 PROVE  {"boundary", "auth", "rate"} \subseteq reached[s]
      BY DEF BufferBounded, Buffered
    <2>1. body[s] # "unread" BY DEF BodiesCounted
    <2> QED BY <2>1 DEF BodiesCounted, Before
  <1> QED BY <1>1, <1>2, <1>3 DEF RequestsCleared

LEMMA LocalFollows ==
  ASSUME RequestsCleared, InOrderPassed, LayersHold, BodiesCounted
  PROVE  LocalInv
  <1>1. {"idle", "done", "hint"} \cup {Layers[i] : i \in DOMAIN Layers} = Stages
    BY LayersAre DEF Stages
  <1>2. LocalTypes BY <1>1, LayersAre DEF RequestsCleared, TypeOK, LocalTypes
  <1>3. Buffered BY DEF RequestsCleared, BufferBounded, Buffered
  <1> QED BY <1>2, <1>3 DEF LocalInv, RequestsCleared

\* Whose bucket a request is charged to.
LEMMA RateKeyIs ==
  ASSUME LocalTypes, NEW s \in Slots
  PROVE  RateKey(s) \in RateKeys /\ PaysWith(s, RateKey(s))
  <1>1. req[s] \in Requests /\ principal[s] \in Credentials \cup {Nobody} BY DEF LocalTypes
  <1> QED BY <1>1 DEF RateKey, RateKeys, PaysWith

\* A request that has passed the limiter keeps its identity.
LEMMA StaysPaid ==
  ASSUME LocalInv, NEW s \in Slots, Layer(s) \/ \E q \in Requests : Arrive(s, q),
         NEW x \in Slots, "rate" \in reached[x]
  PROVE  "rate" \in reached'[x] /\ req'[x] = req[x] /\ principal'[x] = principal[x]
  <1>1. stage[s] \in {"idle", "boundary", "auth"} => "rate" \notin reached[s]
    BY BeforeIs DEF LocalInv, InOrderPassed
  <1>2. /\ reached \in [Slots -> SUBSET LayerNames] /\ req \in [Slots -> Requests]
        /\ principal \in [Slots -> Credentials \cup {Nobody}]
    BY DEF LocalInv, LocalTypes
  <1>3. \/ reached' = reached
        \/ \E layer \in LayerNames : reached' = [reached EXCEPT ![s] = @ \cup {layer}]
    BY DEF Layer, Boundary, Auth, Rate, RateLimited, OpenBody, ReadChunk, LogLayer, ShapeLayer,
       LimitLayer, CardLayer, VersionLayer, Route, Arrive, Pass, Answer, LayerNames
  <1>4. \/ req' = req
        \/ stage[s] = "idle" /\ \E q \in Requests : req' = [req EXCEPT ![s] = q]
    BY DEF Layer, Boundary, Auth, Rate, RateLimited, OpenBody, ReadChunk, LogLayer, ShapeLayer,
       LimitLayer, CardLayer, VersionLayer, Route, Arrive
  <1>5. \/ principal' = principal
        \/ stage[s] = "auth" /\ \E p : principal' = [principal EXCEPT ![s] = p]
    BY DEF Layer, Boundary, Auth, Rate, RateLimited, OpenBody, ReadChunk, LogLayer, ShapeLayer,
       LimitLayer, CardLayer, VersionLayer, Route, Arrive
  <1>6. "rate" \in reached'[x] BY <1>2, <1>3
  <1>7. req'[x] = req[x] BY <1>1, <1>2, <1>4
  <1>8. principal'[x] = principal[x] BY <1>1, <1>2, <1>5
  <1> QED BY <1>6, <1>7, <1>8

LEMMA PayersGrow ==
  ASSUME LocalInv, NEW s \in Slots, Layer(s) \/ \E q \in Requests : Arrive(s, q),
         NEW k \in RateKeys
  PROVE  Payers(k) \subseteq Payers(k)'
  <1> SUFFICES ASSUME NEW x \in Payers(k) PROVE x \in Payers(k)' OBVIOUS
  <1>1. x \in Slots /\ "rate" \in reached[x] /\ PaysWith(x, k) BY DEF Payers
  <1>2. "rate" \in reached'[x] /\ req'[x] = req[x] /\ principal'[x] = principal[x]
    BY <1>1, StaysPaid
  <1> QED BY <1>1, <1>2 DEF Payers, PaysWith

LEMMA PayersCounted ==
  ASSUME NEW k
  PROVE  /\ IsFiniteSet(Payers(k)) /\ IsFiniteSet(Payers(k)')
         /\ Cardinality(Payers(k)) \in Nat /\ Cardinality(Payers(k)') \in Nat
  <1>1. Payers(k) \subseteq Slots /\ Payers(k)' \subseteq Slots BY DEF Payers
  <1>2. IsFiniteSet(Slots) BY HttpAssumption
  <1>3. IsFiniteSet(Payers(k)) /\ IsFiniteSet(Payers(k)') BY <1>1, <1>2, FS_Subset
  <1> QED BY <1>3, FS_CardinalityType

\* What the limiter does in the step of a request: it charges the request, at the
\* layer that lets it pass for that, or nobody.
LEMMA LimiterStep ==
  ASSUME LocalInv, Limiter!LimiterInv, NEW s \in Slots, Layer(s)
  PROVE  /\ Limiter!LimiterInv'
         /\ \/ everAdmitted' = everAdmitted
            \/ /\ stage[s] = "rate" /\ reached' = [reached EXCEPT ![s] = @ \cup {"rate"}]
               /\ UNCHANGED <<req, principal>>
               /\ everAdmitted' = [everAdmitted EXCEPT ![RateKey(s)] = Append(@, now)]
  <1> DEFINE k == RateKey(s)
  <1>1. k \in RateKeys BY RateKeyIs DEF LocalInv
  <1>2. CASE UNCHANGED limiter BY <1>2, LimiterStands DEF limiter
  <1>3. CASE Rate(s) /\ ~ UNCHANGED limiter
    <2>1. /\ stage[s] = "rate" /\ Limiter!CheckAndRecord(s, k) /\ UNCHANGED <<req, principal>>
          /\ Limiter!Admits(k) => Pass(s, "log")
      BY <1>3 DEF Rate
    <2>2. CASE Limiter!Admit(k) /\ UNCHANGED <<now, rejected>>
      <3>1. /\ Limiter!Admits(k)
            /\ everAdmitted' = [everAdmitted EXCEPT ![k] = Append(@, now)]
        BY <2>2 DEF Limiter!Admit
      <3>2. reached' = [reached EXCEPT ![s] = @ \cup {"rate"}] BY <2>1, <3>1 DEF Pass
      <3> QED BY <1>1, <2>1, <2>2, <3>1, <3>2, LimiterAdmits
    <2>3. CASE Limiter!Refuse(k) /\ rejected' = [rejected EXCEPT ![s] = k] /\ UNCHANGED now
      <3>1. everAdmitted' = everAdmitted BY <2>3 DEF Limiter!Refuse
      <3> QED BY <1>1, <2>3, <3>1, LimiterRefuses
    <2> QED BY <2>1, <2>2, <2>3 DEF Limiter!CheckAndRecord
  <1>4. CASE RateLimited(s)
    <2>1. Limiter!SendHint(s) BY <1>4 DEF RateLimited
    <2>2. everAdmitted' = everAdmitted BY <2>1 DEF Limiter!SendHint
    <2> QED BY <2>1, <2>2, LimiterHints
  <1> QED BY <1>2, <1>3, <1>4 DEF Layer, Boundary, Auth, OpenBody, ReadChunk, LogLayer,
        ShapeLayer, LimitLayer, CardLayer, VersionLayer, Route

\* A request is charged once, when it passes the limiter.
LEMMA ChargesStay ==
  ASSUME LocalInv, Limiter!LimiterInv, ChargedToSender, NEW s \in Slots,
         Layer(s) \/ \E q \in Requests : Arrive(s, q)
  PROVE  ChargedToSender'
  <1> SUFFICES ASSUME NEW k \in RateKeys
               PROVE  Len(everAdmitted'[k]) <= Cardinality(Payers(k)')
    BY DEF ChargedToSender
  <1> DEFINE charged == Len(everAdmitted[k])
             payers == Cardinality(Payers(k))
             after == Cardinality(Payers(k)')
  <1>1. Limiter!TypeOK BY DEF Limiter!LimiterInv
  <1>2. /\ everAdmitted[k] \in Seq(Nat) /\ now \in Nat /\ charged \in Nat
        /\ everAdmitted \in [RateKeys -> Seq(0..now)]
    BY <1>1, BucketFacts DEF Limiter!TypeOK
  <1>3. charged <= payers BY DEF ChargedToSender
  <1>4. /\ IsFiniteSet(Payers(k)) /\ IsFiniteSet(Payers(k)')
        /\ payers \in Nat /\ after \in Nat
    BY PayersCounted
  <1>5. Payers(k) \subseteq Payers(k)' BY PayersGrow
  <1>6. payers <= after BY <1>4, <1>5, FS_Subset
  <1>7. \/ everAdmitted' = everAdmitted
        \/ /\ stage[s] = "rate" /\ reached' = [reached EXCEPT ![s] = @ \cup {"rate"}]
           /\ UNCHANGED <<req, principal>>
           /\ everAdmitted' = [everAdmitted EXCEPT ![RateKey(s)] = Append(@, now)]
    BY LimiterStep DEF Arrive, limiter
  <1>8. CASE everAdmitted'[k] = everAdmitted[k] BY <1>2, <1>3, <1>4, <1>6, <1>8
  <1>9. CASE everAdmitted'[k] # everAdmitted[k]
    <2>1. /\ stage[s] = "rate" /\ reached' = [reached EXCEPT ![s] = @ \cup {"rate"}]
          /\ UNCHANGED <<req, principal>>
          /\ k = RateKey(s) /\ everAdmitted'[k] = Append(everAdmitted[k], now)
      BY <1>2, <1>7, <1>9
    <2>2. s \notin Payers(k)
      <3>1. reached[s] = Before["rate"] BY <2>1 DEF LocalInv, InOrderPassed
      <3> QED BY <3>1 DEF Payers, Before
    <2>3. s \in Payers(k)'
      <3>1. "rate" \in reached'[s] BY <2>1 DEF LocalInv, LocalTypes
      <3>2. PaysWith(s, k) BY <2>1, RateKeyIs DEF LocalInv
      <3> QED BY <2>1, <3>1, <3>2 DEF Payers, PaysWith
    <2>4. Cardinality(Payers(k) \cup {s}) = payers + 1 BY <1>4, <2>2, FS_AddElement
    <2>5. Cardinality(Payers(k) \cup {s}) <= after
      <3>1. Payers(k) \cup {s} \subseteq Payers(k)' BY <1>5, <2>3
      <3> QED BY <1>4, <3>1, FS_Subset
    <2>6. Len(everAdmitted'[k]) = charged + 1 BY <1>2, <2>1
    <2> QED BY <1>2, <1>3, <1>4, <2>4, <2>5, <2>6
  <1> QED BY <1>8, <1>9

\* Time only takes charges away.
LEMMA ChargesExpire ==
  ASSUME Limiter!LimiterInv, ChargedToSender, Tick
  PROVE  ChargedToSender'
  <1> SUFFICES ASSUME NEW k \in RateKeys
               PROVE  Len(everAdmitted'[k]) <= Cardinality(Payers(k)')
    BY DEF ChargedToSender
  <1>1. /\ everAdmitted[k] \in Seq(0..now) /\ now \in Nat /\ now + 1 \in Nat
        /\ Len(everAdmitted[k]) \in Nat
    BY BucketFacts DEF Limiter!LimiterInv
  <1>2. everAdmitted'[k] = Limiter!StillIn(everAdmitted[k], now + 1)
    BY DEF Tick, Limiter!Tick
  <1>3. /\ Len(everAdmitted'[k]) <= Len(everAdmitted[k])
        /\ Len(everAdmitted'[k]) \in Nat
    BY <1>1, <1>2, StillInAll
  <1>4. Payers(k)' = Payers(k) BY DEF Tick, http, Payers, PaysWith
  <1>5. Len(everAdmitted[k]) <= Cardinality(Payers(k)) BY DEF ChargedToSender
  <1> QED BY <1>1, <1>3, <1>4, <1>5, PayersCounted

LEMMA HttpStarts ==
  ASSUME Init
  PROVE  HttpInv
  <1> USE DEF Init, HttpInit
  <1>1. (CHOOSE q \in Requests : TRUE) \in Requests BY HttpAssumption
  <1>2. req \in [Slots -> Requests] BY <1>1
  <1>3. \A s \in Slots : req[s].size \in Nat BY <1>2, HttpAssumption
  <1>4. LocalTypes
    BY <1>2, <1>3, ResponsesAre DEF LocalTypes, Stages, NoResponse
  <1>5. Buffered BY HttpAssumption DEF Buffered
  <1>6. ExtendedCardIsPrivate BY DEF ExtendedCardIsPrivate, NoResponse, None, ExtendedPath
  <1>7. InOrderPassed BY DEF InOrderPassed, Before
  <1>8. LayersHold BY DEF LayersHold
  <1>9. BodiesCounted BY DEF BodiesCounted
  <1>10. LocalInv BY <1>4, <1>5, <1>6, <1>7, <1>8, <1>9 DEF LocalInv
  <1>11. /\ now = 0 /\ table = <<>> /\ bucket = [k \in RateKeys |-> <<>>]
         /\ admitted = bucket /\ everAdmitted = bucket
         /\ rejected = [c \in Slots |-> <<None, None>>] /\ promised = [k \in RateKeys |-> 0]
    BY DEF Limiter!Init
  <1>12. Limiter!LimiterInv
    <2>1. /\ <<>> \in Seq(0..0) /\ <<>> \in Seq(RateKeys) /\ <<>> \in Seq(Nat)
          /\ Len(<<>>) = 0 /\ DOMAIN <<>> = {}
      BY EmptySeq
    <2>2. Limiter!TypeOK BY <1>11, <2>1, HttpAssumption DEF Limiter!TypeOK, Limiter!IsInjective
    <2>3. \A t \in Nat : Limiter!StillIn(<<>>, t) = <<>> BY StillInNothing
    <2>4. Limiter!AdmittedIsKept BY <1>11, <2>3 DEF Limiter!AdmittedIsKept
    <2>5. Limiter!AdmittedIsLast BY <1>11, <2>1 DEF Limiter!AdmittedIsLast, Limiter!EndsWith
    <2>6. Limiter!HintHolds BY <1>11 DEF Limiter!HintHolds
    <2> QED BY <2>2, <2>4, <2>5, <2>6 DEF Limiter!LimiterInv
  <1>13. ChargedToSender
    <2> SUFFICES ASSUME NEW k \in RateKeys
                 PROVE  Len(everAdmitted[k]) <= Cardinality(Payers(k))
      BY DEF ChargedToSender
    <2>1. Len(everAdmitted[k]) = 0 BY <1>11, EmptySeq
    <2> QED BY <2>1, PayersCounted
  <1> QED BY <1>7, <1>8, <1>9, <1>10, <1>12, <1>13, ClearedFollows
          DEF HttpInv, Limiter!LimiterInv

LEMMA HttpKeeps ==
  ASSUME HttpInv, [Next]_vars
  PROVE  HttpInv'
  <1> USE DEF HttpInv
  <1>1. LocalInv BY LocalFollows
  <1>2. LocalInv' /\ Limiter!LimiterInv' /\ ChargedToSender'
    <2>1. CASE \E s \in Slots : Layer(s)
      BY <1>1, <2>1, LayerKeeps, LimiterStep, ChargesStay
    <2>2. CASE \E s \in Slots : \E q \in Requests : Arrive(s, q)
      <3>1. PICK s \in Slots, q \in Requests : Arrive(s, q) BY <2>2
      <3>2. UNCHANGED limiter BY <3>1 DEF Arrive
      <3> QED BY <1>1, <3>1, <3>2, ArriveKeeps, LimiterStands, ChargesStay
    <2>3. CASE Tick
      <3>1. UNCHANGED http /\ Limiter!Tick BY <2>3 DEF Tick
      <3> QED BY <1>1, <2>3, <3>1, StandKeeps, LimiterTicks, ChargesExpire
    <2>4. CASE UNCHANGED vars
      <3>1. UNCHANGED http /\ UNCHANGED limiter BY <2>4 DEF vars, http, limiter
      <3>2. ChargedToSender' BY <3>1 DEF http, limiter, ChargedToSender, Payers, PaysWith
      <3> QED BY <1>1, <3>1, <3>2, StandKeeps, LimiterStands
    <2> QED BY <2>1, <2>2, <2>3, <2>4 DEF Next, Within
  <1>3. RequestsCleared'
    <2>1. Limiter!TypeOK' BY <1>2 DEF Limiter!LimiterInv
    <2> QED BY <1>2, <2>1, ClearedFollows, PTL
  <1> QED BY <1>2, <1>3 DEF LocalInv

----------------------------------------------------------------------------
(* The stream and its budgets.                                               *)

LEMMA BudgetStarts ==
  ASSUME Budget!Init
  PROVE  Budget!BudgetInv
  BY BudgetAssumption DEF Budget!Init, Budget!BudgetInv, Budget!TypeOK,
     Budget!SentWithinBudget, Budget!HandlerIsClosed, Budget!Clocked, Budget!Never,
     Budget!Reasons, Budget!Uncounted

\* An event is sent within the budgets, or ends the stream.
LEMMA EventKeeps ==
  ASSUME Budget!BudgetInv, NEW size \in Sizes, Budget!Event(size)
  PROVE  Budget!BudgetInv'
  <1> USE DEF Budget!BudgetInv
  <1>1. /\ pc = "waiting" /\ inner = "open" /\ UNCHANGED <<clock, inner>>
        /\ startedAt' = IF MaxDuration > 0 /\ startedAt = Budget!Never THEN clock ELSE startedAt
    BY DEF Budget!Event
  <1>2. /\ clock \in 0..StreamTime /\ clock \in Nat /\ since \in Nat /\ since <= clock
        /\ startedAt \in Int /\ total \in Nat /\ sent.bytes \in Nat /\ sent.at \in 0..clock
        /\ size \in Nat /\ MaxBytes \in Nat /\ MaxDuration \in Nat /\ Hold \in Nat
        /\ IdleTimeout \in Nat
        /\ startedAt \in {Budget!Never} \cup 0..clock /\ Budget!Never = -1
    BY BudgetAssumption DEF Budget!TypeOK, Budget!Never
  <1>3. startedAt' \in {Budget!Never} \cup 0..clock /\ startedAt' \in Int BY <1>1, <1>2
  <1>4. total = sent.bytes BY <1>1 DEF Budget!TypeOK
  <1>5. MaxDuration > 0 /\ startedAt' # Budget!Never => sent.at < startedAt' + MaxDuration
    <2>1. CASE startedAt = Budget!Never BY <1>1, <1>2, <2>1
    <2>2. CASE startedAt # Budget!Never
      BY <1>1, <1>2, <2>2 DEF Budget!SentWithinBudget
    <2> QED BY <2>1, <2>2
  <1>6. CASE /\ pc' = "closing" /\ reason' \in {"duration", "bytes"}
             /\ UNCHANGED <<since, sent>>
             /\ \/ total' = total
                \/ reason' = "bytes" /\ total' \in Nat /\ MaxBytes > 0
    <2>1. Budget!TypeOK'
      BY <1>1, <1>2, <1>3, <1>4, <1>6 DEF Budget!TypeOK, Budget!Reasons
    <2>2. Budget!SentWithinBudget' BY <1>5, <1>6 DEF Budget!SentWithinBudget
    <2>3. Budget!Uncounted' BY <1>2, <1>6 DEF Budget!Uncounted
    <2> QED BY <1>6, <2>1, <2>2, <2>3 DEF Budget!HandlerIsClosed, Budget!Clocked
  <1>7. CASE /\ ~Budget!OverDuration /\ ~Budget!OverBytes(size)
             /\ total' = IF MaxBytes > 0 THEN total + size ELSE total
             /\ pc' = "yielded" /\ since' = clock /\ UNCHANGED reason
             /\ sent' = [bytes |-> IF MaxBytes > 0 THEN sent.bytes + size ELSE 0, at |-> clock]
    <2>1. /\ sent' \in [bytes : Nat, at : 0..clock] /\ total' \in Nat
          /\ sent'.at = clock
          /\ sent'.bytes = IF MaxBytes > 0 THEN sent.bytes + size ELSE 0
      BY <1>2, <1>7
    <2>2. MaxDuration > 0 /\ startedAt' # Budget!Never => clock < startedAt' + MaxDuration
      BY <1>1, <1>2, <1>7 DEF Budget!OverDuration
    <2>3. MaxBytes > 0 => sent'.bytes <= MaxBytes
      BY <1>2, <1>4, <1>7, <2>1 DEF Budget!OverBytes
    <2>4. total' = sent'.bytes
      <3>1. MaxBytes = 0 => total = 0 BY DEF Budget!Uncounted
      <3> QED BY <1>2, <1>4, <1>7, <2>1, <3>1
    <2>5. Budget!TypeOK'
      BY <1>1, <1>2, <1>3, <1>7, <2>1, <2>4 DEF Budget!TypeOK, Budget!Reasons
    <2>6. Budget!SentWithinBudget' BY <2>1, <2>2, <2>3 DEF Budget!SentWithinBudget
    <2>7. Budget!Clocked' BY <1>1, <1>2, <1>7, <2>2 DEF Budget!Clocked
    <2> QED BY <1>2, <1>7, <2>5, <2>6, <2>7 DEF Budget!HandlerIsClosed, Budget!Uncounted
  <1> QED BY <1>2, <1>6, <1>7 DEF Budget!Event, Budget!EndWith, Budget!OverBytes

LEMMA BudgetKeeps ==
  ASSUME Budget!BudgetInv, [Budget!Next]_stream
  PROVE  Budget!BudgetInv'
  <1> USE DEF Budget!BudgetInv
  <1>1. CASE \E size \in Sizes : Budget!Event(size) BY <1>1, EventKeeps
  <1>2. /\ clock \in 0..StreamTime /\ clock \in Nat /\ since \in Nat /\ since <= clock
        /\ startedAt \in Int /\ MaxDuration \in Nat /\ Hold \in Nat /\ IdleTimeout \in Nat
        /\ StreamTime \in Nat
        /\ Budget!Never = -1
    BY BudgetAssumption DEF Budget!TypeOK, Budget!Never
  <1>3. ASSUME pc' \in {"closing", "ended"}, UNCHANGED <<clock, since, startedAt, total, sent>>,
               Budget!TypeOK', pc' = "ended" => inner' = "closed"
        PROVE  Budget!BudgetInv'
    BY <1>3
    DEF Budget!SentWithinBudget, Budget!HandlerIsClosed, Budget!Clocked, Budget!Uncounted
  <1>4. CASE Budget!IdleOut
    BY <1>3, <1>4 DEF Budget!IdleOut, Budget!EndWith, Budget!TypeOK, Budget!Reasons
  <1>5. CASE Budget!InnerEnds
    BY <1>3, <1>5 DEF Budget!InnerEnds, Budget!EndWith, Budget!TypeOK, Budget!Reasons
  <1>6. CASE Budget!Resume
    <2>1. Budget!TypeOK' BY <1>2, <1>6 DEF Budget!Resume, Budget!TypeOK
    <2>2. Budget!Clocked' BY <1>2, <1>6 DEF Budget!Resume, Budget!Clocked
    <2> QED BY <1>6, <2>1, <2>2
            DEF Budget!Resume, Budget!SentWithinBudget, Budget!HandlerIsClosed,
                Budget!Uncounted
  <1>7. CASE Budget!Disconnect
    BY <1>3, <1>7 DEF Budget!Disconnect, Budget!EndWith, Budget!TypeOK, Budget!Reasons
  <1>8. CASE Budget!Close
    BY <1>3, <1>8 DEF Budget!Close, Budget!TypeOK
  <1>9. CASE Budget!Tick
    <2>1. Budget!TypeOK' BY <1>2, <1>9 DEF Budget!Tick, Budget!TypeOK
    <2>2. Budget!Clocked' BY <1>2, <1>9 DEF Budget!Tick, Budget!Clocked
    <2> QED BY <1>9, <2>1, <2>2
            DEF Budget!Tick, Budget!SentWithinBudget, Budget!HandlerIsClosed,
                Budget!Uncounted
  <1>10. CASE UNCHANGED stream
    BY <1>10 DEF stream, Budget!TypeOK, Budget!SentWithinBudget, Budget!HandlerIsClosed,
       Budget!Clocked, Budget!Uncounted
  <1> QED BY <1>1, <1>4, <1>5, <1>6, <1>7, <1>8, <1>9, <1>10 DEF Budget!Next

\* What a stream promises follows from how long it has been at its present await.
LEMMA BudgetFollows ==
  ASSUME Budget!BudgetInv
  PROVE  StreamWithinBudget
  <1> USE DEF Budget!BudgetInv
  <1>1. /\ clock \in Nat /\ since \in Nat /\ startedAt \in Int
        /\ MaxDuration \in Nat /\ Hold \in Nat /\ IdleTimeout \in Nat
    BY BudgetAssumption DEF Budget!TypeOK, Budget!Never
  <1>2. Budget!LastsNoLonger BY <1>1 DEF Budget!LastsNoLonger, Budget!Clocked
  <1> QED BY <1>2 DEF StreamWithinBudget

----------------------------------------------------------------------------
(* The theorems.                                                             *)

EdgeInv == HttpInv /\ Budget!BudgetInv

LEMMA EdgeIsInductive == EdgeSpec => []EdgeInv
  <1>1. EdgeInit => EdgeInv BY HttpStarts, BudgetStarts DEF EdgeInit, EdgeInv
  <1>2. EdgeInv /\ [EdgeNext]_<<vars, stream>> => EdgeInv'
    BY HttpKeeps, BudgetKeeps DEF EdgeNext, EdgeInv
  <1> QED BY <1>1, <1>2, PTL DEF EdgeSpec

\* Whatever the requests, the credentials and the limits: what reaches a route
\* came from an allowed origin, of somebody the server knows unless it reads the
\* public card or is a preflight, whole and within the body limit, and in a
\* supported version; no byte is buffered of a request that is not
\* authenticated and within its quota; the extended card stays private
\* (middleware.py).
THEOREM RequestsAreCleared == EdgeSpec => []RequestsCleared
  <1>1. EdgeInv => RequestsCleared BY DEF EdgeInv, HttpInv
  <1> QED BY <1>1, EdgeIsInductive, PTL

\* For any quota, window, number of keys and table size: every caller's quota is
\* its own and is used up before a refusal, no window holds more than it, and
\* when a hint is over the caller is admitted, also if its bucket was evicted in
\* between (check_and_record and retry_after of runtime_limits.py).
THEOREM QuotasAreFair == EdgeSpec => []QuotaIsFair
  <1>1. EdgeInv => QuotaIsFair BY LimiterIsFair DEF EdgeInv, HttpInv, QuotaIsFair
  <1> QED BY <1>1, EdgeIsInductive, PTL

\* For any budgets and event sizes: no byte and no event beyond the budgets, a
\* handler that is closed however the stream ends, and an open stream that
\* outlives its duration by at most one slow consumer and one idle gap
\* (apply_stream_budget of runtime_limits.py).
THEOREM StreamsKeepTheirBudget == EdgeSpec => []StreamWithinBudget
  <1>1. EdgeInv => StreamWithinBudget BY BudgetFollows DEF EdgeInv
  <1> QED BY <1>1, EdgeIsInductive, PTL
=============================================================================
