--------------------------- MODULE OutboundProofs ---------------------------
(* Theorems about Outbound, for every value of the constants.  A budget's    *)
(* counter is the number of the calls inside it.  What the reader of an      *)
(* event stream has collected is the data of the block that is still open.   *)
(* A cached client that somebody holds is borrowed, an eviction takes only   *)
(* what is not, and what it leaves is within the bound unless something of   *)
(* it is borrowed.  A poll never waits beyond its deadline.                  *)
EXTENDS Outbound, FiniteSetTheorems, FunctionTheorems, SequenceTheorems, TLAPS

----------------------------------------------------------------------------
(* The composition: a step is a step of one of the parts.                    *)

LEMMA PartsOfStep ==
  ASSUME [OutboundNext]_<<vars, upstream, cache>>
  PROVE  [Next]_vars /\ [Upstream!Next]_upstream /\ [Cache!Next]_cache
  BY DEF OutboundNext, vars, upstream, cache

\* The parts count with the operators of the module FiniteSets.
LEMMA SameCount ==
  \A S : Upstream!Cardinality(S) = Cardinality(S) /\ Cache!Cardinality(S) = Cardinality(S)
  BY DEF Upstream!Cardinality, Cache!Cardinality, Cardinality

----------------------------------------------------------------------------
(* The polling fallback.                                                     *)

\* While send() waits, its timers keep it in front of the deadline; what it has
\* seen settled is settled for good.
PollInv ==
  /\ TypeOK
  /\ pc = "checking" => (seenAt = now \/ now < deadline) /\ now <= deadline + Jitter + Latency
  /\ pc = "sleeping" => due <= deadline /\ now <= due + Jitter
  /\ pc = "getting" => now <= due /\ due <= deadline + Jitter + Latency
  /\ last \in Terminal => last = remote
  /\ pc # "done" => outcome = "pending"
  /\ TimeoutIsFresh
  /\ SettledIsTrue

LEMMA IntervalGrows ==
  ASSUME NEW i \in InitialInterval..MaxInterval
  PROVE  NextInterval(i) \in InitialInterval..MaxInterval
  <1>1. i \in Nat /\ Multiplier \in Nat /\ Multiplier >= 1 BY ValidPolicy
  <1>2. \A m, n \in Nat : n >= 1 => m * n >= m /\ m * n \in Nat OBVIOUS
  <1>3. i * Multiplier >= i /\ i * Multiplier \in Nat BY <1>1, <1>2
  <1> QED BY <1>3, ValidPolicy DEF NextInterval

LEMMA PollInitially == Init => PollInv
  BY ValidPolicy, EnvironmentBounds
     DEF Init, PollInv, TypeOK, TaskStates, Running, Terminal, NotATask, Outcomes,
         TimeoutIsFresh, SettledIsTrue

LEMMA PollKept == PollInv /\ [Next]_vars => PollInv'
  <1> SUFFICES ASSUME PollInv, [Next]_vars PROVE PollInv' OBVIOUS
  <1> USE ValidPolicy, EnvironmentBounds
      DEF PollInv, TypeOK, TimeoutIsFresh, SettledIsTrue, Outcomes, Finish, Acquire, Release
  <1>1. CASE RemoteStep BY <1>1 DEF RemoteStep
  <1>2. CASE StartSend BY <1>2 DEF StartSend, EnsureClient
  <1>3. CASE SendEvent BY <1>3 DEF SendEvent, TaskStates, Terminal, NotATask
  <1>4. CASE SendEnds BY <1>4 DEF SendEnds
  <1>5. CASE SendFails BY <1>5 DEF SendFails
  <1>6. CASE Check
    BY <1>6 DEF Check, IsTerminal, ShouldPoll, Running, Terminal, TaskStates, Paused
  <1>7. CASE GetTask BY <1>7 DEF GetTask
  <1>8. CASE GotTask
    <2>1. interval' \in InitialInterval..MaxInterval BY <1>8, IntervalGrows DEF GotTask
    <2> QED BY <1>8, <2>1 DEF GotTask
  <1>9. CASE GetFails BY <1>9 DEF GetFails
  <1>10. CASE Tick BY <1>10 DEF Tick
  <1>11. CASE UNCHANGED vars BY <1>11 DEF vars
  <1> QED BY <1>1, <1>2, <1>3, <1>4, <1>5, <1>6, <1>7, <1>8, <1>9, <1>10, <1>11
       DEF Next, Local, Done

\* For every policy, latency and lateness of the timers: a poll is over by its
\* deadline, give or take one timer and one request; it reports a time-out only of a
\* task it saw running when it could last look, and a task only when that has settled
\* or paused (client/client.py, client/polling.py).
THEOREM PollsTellTheTruth == OutboundSpec => []PollingTells
  <1>1. PollInv => PollingTells
    BY ValidPolicy, EnvironmentBounds DEF PollInv, PollingTells, EndsInTime, TypeOK
  <1>2. OutboundInit => PollInv BY PollInitially DEF OutboundInit
  <1>3. [OutboundNext]_<<vars, upstream, cache>> => [Next]_vars BY PartsOfStep
  <1> QED BY <1>1, <1>2, <1>3, PollKept, PTL DEF OutboundSpec

----------------------------------------------------------------------------
(* What is read of an event stream.                                          *)

Readers ==
  [lines : Seq(LineKinds), data : SUBSET Nat, events : Seq(SUBSET Nat), stop : BOOLEAN]

\* The block that is still open begins behind line i.
OpenAt(lines, i) ==
  /\ i \in 0..Len(lines) /\ Upstream!Ends(lines, i)
  /\ \A k \in i + 1 .. Len(lines) : lines[k] # "blank"

\* Its data has been collected; the events are those of the blocks before it.
ReaderTrue(r) ==
  /\ Len(r.lines) <= MaxLines
  /\ \E i \in 0..Len(r.lines) :
       /\ OpenAt(r.lines, i)
       /\ r.data = Upstream!DataIn(r.lines, i, Len(r.lines) + 1)
  /\ {r.events[n] : n \in DOMAIN r.events} = Upstream!EventsIn(r.lines)
  /\ \A m, n \in DOMAIN r.events : m < n => \A k \in r.events[m], l \in r.events[n] : k < l

LEMMA NothingRead ==
  Upstream!NoReader \in Readers /\ ReaderTrue(Upstream!NoReader)
  <1>1. Upstream!NoReader \in Readers BY DEF Upstream!NoReader, Readers
  <1>2. OpenAt(<<>>, 0) BY DEF OpenAt, Upstream!Ends
  <1>3. Upstream!DataIn(<<>>, 0, Len(<<>>) + 1) = {} BY DEF Upstream!DataIn
  <1>4. Upstream!EventsIn(<<>>) = {} BY DEF Upstream!EventsIn, Upstream!Blocks
  <1>5. {Upstream!NoReader.events[n] : n \in DOMAIN Upstream!NoReader.events} = {}
    BY DEF Upstream!NoReader
  <1>6. Upstream!NoReader.lines = <<>> /\ Upstream!NoReader.data = {}
    BY DEF Upstream!NoReader
  <1>7. Len(Upstream!NoReader.lines) = 0 /\ MaxLines \in Nat BY <1>6, UpstreamAssumption
  <1>8. \A m, n \in DOMAIN Upstream!NoReader.events : FALSE BY <1>5
  <1> QED BY <1>1, <1>2, <1>3, <1>4, <1>5, <1>6, <1>7, <1>8 DEF ReaderTrue

\* A line more is part of no block that was complete before.
LEMMA LineRead ==
  ASSUME NEW lines \in Seq(LineKinds), NEW line \in LineKinds
  PROVE  LET longer == Append(lines, line)
         IN  /\ longer \in Seq(LineKinds) /\ Len(longer) = Len(lines) + 1
             /\ longer[Len(lines) + 1] = line
             /\ \A k \in 1..Len(lines) : longer[k] = lines[k]
             /\ \A i \in 0..Len(lines) : Upstream!Ends(longer, i) <=> Upstream!Ends(lines, i)
             /\ \A i \in 0..Len(lines), j \in 0..Len(lines) + 1 :
                  Upstream!DataIn(longer, i, j) = Upstream!DataIn(lines, i, j)
             /\ \A d \in SUBSET (1..Len(lines)) :
                  Upstream!IsEvent(longer, d) <=> Upstream!IsEvent(lines, d)
  <1> DEFINE longer == Append(lines, line)
  <1>1. /\ longer \in Seq(LineKinds) /\ Len(longer) = Len(lines) + 1
        /\ longer[Len(lines) + 1] = line
        /\ \A k \in 1..Len(lines) : longer[k] = lines[k]
    OBVIOUS
  <1> HIDE DEF longer
  <1>2. \A i \in 0..Len(lines) : Upstream!Ends(longer, i) <=> Upstream!Ends(lines, i)
    <2> SUFFICES ASSUME NEW i \in 0..Len(lines)
                 PROVE  Upstream!Ends(longer, i) <=> Upstream!Ends(lines, i) OBVIOUS
    <2>1. i = 0 \/ i \in 1..Len(lines) OBVIOUS
    <2> QED BY <1>1, <2>1 DEF Upstream!Ends
  <1>3. ASSUME NEW i \in 0..Len(lines), NEW j \in 0..Len(lines) + 1
        PROVE  Upstream!DataIn(longer, i, j) = Upstream!DataIn(lines, i, j)
    <2>1. \A k \in i + 1 .. j - 1 : k \in 1..Len(lines) OBVIOUS
    <2>2. \A k \in i + 1 .. j - 1 : longer[k] = lines[k] BY <1>1, <2>1
    <2> QED BY <2>2 DEF Upstream!DataIn
  <1>4. ASSUME NEW d \in SUBSET (1..Len(lines))
        PROVE  Upstream!IsEvent(longer, d) <=> Upstream!IsEvent(lines, d)
    <2>1. \A k \in d : longer[k] = lines[k] BY <1>1
    <2>2. {k \in d : longer[k] # "data_empty"} = {k \in d : lines[k] # "data_empty"} BY <2>1
    <2> DEFINE full == {k \in d : lines[k] # "data_empty"}
    <2>3. full \subseteq d OBVIOUS
    <2> HIDE DEF full
    <2>4. Upstream!IsEvent(lines, d) <=>
            \/ \E k \in full : full = {k} /\ lines[k] = "data_object"
            \/ \E k, l \in full :
                 k < l /\ full = {k, l} /\ lines[k] = "data_head" /\ lines[l] = "data_tail"
      BY DEF Upstream!IsEvent, full
    <2>5. Upstream!IsEvent(longer, d) <=>
            \/ \E k \in full : full = {k} /\ longer[k] = "data_object"
            \/ \E k, l \in full :
                 k < l /\ full = {k, l} /\ longer[k] = "data_head" /\ longer[l] = "data_tail"
      BY <2>2 DEF Upstream!IsEvent, full
    <2> QED BY <2>1, <2>3, <2>4, <2>5
  <1> QED BY <1>1, <1>2, <1>3, <1>4 DEF longer

\* Only one block is open, and a blank line completes it and nothing else.
LEMMA BlocksRead ==
  ASSUME NEW lines \in Seq(LineKinds), NEW line \in LineKinds, NEW i, OpenAt(lines, i)
  PROVE  Upstream!Blocks(Append(lines, line)) =
           Upstream!Blocks(lines) \cup IF line = "blank" THEN {<<i, Len(lines) + 1>>} ELSE {}
  <1> DEFINE longer == Append(lines, line)
  <1>1. /\ Len(longer) = Len(lines) + 1 /\ longer[Len(lines) + 1] = line
        /\ \A k \in 1..Len(lines) : longer[k] = lines[k]
        /\ \A j \in 0..Len(lines) : Upstream!Ends(longer, j) <=> Upstream!Ends(lines, j)
    BY LineRead
  <1> HIDE DEF longer
  <1>2. i \in 0..Len(lines) /\ Len(lines) \in Nat BY DEF OpenAt
  <1>3. ASSUME NEW b \in (0..Len(lines)) \X (1..Len(lines))
        PROVE  b \in Upstream!Blocks(longer) <=> b \in Upstream!Blocks(lines)
    <2>1. b[1] \in 0..Len(lines) /\ b[2] \in 1..Len(lines) /\ b[2] \in 0..Len(lines) OBVIOUS
    <2>2. b \in (0..Len(longer)) \X (1..Len(longer)) BY <1>1, <1>2
    <2>3. \A k \in b[1] + 1 .. b[2] - 1 : k \in 1..Len(lines) BY <2>1
    <2> QED BY <1>1, <2>1, <2>2, <2>3 DEF Upstream!Blocks
  <1>4. ASSUME NEW b \in Upstream!Blocks(longer), b[2] = Len(lines) + 1
        PROVE  line = "blank" /\ b = <<i, Len(lines) + 1>>
    <2>1. /\ b \in (0..Len(longer)) \X (1..Len(longer)) /\ b[1] < b[2]
          /\ Upstream!Ends(longer, b[1]) /\ Upstream!Ends(longer, b[2])
          /\ \A k \in b[1] + 1 .. b[2] - 1 : longer[k] # "blank"
      BY DEF Upstream!Blocks
    <2>2. b[1] \in 0..Len(lines) BY <1>1, <1>2, <1>4, <2>1
    <2>3. line = "blank" BY <1>1, <1>2, <1>4, <2>1 DEF Upstream!Ends
    <2>4. ~ (b[1] < i)
      <3> SUFFICES ASSUME b[1] < i PROVE FALSE OBVIOUS
      <3>1. i \in b[1] + 1 .. b[2] - 1 /\ i \in 1..Len(lines) BY <1>2, <1>4, <2>2
      <3>2. lines[i] = "blank" BY <3>1 DEF OpenAt, Upstream!Ends
      <3> QED BY <1>1, <2>1, <3>1, <3>2
    <2>5. ~ (i < b[1])
      <3> SUFFICES ASSUME i < b[1] PROVE FALSE OBVIOUS
      <3>1. b[1] \in i + 1 .. Len(lines) /\ b[1] # 0 BY <1>2, <2>2
      <3>2. lines[b[1]] # "blank" BY <3>1 DEF OpenAt
      <3>3. Upstream!Ends(lines, b[1]) BY <1>1, <2>1, <2>2
      <3> QED BY <3>1, <3>2, <3>3 DEF Upstream!Ends
    <2>6. b[1] = i BY <1>2, <2>2, <2>4, <2>5
    <2> QED BY <1>4, <2>1, <2>3, <2>6
  <1>5. ASSUME line = "blank" PROVE <<i, Len(lines) + 1>> \in Upstream!Blocks(longer)
    <2>1. Upstream!Ends(longer, i) BY <1>1, <1>2 DEF OpenAt
    <2>2. Upstream!Ends(longer, Len(lines) + 1) BY <1>1, <1>5 DEF Upstream!Ends
    <2>3. \A k \in i + 1 .. Len(lines) : k \in 1..Len(lines) /\ lines[k] # "blank"
      BY <1>2 DEF OpenAt
    <2>4. \A k \in i + 1 .. (Len(lines) + 1) - 1 : longer[k] # "blank" BY <1>1, <1>2, <2>3
    <2>5. i \in 0..Len(longer) /\ Len(lines) + 1 \in 1..Len(longer) /\ i < Len(lines) + 1
      BY <1>1, <1>2
    <2> QED BY <2>1, <2>2, <2>4, <2>5 DEF Upstream!Blocks
  <1>6. ASSUME NEW b \in Upstream!Blocks(longer)
        PROVE  b \in (0..Len(lines)) \X (1..Len(lines)) \/ b[2] = Len(lines) + 1
    <2>1. b \in (0..Len(longer)) \X (1..Len(longer)) /\ b[1] < b[2] BY DEF Upstream!Blocks
    <2> QED BY <1>1, <1>2, <2>1
  <1>7. \A b \in Upstream!Blocks(lines) : b \in (0..Len(lines)) \X (1..Len(lines))
    BY DEF Upstream!Blocks
  <1> QED BY <1>3, <1>4, <1>5, <1>6, <1>7 DEF longer

\* The data of a complete block lies in front of the open one.
LEMMA EventsBefore ==
  ASSUME NEW lines \in Seq(LineKinds), NEW i, OpenAt(lines, i), NEW d \in Upstream!EventsIn(lines)
  PROVE  d \in SUBSET (1..Len(lines)) /\ \A k \in d : k < i
  <1>1. PICK b \in Upstream!Blocks(lines) : d = Upstream!DataIn(lines, b[1], b[2])
    BY DEF Upstream!EventsIn
  <1>2. b[1] \in 0..Len(lines) /\ b[2] \in 1..Len(lines) /\ lines[b[2]] = "blank"
    BY DEF Upstream!Blocks, Upstream!Ends
  <1>3. i \in 0..Len(lines) /\ Len(lines) \in Nat BY DEF OpenAt
  <1>4. b[2] <= i BY <1>2, <1>3 DEF OpenAt
  <1>5. \A k \in d : k \in b[1] + 1 .. b[2] - 1 BY <1>1 DEF Upstream!DataIn
  <1> QED BY <1>2, <1>3, <1>4, <1>5

LEMMA EventsRead ==
  ASSUME NEW lines \in Seq(LineKinds), NEW line \in LineKinds, NEW i, OpenAt(lines, i),
         NEW d, d = Upstream!DataIn(lines, i, Len(lines) + 1)
  PROVE  Upstream!EventsIn(Append(lines, line)) =
           Upstream!EventsIn(lines)
             \cup IF line = "blank" /\ Upstream!IsEvent(lines, d) THEN {d} ELSE {}
  <1> DEFINE longer == Append(lines, line)
             D(s, b) == Upstream!DataIn(s, b[1], b[2])
  <1>0. i \in 0..Len(lines) /\ Len(lines) \in Nat BY DEF OpenAt
  <1>1. /\ \A k \in 0..Len(lines), j \in 0..Len(lines) + 1 :
             Upstream!DataIn(longer, k, j) = Upstream!DataIn(lines, k, j)
        /\ \A x \in SUBSET (1..Len(lines)) :
             Upstream!IsEvent(longer, x) <=> Upstream!IsEvent(lines, x)
    BY LineRead
  <1>2. Upstream!Blocks(longer) =
          Upstream!Blocks(lines) \cup IF line = "blank" THEN {<<i, Len(lines) + 1>>} ELSE {}
    BY BlocksRead
  <1>3. ASSUME NEW b \in Upstream!Blocks(lines)
        PROVE  /\ D(longer, b) = D(lines, b)
               /\ Upstream!IsEvent(longer, D(lines, b)) <=> Upstream!IsEvent(lines, D(lines, b))
    <2>1. b[1] \in 0..Len(lines) /\ b[2] \in 1..Len(lines) BY DEF Upstream!Blocks
    <2>2. b[2] \in 0..Len(lines) + 1 BY <1>0, <2>1
    <2>3. D(lines, b) \in SUBSET (1..Len(lines))
      <3>1. \A k \in D(lines, b) : k \in b[1] + 1 .. b[2] - 1 BY DEF Upstream!DataIn
      <3> QED BY <1>0, <2>1, <3>1
    <2> QED BY <1>1, <2>1, <2>2, <2>3
  <1>4. /\ Upstream!DataIn(longer, i, Len(lines) + 1) = d
        /\ Upstream!IsEvent(longer, d) <=> Upstream!IsEvent(lines, d)
    <2>1. Len(lines) + 1 \in 0..Len(lines) + 1 BY <1>0
    <2>2. d \in SUBSET (1..Len(lines))
      <3>1. \A k \in d : k \in i + 1 .. (Len(lines) + 1) - 1 BY DEF Upstream!DataIn
      <3> QED BY <1>0, <3>1
    <2> QED BY <1>0, <1>1, <2>1, <2>2
  <1>5. \A s, x : x \in Upstream!EventsIn(s) <=>
          (\E b \in Upstream!Blocks(s) : x = D(s, b)) /\ Upstream!IsEvent(s, x)
    BY DEF Upstream!EventsIn
  <1> HIDE DEF longer
  <1>6. \A b : b = <<i, Len(lines) + 1>> => D(longer, b) = d BY <1>4
  <1> HIDE DEF D
  <1>7. \A x : x \in Upstream!EventsIn(lines) => x \in Upstream!EventsIn(longer)
    BY <1>2, <1>3, <1>5
  <1>8. line = "blank" /\ Upstream!IsEvent(lines, d) => d \in Upstream!EventsIn(longer)
    <2> SUFFICES ASSUME line = "blank", Upstream!IsEvent(lines, d)
                 PROVE  d \in Upstream!EventsIn(longer) OBVIOUS
    <2>1. <<i, Len(lines) + 1>> \in Upstream!Blocks(longer) BY <1>2
    <2>2. D(longer, <<i, Len(lines) + 1>>) = d BY <1>6
    <2> QED BY <1>4, <1>5, <2>1, <2>2
  <1>9. ASSUME NEW x \in Upstream!EventsIn(longer)
        PROVE  x \in Upstream!EventsIn(lines)
                 \/ (line = "blank" /\ Upstream!IsEvent(lines, d) /\ x = d)
    <2>1. PICK b \in Upstream!Blocks(longer) : x = D(longer, b) BY <1>5
    <2>2. Upstream!IsEvent(longer, x) BY <1>5
    <2>3. CASE b \in Upstream!Blocks(lines) BY <1>3, <1>5, <2>1, <2>2, <2>3
    <2>4. CASE line = "blank" /\ b = <<i, Len(lines) + 1>> BY <1>4, <1>6, <2>1, <2>2, <2>4
    <2> QED BY <1>2, <2>3, <2>4
  <1> QED BY <1>7, <1>8, <1>9 DEF longer

\* One line: the reader stays true to the stream.
LEMMA ReaderKept ==
  ASSUME NEW r \in Readers, ReaderTrue(r), NEW line \in LineKinds, Len(r.lines) < MaxLines
  PROVE  Upstream!WithLine(r, line) \in Readers /\ ReaderTrue(Upstream!WithLine(r, line))
  <1> DEFINE s == Upstream!WithLine(r, line)
             n == Len(r.lines)
             longer == Append(r.lines, line)
             event == line = "blank" /\ Upstream!IsEvent(r.lines, r.data)
             next == IF line = "blank" THEN {}
                     ELSE r.data \cup IF Upstream!IsData(line) THEN {n + 1} ELSE {}
             told == IF event THEN Append(r.events, r.data) ELSE r.events
  <1>0. r.lines \in Seq(LineKinds) /\ r.data \in SUBSET Nat /\ r.events \in Seq(SUBSET Nat)
        /\ r.stop \in BOOLEAN /\ n \in Nat
    BY DEF Readers
  <1>1. s = [lines |-> longer, stop |-> r.stop, data |-> next, events |-> told]
    BY DEF Upstream!WithLine
  <1>2. PICK i \in 0..n : OpenAt(r.lines, i) /\ r.data = Upstream!DataIn(r.lines, i, n + 1)
    BY DEF ReaderTrue
  <1>3. /\ longer \in Seq(LineKinds) /\ Len(longer) = n + 1 /\ longer[n + 1] = line
        /\ \A k \in 1..n : longer[k] = r.lines[k]
        /\ \A j \in 0..n : Upstream!Ends(longer, j) <=> Upstream!Ends(r.lines, j)
        /\ \A j \in 0..n, k \in 0..n + 1 :
             Upstream!DataIn(longer, j, k) = Upstream!DataIn(r.lines, j, k)
    BY <1>0, LineRead
  <1>4. next \in SUBSET Nat BY <1>0
  <1>5. told \in Seq(SUBSET Nat) BY <1>0
  <1>6. s \in Readers BY <1>0, <1>1, <1>3, <1>4, <1>5 DEF Readers
  <1>7. /\ s.lines = longer /\ s.data = next /\ s.events = told BY <1>1
  <1>8. Len(longer) <= MaxLines BY <1>0, <1>3, UpstreamAssumption
  <1> HIDE DEF s, longer
  <1>9. \E j \in 0..Len(longer) :
          OpenAt(longer, j) /\ next = Upstream!DataIn(longer, j, Len(longer) + 1)
    <2>1. CASE line = "blank"
      <3>1. Upstream!Ends(longer, n + 1) BY <1>3, <2>1 DEF Upstream!Ends
      <3>2. OpenAt(longer, n + 1) BY <1>0, <1>3, <3>1 DEF OpenAt
      <3>3. Upstream!DataIn(longer, n + 1, Len(longer) + 1) = {}
        BY <1>0, <1>3 DEF Upstream!DataIn
      <3>4. n + 1 \in 0..Len(longer) BY <1>0, <1>3
      <3> QED BY <2>1, <3>2, <3>3, <3>4
    <2>2. CASE line # "blank"
      <3>1. Upstream!Ends(longer, i) BY <1>2, <1>3 DEF OpenAt
      <3>2. \A k \in i + 1 .. n + 1 : longer[k] # "blank"
        <4> SUFFICES ASSUME NEW k \in i + 1 .. n + 1 PROVE longer[k] # "blank" OBVIOUS
        <4>1. k = n + 1 \/ (k \in i + 1 .. n /\ k \in 1..n) BY <1>0
        <4> QED BY <1>2, <1>3, <2>2, <4>1 DEF OpenAt
      <3>3. OpenAt(longer, i) /\ i \in 0..Len(longer) BY <1>0, <1>3, <3>1, <3>2 DEF OpenAt
      <3>4. next = Upstream!DataIn(longer, i, (n + 1) + 1)
        <4>1. Upstream!DataIn(longer, i, n + 1) = r.data
          BY <1>0, <1>2, <1>3
        <4>2. \A k : k \in i + 1 .. ((n + 1) + 1) - 1 <=> (k \in i + 1 .. (n + 1) - 1 \/ k = n + 1)
          BY <1>0
        <4>3. Upstream!DataIn(longer, i, (n + 1) + 1) =
                Upstream!DataIn(longer, i, n + 1)
                  \cup IF Upstream!IsData(longer[n + 1]) THEN {n + 1} ELSE {}
          BY <4>2 DEF Upstream!DataIn
        <4> QED BY <1>3, <2>2, <4>1, <4>3
      <3> QED BY <1>3, <3>3, <3>4
    <2> QED BY <2>1, <2>2
  <1>10. Upstream!EventsIn(longer) =
           Upstream!EventsIn(r.lines) \cup IF event THEN {r.data} ELSE {}
    BY <1>0, <1>2, EventsRead DEF longer
  <1>11. /\ \A d \in Upstream!EventsIn(r.lines) : \A k \in d : k < i
         /\ \A k \in r.data : i < k
    <2>1. \A d \in Upstream!EventsIn(r.lines) : \A k \in d : k < i BY <1>0, <1>2, EventsBefore
    <2>2. \A k \in r.data : k \in i + 1 .. (n + 1) - 1 BY <1>2 DEF Upstream!DataIn
    <2> QED BY <2>1, <2>2
  <1>12. /\ {r.events[m] : m \in DOMAIN r.events} = Upstream!EventsIn(r.lines)
         /\ \A m, l \in DOMAIN r.events : m < l =>
              \A k \in r.events[m], j \in r.events[l] : k < j
    BY DEF ReaderTrue
  <1>13. CASE event
    <2> DEFINE e == r.events
    <2>1. /\ told = Append(e, r.data) /\ DOMAIN e = 1..Len(e) /\ Len(e) \in Nat
          /\ DOMAIN told = 1..Len(e) + 1 /\ told[Len(e) + 1] = r.data
          /\ \A m \in 1..Len(e) : told[m] = e[m]
      BY <1>0, <1>13
    <2>2. {told[m] : m \in DOMAIN told} = {e[m] : m \in DOMAIN e} \cup {r.data}
      <3>1. \A m \in 1..Len(e) + 1 : m \in 1..Len(e) \/ m = Len(e) + 1 BY <2>1
      <3>2. \A m \in 1..Len(e) : m \in 1..Len(e) + 1 BY <2>1
      <3>3. Len(e) + 1 \in 1..Len(e) + 1 BY <2>1
      <3> HIDE DEF told
      <3> QED BY <2>1, <3>1, <3>2, <3>3
    <2> HIDE DEF told
    <2>3. ASSUME NEW m \in DOMAIN told, NEW l \in DOMAIN told, m < l,
                 NEW k \in told[m], NEW j \in told[l]
          PROVE  k < j
      <3>1. m \in 1..Len(e) /\ told[m] = e[m] BY <2>1, <2>3
      <3>2. CASE l = Len(e) + 1
        <4>1. e[m] \in Upstream!EventsIn(r.lines) BY <1>12, <2>1, <3>1
        <4>2. k < i /\ i < j /\ j \in Nat BY <1>0, <1>11, <2>1, <2>3, <3>1, <3>2, <4>1
        <4>3. k \in Nat BY <1>0, <2>1, <2>3, <3>1
        <4> QED BY <4>2, <4>3
      <3>3. CASE l \in 1..Len(e) BY <1>12, <2>1, <2>3, <3>1, <3>3
      <3> QED BY <2>1, <3>2, <3>3
    <2>4. {told[m] : m \in DOMAIN told} = Upstream!EventsIn(longer)
      BY <1>10, <1>12, <1>13, <2>2
    <2> QED BY <1>6, <1>7, <1>8, <1>9, <2>3, <2>4 DEF ReaderTrue, s
  <1>14. CASE ~ event
    <2>1. told = r.events BY <1>14
    <2> QED BY <1>6, <1>7, <1>8, <1>9, <1>10, <1>12, <1>14, <2>1 DEF ReaderTrue, s
  <1> QED BY <1>13, <1>14
----------------------------------------------------------------------------
(* The calls and their budgets.                                              *)

Inside == {"waiting", "reading", "paused", "dropped"}
Failed == {"runtime_error", "contract_error", "http_error", "transport_error", "cancelled",
           "stopped", "dropped", "ended"}
Queries ==
  {Upstream!Params(x[1], x[2], x[3], x[4]) :
     x \in Operations \X Directories \X Workspaces \X SUBSET ExtraKeys}
    \cup {Upstream!Query({}, "")}

CallRecords ==
  [op : Operations \cup {None}, phase : Inside \cup {"idle", "done"}, query : Queries,
   asked : (Directories \X Workspaces) \cup {None},
   result : Failed \cup {"ok", "busy", "value_error", None}, sent : BOOLEAN]

\* A call that is inside has no result yet; its query is made of what was asked.
CallTrue(k) ==
  /\ k.phase \in Inside => k.result = None
  /\ k.phase # "idle" =>
       /\ k.op \in Operations
       /\ \E dir \in Directories, ws \in Workspaces, extra \in SUBSET ExtraKeys :
            k.asked = <<dir, ws>> /\ k.query = Upstream!Params(k.op, dir, ws, extra)
  /\ k.result \in {"busy", "value_error"} => ~ k.sent

\* The calls inside a budget.
InBudget(calls, g) ==
  {c \in Callers : calls[c].phase \in Inside /\ Upstream!Category(calls[c].op) = g}

Counted(calls, n) ==
  \A g \in Upstream!Categories :
    /\ n[g] = IF Limit[g] = 0 THEN 0 ELSE Cardinality(InBudget(calls, g))
    /\ Limit[g] > 0 => Cardinality(InBudget(calls, g)) <= Limit[g]

UpstreamInv ==
  /\ call \in [Callers -> CallRecords] /\ reader \in [Callers -> Readers]
  /\ inflight \in [Upstream!Categories -> Nat]
  /\ \A c \in Callers : CallTrue(call[c]) /\ ReaderTrue(reader[c])
  /\ Counted(call, inflight)

LEMMA BudgetFinite ==
  ASSUME NEW calls, NEW g
  PROVE  IsFiniteSet(InBudget(calls, g)) /\ Cardinality(InBudget(calls, g)) \in Nat
  <1>1. InBudget(calls, g) \subseteq Callers BY DEF InBudget
  <1>2. IsFiniteSet(InBudget(calls, g)) BY <1>1, FS_Subset, UpstreamAssumption
  <1> QED BY <1>2, FS_CardinalityType

LEMMA CategoryIs == \A op : Upstream!Category(op) \in Upstream!Categories
  BY DEF Upstream!Category, Upstream!Categories

\* A call that stays inside, or outside, leaves the budgets alone.
LEMMA StaysCounted ==
  ASSUME Counted(call, inflight), NEW c \in Callers, NEW k,
         call \in [Callers -> CallRecords],
         \/ k.phase \in Inside /\ call[c].phase \in Inside /\ k.op = call[c].op
         \/ k.phase \notin Inside /\ call[c].phase \notin Inside
  PROVE  Counted([call EXCEPT ![c] = k], inflight)
  <1> DEFINE calls == [call EXCEPT ![c] = k]
  <1>1. calls[c] = k /\ \A d \in Callers : d # c => calls[d] = call[d] OBVIOUS
  <1> HIDE DEF calls
  <1>2. \A g : InBudget(calls, g) = InBudget(call, g) BY <1>1 DEF InBudget
  <1> QED BY <1>2 DEF Counted, calls

\* A call that leaves gives its slot back.
LEMMA LeavesCounted ==
  ASSUME Counted(call, inflight), NEW c \in Callers, NEW k, call[c].phase \in Inside,
         k.phase \notin Inside, call \in [Callers -> CallRecords],
         inflight \in [Upstream!Categories -> Nat]
  PROVE  LET left == Upstream!GivenBack(Upstream!Category(call[c].op))
         IN  left \in [Upstream!Categories -> Nat] /\ Counted([call EXCEPT ![c] = k], left)
  <1> DEFINE calls == [call EXCEPT ![c] = k]
             own == Upstream!Category(call[c].op)
             left == Upstream!GivenBack(own)
  <1>0. own \in Upstream!Categories BY CategoryIs
  <1>1. calls[c] = k /\ \A d \in Callers : d # c => calls[d] = call[d] OBVIOUS
  <1> HIDE DEF calls
  <1>2. c \in InBudget(call, own) /\ InBudget(calls, own) = InBudget(call, own) \ {c}
    BY <1>1 DEF InBudget
  <1>3. \A g : g # own => InBudget(calls, g) = InBudget(call, g) BY <1>1 DEF InBudget
  <1>4. /\ Cardinality(InBudget(calls, own)) = Cardinality(InBudget(call, own)) - 1
        /\ Cardinality(InBudget(call, own)) \in Nat /\ Cardinality(InBudget(calls, own)) \in Nat
    <2> HIDE DEF own
    <2>1. IsFiniteSet(InBudget(call, own)) BY BudgetFinite
    <2>2. Cardinality(InBudget(call, own) \ {c}) = Cardinality(InBudget(call, own)) - 1
      BY <1>2, <2>1, FS_RemoveElement
    <2> QED BY <1>2, <2>2, BudgetFinite
  <1> HIDE DEF own
  <1>5. \A g \in Upstream!Categories : Limit[g] \in Nat BY UpstreamAssumption
  <1>6. CASE Limit[own] = 0
    <2>1. left = inflight BY <1>6 DEF Upstream!GivenBack
    <2>2. ASSUME NEW g \in Upstream!Categories
          PROVE  /\ left[g] = IF Limit[g] = 0 THEN 0 ELSE Cardinality(InBudget(calls, g))
                 /\ Limit[g] > 0 => Cardinality(InBudget(calls, g)) <= Limit[g]
      BY <1>3, <1>6, <2>1 DEF Counted
    <2> QED BY <2>1, <2>2 DEF Counted, calls, own
  <1>7. CASE Limit[own] # 0
    <2>1. inflight[own] = Cardinality(InBudget(call, own)) BY <1>0, <1>7 DEF Counted
    <2>2. left = [inflight EXCEPT ![own] = @ - 1]
      BY <1>0, <1>4, <1>7, <2>1 DEF Upstream!GivenBack
    <2>3. left[own] = Cardinality(InBudget(calls, own)) BY <1>0, <1>4, <2>1, <2>2
    <2>4. \A g \in Upstream!Categories : g # own => left[g] = inflight[g] BY <2>2
    <2>5. left \in [Upstream!Categories -> Nat] BY <1>0, <1>4, <2>2, <2>3, <2>4
    <2>6. ASSUME NEW g \in Upstream!Categories
          PROVE  /\ left[g] = IF Limit[g] = 0 THEN 0 ELSE Cardinality(InBudget(calls, g))
                 /\ Limit[g] > 0 => Cardinality(InBudget(calls, g)) <= Limit[g]
      <3>1. CASE g = own BY <1>4, <1>5, <1>7, <2>3, <3>1 DEF Counted
      <3>2. CASE g # own BY <1>3, <2>4, <3>2 DEF Counted
      <3> QED BY <3>1, <3>2
    <2> QED BY <2>5, <2>6 DEF Counted, calls, own
  <1> QED BY <1>6, <1>7

\* A call that is admitted takes a slot that was free.
LEMMA EntersCounted ==
  ASSUME Counted(call, inflight), NEW c \in Callers, NEW k, call[c].phase \notin Inside,
         k.phase \in Inside, call \in [Callers -> CallRecords],
         inflight \in [Upstream!Categories -> Nat], ~ Upstream!Full(Upstream!Category(k.op))
  PROVE  LET taken == Upstream!Taken(Upstream!Category(k.op))
         IN  taken \in [Upstream!Categories -> Nat] /\ Counted([call EXCEPT ![c] = k], taken)
  <1> DEFINE calls == [call EXCEPT ![c] = k]
             own == Upstream!Category(k.op)
             taken == Upstream!Taken(own)
  <1>0. own \in Upstream!Categories BY CategoryIs
  <1>1. calls[c] = k /\ \A d \in Callers : d # c => calls[d] = call[d] OBVIOUS
  <1> HIDE DEF calls
  <1>2. c \notin InBudget(call, own) /\ InBudget(calls, own) = InBudget(call, own) \cup {c}
    BY <1>1 DEF InBudget
  <1>3. \A g : g # own => InBudget(calls, g) = InBudget(call, g) BY <1>1 DEF InBudget
  <1>4. /\ Cardinality(InBudget(calls, own)) = Cardinality(InBudget(call, own)) + 1
        /\ Cardinality(InBudget(call, own)) \in Nat /\ Cardinality(InBudget(calls, own)) \in Nat
    BY <1>2, BudgetFinite, FS_AddElement
  <1>5. \A g \in Upstream!Categories : Limit[g] \in Nat BY UpstreamAssumption
  <1>6. Limit[own] > 0 => inflight[own] < Limit[own] BY <1>0, <1>5 DEF Upstream!Full
  <1> HIDE DEF own
  <1>7. CASE Limit[own] = 0
    <2>1. taken = inflight BY <1>7 DEF Upstream!Taken
    <2>2. ASSUME NEW g \in Upstream!Categories
          PROVE  /\ taken[g] = IF Limit[g] = 0 THEN 0 ELSE Cardinality(InBudget(calls, g))
                 /\ Limit[g] > 0 => Cardinality(InBudget(calls, g)) <= Limit[g]
      BY <1>3, <1>7, <2>1 DEF Counted
    <2> QED BY <2>1, <2>2 DEF Counted, calls, own
  <1>8. CASE Limit[own] # 0
    <2>1. inflight[own] = Cardinality(InBudget(call, own)) BY <1>0, <1>8 DEF Counted
    <2>2. taken = [inflight EXCEPT ![own] = @ + 1] BY <1>8 DEF Upstream!Taken
    <2>3. taken[own] = Cardinality(InBudget(calls, own)) BY <1>0, <1>4, <2>1, <2>2
    <2>4. \A g \in Upstream!Categories : g # own => taken[g] = inflight[g] BY <2>2
    <2>5. taken \in [Upstream!Categories -> Nat] BY <1>0, <1>4, <2>2, <2>3, <2>4
    <2>6. ASSUME NEW g \in Upstream!Categories
          PROVE  /\ taken[g] = IF Limit[g] = 0 THEN 0 ELSE Cardinality(InBudget(calls, g))
                 /\ Limit[g] > 0 => Cardinality(InBudget(calls, g)) <= Limit[g]
      <3>1. CASE g = own BY <1>0, <1>4, <1>5, <1>6, <1>8, <2>1, <2>3, <3>1
      <3>2. CASE g # own BY <1>3, <2>4, <3>2 DEF Counted
      <3> QED BY <3>1, <3>2
    <2> QED BY <2>5, <2>6 DEF Counted, calls, own
  <1> QED BY <1>7, <1>8

LEMMA ParamsKnown ==
  ASSUME NEW op \in Operations, NEW dir \in Directories, NEW ws \in Workspaces,
         NEW extra \in SUBSET ExtraKeys
  PROVE  Upstream!Params(op, dir, ws, extra) \in Queries
  <1> DEFINE x == <<op, dir, ws, extra>>
  <1>1. x \in Operations \X Directories \X Workspaces \X SUBSET ExtraKeys OBVIOUS
  <1>2. Upstream!Params(op, dir, ws, extra) = Upstream!Params(x[1], x[2], x[3], x[4]) OBVIOUS
  <1> HIDE DEF x
  <1> QED BY <1>1, <1>2 DEF Queries

LEMMA CallInitially ==
  Upstream!NoCall \in CallRecords /\ CallTrue(Upstream!NoCall) /\ Upstream!NoCall.phase = "idle"
  BY UpstreamAssumption DEF Upstream!NoCall, CallRecords, Queries, CallTrue, Inside

LEMMA UpstreamInitially == Upstream!Init => UpstreamInv
  <1> SUFFICES ASSUME Upstream!Init PROVE UpstreamInv OBVIOUS
  <1>1. /\ call \in [Callers -> CallRecords] /\ reader \in [Callers -> Readers]
        /\ inflight \in [Upstream!Categories -> Nat]
        /\ \A c \in Callers : CallTrue(call[c]) /\ ReaderTrue(reader[c])
    BY CallInitially, NothingRead DEF Upstream!Init
  <1>2. ASSUME NEW g \in Upstream!Categories
        PROVE  inflight[g] = 0 /\ Cardinality(InBudget(call, g)) = 0
    <2>1. \A c \in Callers : call[c].phase \notin Inside
      BY CallInitially DEF Upstream!Init, Inside
    <2>2. InBudget(call, g) = {} BY <2>1 DEF InBudget
    <2> QED BY <2>2, FS_EmptySet DEF Upstream!Init
  <1>3. Counted(call, inflight) BY <1>2, UpstreamAssumption DEF Counted
  <1> QED BY <1>1, <1>3 DEF UpstreamInv

\* What a step of one caller has to show.
LEMMA CallerKeeps ==
  ASSUME UpstreamInv, NEW c \in Callers, NEW k \in CallRecords, CallTrue(k),
         NEW r \in Readers, ReaderTrue(r),
         call' = [call EXCEPT ![c] = k], reader' = [reader EXCEPT ![c] = r],
         \/ /\ inflight' = inflight
            /\ \/ k.phase \in Inside /\ call[c].phase \in Inside /\ k.op = call[c].op
               \/ k.phase \notin Inside /\ call[c].phase \notin Inside
         \/ /\ call[c].phase \in Inside /\ k.phase \notin Inside
            /\ inflight' = Upstream!GivenBack(Upstream!Category(call[c].op))
         \/ /\ call[c].phase \notin Inside /\ k.phase \in Inside
            /\ ~ Upstream!Full(Upstream!Category(k.op))
            /\ inflight' = Upstream!Taken(Upstream!Category(k.op))
  PROVE  UpstreamInv'
  <1>1. call \in [Callers -> CallRecords] /\ inflight \in [Upstream!Categories -> Nat]
        /\ Counted(call, inflight) /\ reader \in [Callers -> Readers]
    BY DEF UpstreamInv
  <1>2. inflight' \in [Upstream!Categories -> Nat] /\ Counted(call', inflight')
    <2>1. CASE inflight' = inflight BY <1>1, <2>1, StaysCounted, LeavesCounted, EntersCounted
    <2>2. CASE inflight' # inflight BY <1>1, <2>2, LeavesCounted, EntersCounted
    <2> QED BY <2>1, <2>2
  <1>3. call' \in [Callers -> CallRecords] /\ reader' \in [Callers -> Readers] BY <1>1
  <1>4. \A d \in Callers : CallTrue(call'[d]) /\ ReaderTrue(reader'[d])
    BY <1>1 DEF UpstreamInv
  <1> QED BY <1>2, <1>3, <1>4 DEF UpstreamInv

\* A step that only moves the call within its phases.
LEMMA PhaseKeeps ==
  ASSUME UpstreamInv, NEW c \in Callers, call[c].phase \in Inside, NEW p \in Inside,
         call' = [call EXCEPT ![c].phase = p], UNCHANGED inflight,
         NEW r \in Readers, ReaderTrue(r), reader' = [reader EXCEPT ![c] = r]
  PROVE  UpstreamInv'
  <1> DEFINE k == [call[c] EXCEPT !.phase = p]
  <1>1. call[c] \in CallRecords /\ CallTrue(call[c]) /\ call \in [Callers -> CallRecords]
    BY DEF UpstreamInv
  <1>2. k \in CallRecords BY <1>1 DEF CallRecords
  <1>3. /\ k.phase = p /\ k.op = call[c].op /\ k.result = call[c].result /\ k.sent = call[c].sent
        /\ k.asked = call[c].asked /\ k.query = call[c].query
    BY <1>1 DEF CallRecords
  <1>4. call' = [call EXCEPT ![c] = k] BY <1>1
  <1> HIDE DEF k
  <1>5. call[c].phase # "idle" /\ p # "idle" BY DEF Inside
  <1>6. CallTrue(k) BY <1>1, <1>3, <1>5 DEF CallTrue
  <1> QED BY <1>2, <1>3, <1>4, <1>6, CallerKeeps

\* Every way out of a reservation.
LEMMA LeaveKeeps ==
  ASSUME UpstreamInv, NEW c \in Callers, call[c].phase \in Inside,
         NEW result \in Failed \cup {"ok"}, Upstream!Leave(c, result)
  PROVE  UpstreamInv'
  <1> DEFINE k == [call[c] EXCEPT !.phase = "done", !.result = result]
  <1>1. call[c] \in CallRecords /\ CallTrue(call[c]) /\ call \in [Callers -> CallRecords]
    BY DEF UpstreamInv
  <1>2. k \in CallRecords BY <1>1 DEF CallRecords
  <1>3. /\ k.phase = "done" /\ k.op = call[c].op /\ k.result = result
        /\ k.asked = call[c].asked /\ k.query = call[c].query
    BY <1>1 DEF CallRecords
  <1>4. call' = [call EXCEPT ![c] = k] BY <1>1 DEF Upstream!Leave
  <1> HIDE DEF k
  <1>5. call[c].phase # "idle" /\ "done" \notin Inside BY DEF Inside
  <1>6. CallTrue(k) BY <1>1, <1>3, <1>5 DEF CallTrue, Failed
  <1>7. inflight' = Upstream!GivenBack(Upstream!Category(call[c].op))
        /\ reader' = [reader EXCEPT ![c] = Upstream!NoReader]
    BY DEF Upstream!Leave
  <1> QED BY <1>2, <1>3, <1>4, <1>5, <1>6, <1>7, NothingRead, CallerKeeps

LEMMA OutcomeIs == \A op, answer : Upstream!Outcome(op, answer) \in Failed \cup {"ok"}
  <1>1. \A answer : Upstream!Decoded(answer) \in Failed \cup {"decoded"}
    BY DEF Upstream!Decoded, Failed
  <1>2. \A answer : Upstream!BooleanOutcome(answer) \in Failed \cup {"ok"}
    BY <1>1 DEF Upstream!BooleanOutcome, Failed
  <1>3. \A answer : Upstream!IdOutcome(answer) \in Failed \cup {"ok"}
    BY <1>1 DEF Upstream!IdOutcome, Failed
  <1>4. \A answer : Upstream!MessageOutcome(answer) \in Failed \cup {"ok"}
    BY <1>1 DEF Upstream!MessageOutcome, Failed
  <1>5. \A answer : Upstream!VoidOutcome(answer) \in Failed \cup {"ok"}
    <2>1. /\ Upstream!Decoded("no_answer") = "transport_error"
          /\ Upstream!Decoded("error_status") = "http_error"
      BY DEF Upstream!Decoded, Upstream!Json
    <2> QED BY <2>1 DEF Upstream!VoidOutcome, Failed
  <1> QED BY <1>1, <1>2, <1>3, <1>4, <1>5 DEF Upstream!Outcome

LEMMA CallKeeps ==
  ASSUME UpstreamInv, NEW c \in Callers, NEW op \in Operations, NEW dir \in Directories,
         NEW ws \in Workspaces, NEW extra \in SUBSET ExtraKeys, NEW body,
         Upstream!Call(c, op, dir, ws, extra, body)
  PROVE  UpstreamInv'
  <1> DEFINE query == Upstream!Params(op, dir, ws, extra)
             made == [Upstream!NoCall EXCEPT !.op = op, !.query = query, !.asked = <<dir, ws>>]
  <1>1. query \in Queries BY ParamsKnown
  <1>3. /\ call[c].phase = "idle" /\ call[c].phase \notin Inside /\ reader' = reader
        /\ call \in [Callers -> CallRecords] /\ reader[c] \in Readers /\ ReaderTrue(reader[c])
        /\ reader \in [Callers -> Readers]
    BY DEF Upstream!Call, UpstreamInv, Inside
  <1>4. /\ made \in CallRecords /\ made.op = op /\ made.query = query
        /\ made.asked = <<dir, ws>> /\ made.result = None /\ made.sent = FALSE
    <2>1. /\ Upstream!NoCall \in CallRecords /\ Upstream!NoCall.result = None
          /\ Upstream!NoCall.sent = FALSE
      BY CallInitially DEF Upstream!NoCall
    <2> HIDE DEF query
    <2>2. made \in CallRecords BY <1>1, <2>1 DEF CallRecords
    <2> QED BY <2>1, <2>2 DEF CallRecords
  <1>5. reader' = [reader EXCEPT ![c] = reader[c]] BY <1>3
  <1> HIDE DEF query, made
  <1>6. ASSUME NEW k, k.phase \in Inside \cup {"done"}, k.op = op, k.query = query, k.asked = <<dir, ws>>,
               k.phase \in Inside => k.result = None, k.result \in {"busy", "value_error"} => ~ k.sent
        PROVE  CallTrue(k)
    BY <1>6 DEF CallTrue, query
  <1>7. ASSUME NEW result \in {"busy", "value_error"}, UNCHANGED inflight,
               call' = [call EXCEPT ![c] = [made EXCEPT !.phase = "done", !.result = result]]
        PROVE  UpstreamInv'
    <2> DEFINE k == [made EXCEPT !.phase = "done", !.result = result]
    <2>1. call' = [call EXCEPT ![c] = k] BY <1>7
    <2>2. k \in CallRecords BY <1>4 DEF CallRecords
    <2>3. k.phase = "done" /\ k.phase \notin Inside BY <1>4 DEF CallRecords, Inside
    <2>4. k.op = op /\ k.query = query /\ k.asked = <<dir, ws>> /\ ~ k.sent
      BY <1>4 DEF CallRecords
    <2>5. CallTrue(k) BY <1>6, <2>3, <2>4
    <2> HIDE DEF k
    <2> QED BY <1>3, <1>5, <1>7, <2>1, <2>2, <2>3, <2>5, CallerKeeps
  <1>8. ASSUME ~ Upstream!Full(Upstream!Category(op)),
               inflight' = Upstream!Taken(Upstream!Category(op)),
               call' = [call EXCEPT ![c] = [made EXCEPT !.phase = "waiting", !.sent = TRUE]]
        PROVE  UpstreamInv'
    <2> DEFINE k == [made EXCEPT !.phase = "waiting", !.sent = TRUE]
    <2>1. call' = [call EXCEPT ![c] = k] BY <1>8
    <2>2. k \in CallRecords BY <1>4 DEF CallRecords, Inside
    <2>3. k.phase = "waiting" /\ k.phase \in Inside BY <1>4 DEF CallRecords, Inside
    <2>4. k.op = op /\ k.query = query /\ k.asked = <<dir, ws>> /\ k.result = None
      BY <1>4 DEF CallRecords
    <2>5. CallTrue(k) BY <1>6, <2>3, <2>4, UpstreamAssumption
    <2> HIDE DEF k
    <2> QED BY <1>3, <1>5, <1>8, <2>1, <2>2, <2>3, <2>4, <2>5, CallerKeeps
  <1> QED BY <1>7, <1>8 DEF Upstream!Call, query, made

LEMMA LineKeeps ==
  ASSUME UpstreamInv, NEW c \in Callers, NEW line \in LineKinds, Upstream!Line(c, line)
  PROVE  UpstreamInv'
  <1> DEFINE r == Upstream!WithLine(reader[c], line)
  <1>1. call[c].phase = "reading" /\ Len(reader[c].lines) < MaxLines BY DEF Upstream!Line
  <1>2. reader[c] \in Readers /\ ReaderTrue(reader[c]) /\ call \in [Callers -> CallRecords]
        /\ call[c] \in CallRecords
    BY DEF UpstreamInv
  <1>3. r \in Readers /\ ReaderTrue(r) BY <1>1, <1>2, ReaderKept
  <1>4. {"reading", "paused"} \subseteq Inside /\ "stopped" \in Failed BY DEF Inside, Failed
  <1>5. CASE Upstream!Leave(c, "stopped") BY <1>1, <1>4, <1>5, LeaveKeeps
  <1>6. CASE /\ reader' = [reader EXCEPT ![c] = r] /\ UNCHANGED inflight
             /\ call' \in {call, [call EXCEPT ![c].phase = "paused"]}
    <2>1. call = [call EXCEPT ![c].phase = "reading"] BY <1>1, <1>2 DEF CallRecords
    <2>2. PICK p \in {"reading", "paused"} : call' = [call EXCEPT ![c].phase = p] BY <1>6, <2>1
    <2> HIDE DEF r
    <2> QED BY <1>1, <1>3, <1>4, <1>6, <2>2, PhaseKeeps
  <1> QED BY <1>5, <1>6 DEF Upstream!Line

LEMMA UpstreamKept == UpstreamInv /\ [Upstream!Next]_upstream => UpstreamInv'
  <1> SUFFICES ASSUME UpstreamInv, [Upstream!Next]_upstream PROVE UpstreamInv' OBVIOUS
  <1>0. \A c \in Callers : /\ reader[c] \in Readers /\ ReaderTrue(reader[c])
                           /\ reader = [reader EXCEPT ![c] = reader[c]]
                           /\ call[c] \in CallRecords
    BY DEF UpstreamInv
  <1>1. CASE UNCHANGED upstream BY <1>1 DEF upstream, UpstreamInv, Counted, InBudget
  <1>2. ASSUME NEW c \in Callers, NEW answer, Upstream!Answer(c, answer) PROVE UpstreamInv'
    BY <1>2, OutcomeIs, LeaveKeeps DEF Upstream!Answer, Inside
  <1>3. ASSUME NEW c \in Callers, Upstream!Cancel(c) PROVE UpstreamInv'
    BY <1>3, LeaveKeeps DEF Upstream!Cancel, Inside, Failed
  <1>4. ASSUME NEW c \in Callers, Upstream!StreamOpens(c) PROVE UpstreamInv'
    BY <1>0, <1>4, PhaseKeeps DEF Upstream!StreamOpens, Inside
  <1>5. ASSUME NEW c \in Callers, Upstream!Resume(c) PROVE UpstreamInv'
    BY <1>0, <1>5, PhaseKeeps DEF Upstream!Resume, Inside
  <1>6. ASSUME NEW c \in Callers, Upstream!SetStop(c) PROVE UpstreamInv'
    <2> DEFINE r == [reader[c] EXCEPT !.stop = TRUE]
    <2>1. r \in Readers BY <1>0 DEF Readers
    <2>2. r.lines = reader[c].lines /\ r.data = reader[c].data /\ r.events = reader[c].events
      BY <1>0 DEF Readers
    <2>3. reader' = [reader EXCEPT ![c] = r] BY <1>6 DEF Upstream!SetStop, UpstreamInv
    <2> HIDE DEF r
    <2>4. ReaderTrue(r) BY <1>0, <2>2 DEF ReaderTrue
    <2>5. PICK p \in {"reading", "paused"} : p = call[c].phase BY <1>6 DEF Upstream!SetStop
    <2>6. call' = [call EXCEPT ![c].phase = p]
      BY <1>0, <1>6, <2>5 DEF Upstream!SetStop, UpstreamInv, CallRecords
    <2>7. p \in Inside BY DEF Inside
    <2>8. UNCHANGED inflight BY <1>6 DEF Upstream!SetStop
    <2> QED BY <2>1, <2>3, <2>4, <2>5, <2>6, <2>7, <2>8, PhaseKeeps
  <1>7. ASSUME NEW c \in Callers, Upstream!Drop(c) PROVE UpstreamInv'
    BY <1>0, <1>7, PhaseKeeps DEF Upstream!Drop, Inside
  <1>8. ASSUME NEW c \in Callers, Upstream!Finalize(c) PROVE UpstreamInv'
    BY <1>8, LeaveKeeps DEF Upstream!Finalize, Inside, Failed
  <1>9. ASSUME NEW c \in Callers, NEW result \in {"http_error", "transport_error", "ended"},
               Upstream!StreamEnds(c, result)
        PROVE  UpstreamInv'
    BY <1>9, LeaveKeeps DEF Upstream!StreamEnds, Inside, Failed
  <1>10. ASSUME NEW c \in Callers, Upstream!Return(c) PROVE UpstreamInv'
    <2>1. /\ call[c].phase \notin Inside /\ Upstream!NoCall.phase \notin Inside
          /\ call' = [call EXCEPT ![c] = Upstream!NoCall]
          /\ inflight' = inflight /\ reader' = [reader EXCEPT ![c] = reader[c]]
      BY <1>0, <1>10, CallInitially DEF Upstream!Return, Inside
    <2> QED BY <1>0, <2>1, CallInitially, CallerKeeps
  <1> QED BY <1>1, <1>2, <1>3, <1>4, <1>5, <1>6, <1>7, <1>8, <1>9, <1>10, CallKeeps, LineKeeps
       DEF Upstream!Next, Upstream!Within

\* What a query says of the scope it is for.
Scoped(q, dir, ws) ==
  /\ DOMAIN q \cap {"directory", "workspace"} \in {{}, {"directory"}, {"workspace"}}
  /\ "workspace" \in DOMAIN q => q["workspace"] = ws /\ ws \notin {None, ""}
  /\ "directory" \in DOMAIN q => q["directory"] \in {dir, Directory} \ {None, ""}
  /\ ws \notin {None, ""} => "workspace" \in DOMAIN q

LEMMA QueryScope ==
  ASSUME NEW dir, NEW ws
  PROVE  /\ Scoped(Upstream!QueryParams(dir, ws), dir, ws)
         /\ DOMAIN Upstream!QueryParams(dir, ws) \subseteq {"directory", "workspace"}
  <1> DEFINE d == IF dir \in {None, ""} THEN Directory ELSE dir
             q == Upstream!QueryParams(dir, ws)
  <1> SUFFICES Scoped(q, dir, ws) /\ DOMAIN q \subseteq {"directory", "workspace"} OBVIOUS
  <1>1. CASE ws \notin {None, ""}
    <2>1. q = [k \in {"workspace"} |-> ws]
      BY <1>1 DEF Upstream!QueryParams, Upstream!Query
    <2> HIDE DEF q
    <2>2. DOMAIN q = {"workspace"} /\ q["workspace"] = ws BY <2>1
    <2>3. DOMAIN q \cap {"directory", "workspace"} = {"workspace"} BY <2>2
    <2> QED BY <1>1, <2>2, <2>3 DEF Scoped
  <1>2. CASE ws \in {None, ""} /\ d \in {None, ""}
    <2>1. q = [k \in {} |-> d]
      BY <1>2 DEF Upstream!QueryParams, Upstream!Query
    <2> HIDE DEF q, d
    <2>2. DOMAIN q = {} BY <2>1
    <2>3. DOMAIN q \cap {"directory", "workspace"} = {} BY <2>2
    <2> QED BY <1>2, <2>2, <2>3 DEF Scoped
  <1>3. CASE ws \in {None, ""} /\ d \notin {None, ""}
    <2>1. q = [k \in {"directory"} |-> d]
      BY <1>3 DEF Upstream!QueryParams, Upstream!Query
    <2>2. d \in {dir, Directory} OBVIOUS
    <2>3. d \notin {None, ""} BY <1>3
    <2> HIDE DEF q, d
    <2>4. DOMAIN q = {"directory"} /\ q["directory"] = d BY <2>1
    <2>5. DOMAIN q \cap {"directory", "workspace"} = {"directory"} BY <2>4
    <2> QED BY <1>3, <2>2, <2>3, <2>4, <2>5 DEF Scoped
  <1> QED BY <1>1, <1>2, <1>3

\* The parameters of a remote caller do not touch it.
LEMMA MergeScope ==
  ASSUME NEW op, NEW dir, NEW ws, NEW extra
  PROVE  Scoped(Upstream!MergeParams(op, dir, ws, extra), dir, ws)
  <1> DEFINE own == IF op = "list_messages" THEN None ELSE dir
             s == Upstream!QueryParams(own, ws)
             q == Upstream!MergeParams(op, dir, ws, extra)
             x == extra \ {"directory", "workspace"}
  <1> SUFFICES Scoped(q, dir, ws) OBVIOUS
  <1>1. Scoped(s, own, ws) /\ DOMAIN s \subseteq {"directory", "workspace"} BY QueryScope
  <1>2. q = [k \in DOMAIN s \cup x |-> IF k \in DOMAIN s THEN s[k] ELSE "remote"]
    BY DEF Upstream!MergeParams
  <1>4. own \in {None, dir} OBVIOUS
  <1> HIDE DEF q, s, own
  <1>5. DOMAIN q = DOMAIN s \cup x BY <1>2
  <1>6. \A k \in DOMAIN s : q[k] = s[k] BY <1>2
  <1>7. DOMAIN q \cap {"directory", "workspace"} = DOMAIN s \cap {"directory", "workspace"}
    BY <1>5
  <1>8. DOMAIN q \cap {"directory", "workspace"} \in {{}, {"directory"}, {"workspace"}}
    BY <1>1, <1>7 DEF Scoped
  <1>9. \A k \in {"directory", "workspace"} : k \in DOMAIN q <=> k \in DOMAIN s BY <1>7
  <1> HIDE DEF x
  <1> QED BY <1>1, <1>4, <1>6, <1>8, <1>9 DEF Scoped

LEMMA ParamsScope ==
  ASSUME NEW op, NEW dir, NEW ws, NEW extra
  PROVE  LET q == Upstream!Params(op, dir, ws, extra)
         IN  /\ DOMAIN q = {} \/ Scoped(q, dir, ws)
             /\ Upstream!Endpoints[op].scope \in {"query", "merge"} => Scoped(q, dir, ws)
  <1> DEFINE scope == Upstream!Endpoints[op].scope
  <1>1. CASE scope = "query"
    <2>1. Upstream!Params(op, dir, ws, extra) = Upstream!QueryParams(dir, ws)
      BY <1>1 DEF Upstream!Params
    <2> QED BY <2>1, QueryScope
  <1>2. CASE scope = "merge"
    <2>1. Upstream!Params(op, dir, ws, extra) = Upstream!MergeParams(op, dir, ws, extra)
      BY <1>2 DEF Upstream!Params
    <2> QED BY <2>1, MergeScope
  <1>3. CASE scope \notin {"query", "merge"}
    <2>1. Upstream!Params(op, dir, ws, extra) = [k \in {} |-> ""]
      BY <1>3 DEF Upstream!Params, Upstream!Query
    <2> QED BY <1>3, <2>1
  <1> QED BY <1>1, <1>2, <1>3

LEMMA UpstreamAlways == OutboundSpec => []UpstreamInv
  <1>1. OutboundInit => UpstreamInv BY UpstreamInitially DEF OutboundInit
  <1>2. UpstreamInv /\ [OutboundNext]_<<vars, upstream, cache>> => UpstreamInv'
    BY PartsOfStep, UpstreamKept
  <1> QED BY <1>1, <1>2, PTL DEF OutboundSpec

\* Whatever way its calls end, a budget counts the calls inside it and keeps its
\* limit; what it refuses was not sent (_FastFailConcurrencyBudget).
THEOREM BudgetsAreKept == OutboundSpec => []BudgetsKept
  <1>1. ASSUME UpstreamInv PROVE BudgetsKept
    <2>1. \A g : Upstream!Holding(g) = InBudget(call, g)
      BY DEF Upstream!Holding, InBudget, Inside
    <2>2. Upstream!SlotsAccounted /\ Upstream!WithinLimit
      BY <1>1, <2>1, SameCount
         DEF UpstreamInv, Counted, Upstream!SlotsAccounted, Upstream!WithinLimit
    <2>3. Upstream!RefusedIsUnsent
      BY <1>1 DEF UpstreamInv, CallTrue, Upstream!RefusedIsUnsent
    <2>4. Upstream!TypeOK
      BY <1>1 DEF UpstreamInv, CallRecords, ReaderTrue, Inside, Upstream!TypeOK
    <2> QED BY <2>2, <2>3, <2>4 DEF BudgetsKept
  <1> QED BY <1>1, UpstreamAlways, PTL

\* The scope of a call.
LEMMA ScopeTrue == UpstreamInv => Upstream!ScopeIsServers
  <1> SUFFICES ASSUME UpstreamInv, NEW c \in Callers, call[c].phase # "idle"
               PROVE  LET q == call[c].query
                          scope == DOMAIN q \cap {"directory", "workspace"}
                          dir == call[c].asked[1]
                          ws == call[c].asked[2]
                      IN  /\ Cardinality(scope) <= 1
                          /\ \A k \in scope : q[k] # "remote"
                          /\ /\ Upstream!Endpoints[call[c].op].scope \in {"query", "merge"}
                             /\ ws \notin {None, ""}
                             => scope = {"workspace"} /\ q["workspace"] = ws
                          /\ "directory" \in scope => q["directory"] \in {dir, Directory}
    BY SameCount DEF Upstream!ScopeIsServers
  <1> DEFINE q == call[c].query
             scope == DOMAIN q \cap {"directory", "workspace"}
  <1>1. PICK dir \in Directories, ws \in Workspaces, extra \in SUBSET ExtraKeys :
          call[c].asked = <<dir, ws>> /\ q = Upstream!Params(call[c].op, dir, ws, extra)
    BY DEF UpstreamInv, CallTrue
  <1>2. /\ DOMAIN q = {} \/ Scoped(q, dir, ws)
        /\ Upstream!Endpoints[call[c].op].scope \in {"query", "merge"} => Scoped(q, dir, ws)
    BY <1>1, ParamsScope
  <1>3. call[c].asked[1] = dir /\ call[c].asked[2] = ws BY <1>1
  <1> HIDE DEF q
  <1>4. Cardinality({}) = 0 /\ Cardinality({"directory"}) = 1 /\ Cardinality({"workspace"}) = 1
    BY FS_EmptySet, FS_Singleton
  <1>5. scope \in {{}, {"directory"}, {"workspace"}} BY <1>2 DEF Scoped
  <1>6. Cardinality(scope) <= 1 BY <1>4, <1>5
  <1>7. "remote" \notin {dir, ws, Directory} BY UpstreamAssumption
  <1>8. \A k \in scope : q[k] # "remote" BY <1>2, <1>7 DEF Scoped
  <1>9. "directory" \in scope => q["directory"] \in {dir, Directory} BY <1>2 DEF Scoped
  <1>10. ASSUME Upstream!Endpoints[call[c].op].scope \in {"query", "merge"}, ws \notin {None, ""}
         PROVE  scope = {"workspace"} /\ q["workspace"] = ws
    BY <1>2, <1>5, <1>10 DEF Scoped
  <1> QED BY <1>3, <1>6, <1>8, <1>9, <1>10 DEF q

\* The events of a stream.
LEMMA EventsTrue == UpstreamInv => Upstream!EventsOfTheStream
  BY DEF UpstreamInv, ReaderTrue, Upstream!EventsOfTheStream

\* A stopped reader.
LEMMA StoppedStep ==
  ASSUME UpstreamInv, [Upstream!Next]_upstream, NEW c \in Callers, reader[c].stop
  PROVE  reader'[c].events \in {reader[c].events, <<>>}
  <1>0. reader \in [Callers -> Readers] BY DEF UpstreamInv
  <1>1. CASE UNCHANGED reader BY <1>1
  <1>2. ASSUME NEW d \in Callers, reader' = [reader EXCEPT ![d] = Upstream!NoReader]
        PROVE  reader'[c].events \in {reader[c].events, <<>>}
    BY <1>0, <1>2 DEF Upstream!NoReader
  <1>3. ASSUME NEW d \in Callers, NEW result, Upstream!Leave(d, result)
        PROVE  reader'[c].events \in {reader[c].events, <<>>}
    BY <1>2, <1>3 DEF Upstream!Leave
  <1>4. ASSUME NEW d \in Callers, NEW line \in LineKinds, Upstream!Line(d, line)
        PROVE  reader'[c].events \in {reader[c].events, <<>>}
    <2>1. CASE Upstream!Leave(d, "stopped") BY <1>3, <2>1
    <2>2. CASE ~ reader[d].stop BY <1>0, <1>4, <2>2 DEF Upstream!Line
    <2> QED BY <1>4, <2>1, <2>2 DEF Upstream!Line
  <1>5. ASSUME NEW d \in Callers, Upstream!SetStop(d)
        PROVE  reader'[c].events \in {reader[c].events, <<>>}
    BY <1>0, <1>5 DEF Upstream!SetStop
  <1>6. ASSUME NEW d \in Callers, NEW answer, Upstream!Answer(d, answer)
        PROVE  reader'[c].events \in {reader[c].events, <<>>}
    BY <1>3, <1>6 DEF Upstream!Answer
  <1>7. ASSUME NEW d \in Callers, NEW result, Upstream!StreamEnds(d, result)
        PROVE  reader'[c].events \in {reader[c].events, <<>>}
    BY <1>3, <1>7 DEF Upstream!StreamEnds
  <1>8. ASSUME NEW d \in Callers, Upstream!Cancel(d) \/ Upstream!Finalize(d)
        PROVE  reader'[c].events \in {reader[c].events, <<>>}
    BY <1>3, <1>8 DEF Upstream!Cancel, Upstream!Finalize
  <1>9. ASSUME NEW d \in Callers, NEW op, NEW dir, NEW ws, NEW extra, NEW body,
               Upstream!Call(d, op, dir, ws, extra, body)
        PROVE  UNCHANGED reader
    BY <1>9 DEF Upstream!Call
  <1>10. ASSUME NEW d \in Callers,
                \/ Upstream!StreamOpens(d) \/ Upstream!Resume(d) \/ Upstream!Drop(d)
                \/ Upstream!Return(d)
         PROVE  UNCHANGED reader
    BY <1>10 DEF Upstream!StreamOpens, Upstream!Resume, Upstream!Drop, Upstream!Return
  <1> QED BY <1>1, <1>4, <1>5, <1>6, <1>7, <1>8, <1>9, <1>10
       DEF Upstream!Next, Upstream!Within, upstream

\* A request goes to the server's scope whatever a remote caller asks for; a
\* stream is passed on block for block, and not after its turn has stopped it
\* (_query_params, _merge_params, stream_events).
THEOREM ExchangesAreFaithful == OutboundSpec => ExchangeFaithful
  <1>1. UpstreamInv /\ [OutboundNext]_<<vars, upstream, cache>> =>
          [\A c \in Callers : reader[c].stop => reader'[c].events \in {reader[c].events, <<>>}]_(Upstream!vars)
    BY PartsOfStep, StoppedStep
  <1> QED BY <1>1, UpstreamAlways, ScopeTrue, EventsTrue, PTL
       DEF OutboundSpec, ExchangeFaithful, Upstream!StoppedIsQuiet

----------------------------------------------------------------------------
(* The cache of A2A clients.                                                 *)

\* An entry of the cache, and a call that holds one.
Entry ==
  [url : Urls, used : Nat, expires : Nat \cup {None}, borrow : Nat, pending : BOOLEAN]
Holds == {"closing", "using", "active", "leaving"}
Closers == Calls \cup {Cache!Shutdown}
Waiting(i) == \E x \in Closers : i \in todo[x]

\* The types; who has nothing to close.
CacheTypes ==
  /\ clock \in 0..MaxTime /\ down \in BOOLEAN
  /\ ent \in [DOMAIN ent -> Entry] /\ \E n \in Nat : DOMAIN ent = 1..n
  /\ table \in [Urls -> DOMAIN ent \cup {None}] /\ open \subseteq DOMAIN ent
  /\ borrower \in [Calls -> Holds \cup {"idle", "returning", "done"}]
  /\ mine \in [Calls -> DOMAIN ent \cup {None}]
  /\ \A b \in Calls : mine[b] # None <=> borrower[b] \in Holds
  /\ todo \in [Closers -> SUBSET DOMAIN ent]
  /\ \A b \in Calls : borrower[b] \notin {"closing", "returning"} => todo[b] = {}
  /\ ~ down => todo[Cache!Shutdown] = {}
  /\ \A u \in Urls : table[u] # None => ent[table[u]].url = u

\* A cached client is open and nobody is about to close it; one that is neither
\* cached nor closed is about to be, or its closing was interrupted.
CacheOpen ==
  /\ \A i \in Cache!Cached(table) : i \in open /\ ~ Waiting(i)
  /\ \A i \in open : i \in Cache!Cached(table) \/ i \in orphans \/ Waiting(i)

\* A cached entry counts the calls that hold it and what leaked, and before the
\* shutdown what a call holds is cached.
CacheCounts ==
  /\ ~ down => \A b \in Calls : mine[b] # None => mine[b] \in Cache!Cached(table)
  /\ \A i \in Cache!Cached(table) :
       /\ ent[i].borrow >= Cardinality(Cache!Borrowed(i))
       /\ i \notin leaked => ent[i].borrow = Cardinality(Cache!Borrowed(i))

\* Only what is borrowed waits for its eviction or keeps the cache too large.
CacheBound ==
  /\ \A i \in Cache!Cached(table) : ent[i].pending => ent[i].borrow > 0
  /\ \/ Cardinality(Cache!Cached(table)) <= MaxSize
     \/ \E i \in Cache!Cached(table) : ent[i].borrow > 0

CacheInv == CacheTypes /\ CacheOpen /\ CacheCounts /\ CacheBound

\* The arguments of an eviction.
EvictArgs(t, e) ==
  /\ e \in [DOMAIN e -> Entry] /\ \E n \in Nat : DOMAIN e = 1..n
  /\ t \in [Urls -> DOMAIN e \cup {None}]

LEMMA CachedIs ==
  ASSUME NEW t, NEW e, EvictArgs(t, e)
  PROVE  /\ Cache!Cached(t) \subseteq DOMAIN e /\ None \notin DOMAIN e
         /\ \A u \in Urls : t[u] # None => t[u] \in Cache!Cached(t)
         /\ IsFiniteSet(Cache!Cached(t)) /\ Cardinality(Cache!Cached(t)) \in Nat
  <1>1. PICK n \in Nat : DOMAIN e = 1..n BY DEF EvictArgs
  <1>2. None \notin DOMAIN e /\ IsFiniteSet(DOMAIN e) BY <1>1, CacheAssumption, FS_Interval
  <1>3. Cache!Cached(t) \subseteq DOMAIN e BY DEF EvictArgs, Cache!Cached
  <1>4. \A u \in Urls : t[u] # None => t[u] \in Cache!Cached(t) BY DEF Cache!Cached
  <1>5. IsFiniteSet(Cache!Cached(t)) BY <1>2, <1>3, FS_Subset
  <1> QED BY <1>2, <1>3, <1>4, <1>5, FS_CardinalityType

LEMMA DropLeaves ==
  ASSUME NEW t, NEW e, EvictArgs(t, e), NEW gone, None \notin gone
  PROVE  /\ Cache!Cached(Cache!Drop(t, gone)) = Cache!Cached(t) \ gone
         /\ EvictArgs(Cache!Drop(t, gone), e)
         /\ \A u \in Urls : Cache!Drop(t, gone)[u] = IF t[u] \in gone THEN None ELSE t[u]
  BY DEF Cache!Drop, Cache!Cached, EvictArgs

\* Marking changes nothing else.
SameBut(e, f) ==
  /\ DOMAIN f = DOMAIN e /\ f \in [DOMAIN e -> Entry]
  /\ \A i \in DOMAIN e : /\ f[i].url = e[i].url /\ f[i].used = e[i].used
                         /\ f[i].expires = e[i].expires /\ f[i].borrow = e[i].borrow

LEMMA MarkSays ==
  ASSUME NEW e, e \in [DOMAIN e -> Entry], NEW S
  PROVE  /\ SameBut(e, Cache!Mark(e, S))
         /\ \A i \in DOMAIN e : Cache!Mark(e, S)[i].pending = (i \in S \/ e[i].pending)
  <1> DEFINE f == Cache!Mark(e, S)
             k(i) == IF i \in S THEN [e[i] EXCEPT !.pending = TRUE] ELSE e[i]
  <1>1. f = [i \in DOMAIN e |-> k(i)] BY DEF Cache!Mark
  <1>2. ASSUME NEW i \in DOMAIN e
        PROVE  /\ k(i) \in Entry /\ k(i).url = e[i].url /\ k(i).used = e[i].used
               /\ k(i).expires = e[i].expires /\ k(i).borrow = e[i].borrow
               /\ k(i).pending = (i \in S \/ e[i].pending)
    <2>1. e[i] \in Entry OBVIOUS
    <2>2. CASE i \in S BY <2>1, <2>2 DEF Entry
    <2>3. CASE i \notin S
      <3>1. k(i) = e[i] BY <2>3
      <3>2. e[i].pending \in BOOLEAN BY <2>1 DEF Entry
      <3> QED BY <2>1, <2>3, <3>1, <3>2
    <2> QED BY <2>2, <2>3
  <1> HIDE DEF k
  <1>3. DOMAIN f = DOMAIN e /\ \A i \in DOMAIN e : f[i] = k(i) BY <1>1
  <1>4. f \in [DOMAIN e -> Entry] BY <1>1, <1>2
  <1> QED BY <1>2, <1>3, <1>4 DEF SameBut

\* What is evicted: only what is neither protected nor held; what stays and is
\* marked is one of them.
EvictedRight(t, e, keep, r) ==
  /\ r.table = Cache!Drop(t, r.gone)
  /\ r.gone \subseteq Cache!Cached(t)
  /\ \A i \in r.gone : i \notin keep /\ ~ Cache!Held(e, i)
  /\ SameBut(e, r.ent)
  /\ \A i \in Cache!Cached(t) \ r.gone : r.ent[i].pending => i \in keep \/ Cache!Held(e, i)

LEMMA DueTakes ==
  ASSUME NEW t, NEW e, EvictArgs(t, e), NEW keep
  PROVE  EvictedRight(t, e, keep, Cache!EvictDue(t, e, keep))
  <1> DEFINE r == Cache!EvictDue(t, e, keep)
             late == {i \in Cache!Cached(t) : Cache!Expired(e, i) \/ e[i].pending}
             gone == {i \in late : i \notin keep /\ ~ Cache!Held(e, i)}
  <1> SUFFICES EvictedRight(t, e, keep, r) OBVIOUS
  <1>1. /\ r.table = Cache!Drop(t, gone) /\ r.ent = Cache!Mark(e, late \ gone)
        /\ r.gone = gone
    BY DEF Cache!EvictDue
  <1>2. e \in [DOMAIN e -> Entry] /\ Cache!Cached(t) \subseteq DOMAIN e
    BY CachedIs DEF EvictArgs
  <1>3. /\ gone \subseteq Cache!Cached(t)
        /\ \A i \in gone : i \notin keep /\ ~ Cache!Held(e, i)
        /\ \A i \in late \ gone : i \in keep \/ Cache!Held(e, i)
    OBVIOUS
  <1>4. \A i \in Cache!Cached(t) : e[i].pending => i \in late OBVIOUS
  <1> HIDE DEF r, late, gone
  <1>5. /\ SameBut(e, r.ent)
        /\ \A i \in DOMAIN e : r.ent[i].pending = (i \in late \ gone \/ e[i].pending)
    BY <1>1, <1>2, MarkSays
  <1> QED BY <1>1, <1>2, <1>3, <1>4, <1>5 DEF EvictedRight

LEMMA OldestTakes ==
  ASSUME NEW t, NEW e, EvictArgs(t, e), NEW keep,
         \A i \in Cache!Cached(t) : e[i].pending => i \in keep \/ Cache!Held(e, i)
  PROVE  EvictedRight(t, e, keep, Cache!EvictOldest(t, e, keep))
  <1> DEFINE r == Cache!EvictOldest(t, e, keep)
             excess == Cache!Cardinality(Cache!Cached(t)) - MaxSize
             idle == {i \in Cache!Cached(t) : i \notin keep /\ ~ Cache!Held(e, i)}
             gone == {i \in idle : Cache!Rank(e, idle, i) < excess}
             passed == {i \in Cache!Cached(t) \ (idle \cup keep) :
                          \/ Cache!Cardinality(gone) < excess
                          \/ \E j \in gone : Cache!Older(e, i, j)}
  <1> SUFFICES EvictedRight(t, e, keep, r) OBVIOUS
  <1>1. \/ r = [table |-> t, ent |-> e, gone |-> {}]
        \/ r = [table |-> Cache!Drop(t, gone), ent |-> Cache!Mark(e, passed), gone |-> gone]
    BY DEF Cache!EvictOldest
  <1>2. e \in [DOMAIN e -> Entry] /\ Cache!Cached(t) \subseteq DOMAIN e
    BY CachedIs DEF EvictArgs
  <1>3. gone \subseteq idle /\ passed \subseteq Cache!Cached(t) \ (idle \cup keep)
    <2> HIDE DEF idle, excess
    <2> QED OBVIOUS
  <1>4. /\ idle \subseteq Cache!Cached(t)
        /\ \A i \in idle : i \notin keep /\ ~ Cache!Held(e, i)
        /\ \A i \in Cache!Cached(t) \ (idle \cup keep) : Cache!Held(e, i)
    OBVIOUS
  <1> HIDE DEF r, excess, idle, gone, passed
  <1>5. CASE r = [table |-> t, ent |-> e, gone |-> {}]
    <2>1. r.table = t /\ r.ent = e /\ r.gone = {} BY <1>5
    <2>2. Cache!Drop(t, {}) = t BY DEF Cache!Drop, EvictArgs
    <2>3. SameBut(e, e) BY <1>2 DEF SameBut
    <2> QED BY <2>1, <2>2, <2>3 DEF EvictedRight
  <1>6. CASE r = [table |-> Cache!Drop(t, gone), ent |-> Cache!Mark(e, passed), gone |-> gone]
    <2>1. r.table = Cache!Drop(t, gone) /\ r.ent = Cache!Mark(e, passed) /\ r.gone = gone
      BY <1>6
    <2>2. /\ SameBut(e, r.ent)
          /\ \A i \in DOMAIN e : r.ent[i].pending = (i \in passed \/ e[i].pending)
      BY <1>2, <2>1, MarkSays
    <2>3. \A i \in Cache!Cached(t) : r.ent[i].pending => i \in keep \/ Cache!Held(e, i)
      BY <1>2, <1>3, <1>4, <2>2
    <2> QED BY <1>3, <1>4, <2>1, <2>2, <2>3 DEF EvictedRight
  <1> QED BY <1>1, <1>5, <1>6

LEMMA HeldSame ==
  ASSUME NEW e, NEW f, SameBut(e, f), NEW i \in DOMAIN e
  PROVE  Cache!Held(f, i) <=> Cache!Held(e, i)
  BY DEF SameBut, Cache!Held

LEMMA ArgsSame ==
  ASSUME NEW t, NEW e, NEW keep, NEW r, EvictArgs(t, e), EvictedRight(t, e, keep, r)
  PROVE  /\ EvictArgs(r.table, r.ent)
         /\ Cache!Cached(r.table) = Cache!Cached(t) \ r.gone
         /\ \A i \in Cache!Cached(r.table) :
              r.ent[i].pending => i \in keep \/ Cache!Held(r.ent, i)
  <1>1. r.gone \subseteq DOMAIN e /\ None \notin r.gone /\ Cache!Cached(t) \subseteq DOMAIN e
    BY CachedIs DEF EvictedRight
  <1>2. Cache!Cached(r.table) = Cache!Cached(t) \ r.gone /\ EvictArgs(r.table, e)
    BY <1>1, DropLeaves DEF EvictedRight
  <1>3. EvictArgs(r.table, r.ent) BY <1>2 DEF EvictedRight, EvictArgs, SameBut
  <1>4. ASSUME NEW i \in Cache!Cached(r.table), r.ent[i].pending
        PROVE  i \in keep \/ Cache!Held(r.ent, i)
    BY <1>1, <1>2, <1>4, HeldSame DEF EvictedRight
  <1> QED BY <1>2, <1>3, <1>4

LEMMA EvictTakes ==
  ASSUME NEW t, NEW e, EvictArgs(t, e), NEW keep
  PROVE  EvictedRight(t, e, keep, Cache!Evict(t, e, keep))
  <1> DEFINE r1 == Cache!EvictDue(t, e, keep)
             r2 == Cache!EvictOldest(r1.table, r1.ent, keep)
             r == Cache!Evict(t, e, keep)
  <1>1. r.table = r2.table /\ r.ent = r2.ent /\ r.gone = r1.gone \cup r2.gone
    BY DEF Cache!Evict
  <1>2. EvictedRight(t, e, keep, r1) BY DueTakes
  <1> HIDE DEF r1
  <1>3. /\ EvictArgs(r1.table, r1.ent)
        /\ Cache!Cached(r1.table) = Cache!Cached(t) \ r1.gone
        /\ \A i \in Cache!Cached(r1.table) :
             r1.ent[i].pending => i \in keep \/ Cache!Held(r1.ent, i)
    BY <1>2, ArgsSame
  <1>4. EvictedRight(r1.table, r1.ent, keep, r2) BY <1>3, OldestTakes
  <1>5. SUFFICES EvictedRight(t, e, keep, r) OBVIOUS
  <1> HIDE DEF r2, r
  <1>6. Cache!Cached(t) \subseteq DOMAIN e BY CachedIs
  <1>7. \A i \in DOMAIN e : Cache!Held(r1.ent, i) <=> Cache!Held(e, i)
    BY <1>2, HeldSame DEF EvictedRight
  <1>8. r.table = Cache!Drop(t, r.gone)
    <2>1. r2.table = Cache!Drop(Cache!Drop(t, r1.gone), r2.gone)
      BY <1>2, <1>4 DEF EvictedRight
    <2>2. None \notin r1.gone /\ None \notin r2.gone
      BY <1>2, <1>3, <1>4, CachedIs DEF EvictedRight
    <2>3. Cache!Drop(Cache!Drop(t, r1.gone), r2.gone) = Cache!Drop(t, r1.gone \cup r2.gone)
      BY <2>2 DEF Cache!Drop
    <2> QED BY <1>1, <2>1, <2>3
  <1>9. SameBut(e, r.ent) BY <1>1, <1>2, <1>4 DEF EvictedRight, SameBut
  <1>10. r.gone \subseteq Cache!Cached(t) /\ \A i \in r.gone : i \notin keep /\ ~ Cache!Held(e, i)
    BY <1>1, <1>2, <1>3, <1>4, <1>6, <1>7 DEF EvictedRight
  <1>11. \A i \in Cache!Cached(t) \ r.gone : r.ent[i].pending => i \in keep \/ Cache!Held(e, i)
    BY <1>1, <1>3, <1>4, <1>6, <1>7 DEF EvictedRight
  <1> QED BY <1>8, <1>9, <1>10, <1>11 DEF EvictedRight

----------------------------------------------------------------------------
(* How much the eviction of what was least recently used leaves.             *)

\* Older is a strict order of all entries.
LEMMA OlderOrders ==
  ASSUME NEW e, e \in [DOMAIN e -> Entry], DOMAIN e \subseteq Nat
  PROVE  /\ \A i \in DOMAIN e : ~ Cache!Older(e, i, i)
         /\ \A i, j \in DOMAIN e : i # j => Cache!Older(e, i, j) \/ Cache!Older(e, j, i)
         /\ \A i, j, k \in DOMAIN e :
              Cache!Older(e, i, j) /\ Cache!Older(e, j, k) => Cache!Older(e, i, k)
  <1>1. \A i \in DOMAIN e : e[i].used \in Nat /\ i \in Nat BY DEF Entry
  <1> QED BY <1>1 DEF Cache!Older

\* So an older entry has a lower rank.
LEMMA RankGrows ==
  ASSUME NEW e, e \in [DOMAIN e -> Entry], DOMAIN e \subseteq Nat,
         NEW S \in SUBSET DOMAIN e, IsFiniteSet(S)
  PROVE  /\ \A i \in S : Cache!Rank(e, S, i) \in 0 .. Cardinality(S) - 1
         /\ \A i, j \in S : i # j => Cache!Rank(e, S, i) # Cache!Rank(e, S, j)
  <1> DEFINE below(i) == {j \in S : Cache!Older(e, j, i)}
  <1>1. \A i : Cache!Rank(e, S, i) = Cardinality(below(i)) BY SameCount DEF Cache!Rank
  <1>2. ASSUME NEW i \in S
        PROVE  /\ IsFiniteSet(below(i)) /\ Cardinality(below(i)) \in Nat
               /\ Cardinality(below(i)) < Cardinality(S)
    <2>1. below(i) \subseteq S /\ i \notin below(i) BY OlderOrders
    <2> HIDE DEF below
    <2>2. IsFiniteSet(below(i)) /\ Cardinality(below(i)) <= Cardinality(S)
          /\ Cardinality(below(i)) # Cardinality(S)
      BY <2>1, FS_Subset
    <2> QED BY <2>2, FS_CardinalityType
  <1>3. ASSUME NEW i \in S, NEW j \in S, Cache!Older(e, i, j)
        PROVE  Cardinality(below(i)) # Cardinality(below(j))
    <2>1. below(i) \subseteq below(j) BY <1>3, OlderOrders
    <2>2. i \in below(j) /\ i \notin below(i) BY <1>3, OlderOrders
    <2>3. IsFiniteSet(below(j)) BY <1>2
    <2> HIDE DEF below
    <2> QED BY <2>1, <2>2, <2>3, FS_Subset
  <1>4. Cardinality(S) \in Nat BY FS_CardinalityType
  <1>5. \A i, j \in S : i # j => Cache!Older(e, i, j) \/ Cache!Older(e, j, i) BY OlderOrders
  <1> HIDE DEF below
  <1> QED BY <1>1, <1>2, <1>3, <1>4, <1>5

\* Of a set, all but the given number of the oldest fit into what is left.
LEMMA OldestFit ==
  ASSUME NEW e, e \in [DOMAIN e -> Entry], DOMAIN e \subseteq Nat,
         NEW S \in SUBSET DOMAIN e, IsFiniteSet(S), NEW n \in Nat, n <= Cardinality(S)
  PROVE  Cardinality({i \in S : ~ (Cache!Rank(e, S, i) < n)}) <= Cardinality(S) - n
  <1> DEFINE rest == {i \in S : ~ (Cache!Rank(e, S, i) < n)}
             T == n .. Cardinality(S) - 1
             f == [i \in rest |-> Cache!Rank(e, S, i)]
  <1>1. Cardinality(S) \in Nat BY FS_CardinalityType
  <1>2. /\ \A i \in S : Cache!Rank(e, S, i) \in 0 .. Cardinality(S) - 1
        /\ \A i, j \in S : i # j => Cache!Rank(e, S, i) # Cache!Rank(e, S, j)
    BY RankGrows
  <1>3. \A i \in rest : Cache!Rank(e, S, i) \in T BY <1>1, <1>2
  <1>4. f \in [rest -> T] BY <1>3
  <1>5. \A i, j \in rest : f[i] = f[j] => i = j BY <1>2
  <1>6. f \in Injection(rest, T) BY <1>4, <1>5 DEF Injection, IsInjective
  <1>7. IsFiniteSet(T) /\ Cardinality(T) = Cardinality(S) - n BY <1>1, FS_Interval
  <1> HIDE DEF f, rest, T
  <1>8. Cardinality(rest) <= Cardinality(T) BY <1>6, <1>7, FS_Injection
  <1> QED BY <1>7, <1>8 DEF rest

LEMMA OldestFits ==
  ASSUME NEW t, NEW e, EvictArgs(t, e),
         \A i \in Cache!Cached(t) : e[i].pending => Cache!Held(e, i)
  PROVE  LET r == Cache!EvictOldest(t, e, {})
         IN  \/ Cardinality(Cache!Cached(r.table)) <= MaxSize
             \/ \E i \in Cache!Cached(r.table) : Cache!Held(e, i)
  <1> DEFINE r == Cache!EvictOldest(t, e, {})
             here == Cache!Cached(t)
             excess == Cardinality(here) - MaxSize
             idle == {i \in here : i \notin {} /\ ~ Cache!Held(e, i)}
             gone == {i \in idle : Cache!Rank(e, idle, i) < excess}
  <1> SUFFICES \/ Cardinality(Cache!Cached(r.table)) <= MaxSize
               \/ \E i \in Cache!Cached(r.table) : Cache!Held(e, i)
    OBVIOUS
  <1>1. /\ here \subseteq DOMAIN e /\ None \notin here
        /\ IsFiniteSet(here) /\ Cardinality(here) \in Nat /\ MaxSize \in Nat
    BY CachedIs, CacheAssumption
  <1>2. Cache!Cardinality(here) - MaxSize = excess BY SameCount
  <1>3. CASE excess <= 0 \/ \E i \in here : e[i].pending
    <2>1. r.table = t BY <1>2, <1>3 DEF Cache!EvictOldest
    <2>2. CASE excess <= 0
      <3> HIDE DEF r, here
      <3> QED BY <1>1, <2>1, <2>2 DEF here
    <2>3. CASE \E i \in here : e[i].pending
      <3> HIDE DEF r
      <3> QED BY <2>1, <2>3
    <2> QED BY <1>3, <2>2, <2>3
  <1>4. CASE ~ (excess <= 0 \/ \E i \in here : e[i].pending)
    <2>1. r.table = Cache!Drop(t, gone) BY <1>2, <1>4 DEF Cache!EvictOldest
    <2>2. gone \subseteq idle /\ idle \subseteq here
      <3> HIDE DEF here, excess
      <3> QED OBVIOUS
    <2>3. Cache!Cached(r.table) = here \ gone
      <3> HIDE DEF gone, idle, r
      <3> QED BY <1>1, <2>1, <2>2, DropLeaves DEF here
    <2>4. CASE idle # here
      <3>1. PICK i \in here : Cache!Held(e, i) BY <2>4
      <3>2. i \notin idle BY <3>1
      <3> HIDE DEF gone, idle, r, here
      <3> QED BY <2>2, <2>3, <3>1, <3>2
    <2>5. CASE idle = here
      <3>1. here \ gone = {i \in here : ~ (Cache!Rank(e, here, i) < excess)}
        <4> HIDE DEF idle, here, excess
        <4> QED BY <2>5
      <3>2. excess \in Nat /\ excess <= Cardinality(here)
            /\ Cardinality(here) - excess = MaxSize
        <4> HIDE DEF here
        <4> QED BY <1>1, <1>4 DEF excess
      <3>3. e \in [DOMAIN e -> Entry] /\ DOMAIN e \subseteq Nat BY DEF EvictArgs
      <3>4. here \in SUBSET DOMAIN e BY <1>1
      <3> HIDE DEF here, excess, idle, gone, r
      <3>5. Cardinality({i \in here : ~ (Cache!Rank(e, here, i) < excess)})
              <= Cardinality(here) - excess
        BY <1>1, <3>2, <3>3, <3>4, OldestFit
      <3> QED BY <2>3, <3>1, <3>2, <3>5
    <2> QED BY <2>4, <2>5
  <1> QED BY <1>3, <1>4

\* Without protection an eviction leaves a bounded table, or something in use.
LEMMA EvictFits ==
  ASSUME NEW t, NEW e, EvictArgs(t, e)
  PROVE  LET r == Cache!Evict(t, e, {})
         IN  \/ Cardinality(Cache!Cached(r.table)) <= MaxSize
             \/ \E i \in Cache!Cached(r.table) : Cache!Held(e, i)
  <1> DEFINE r1 == Cache!EvictDue(t, e, {})
             r2 == Cache!EvictOldest(r1.table, r1.ent, {})
             r == Cache!Evict(t, e, {})
  <1>1. r.table = r2.table BY DEF Cache!Evict
  <1>2. EvictedRight(t, e, {}, r1) BY DueTakes
  <1> HIDE DEF r1
  <1>3. /\ EvictArgs(r1.table, r1.ent)
        /\ Cache!Cached(r1.table) = Cache!Cached(t) \ r1.gone
        /\ \A i \in Cache!Cached(r1.table) : r1.ent[i].pending => Cache!Held(r1.ent, i)
    BY <1>2, ArgsSame
  <1>4. \/ Cardinality(Cache!Cached(r2.table)) <= MaxSize
        \/ \E i \in Cache!Cached(r2.table) : Cache!Held(r1.ent, i)
    BY <1>3, OldestFits
  <1>5. EvictedRight(r1.table, r1.ent, {}, r2) BY <1>3, OldestTakes
  <1>6. Cache!Cached(r2.table) \subseteq DOMAIN e
    <2> HIDE DEF r2
    <2>1. Cache!Cached(r2.table) \subseteq Cache!Cached(r1.table) BY <1>3, <1>5, ArgsSame
    <2> QED BY <1>3, <2>1, CachedIs
  <1> HIDE DEF r2, r
  <1>7. \A i \in Cache!Cached(r2.table) : Cache!Held(r1.ent, i) => Cache!Held(e, i)
    BY <1>2, <1>6, HeldSame DEF EvictedRight
  <1> QED BY <1>1, <1>4, <1>7 DEF r

----------------------------------------------------------------------------
(* The calls that hold an entry.                                             *)

Holders(m, i) == {b \in Calls : m[b] = i}

LEMMA HoldersFinite ==
  ASSUME NEW m, NEW i
  PROVE  /\ IsFiniteSet(Holders(m, i)) /\ Cardinality(Holders(m, i)) \in Nat
         /\ \A b \in Calls : m[b] = i => Cardinality(Holders(m, i)) > 0
  <1>1. Holders(m, i) \subseteq Calls BY DEF Holders
  <1>2. IsFiniteSet(Holders(m, i)) BY <1>1, FS_Subset, CacheAssumption
  <1>3. Cardinality(Holders(m, i)) \in Nat BY <1>2, FS_CardinalityType
  <1>4. ASSUME NEW b \in Calls, m[b] = i PROVE Cardinality(Holders(m, i)) > 0
    <2>1. Holders(m, i) # {} BY <1>4 DEF Holders
    <2> QED BY <1>2, <1>3, <2>1, FS_EmptySet
  <1> QED BY <1>2, <1>3, <1>4

LEMMA HoldersMove ==
  ASSUME NEW m, NEW n, NEW b \in Calls, NEW i, NEW j, i # j, m[b] = i, n[b] = j,
         \A c \in Calls : c # b => n[c] = m[c]
  PROVE  /\ Cardinality(Holders(n, j)) = Cardinality(Holders(m, j)) + 1
         /\ Cardinality(Holders(n, i)) = Cardinality(Holders(m, i)) - 1
         /\ \A k : k # j /\ k # i => Holders(n, k) = Holders(m, k)
  <1>2. Holders(n, j) = Holders(m, j) \cup {b} /\ b \notin Holders(m, j) BY DEF Holders
  <1>3. Holders(n, i) = Holders(m, i) \ {b} /\ b \in Holders(m, i) BY DEF Holders
  <1>4. \A k : k # j /\ k # i => Holders(n, k) = Holders(m, k) BY DEF Holders
  <1>5. Cardinality(Holders(n, j)) = Cardinality(Holders(m, j)) + 1
    BY <1>2, HoldersFinite, FS_AddElement
  <1>6. Cardinality(Holders(n, i)) = Cardinality(Holders(m, i)) - 1
    BY <1>3, HoldersFinite, FS_RemoveElement
  <1> QED BY <1>4, <1>5, <1>6

----------------------------------------------------------------------------
(* The steps of the cache.                                                   *)

\* What the invariant says of a state in these words.
LEMMA CacheFacts ==
  ASSUME CacheInv
  PROVE  /\ EvictArgs(table, ent) /\ None \notin DOMAIN ent
         /\ Cache!Cached(table) \subseteq DOMAIN ent
         /\ \A u \in Urls : table[u] # None => table[u] \in Cache!Cached(table)
         /\ \A i : Cache!Borrowed(i) = Holders(mine, i)
         /\ \A i \in Cache!Cached(table) :
              /\ ent[i].borrow \in Nat
              /\ ent[i].borrow >= Cardinality(Holders(mine, i))
              /\ i \notin leaked => ent[i].borrow = Cardinality(Holders(mine, i))
              /\ Cache!Held(ent, i) => ent[i].borrow > 0
  <1>1. EvictArgs(table, ent) BY DEF CacheInv, CacheTypes, EvictArgs
  <1>2. /\ None \notin DOMAIN ent /\ Cache!Cached(table) \subseteq DOMAIN ent
        /\ \A u \in Urls : table[u] # None => table[u] \in Cache!Cached(table)
    BY <1>1, CachedIs
  <1>3. \A i : Cache!Borrowed(i) = Holders(mine, i) BY DEF Cache!Borrowed, Holders
  <1>4. ASSUME NEW i \in Cache!Cached(table)
        PROVE  /\ ent[i].borrow \in Nat
               /\ ent[i].borrow >= Cardinality(Holders(mine, i))
               /\ i \notin leaked => ent[i].borrow = Cardinality(Holders(mine, i))
    <2>1. ent[i] \in Entry BY <1>1, <1>2 DEF EvictArgs
    <2> QED BY <1>3, <2>1 DEF Entry, CacheInv, CacheCounts
  <1>5. ASSUME NEW i \in Cache!Cached(table), Cache!Held(ent, i) PROVE ent[i].borrow > 0
    <2>1. CASE Cache!Busy(i)
      <3>1. PICK b \in Calls : mine[b] = i BY <2>1 DEF Cache!Busy
      <3>2. Cardinality(Holders(mine, i)) > 0 /\ Cardinality(Holders(mine, i)) \in Nat
        BY <3>1, HoldersFinite
      <3> QED BY <1>4, <3>2
    <2> QED BY <1>5, <2>1 DEF Cache!Held
  <1> QED BY <1>1, <1>2, <1>3, <1>4, <1>5

\* A locked section that ends in an eviction: what it evicts from has to be right.
LEMMA SectionKeeps ==
  ASSUME NEW t, NEW e, NEW keep, NEW r, EvictArgs(t, e), EvictedRight(t, e, keep, r),
         \A u \in Urls : t[u] # None => e[t[u]].url = u,
         \A i \in Cache!Cached(t) :
           /\ e[i].borrow >= Cardinality(Holders(mine', i))
           /\ i \notin leaked => e[i].borrow = Cardinality(Holders(mine', i))
           /\ Cache!Held(e, i) => e[i].borrow > 0
           /\ i \in keep => e[i].borrow > 0,
         ~ down => \A b \in Calls : mine'[b] # None => mine'[b] \in Cache!Cached(t),
         \/ Cardinality(Cache!Cached(r.table)) <= MaxSize
         \/ \E i \in Cache!Cached(r.table) : Cache!Held(e, i),
         table' = r.table, ent' = r.ent, leaked' = leaked, down' = down
  PROVE  /\ EvictArgs(table', ent') /\ DOMAIN ent' = DOMAIN e
         /\ \A u \in Urls : table'[u] # None => ent'[table'[u]].url = u
         /\ Cache!Cached(table') = Cache!Cached(t) \ r.gone
         /\ CacheCounts' /\ CacheBound'
  <1>1. /\ EvictArgs(r.table, r.ent) /\ Cache!Cached(r.table) = Cache!Cached(t) \ r.gone
        /\ Cache!Cached(t) \subseteq DOMAIN e /\ None \notin DOMAIN e
    BY ArgsSame, CachedIs
  <1>2. /\ DOMAIN r.ent = DOMAIN e /\ r.gone \subseteq Cache!Cached(t)
        /\ \A i \in DOMAIN e : r.ent[i].url = e[i].url /\ r.ent[i].borrow = e[i].borrow
        /\ r.table = Cache!Drop(t, r.gone)
    BY DEF EvictedRight, SameBut
  <1>3. \A u \in Urls : r.table[u] # None => r.ent[r.table[u]].url = u
    <2>0. None \notin r.gone BY <1>1, <1>2
    <2>1. \A u \in Urls : r.table[u] # None => r.table[u] = t[u]
      BY <1>2, <2>0, DropLeaves
    <2>2. \A u \in Urls : t[u] # None => t[u] \in DOMAIN e BY <1>1, CachedIs
    <2> QED BY <1>2, <2>1, <2>2
  <1>4. \A i : Cache!Borrowed(i)' = Holders(mine', i) BY DEF Cache!Borrowed, Holders
  <1>5. Cache!Cached(table)' = Cache!Cached(t) \ r.gone BY <1>1 DEF Cache!Cached
  <1>6. ASSUME NEW b \in Calls, ~ down, mine'[b] # None
        PROVE  mine'[b] \in Cache!Cached(t) \ r.gone
    <2> DEFINE i == mine'[b]
    <2>1. i \in Cache!Cached(t) BY <1>6
    <2>2. Cardinality(Holders(mine', i)) > 0 /\ Cardinality(Holders(mine', i)) \in Nat
      BY HoldersFinite
    <2>3. e[i].borrow \in Nat BY <1>1, <2>1 DEF EvictArgs, Entry
    <2> HIDE DEF i
    <2>4. e[i].borrow > 0 BY <2>1, <2>2, <2>3
    <2>5. i \notin r.gone BY <2>4 DEF EvictedRight, Cache!Held
    <2> QED BY <2>1, <2>5 DEF i
  <1>7. CacheCounts' BY <1>1, <1>2, <1>4, <1>5, <1>6 DEF CacheCounts
  <1>8. \A i \in Cache!Cached(t) \ r.gone : r.ent[i].pending => r.ent[i].borrow > 0
    BY <1>1, <1>2 DEF EvictedRight
  <1>9. CacheBound' BY <1>1, <1>2, <1>5, <1>8 DEF CacheBound
  <1> QED BY <1>1, <1>2, <1>3, <1>5, <1>7, <1>9

LEMMA ReturnKeeps ==
  ASSUME CacheInv, NEW b \in Calls, Cache!Return(b)
  PROVE  CacheInv'
  <1> DEFINE i == mine[b]
             k == [ent[i] EXCEPT !.borrow = @ - 1, !.used = clock, !.expires = Cache!Expiry]
             e1 == IF table[ent[i].url] # i THEN ent ELSE [ent EXCEPT ![i] = k]
             r == Cache!Evict(table, e1, {})
  <1>1. /\ borrower[b] = "leaving" /\ table' = r.table /\ ent' = r.ent
        /\ todo' = [todo EXCEPT ![b] = r.gone] /\ mine' = [mine EXCEPT ![b] = None]
        /\ borrower' = [borrower EXCEPT ![b] = "returning"]
        /\ UNCHANGED <<clock, open, leaked, orphans, down>>
    <2>2. [ent EXCEPT ![i].borrow = @ - 1, ![i].used = clock, ![i].expires = Cache!Expiry]
            = [ent EXCEPT ![i] = k]
      OBVIOUS
    <2> HIDE DEF k
    <2> QED BY <2>2 DEF Cache!Return
  <1> HIDE DEF r
  <1>2. CacheTypes /\ CacheOpen /\ CacheCounts BY DEF CacheInv
  <1>3. i \in DOMAIN ent /\ i # None /\ ent[i] \in Entry /\ ent \in [DOMAIN ent -> Entry]
    BY <1>1, <1>2, CacheFacts DEF CacheTypes, Holds
  <1>4. table[ent[i].url] = i <=> i \in Cache!Cached(table)
    <2>1. ent[i].url \in Urls BY <1>3 DEF Entry
    <2> HIDE DEF i
    <2> QED BY <1>2, <1>3, <2>1 DEF CacheTypes, Cache!Cached
  <1>5. i \in Cache!Cached(table) => ent[i].borrow - 1 \in Nat
    <2>1. Cardinality(Holders(mine, i)) > 0 /\ Cardinality(Holders(mine, i)) \in Nat
      BY HoldersFinite
    <2> HIDE DEF i
    <2> QED BY <2>1, CacheFacts
  <1>6. ASSUME i \in Cache!Cached(table)
        PROVE  k \in Entry /\ k.url = ent[i].url /\ k.borrow = ent[i].borrow - 1
    <2>1. Cache!Expiry \in Nat \cup {None} /\ clock \in Nat
      BY <1>2, CacheAssumption DEF CacheTypes, Cache!Expiry
    <2> QED BY <1>3, <1>5, <1>6, <2>1 DEF Entry
  <1>7. /\ e1 \in [DOMAIN ent -> Entry] /\ DOMAIN e1 = DOMAIN ent
        /\ \A j \in DOMAIN ent : e1[j].url = ent[j].url
        /\ \A j \in DOMAIN ent : j # i \/ j \notin Cache!Cached(table) => e1[j].borrow = ent[j].borrow
        /\ i \in Cache!Cached(table) => e1[i].borrow = ent[i].borrow - 1
    <2>1. CASE i \in Cache!Cached(table)
      <3>1. e1 = [ent EXCEPT ![i] = k] BY <1>4, <2>1
      <3> HIDE DEF e1, k, i
      <3> QED BY <1>3, <1>6, <2>1, <3>1
    <2>2. CASE i \notin Cache!Cached(table)
      <3>1. e1 = ent BY <1>4, <2>2
      <3> HIDE DEF e1, k, i
      <3> QED BY <1>3, <2>2, <3>1
    <2> QED BY <2>1, <2>2
  <1> HIDE DEF e1, k
  <1>8. EvictArgs(table, e1) BY <1>2, <1>7 DEF EvictArgs, CacheTypes
  <1>9. EvictedRight(table, e1, {}, r) BY <1>8, EvictTakes DEF r
  <1>10. /\ Cardinality(Holders(mine', i)) = Cardinality(Holders(mine, i)) - 1
         /\ \A j : j # None /\ j # i => Holders(mine', j) = Holders(mine, j)
    <2>1. mine \in [Calls -> DOMAIN ent \cup {None}] BY <1>2 DEF CacheTypes
    <2>2. /\ mine[b] = i /\ i # None /\ mine'[b] = None
          /\ \A c \in Calls : c # b => mine'[c] = mine[c]
      BY <1>1, <1>3, <2>1
    <2> HIDE DEF i
    <2> QED BY <2>2, HoldersMove
  <1> HIDE DEF i
  <1>11. ASSUME NEW j \in Cache!Cached(table)
         PROVE  /\ e1[j].borrow \in Nat
                /\ e1[j].borrow >= Cardinality(Holders(mine', j))
                /\ j \notin leaked => e1[j].borrow = Cardinality(Holders(mine', j))
                /\ Cache!Held(e1, j) => e1[j].borrow > 0
    <2>1. j \in DOMAIN ent /\ j # None BY CacheFacts
    <2>2. /\ ent[j].borrow \in Nat /\ ent[j].borrow >= Cardinality(Holders(mine, j))
          /\ j \notin leaked => ent[j].borrow = Cardinality(Holders(mine, j))
      BY CacheFacts
    <2>3. Cardinality(Holders(mine, j)) \in Nat /\ Cardinality(Holders(mine', j)) \in Nat
      BY HoldersFinite
    <2>4. /\ e1[j].borrow \in Nat
          /\ e1[j].borrow >= Cardinality(Holders(mine', j))
          /\ j \notin leaked => e1[j].borrow = Cardinality(Holders(mine', j))
      <3>1. CASE j = i BY <1>5, <1>7, <1>10, <2>2, <2>3, <3>1
      <3>2. CASE j # i BY <1>7, <1>10, <2>1, <2>2, <3>2
      <3> QED BY <3>1, <3>2
    <2>5. ASSUME Cache!Busy(j) PROVE e1[j].borrow > 0
      <3>1. PICK c \in Calls : mine[c] = j /\ borrower[c] = "active" BY <2>5 DEF Cache!Busy
      <3>2. mine'[c] = j BY <1>1, <1>2, <3>1 DEF CacheTypes
      <3>3. Cardinality(Holders(mine', j)) > 0 BY <3>2, HoldersFinite
      <3> QED BY <2>3, <2>4, <3>3
    <2> QED BY <2>4, <2>5 DEF Cache!Held
  <1>12. \A u \in Urls : table[u] # None => e1[table[u]].url = u
    BY <1>2, <1>7, CacheFacts DEF CacheTypes
  <1>13. ~ down => \A c \in Calls : mine'[c] # None => mine'[c] \in Cache!Cached(table)
    BY <1>1, <1>2 DEF CacheCounts, CacheTypes
  <1>14. \/ Cardinality(Cache!Cached(r.table)) <= MaxSize
         \/ \E j \in Cache!Cached(r.table) : Cache!Held(e1, j)
    BY <1>8, EvictFits DEF r
  <1>15. /\ EvictArgs(table', ent') /\ DOMAIN ent' = DOMAIN e1
         /\ \A u \in Urls : table'[u] # None => ent'[table'[u]].url = u
         /\ Cache!Cached(table') = Cache!Cached(table) \ r.gone
         /\ CacheCounts' /\ CacheBound'
    <2>1. \A j \in Cache!Cached(table) :
            /\ e1[j].borrow >= Cardinality(Holders(mine', j))
            /\ j \notin leaked => e1[j].borrow = Cardinality(Holders(mine', j))
            /\ Cache!Held(e1, j) => e1[j].borrow > 0
            /\ j \in {} => e1[j].borrow > 0
      BY <1>11
    <2>2. table' = r.table /\ ent' = r.ent /\ leaked' = leaked /\ down' = down BY <1>1
    <2> QED BY <1>8, <1>9, <1>12, <1>13, <1>14, <2>1, <2>2, SectionKeeps
  <1>16. r.gone \subseteq Cache!Cached(table) /\ r.gone \subseteq DOMAIN ent
    BY <1>9, CacheFacts DEF EvictedRight
  <1>17. Cache!Cached(table)' = Cache!Cached(table) \ r.gone BY <1>15 DEF Cache!Cached
  <1>18. CacheTypes'
    <2>1. ent' \in [DOMAIN ent' -> Entry] /\ table' \in [Urls -> DOMAIN ent' \cup {None}]
          /\ DOMAIN ent' = DOMAIN ent
      BY <1>7, <1>15 DEF EvictArgs
    <2>2. /\ mine' \in [Calls -> DOMAIN ent' \cup {None}]
          /\ borrower' \in [Calls -> Holds \cup {"idle", "returning", "done"}]
          /\ todo' \in [Closers -> SUBSET DOMAIN ent']
      BY <1>1, <1>2, <1>16, <2>1 DEF CacheTypes
    <2>3. \A c \in Calls : mine'[c] # None <=> borrower'[c] \in Holds
      BY <1>1, <1>2 DEF CacheTypes, Holds
    <2>4. \A c \in Calls : borrower'[c] \notin {"closing", "returning"} => todo'[c] = {}
      BY <1>1, <1>2 DEF CacheTypes, Closers
    <2>5. ~ down' => todo'[Cache!Shutdown] = {}
      BY <1>1, <1>2, CacheAssumption DEF CacheTypes, Closers
    <2> QED BY <1>1, <1>2, <1>15, <2>1, <2>2, <2>3, <2>4, <2>5 DEF CacheTypes
  <1>19. CacheOpen'
    <2>1. todo[b] = {} BY <1>1, <1>2 DEF CacheTypes
    <2>2. \A x : x \in Closers => todo'[x] = IF x = b THEN r.gone ELSE todo[x]
      BY <1>1, <1>2 DEF CacheTypes
    <2>3. b \in Closers BY DEF Closers
    <2>4. \A j : Waiting(j)' <=> Waiting(j) \/ j \in r.gone
      BY <2>1, <2>2, <2>3 DEF Waiting
    <2> QED BY <1>1, <1>2, <1>17, <2>4 DEF CacheOpen
  <1> QED BY <1>15, <1>18, <1>19 DEF CacheInv

LEMMA BorrowKeeps ==
  ASSUME CacheInv, NEW b \in Calls, NEW u \in Urls, Cache!Borrow(b, u)
  PROVE  CacheInv'
  <1> DEFINE i0 == table[u]
             old == IF i0 # None /\ Cache!Expired(ent, i0) /\ ~ Cache!Held(ent, i0)
                    THEN {i0} ELSE {}
             t0 == Cache!Drop(table, old)
             keep == {i0} \ old
             r1 == Cache!Evict(t0, ent, keep)
             fresh == Cache!Cardinality(DOMAIN ent) + 1
             i == IF i0 = None \/ old # {} THEN fresh ELSE i0
             n == IF i \in DOMAIN ent THEN r1.ent[i].borrow ELSE 0
             k == [url |-> u, used |-> clock, expires |-> Cache!Expiry,
                   borrow |-> n + 1, pending |-> FALSE]
             e2 == [j \in DOMAIN ent \cup {i} |-> IF j = i THEN k ELSE r1.ent[j]]
             t2 == [r1.table EXCEPT ![u] = i]
             r2 == Cache!Evict(t2, e2, {i})
  <1>1. /\ borrower[b] = "idle" /\ table' = r2.table /\ ent' = r2.ent
        /\ open' = open \cup ({i} \ DOMAIN ent)
        /\ mine' = [mine EXCEPT ![b] = i]
        /\ todo' = [todo EXCEPT ![b] = (old \cup r1.gone) \cup r2.gone]
        /\ borrower' = [borrower EXCEPT ![b] = "closing"]
        /\ UNCHANGED <<clock, leaked, orphans, down>>
    BY DEF Cache!Borrow
  <1>2. CacheTypes /\ CacheOpen /\ CacheCounts /\ CacheBound BY DEF CacheInv
  <1>3. /\ EvictArgs(table, ent) /\ None \notin DOMAIN ent
        /\ Cache!Cached(table) \subseteq DOMAIN ent
        /\ i0 # None => i0 \in Cache!Cached(table)
    BY CacheFacts
  <1>4. /\ old \subseteq Cache!Cached(table) /\ \A j \in old : ~ Cache!Held(ent, j)
        /\ None \notin old /\ old \in {{}, {i0}}
    <2> HIDE DEF i0
    <2> QED BY <1>3
  <1>5. /\ i0 = None \/ old # {} => i = fresh
        /\ i0 # None /\ old = {} => i = i0 /\ keep = {i0}
    <2> HIDE DEF i0, old, fresh
    <2> QED OBVIOUS
  <1>6. keep \subseteq {i0} /\ keep \cap old = {} OBVIOUS
  <1>7. /\ EvictArgs(t0, ent) /\ Cache!Cached(t0) = Cache!Cached(table) \ old
        /\ \A v \in Urls : t0[v] = IF table[v] \in old THEN None ELSE table[v]
    <2> HIDE DEF old
    <2> QED BY <1>3, <1>4, DropLeaves
  <1> HIDE DEF t0
  <1>8. EvictedRight(t0, ent, keep, r1)
    <2> HIDE DEF keep
    <2> QED BY <1>7, EvictTakes
  <1>9. /\ DOMAIN ent \cup {fresh} = 1 .. fresh /\ fresh \in Nat /\ fresh \notin DOMAIN ent
    <2>1. PICK m \in Nat : DOMAIN ent = 1 .. m BY <1>3 DEF EvictArgs
    <2>2. Cache!Cardinality(DOMAIN ent) = m BY <2>1, SameCount, FS_Interval
    <2>3. fresh = m + 1 BY <2>2
    <2> HIDE DEF fresh
    <2> QED BY <2>1, <2>3
  <1> HIDE DEF fresh
  <1>10. i \in DOMAIN ent <=> i0 # None /\ old = {}
    <2> HIDE DEF i0, old, i
    <2> QED BY <1>3, <1>5, <1>9
  <1>11. /\ SameBut(ent, r1.ent) /\ r1.gone \subseteq Cache!Cached(t0)
         /\ \A j \in r1.gone : j \notin keep /\ ~ Cache!Held(ent, j)
         /\ EvictArgs(r1.table, r1.ent)
         /\ Cache!Cached(r1.table) = (Cache!Cached(table) \ old) \ r1.gone
         /\ \A v \in Urls : r1.table[v] = IF table[v] \in old \cup r1.gone THEN None ELSE table[v]
    <2> HIDE DEF r1, keep, old
    <2>1. EvictArgs(r1.table, r1.ent) /\ Cache!Cached(r1.table) = Cache!Cached(t0) \ r1.gone
      BY <1>7, <1>8, ArgsSame
    <2>2. None \notin r1.gone BY <1>3, <1>7, <1>8 DEF EvictedRight
    <2>3. r1.table = Cache!Drop(t0, r1.gone) BY <1>8 DEF EvictedRight
    <2>4. \A v \in Urls : r1.table[v] = IF t0[v] \in r1.gone THEN None ELSE t0[v]
      BY <1>7, <2>2, <2>3, DropLeaves
    <2>5. \A v \in Urls : r1.table[v] = IF table[v] \in old \cup r1.gone THEN None ELSE table[v]
      BY <1>4, <1>7, <2>2, <2>4
    <2> QED BY <1>7, <1>8, <2>1, <2>5 DEF EvictedRight
  <1>12. /\ DOMAIN r1.ent = DOMAIN ent /\ r1.ent \in [DOMAIN ent -> Entry]
         /\ \A j \in DOMAIN ent : r1.ent[j].url = ent[j].url /\ r1.ent[j].borrow = ent[j].borrow
    BY <1>11 DEF SameBut
  <1>13. r1.table \in [Urls -> DOMAIN ent \cup {None}] BY <1>11, <1>12 DEF EvictArgs
  <1> HIDE DEF r1
  <1>14. /\ n \in Nat
         /\ i \in DOMAIN ent => n = ent[i].borrow
         /\ i \notin DOMAIN ent => n = 0
    <2> HIDE DEF i
    <2>1. ASSUME i \in DOMAIN ent PROVE r1.ent[i].borrow \in Nat BY <1>12, <2>1 DEF Entry
    <2> QED BY <1>12, <2>1
  <1> HIDE DEF n
  <1>15. k \in Entry /\ k.url = u /\ k.borrow = n + 1 /\ k.pending = FALSE
    <2>1. Cache!Expiry \in Nat \cup {None} /\ clock \in Nat
      BY <1>2, CacheAssumption DEF CacheTypes, Cache!Expiry
    <2> QED BY <1>14, <2>1 DEF Entry
  <1> HIDE DEF k
  <1>16. /\ e2 \in [DOMAIN ent \cup {i} -> Entry] /\ DOMAIN e2 = DOMAIN ent \cup {i}
         /\ e2[i] = k /\ \A j \in DOMAIN ent : j # i => e2[j] = r1.ent[j]
    <2> HIDE DEF i
    <2> QED BY <1>12, <1>15
  <1>17. \E m \in Nat : DOMAIN e2 = 1 .. m
    <2>1. i = fresh \/ i \in DOMAIN ent
      <3> HIDE DEF i, i0, old
      <3> QED BY <1>5, <1>10
    <2>2. CASE i = fresh
      <3> HIDE DEF i, e2
      <3> QED BY <1>9, <1>16, <2>2
    <2>3. CASE i \in DOMAIN ent
      <3>1. DOMAIN e2 = DOMAIN ent
        <4> HIDE DEF i, e2
        <4> QED BY <1>16, <2>3
      <3> HIDE DEF i, e2
      <3> QED BY <1>3, <3>1 DEF EvictArgs
    <2> QED BY <2>1, <2>2, <2>3
  <1>18. /\ t2 \in [Urls -> DOMAIN e2 \cup {None}] /\ t2[u] = i
         /\ \A v \in Urls : v # u => t2[v] = r1.table[v]
    <2> HIDE DEF i, e2
    <2> QED BY <1>13, <1>16
  <1> HIDE DEF e2, t2
  <1>19. EvictArgs(t2, e2)
    <2> HIDE DEF i
    <2> QED BY <1>16, <1>17, <1>18 DEF EvictArgs
  <1>20. r1.table[u] \in {None, i}
    <2> HIDE DEF old, keep, i
    <2>1. CASE i0 = None BY <1>11, <2>1
    <2>2. CASE old # {} BY <1>4, <1>11, <2>2
    <2>3. CASE i0 # None /\ old = {} BY <1>5, <1>11, <2>3
    <2> QED BY <2>1, <2>2, <2>3
  <1>21. i # None BY <1>3, <1>9, CacheAssumption
  <1> HIDE DEF i, i0, old, keep
  <1>22. Cache!Cached(t2) = Cache!Cached(r1.table) \cup {i}
    BY <1>18, <1>20, <1>21 DEF Cache!Cached
  <1>23. EvictedRight(t2, e2, {i}, r2) BY <1>19, EvictTakes
  <1>24. \A v \in Urls : t2[v] # None => e2[t2[v]].url = v
    <2> SUFFICES ASSUME NEW v \in Urls, t2[v] # None PROVE e2[t2[v]].url = v OBVIOUS
    <2>1. CASE v = u BY <1>15, <1>16, <1>18, <2>1
    <2>2. CASE v # u
      <3>1. t2[v] = table[v] BY <1>11, <1>18, <2>2
      <3>2. table[v] \in DOMAIN ent /\ ent[table[v]].url = v BY <1>2, <3>1 DEF CacheTypes
      <3>3. table[v] # i
        <4>1. ASSUME i \in DOMAIN ent PROVE ent[i].url = u
          <5>1. i = table[u] /\ table[u] # None BY <1>5, <1>10, <4>1 DEF i0
          <5> QED BY <1>2, <5>1 DEF CacheTypes
        <4> QED BY <2>2, <3>2, <4>1
      <3> QED BY <1>12, <1>16, <3>1, <3>2, <3>3
    <2> QED BY <2>1, <2>2
  <1>25. /\ Cardinality(Holders(mine', i)) = Cardinality(Holders(mine, i)) + 1
         /\ \A j : j # None /\ j # i => Holders(mine', j) = Holders(mine, j)
    <2>1. /\ mine[b] = None /\ mine'[b] = i
          /\ \A c \in Calls : c # b => mine'[c] = mine[c]
      BY <1>1, <1>2 DEF CacheTypes, Holds
    <2>2. /\ Cardinality(Holders(mine', i)) = Cardinality(Holders(mine, i)) + 1
          /\ Cardinality(Holders(mine', None)) = Cardinality(Holders(mine, None)) - 1
          /\ \A j : j # i /\ j # None => Holders(mine', j) = Holders(mine, j)
      BY <1>21, <2>1, HoldersMove, SMTT(30)
    <2> QED BY <2>2
  <1>26. /\ e2[i].borrow > 0 /\ e2[i].borrow >= Cardinality(Holders(mine', i))
         /\ i \notin leaked => e2[i].borrow = Cardinality(Holders(mine', i))
    <2>1. Cardinality(Holders(mine, i)) \in Nat BY HoldersFinite
    <2>2. e2[i].borrow = n + 1 BY <1>15, <1>16
    <2>3. CASE i \in DOMAIN ent
      <3>1. i \in Cache!Cached(table) BY <1>3, <1>5, <1>10, <2>3
      <3>2. /\ ent[i].borrow >= Cardinality(Holders(mine, i))
            /\ i \notin leaked => ent[i].borrow = Cardinality(Holders(mine, i))
        BY <3>1, CacheFacts
      <3> QED BY <1>14, <1>25, <2>1, <2>2, <2>3, <3>2
    <2>4. CASE i \notin DOMAIN ent
      <3>1. Holders(mine, i) = {} BY <1>2, <1>21, <2>4 DEF Holders, CacheTypes
      <3>2. Cardinality(Holders(mine, i)) = 0 BY <3>1, FS_EmptySet
      <3> QED BY <1>14, <1>25, <2>2, <2>4, <3>2
    <2> QED BY <2>3, <2>4
  <1>27. ASSUME NEW j \in Cache!Cached(t2), j # i
         PROVE  /\ j \in Cache!Cached(table) /\ j \in DOMAIN ent /\ j # None
                /\ j \notin old /\ j \notin r1.gone /\ e2[j].borrow = ent[j].borrow
    BY <1>3, <1>11, <1>12, <1>16, <1>22, <1>27
  <1>28. \A j \in Cache!Cached(t2) :
           /\ e2[j].borrow >= Cardinality(Holders(mine', j))
           /\ j \notin leaked => e2[j].borrow = Cardinality(Holders(mine', j))
           /\ Cache!Held(e2, j) => e2[j].borrow > 0
           /\ j \in {i} => e2[j].borrow > 0
    <2> SUFFICES ASSUME NEW j \in Cache!Cached(t2)
                 PROVE  /\ e2[j].borrow >= Cardinality(Holders(mine', j))
                        /\ j \notin leaked => e2[j].borrow = Cardinality(Holders(mine', j))
                        /\ Cache!Held(e2, j) => e2[j].borrow > 0
                        /\ j \in {i} => e2[j].borrow > 0
      OBVIOUS
    <2>1. CASE j = i BY <1>26, <2>1
    <2>2. CASE j # i
      <3>1. /\ j \in Cache!Cached(table) /\ j # None /\ e2[j].borrow = ent[j].borrow
        BY <1>27, <2>2
      <3>2. Holders(mine', j) = Holders(mine, j) BY <1>25, <2>2, <3>1
      <3>3. Cache!Held(e2, j) => Cache!Held(ent, j) BY <3>1 DEF Cache!Held
      <3> QED BY <2>2, <3>1, <3>2, <3>3, CacheFacts
    <2> QED BY <2>1, <2>2
  <1>29. ~ down => \A c \in Calls : mine'[c] # None => mine'[c] \in Cache!Cached(t2)
    <2> SUFFICES ASSUME ~ down, NEW c \in Calls, mine'[c] # None
                 PROVE  mine'[c] \in Cache!Cached(t2)
      OBVIOUS
    <2>1. CASE c = b BY <1>1, <1>2, <1>22, <2>1 DEF CacheTypes
    <2>2. CASE c # b
      <3>1. mine'[c] = mine[c] BY <1>1, <1>2, <2>2 DEF CacheTypes
      <3>2. mine[c] \in Cache!Cached(table) BY <1>2, <3>1 DEF CacheCounts
      <3>3. Cardinality(Holders(mine, mine[c])) > 0 /\ Cardinality(Holders(mine, mine[c])) \in Nat
        BY HoldersFinite
      <3>4. ent[mine[c]].borrow > 0 BY <3>2, <3>3, CacheFacts
      <3>5. mine[c] \notin old /\ mine[c] \notin r1.gone
        BY <1>4, <1>11, <3>4 DEF Cache!Held
      <3> QED BY <1>11, <1>22, <3>1, <3>2, <3>5
    <2> QED BY <2>1, <2>2
  <1> HIDE DEF r2
  <1>30. i \notin r2.gone /\ r2.gone \subseteq Cache!Cached(t2)
         /\ Cache!Cached(r2.table) = Cache!Cached(t2) \ r2.gone
    BY <1>19, <1>23, ArgsSame DEF EvictedRight
  <1>31. \E j \in Cache!Cached(r2.table) : Cache!Held(e2, j)
    BY <1>22, <1>26, <1>30 DEF Cache!Held
  <1>32. /\ EvictArgs(table', ent') /\ DOMAIN ent' = DOMAIN e2
         /\ \A v \in Urls : table'[v] # None => ent'[table'[v]].url = v
         /\ Cache!Cached(table') = Cache!Cached(t2) \ r2.gone
         /\ CacheCounts' /\ CacheBound'
    <2>1. table' = r2.table /\ ent' = r2.ent /\ leaked' = leaked /\ down' = down BY <1>1
    <2> QED BY <1>19, <1>23, <1>24, <1>28, <1>29, <1>31, <2>1, SectionKeeps
  <1>33. Cache!Cached(table)' = Cache!Cached(t2) \ r2.gone BY <1>32 DEF Cache!Cached
  <1> DEFINE closing == (old \cup r1.gone) \cup r2.gone
  <1>34. closing \subseteq DOMAIN e2
    BY <1>3, <1>4, <1>7, <1>11, <1>16, <1>19, <1>30, CachedIs
  <1>35. /\ ent' \in [DOMAIN ent' -> Entry] /\ table' \in [Urls -> DOMAIN ent' \cup {None}]
         /\ DOMAIN ent \subseteq DOMAIN ent' /\ i \in DOMAIN ent' /\ closing \subseteq DOMAIN ent'
         /\ \E m \in Nat : DOMAIN ent' = 1 .. m
    <2> HIDE DEF closing
    <2> QED BY <1>16, <1>32, <1>34 DEF EvictArgs
  <1>36. todo' = [todo EXCEPT ![b] = closing] BY <1>1
  <1>37. \A j \in closing : j \notin Cache!Cached(table)'
    <2>1. \A j \in old \cup r1.gone : j \in Cache!Cached(table) /\ j # i
      BY <1>3, <1>4, <1>5, <1>7, <1>10, <1>11
    <2>2. \A j \in old \cup r1.gone : j \notin Cache!Cached(t2) BY <1>11, <1>22, <2>1
    <2> QED BY <1>33, <2>2
  <1>38. \A j \in Cache!Cached(table) : j \in Cache!Cached(table)' \/ j \in closing
    BY <1>11, <1>22, <1>33
  <1>39. i \in Cache!Cached(table)' BY <1>22, <1>30, <1>33
  <1>40. \A j \in Cache!Cached(table)' : j \in Cache!Cached(table) \/ (j = i /\ i \notin DOMAIN ent)
    BY <1>3, <1>5, <1>10, <1>27, <1>33
  <1> HIDE DEF closing
  <1>41. CacheTypes'
    <2>1. /\ mine' \in [Calls -> DOMAIN ent' \cup {None}]
          /\ borrower' \in [Calls -> Holds \cup {"idle", "returning", "done"}]
      BY <1>1, <1>2, <1>35 DEF CacheTypes, Holds
    <2>2. todo' \in [Closers -> SUBSET DOMAIN ent']
      <3>1. todo \in [Closers -> SUBSET DOMAIN ent'] BY <1>2, <1>35 DEF CacheTypes
      <3> QED BY <1>35, <1>36, <3>1
    <2>3. \A c \in Calls : mine'[c] # None <=> borrower'[c] \in Holds
      BY <1>1, <1>2, <1>21 DEF CacheTypes, Holds
    <2>4. \A c \in Calls : borrower'[c] \notin {"closing", "returning"} => todo'[c] = {}
      BY <1>1, <1>2, <1>36 DEF CacheTypes, Closers
    <2>5. ~ down' => todo'[Cache!Shutdown] = {}
      BY <1>1, <1>2, <1>36, CacheAssumption DEF CacheTypes, Closers
    <2>6. open' \subseteq DOMAIN ent' BY <1>1, <1>2, <1>35 DEF CacheTypes
    <2>7. clock' \in 0..MaxTime /\ down' \in BOOLEAN BY <1>1, <1>2 DEF CacheTypes
    <2> QED BY <1>32, <1>35, <2>1, <2>2, <2>3, <2>4, <2>5, <2>6, <2>7 DEF CacheTypes
  <1>42. CacheOpen'
    <2>1. todo[b] = {} /\ b \in Closers BY <1>1, <1>2 DEF CacheTypes, Closers
    <2>2. \A x \in Closers : todo'[x] = IF x = b THEN closing ELSE todo[x]
      BY <1>2, <1>36 DEF CacheTypes
    <2>3. \A j : Waiting(j)' <=> Waiting(j) \/ j \in closing
      BY <2>1, <2>2 DEF Waiting
    <2>4. \A j : Waiting(j) => j \in DOMAIN ent BY <1>2 DEF Waiting, CacheTypes
    <2>5. \A j \in Cache!Cached(table)' : j \in open' /\ ~ Waiting(j)'
      BY <1>1, <1>2, <1>37, <1>40, <2>3, <2>4 DEF CacheOpen
    <2>6. \A j \in open' : j \in Cache!Cached(table)' \/ j \in orphans' \/ Waiting(j)'
      BY <1>1, <1>2, <1>38, <1>39, <2>3 DEF CacheOpen
    <2> QED BY <2>5, <2>6 DEF CacheOpen
  <1> QED BY <1>32, <1>41, <1>42 DEF CacheInv

LEMMA CacheInitially == Cache!Init => CacheInv
  <1> SUFFICES ASSUME Cache!Init PROVE CacheInv OBVIOUS
  <1>1. /\ clock = 0 /\ down = FALSE /\ open = {} /\ DOMAIN ent = {}
        /\ \A u \in Urls : table[u] = None
        /\ table \in [Urls -> {None}] /\ mine \in [Calls -> {None}]
        /\ borrower \in [Calls -> {"idle"}] /\ todo \in [Closers -> {{}}]
        /\ ent \in [DOMAIN ent -> Entry]
    BY DEF Cache!Init, Closers, Cache!Shutdown
  <1>2. Cache!Cached(table) = {} BY <1>1 DEF Cache!Cached
  <1>3. \E n \in Nat : DOMAIN ent = 1 .. n
    <2>1. 1 .. 0 = {} /\ 0 \in Nat OBVIOUS
    <2> QED BY <1>1, <2>1
  <1>4. CacheTypes
    <2>1. /\ table \in [Urls -> DOMAIN ent \cup {None}] /\ mine \in [Calls -> DOMAIN ent \cup {None}]
          /\ todo \in [Closers -> SUBSET DOMAIN ent] /\ open \subseteq DOMAIN ent
      BY <1>1
    <2>2. /\ borrower \in [Calls -> Holds \cup {"idle", "returning", "done"}]
          /\ \A b \in Calls : mine[b] # None <=> borrower[b] \in Holds
      BY <1>1 DEF Holds
    <2>3. /\ \A b \in Calls : todo[b] = {}
          /\ todo[Cache!Shutdown] = {}
      BY <1>1 DEF Closers
    <2>4. clock \in 0..MaxTime /\ down \in BOOLEAN
      <3>1. MaxTime \in Nat BY CacheAssumption
      <3>2. clock \in 0..MaxTime BY <1>1, <3>1
      <3> QED BY <1>1, <3>2
    <2>5. \A u \in Urls : table[u] # None => ent[table[u]].url = u BY <1>1
    <2> QED BY <1>1, <1>3, <2>1, <2>2, <2>3, <2>4, <2>5 DEF CacheTypes
  <1>5. CacheOpen /\ CacheCounts BY <1>1, <1>2 DEF CacheOpen, CacheCounts
  <1>6. CacheBound BY <1>2, FS_EmptySet, CacheAssumption DEF CacheBound
  <1> QED BY <1>4, <1>5, <1>6 DEF CacheInv

\* A step that moves one call and leaves the table and what is held alone.
LEMMA MoveKeeps ==
  ASSUME CacheInv, NEW b \in Calls, NEW p \in Holds \cup {"idle", "returning", "done"},
         borrower' = [borrower EXCEPT ![b] = p], borrower[b] \in Holds <=> p \in Holds,
         p \notin {"closing", "returning"} => todo[b] = {},
         UNCHANGED <<clock, table, ent, open, mine, todo, leaked, orphans, down>>
  PROVE  CacheInv'
  <1>1. CacheTypes' BY DEF CacheInv, CacheTypes
  <1>2. Cache!Cached(table)' = Cache!Cached(table) BY DEF Cache!Cached
  <1>3. \A i : (Waiting(i)' <=> Waiting(i)) /\ Cache!Borrowed(i)' = Cache!Borrowed(i)
    BY DEF Waiting, Cache!Borrowed
  <1> QED BY <1>1, <1>2, <1>3 DEF CacheInv, CacheOpen, CacheCounts, CacheBound

\* A client is closed by whoever has to close it.
LEMMA CloseKeeps ==
  ASSUME CacheInv, NEW x \in Closers, NEW i \in todo[x],
         open' = open \ {i}, todo' = [todo EXCEPT ![x] = @ \ {i}],
         UNCHANGED <<clock, table, ent, borrower, mine, leaked, orphans, down>>
  PROVE  CacheInv'
  <1>1. CacheTypes /\ CacheOpen BY DEF CacheInv
  <1>2. /\ \A y \in Closers : todo'[y] = IF y = x THEN todo[x] \ {i} ELSE todo[y]
        /\ todo' \in [Closers -> SUBSET DOMAIN ent]
    BY <1>1 DEF CacheTypes
  <1>3. CacheTypes' BY <1>1, <1>2 DEF CacheTypes, Closers
  <1>4. Cache!Cached(table)' = Cache!Cached(table) /\ \A j : Cache!Borrowed(j)' = Cache!Borrowed(j)
    BY DEF Cache!Cached, Cache!Borrowed
  <1>5. /\ \A j : Waiting(j)' => Waiting(j)
        /\ \A j : Waiting(j) /\ j # i => Waiting(j)'
        /\ Waiting(i)
    BY <1>2 DEF Waiting
  <1>6. CacheOpen' BY <1>1, <1>4, <1>5 DEF CacheOpen
  <1> QED BY <1>3, <1>4, <1>6 DEF CacheInv, CacheCounts, CacheBound

LEMMA InterruptKeeps ==
  ASSUME CacheInv, NEW b \in Calls, Cache!Interrupt(b)
  PROVE  CacheInv'
  <1>1. CacheTypes /\ CacheOpen /\ CacheCounts BY DEF CacheInv
  <1>2. /\ orphans' = orphans \cup todo[b] /\ todo' = [todo EXCEPT ![b] = {}]
        /\ UNCHANGED <<clock, table, ent, open, down>>
    BY DEF Cache!Interrupt
  <1>3. \/ /\ borrower[b] = "closing" /\ borrower' = [borrower EXCEPT ![b] = "done"]
           /\ leaked' = leaked \cup {mine[b]} /\ mine' = [mine EXCEPT ![b] = None]
        \/ /\ borrower[b] \in {"using", "active"} /\ borrower' = [borrower EXCEPT ![b] = "leaving"]
           /\ UNCHANGED <<mine, leaked>>
        \/ /\ borrower[b] = "returning" /\ borrower' = [borrower EXCEPT ![b] = "done"]
           /\ UNCHANGED <<mine, leaked>>
    BY DEF Cache!Interrupt
  <1>4. /\ mine' \in [Calls -> DOMAIN ent \cup {None}]
        /\ borrower' \in [Calls -> Holds \cup {"idle", "returning", "done"}]
        /\ \A c \in Calls : mine'[c] # None <=> borrower'[c] \in Holds
        /\ \A c \in Calls : mine'[c] \in {mine[c], None}
    BY <1>1, <1>3, SMTT(60) DEF CacheTypes, Holds
  <1>5. /\ \A y \in Closers : todo'[y] = IF y = b THEN {} ELSE todo[y]
        /\ todo' \in [Closers -> SUBSET DOMAIN ent] /\ b \in Closers
    BY <1>1, <1>2 DEF CacheTypes, Closers
  <1>6. \A c \in Calls : borrower'[c] \notin {"closing", "returning"} => todo'[c] = {}
    BY <1>1, <1>3, <1>5 DEF CacheTypes, Closers
  <1>7. ~ down' => todo'[Cache!Shutdown] = {}
    BY <1>1, <1>2, <1>5, CacheAssumption DEF CacheTypes, Closers
  <1>8. CacheTypes' BY <1>1, <1>2, <1>4, <1>5, <1>6, <1>7 DEF CacheTypes
  <1>9. Cache!Cached(table)' = Cache!Cached(table) BY <1>2 DEF Cache!Cached
  <1>10. /\ \A j : Waiting(j)' => Waiting(j)
         /\ \A j : Waiting(j) => Waiting(j)' \/ j \in orphans'
    BY <1>2, <1>5 DEF Waiting
  <1>11. CacheOpen' BY <1>1, <1>2, <1>9, <1>10 DEF CacheOpen
  <1>12. \A j : Cache!Borrowed(j)' = Holders(mine', j) /\ Cache!Borrowed(j) = Holders(mine, j)
    BY DEF Cache!Borrowed, Holders
  <1>13. ASSUME NEW j \in Cache!Cached(table)
         PROVE  /\ ent[j].borrow >= Cardinality(Holders(mine', j))
                /\ j \notin leaked' => ent[j].borrow = Cardinality(Holders(mine', j))
    <2>1. /\ ent[j].borrow \in Nat /\ ent[j].borrow >= Cardinality(Holders(mine, j))
          /\ j \notin leaked => ent[j].borrow = Cardinality(Holders(mine, j))
          /\ j # None
      BY CacheFacts
    <2>2. CASE UNCHANGED <<mine, leaked>> BY <2>1, <2>2
    <2>3. CASE leaked' = leaked \cup {mine[b]} /\ mine' = [mine EXCEPT ![b] = None]
      <3>1. Holders(mine', j) = Holders(mine, j) \ {b}
        BY <1>1, <2>1, <2>3 DEF Holders, CacheTypes
      <3>2. /\ Cardinality(Holders(mine', j)) <= Cardinality(Holders(mine, j))
            /\ Cardinality(Holders(mine', j)) \in Nat /\ Cardinality(Holders(mine, j)) \in Nat
        BY <3>1, HoldersFinite, FS_RemoveElement
      <3>3. j # mine[b] => Holders(mine', j) = Holders(mine, j) BY <3>1 DEF Holders
      <3> QED BY <2>1, <2>3, <3>2, <3>3
    <2> QED BY <1>3, <2>2, <2>3
  <1>14. CacheCounts' BY <1>1, <1>2, <1>4, <1>9, <1>12, <1>13 DEF CacheCounts
  <1>15. CacheBound' BY <1>2, <1>9 DEF CacheInv, CacheBound
  <1> QED BY <1>8, <1>11, <1>14, <1>15 DEF CacheInv

LEMMA CloseAllKeeps == CacheInv /\ Cache!CloseAll => CacheInv'
  <1> SUFFICES ASSUME CacheInv, Cache!CloseAll PROVE CacheInv' OBVIOUS
  <1>1. /\ CacheTypes /\ CacheOpen /\ ~ down /\ down' = TRUE
        /\ todo' = [todo EXCEPT ![Cache!Shutdown] = Cache!Cached(table)]
        /\ table' = [u \in Urls |-> None]
        /\ UNCHANGED <<clock, ent, open, borrower, mine, leaked, orphans>>
    BY DEF CacheInv, Cache!CloseAll
  <1>2. Cache!Cached(table) \subseteq DOMAIN ent /\ Cache!Shutdown \in Closers
    BY CacheFacts DEF Closers
  <1>3. Cache!Cached(table)' = {} BY <1>1 DEF Cache!Cached
  <1>4. /\ todo' \in [Closers -> SUBSET DOMAIN ent]
        /\ \A y \in Closers : todo'[y] = IF y = Cache!Shutdown THEN Cache!Cached(table) ELSE todo[y]
    BY <1>1, <1>2 DEF CacheTypes
  <1>5. \A c \in Calls : c \in Closers /\ todo'[c] = todo[c]
    BY <1>4, CacheAssumption DEF Closers
  <1>6. CacheTypes' BY <1>1, <1>4, <1>5 DEF CacheTypes
  <1>7. \A j : Waiting(j) \/ j \in Cache!Cached(table) => Waiting(j)'
    <2>1. todo[Cache!Shutdown] = {} BY <1>1 DEF CacheTypes
    <2> QED BY <1>2, <1>4, <2>1 DEF Waiting
  <1>8. CacheOpen' BY <1>1, <1>3, <1>7 DEF CacheOpen
  <1>9. CacheCounts' BY <1>1, <1>3 DEF CacheCounts
  <1>10. CacheBound' BY <1>3, FS_EmptySet, CacheAssumption DEF CacheBound
  <1> QED BY <1>6, <1>8, <1>9, <1>10 DEF CacheInv

LEMMA ClockKeeps ==
  ASSUME CacheInv, clock' \in 0..MaxTime,
         UNCHANGED <<table, ent, open, borrower, mine, todo, leaked, orphans, down>>
  PROVE  CacheInv'
  <1>1. CacheTypes' BY DEF CacheInv, CacheTypes
  <1>2. Cache!Cached(table)' = Cache!Cached(table) BY DEF Cache!Cached
  <1>3. \A i : (Waiting(i)' <=> Waiting(i)) /\ Cache!Borrowed(i)' = Cache!Borrowed(i)
    BY DEF Waiting, Cache!Borrowed
  <1> QED BY <1>1, <1>2, <1>3 DEF CacheInv, CacheOpen, CacheCounts, CacheBound

LEMMA CacheKept == CacheInv /\ [Cache!Next]_cache => CacheInv'
  <1> SUFFICES ASSUME CacheInv, [Cache!Next]_cache PROVE CacheInv' OBVIOUS
  <1>0. /\ clock \in 0..MaxTime
        /\ \A b \in Calls : /\ b \in Closers
                            /\ borrower[b] \notin {"closing", "returning"} => todo[b] = {}
    BY DEF CacheInv, CacheTypes, Closers
  <1>1. CASE UNCHANGED cache BY <1>0, <1>1, ClockKeeps DEF cache
  <1>2. ASSUME NEW b \in Calls, Cache!Refuse(b) PROVE CacheInv'
    BY <1>0, <1>2, MoveKeeps DEF Cache!Refuse, Holds
  <1>3. ASSUME NEW b \in Calls, Cache!CloseOne(b) PROVE CacheInv'
    BY <1>0, <1>3, CloseKeeps DEF Cache!CloseOne
  <1>4. ASSUME NEW b \in Calls, Cache!HandOut(b) PROVE CacheInv'
    BY <1>0, <1>4, MoveKeeps DEF Cache!HandOut, Holds
  <1>5. ASSUME NEW b \in Calls, Cache!Operate(b) PROVE CacheInv'
    BY <1>0, <1>5, MoveKeeps DEF Cache!Operate, Holds
  <1>6. ASSUME NEW b \in Calls, Cache!Operated(b) PROVE CacheInv'
    BY <1>0, <1>6, MoveKeeps DEF Cache!Operated, Holds
  <1>7. ASSUME NEW b \in Calls, Cache!Returned(b) PROVE CacheInv'
    BY <1>0, <1>7, MoveKeeps DEF Cache!Returned, Holds
  <1>8. CASE Cache!ShutdownClose
    <2>1. Cache!Shutdown \in Closers BY DEF Closers
    <2> QED BY <1>8, <2>1, CloseKeeps DEF Cache!ShutdownClose
  <1>9. CASE Cache!Tick
    <2>1. clock' \in 0..MaxTime BY <1>0, <1>9, CacheAssumption DEF Cache!Tick
    <2> QED BY <1>9, <2>1, ClockKeeps DEF Cache!Tick
  <1> QED BY <1>1, <1>2, <1>3, <1>4, <1>5, <1>6, <1>7, <1>8, <1>9,
            BorrowKeeps, ReturnKeeps, InterruptKeeps, CloseAllKeeps DEF Cache!Next

\* A client that a call holds is not closed, what left the cache is closed, and
\* a cache nobody uses is within its bound (client_manager.py).
THEOREM ClientsAreKept == OutboundSpec => []ClientsKept
  <1>1. OutboundInit => CacheInv BY CacheInitially DEF OutboundInit
  <1>2. CacheInv /\ [OutboundNext]_<<vars, upstream, cache>> => CacheInv'
    BY PartsOfStep, CacheKept
  <1>3. ASSUME CacheInv PROVE ClientsKept
    <2>1. CacheTypes /\ CacheOpen /\ CacheCounts /\ CacheBound BY <1>3 DEF CacheInv
    <2>2. Cache!Ids = DOMAIN ent
      <3>1. PICK n \in Nat : DOMAIN ent = 1 .. n BY <2>1 DEF CacheTypes
      <3> QED BY <3>1, SameCount, FS_Interval DEF Cache!Ids
    <2>3. /\ None \notin DOMAIN ent /\ Cache!Cached(table) \subseteq DOMAIN ent
      BY <1>3, CacheFacts
    <2>4. Cache!TypeOK
      BY <2>1, <2>2, <2>3, SameCount DEF CacheTypes, CacheCounts, Holds, Cache!TypeOK
    <2>5. Cache!NotClosedInUse BY <2>1 DEF CacheOpen, CacheCounts, Cache!NotClosedInUse
    <2>6. Cache!EvictedIsClosed
      BY <2>1 DEF CacheOpen, Waiting, Closers, Cache!EvictedIsClosed
    <2>7. Cache!SettledWithinBound
      <3> SUFFICES ASSUME \A b \in Calls : mine[b] = None, leaked = {}
                   PROVE  /\ Cardinality(Cache!Cached(table)) <= MaxSize
                          /\ \A i \in Cache!Cached(table) : ~ ent[i].pending
        BY SameCount DEF Cache!SettledWithinBound
      <3>1. ASSUME NEW i \in Cache!Cached(table) PROVE ent[i].borrow = 0
        <4>1. Cache!Borrowed(i) = {} BY <2>3 DEF Cache!Borrowed
        <4> QED BY <2>1, <4>1, FS_EmptySet DEF CacheCounts
      <3> QED BY <2>1, <3>1 DEF CacheBound
    <2> QED BY <2>4, <2>5, <2>6, <2>7 DEF ClientsKept
  <1> QED BY <1>1, <1>2, <1>3, PTL DEF OutboundSpec
============================================================================
