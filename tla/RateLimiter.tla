---------------------------- MODULE RateLimiter ----------------------------
(* The process-local sliding-window rate limiter of                          *)
(* server/runtime_limits.py.  A key's bucket holds the times of its admitted *)
(* requests, the table of buckets is a dict capped at MaxKeys.  A caller     *)
(* that is turned away asks for a Retry-After hint in a second step: the     *)
(* lock is released in between, and other callers and the clock move.        *)
EXTENDS Integers, Sequences, FiniteSets, SequencesExt

CONSTANTS
  Keys,          \* credentials, principals or peer addresses
  NoKey,         \* not a key
  Callers,       \* requests that may be in the limiter at the same time
  MaxRequests, Window, MaxKeys,   \* all at least 1
  MaxTime        \* bound on the clock

VARIABLES
  now,
  table,     \* the keys of the dict _entries, oldest insertion first
  bucket,    \* key -> the deque of admission times
  admitted,  \* key -> its admissions in the window, since it last lost its bucket
  everAdmitted,  \* the same, whatever happened to the bucket
  rejected,  \* caller -> the key it was just turned away for, or NoKey
  promised   \* key -> when the last hint says it is free again, 0 for no hint

vars == <<now, table, bucket, admitted, everAdmitted, rejected, promised>>

Init ==
  /\ now = 0 /\ table = <<>>
  /\ bucket = [k \in Keys |-> <<>>]
  /\ admitted = bucket /\ everAdmitted = bucket
  /\ rejected = [c \in Callers |-> NoKey]
  /\ promised = [k \in Keys |-> 0]

\* How many of the times in s, the oldest first, have left the window at t.
Expired(s, t) ==
  CHOOSE n \in 0..Len(s) : /\ \A i \in 1..n : t - s[i] >= Window
                           /\ n < Len(s) => t - s[n+1] < Window

StillIn(s, t) == SubSeq(s, Expired(s, t) + 1, Len(s))

\* Defect: a request leaves the window one tick too late
PruneLate(entries) == StillIn(entries, now - 1)

Prune(entries) == StillIn(entries, now)

\* setdefault: a new key goes to the end of the dict.
WithKey(k) == IF Contains(table, k) THEN table ELSE Append(table, k)

\* Defect: the request is counted before the limit is looked at
AdmitsOneMore(k) == Len(Prune(bucket[k])) <= MaxRequests

Admits(k) == Len(Prune(bucket[k])) < MaxRequests

\* A full table gives up the key that was inserted first.
Full(keys) == Len(keys) > MaxKeys

\* check_and_record, admitting: one step, the lock is held throughout.
Admit(k) ==
  /\ Admits(k)
  /\ LET keys == WithKey(k)
         kept(x) == ~ (Full(keys) /\ x = Head(keys))
     IN  /\ table' = IF Full(keys) THEN Tail(keys) ELSE keys
         /\ bucket' = [x \in Keys |-> IF ~kept(x) THEN <<>>
                                      ELSE IF x = k THEN Append(Prune(bucket[x]), now)
                                      ELSE bucket[x]]
         /\ admitted' = [x \in Keys |-> IF ~kept(x) THEN <<>>
                                        ELSE IF x = k THEN Append(admitted[x], now)
                                        ELSE admitted[x]]
  /\ everAdmitted' = [everAdmitted EXCEPT ![k] = Append(@, now)]
  /\ promised' = [promised EXCEPT ![k] = 0]

\* check_and_record, refusing: the pruned bucket stays in the table.
Refuse(k) ==
  /\ ~Admits(k)
  /\ table' = WithKey(k)
  /\ bucket' = [bucket EXCEPT ![k] = Prune(@)]
  /\ UNCHANGED <<admitted, everAdmitted, promised>>

\* Defect: the hint is the age of the newest request
RetryAfterNewest(k) ==
  LET entries == Prune(bucket[k])
  IN  IF entries = <<>> THEN Window ELSE now - Last(entries)

\* Seconds until the oldest recorded request leaves the window.
RetryAfter(k) ==
  LET entries == Prune(bucket[k])
  IN  IF entries = <<>> THEN Window ELSE Head(entries) + Window - now

\* The Retry-After header: whole seconds, at least one.
Hint(k) == IF RetryAfter(k) < 1 THEN 1 ELSE RetryAfter(k)

CheckAndRecord(c, k) ==
  /\ rejected[c] = NoKey
  /\ \/ Admit(k) /\ UNCHANGED rejected
     \/ Refuse(k) /\ rejected' = [rejected EXCEPT ![c] = k]
  /\ UNCHANGED now

SendHint(c) ==
  /\ rejected[c] # NoKey
  /\ LET k == rejected[c]
     IN  /\ promised' = [promised EXCEPT ![k] = now + Hint(k)]
         /\ bucket' = [bucket EXCEPT ![k] = Prune(@)]
  /\ rejected' = [rejected EXCEPT ![c] = NoKey]
  /\ UNCHANGED <<now, table, admitted, everAdmitted>>

Tick ==
  /\ now < MaxTime /\ now' = now + 1
  /\ admitted' = [k \in Keys |-> StillIn(admitted[k], now + 1)]
  /\ everAdmitted' = [k \in Keys |-> StillIn(everAdmitted[k], now + 1)]
  /\ UNCHANGED <<table, bucket, rejected, promised>>

Next ==
  \/ \E c \in Callers : SendHint(c) \/ \E k \in Keys : CheckAndRecord(c, k)
  \/ Tick

Spec == Init /\ [][Next]_vars

----------------------------------------------------------------------------
\* Types; the table stays within its bound, holds each key once, and only keys
\* in the table have a bucket: memory is bounded under a flood of keys.
TypeOK ==
  /\ now \in 0..MaxTime
  /\ table \in Seq(Keys) /\ Len(table) <= MaxKeys /\ IsInjective(table)
  /\ {bucket, admitted, everAdmitted} \subseteq [Keys -> Seq(0..now)]
  /\ \A k \in Keys : /\ Len(bucket[k]) <= MaxRequests
                     /\ bucket[k] # <<>> => Contains(table, k)
  /\ rejected \in [Callers -> Keys \cup {NoKey}]
  /\ promised \in [Keys -> Nat]

\* At every moment, the window that ends there holds at most MaxRequests
\* admissions of a key that kept its bucket (check_and_record, _prune).
WithinQuota == \A k \in Keys : Len(admitted[k]) <= MaxRequests

\* A Retry-After hint is honest: when its time has come and nobody else used the
\* key meanwhile, the caller is admitted, also if the bucket was evicted and
\* refilled between the refusal and the hint.
HintIsHonest ==
  \A k \in Keys : promised[k] # 0 /\ now >= promised[k] => Admits(k)

\* Nobody is turned away below the quota: a refused key has had MaxRequests
\* requests admitted within the window that ends now.
RefusalIsDeserved ==
  \A k \in Keys : ~Admits(k) => Len(everAdmitted[k]) >= MaxRequests

----------------------------------------------------------------------------
(* What makes these properties inductive.                                    *)

\* What the history has of a key since it last lost its bucket is what the
\* bucket holds, but for entries that await their pruning.
AdmittedIsKept == \A k \in Keys : admitted[k] = StillIn(bucket[k], now)

\* It is the end of what was ever admitted within the window.
EndsWith(s, e) ==
  /\ Len(e) <= Len(s)
  /\ \A i \in 1..Len(e) : s[i + Len(s) - Len(e)] = e[i]

AdmittedIsLast == \A k \in Keys : EndsWith(everAdmitted[k], admitted[k])

\* A hint holds from the moment it is given: nothing but an admission of the
\* same key, which withdraws it, makes the bucket fuller.
Due(k) == IF now < promised[k] THEN promised[k] ELSE now

HintHolds ==
  \A k \in Keys : promised[k] # 0 => Len(StillIn(bucket[k], Due(k))) < MaxRequests

LimiterInv == TypeOK /\ AdmittedIsKept /\ AdmittedIsLast /\ HintHolds
============================================================================
