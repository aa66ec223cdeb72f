----------------------------- MODULE RateLimit -----------------------------
(***************************************************************************)
(* The per-(tenant, user) token buckets of orchid_api/rate_limit.py. Every *)
(* call of rate_limit(name, calls, period) builds a limiter of its own;    *)
(* _enforce acquires one token of the caller's bucket, or answers 429 with *)
(* a Retry-After. acquire runs under a lock, so it is one step.            *)
(*                                                                         *)
(* Tokens are counted in units of 1/Period of a token: a token is Period   *)
(* units, the capacity Calls * Period, and each second refills Calls.      *)
(* rate_limit with calls <= 0 builds no limiter and is not modelled.       *)
(***************************************************************************)
EXTENDS Integers, Sequences, FiniteSets, SequencesExt

CONSTANTS
  Limiters,   \* the limiters the routers build
  Keys,       \* the (tenant, user) pairs
  Calls,      \* calls admitted per period, and the burst capacity
  Period,     \* the period, in seconds
  MaxBuckets, \* _max_buckets
  MaxTime,    \* bound: the clock stops there
  MaxCalls    \* bound: calls one key makes of one limiter

ASSUME ConstantsAssumption ==
  /\ Calls \in Nat \ {0}
  /\ Period \in Nat \ {0}
  /\ MaxBuckets \in Nat \ {0}
  /\ MaxTime \in Nat
  /\ MaxCalls \in Nat

VARIABLES
  now,      \* time.monotonic(), in seconds
  lru,      \* lru[l]: the keys of _buckets, least recently used first
  bucket,   \* bucket[l][k]: tokens and last_refill
  calls,    \* calls made so far, for the bound
  admitted, \* history: admitted[l][k], when k was let through with its bucket
  promise   \* history: promise[l][k], when the last refusal allows a retry

vars == <<now, lru, bucket, calls, admitted, promise>>

Capacity == Calls * Period
NoPromise == -1

Init ==
  /\ now = 0
  /\ lru = [l \in Limiters |-> <<>>]
  /\ bucket = [l \in Limiters |-> [k \in Keys |-> [tokens |-> 0, last |-> 0]]]
  /\ calls = [l \in Limiters |-> [k \in Keys |-> 0]]
  /\ admitted = [l \in Limiters |-> [k \in Keys |-> <<>>]]
  /\ promise = [l \in Limiters |-> [k \in Keys |-> NoPromise]]

Known(l, k) == k \in ToSet(lru[l])

\* A plausible slip: the refill is not capped.
RefilledUncapped(b) == b.tokens + (now - b.last) * Calls

\* min(capacity, tokens + elapsed * refill)
Refilled(b) ==
  LET grown == b.tokens + (now - b.last) * Calls
  IN IF grown < Capacity THEN grown ELSE Capacity

\* A plausible slip: first in, first out; a used key keeps its place.
TouchedInPlace(l, k) ==
  LET excess == Len(lru[l]) + 1 - MaxBuckets
  IN IF Known(l, k) THEN lru[l]
     ELSE Append(IF excess <= 0 THEN lru[l]
                 ELSE SubSeq(lru[l], excess + 1, Len(lru[l])), k)

Position(l, k) == CHOOSE i \in DOMAIN lru[l] : lru[l][i] = k

\* The order after k is used: moved to the end, or added once there is room.
Touched(l, k) ==
  LET excess == Len(lru[l]) + 1 - MaxBuckets
  IN Append(IF Known(l, k) THEN RemoveAt(lru[l], Position(l, k))
            ELSE IF excess <= 0 THEN lru[l]
            ELSE SubSeq(lru[l], excess + 1, Len(lru[l])), k)

\* A plausible slip: int(retry_after), without the rounding up.
RetryAfterTruncated(tokens) == (Period - tokens) \div Calls

\* max(1, int(wait) + 1), where wait is the deficit over the refill rate.
RetryAfter(tokens) == (Period - tokens) \div Calls + 1

\* A plausible slip: the last token can be overdrawn.
AdmitsAny(tokens) == tokens > 0

Admits(tokens) == tokens >= Period

Acquire(l, k) ==
  LET tokens == IF Known(l, k) THEN Refilled(bucket[l][k]) ELSE Capacity
      left   == IF Admits(tokens) THEN tokens - Period ELSE tokens
  IN /\ calls[l][k] < MaxCalls
     /\ calls' = [calls EXCEPT ![l][k] = @ + 1]
     /\ lru' = [lru EXCEPT ![l] = Touched(l, k)]
     /\ bucket' = [bucket EXCEPT ![l][k] = [tokens |-> left, last |-> now]]
     /\ admitted' = [admitted EXCEPT ![l][k] =
                       IF Admits(tokens)
                       THEN Append(IF Known(l, k) THEN @ ELSE <<>>, now) ELSE @]
     /\ promise' = [promise EXCEPT ![l][k] =
                       IF Admits(tokens) THEN NoPromise ELSE now + RetryAfter(tokens)]
     /\ UNCHANGED now

Tick ==
  /\ now < MaxTime
  /\ now' = now + 1
  /\ UNCHANGED <<lru, bucket, calls, admitted, promise>>

\* The bounds are used up.
Over ==
  /\ now = MaxTime
  /\ \A l \in Limiters, k \in Keys : calls[l][k] = MaxCalls
  /\ UNCHANGED vars

Next == Tick \/ (\E l \in Limiters, k \in Keys : Acquire(l, k)) \/ Over

Spec == Init /\ [][Next]_vars

-----------------------------------------------------------------------------
(* Properties *)

\* Types; a bucket never holds more than the capacity nor less than nothing, and
\* there are never more buckets than the cap allows, each key at most once.
TypeOK ==
  /\ now \in 0..MaxTime
  /\ \A l \in Limiters : /\ Len(lru[l]) <= MaxBuckets
                         /\ ToSet(lru[l]) \subseteq Keys
                         /\ Cardinality(ToSet(lru[l])) = Len(lru[l])
  /\ \A l \in Limiters, k \in Keys : /\ bucket[l][k].tokens \in 0..Capacity
                                     /\ bucket[l][k].last \in 0..now

\* The calls of one key that a sequence of admission times lets through in any
\* span of time stay within a full bucket plus what that span refills.
WithinRate(times) ==
  \A i, j \in DOMAIN times : i <= j =>
    (j - i + 1) * Period <= Capacity + (times[j] - times[i]) * Calls

\* The rate a limiter promises: as long as its bucket is not dropped, each key
\* stays within the rate over every span of time, not only over those that begin
\* with a full bucket (rate_limit.py 74-80).
RateIsKept == \A l \in Limiters, k \in Keys : WithinRate(admitted[l][k])

\* A client that waits out its Retry-After is admitted (rate_limit.py 116): the
\* rounded-up whole seconds always suffice, unless it spends the token itself.
RetryAfterSuffices ==
  \A l \in Limiters, k \in Keys :
    (Known(l, k) /\ promise[l][k] # NoPromise /\ now >= promise[l][k])
      => Admits(Refilled(bucket[l][k]))

\* A key in use is not the one that is dropped: when buckets are dropped, the key
\* that has just called keeps its bucket and only longer unused keys lose theirs.
LeastRecentlyUsedGoes ==
  [][\A l \in Limiters, k \in Keys :
       (Known(l, k) /\ ~Known(l, k)') =>
         \A other \in Keys : Known(l, other) /\ Known(l, other)'
           => bucket[l][k].last <= bucket[l][other].last]_vars

=============================================================================
