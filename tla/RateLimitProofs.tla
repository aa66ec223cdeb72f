-------------------------- MODULE RateLimitProofs --------------------------
(***************************************************************************)
(* The rate and the Retry-After of RateLimit, for every number of calls,   *)
(* every period, and any limiters and keys: what is left in a bucket and   *)
(* what it has let through never exceed a full bucket plus the refill.     *)
(***************************************************************************)
EXTENDS RateLimit, FiniteSetTheorems, SequenceTheorems, TLAPS

\* What the stores hold, apart from the order of the keys.
StoreInv ==
  /\ now \in 0..MaxTime
  /\ bucket \in [Limiters -> [Keys -> [tokens : 0..Capacity, last : 0..now]]]
  /\ admitted \in [Limiters -> [Keys -> Seq(Nat)]]
  /\ promise \in [Limiters -> [Keys -> Int]]

\* Each admission still counts against what the bucket b has been refilled with
\* since, b.tokens of which are left.
PaidFor(times, b) ==
  \A i \in 1..Len(times) :
    /\ times[i] <= b.last
    /\ (Len(times) - i + 1) * Period + b.tokens <= Capacity + (b.last - times[i]) * Calls

\* A promised time is when the bucket has refilled to a token.
KeepsPromise(at, b) == at # NoPromise => at = b.last + RetryAfter(b.tokens)

LimitInv ==
  \A l \in Limiters, k \in Keys :
    /\ WithinRate(admitted[l][k])
    /\ PaidFor(admitted[l][k], bucket[l][k])
    /\ KeepsPromise(promise[l][k], bucket[l][k])

\* The capacity is a number of units, and at least one token.
LEMMA CapacityType == Capacity \in Nat /\ Period <= Capacity /\ Period \in Nat /\ Calls \in Nat
<1>1. Calls \in Nat /\ Period \in Nat /\ Calls >= 1
  BY ConstantsAssumption
<1>2. \A a, b \in Nat : a >= 1 => a * b \in Nat /\ b <= a * b
  OBVIOUS
<1> QED BY <1>1, <1>2 DEF Capacity

\* A refilled bucket holds between what it held and its capacity.
LEMMA RefilledType ==
  ASSUME now \in Nat, NEW b \in [tokens : 0..Capacity, last : 0..now]
  PROVE  /\ Refilled(b) \in 0..Capacity
         /\ Refilled(b) <= b.tokens + (now - b.last) * Calls
         /\ Refilled(b) = Capacity \/ Refilled(b) = b.tokens + (now - b.last) * Calls
<1>1. now - b.last \in Nat /\ b.tokens \in Nat
  OBVIOUS
<1>2. \A a, c \in Nat : a * c \in Nat
  OBVIOUS
<1>3. (now - b.last) * Calls \in Nat
  BY <1>1, <1>2, CapacityType
<1> DEFINE more == (now - b.last) * Calls
<1>4. more \in Nat
  BY <1>3
<1> HIDE DEF more
<1>5. Refilled(b) = IF b.tokens + more < Capacity THEN b.tokens + more ELSE Capacity
  BY DEF Refilled, more
<1>6. /\ Refilled(b) \in 0..Capacity
      /\ Refilled(b) <= b.tokens + more
      /\ Refilled(b) = Capacity \/ Refilled(b) = b.tokens + more
  BY <1>1, <1>4, <1>5, CapacityType
<1> QED BY <1>6 DEF more

\* What is paid for stays paid for when the bucket is refilled.
LEMMA RefillPays ==
  ASSUME now \in Nat, NEW times \in Seq(Nat),
         NEW b \in [tokens : 0..Capacity, last : 0..now], PaidFor(times, b),
         NEW t \in 0..Capacity, t <= b.tokens + (now - b.last) * Calls
  PROVE  PaidFor(times, [tokens |-> t, last |-> now])
<1> SUFFICES ASSUME NEW i \in 1..Len(times)
             PROVE  /\ times[i] <= now
                    /\ (Len(times) - i + 1) * Period + t
                         <= Capacity + (now - times[i]) * Calls
  BY DEF PaidFor
<1>1. times[i] \in Nat /\ b.last \in Nat /\ b.last <= now /\ b.tokens \in Nat
      /\ Len(times) \in Nat
  OBVIOUS
<1>2. /\ times[i] <= b.last
      /\ (Len(times) - i + 1) * Period + b.tokens <= Capacity + (b.last - times[i]) * Calls
  BY DEF PaidFor
<1>3. (now - times[i]) * Calls = (b.last - times[i]) * Calls + (now - b.last) * Calls
  <2>1. \A x, y, z, c \in Int : (x - z) * c = (y - z) * c + (x - y) * c
    OBVIOUS
  <2>2. now \in Int /\ b.last \in Int /\ times[i] \in Int /\ Calls \in Int
    BY <1>1, CapacityType
  <2> QED BY <2>1, <2>2
<1>4. \A x, y \in Int : x * y \in Int
  OBVIOUS
<1> DEFINE due == (Len(times) - i + 1) * Period
           upto == (b.last - times[i]) * Calls
           since == (now - b.last) * Calls
<1>5. due \in Int /\ upto \in Int /\ since \in Int
  <2>0. \A x, y \in Int : x - y \in Int /\ x - y + 1 \in Int
    OBVIOUS
  <2>a. /\ Len(times) \in Int /\ i \in Int /\ times[i] \in Int /\ b.last \in Int
        /\ now \in Int
    BY <1>1
  <2>b. Period \in Int /\ Calls \in Int
    BY CapacityType
  <2>1. /\ Len(times) - i + 1 \in Int /\ b.last - times[i] \in Int /\ now - b.last \in Int
        /\ Period \in Int /\ Calls \in Int
    BY <2>0, <2>a, <2>b, Zenon
  <2> DEFINE d == Len(times) - i + 1
             u == b.last - times[i]
             s == now - b.last
  <2> HIDE DEF d, u, s
  <2>2. d \in Int /\ u \in Int /\ s \in Int
    BY <2>1 DEF d, u, s
  <2>3. d * Period \in Int /\ u * Calls \in Int /\ s * Calls \in Int
    BY <1>4, <2>1, <2>2
  <2> QED BY <2>3 DEF d, u, s
<1>6. due + b.tokens <= Capacity + upto /\ t <= b.tokens + since
      /\ (now - times[i]) * Calls = upto + since
  BY <1>2, <1>3
<1> HIDE DEF due, upto, since
<1>7. due + t <= Capacity + (upto + since)
  BY <1>1, <1>5, <1>6, CapacityType
<1> QED BY <1>1, <1>2, <1>6, <1>7 DEF due

\* A call that is let through is paid for with a token, and keeps the rate over
\* every span that ends with it.
LEMMA AdmissionPays ==
  ASSUME now \in Nat, NEW times \in Seq(Nat), WithinRate(times),
         NEW t \in 0..Capacity, PaidFor(times, [tokens |-> t, last |-> now]), t >= Period
  PROVE  /\ WithinRate(Append(times, now))
         /\ PaidFor(Append(times, now), [tokens |-> t - Period, last |-> now])
<1> DEFINE n == Len(times)
           longer == Append(times, now)
<1>1. /\ n \in Nat /\ DOMAIN times = 1..n
      /\ longer \in Seq(Nat) /\ Len(longer) = n + 1 /\ DOMAIN longer = 1..(n + 1)
      /\ \A i \in 1..n : longer[i] = times[i] /\ times[i] \in Nat
      /\ longer[n + 1] = now
  OBVIOUS
<1>2. t \in Nat /\ Period \in Nat /\ Calls \in Nat /\ Capacity \in Nat /\ t <= Capacity
  BY CapacityType
<1>3. \A i \in 1..n : /\ times[i] <= now
                      /\ (n - i + 1) * Period + t <= Capacity + (now - times[i]) * Calls
  BY DEF PaidFor
<1> HIDE DEF n, longer
<1>4. \A i \in 1..(n + 1) :
        /\ longer[i] <= now
        /\ ((n + 1) - i + 1) * Period + (t - Period) <= Capacity + (now - longer[i]) * Calls
  <2> SUFFICES ASSUME NEW i \in 1..(n + 1)
               PROVE  /\ longer[i] <= now
                      /\ ((n + 1) - i + 1) * Period + (t - Period)
                           <= Capacity + (now - longer[i]) * Calls
    OBVIOUS
  <2>1. ((n + 1) - i + 1) * Period = (n - i + 1) * Period + Period
    <3>1. \A x, p \in Int : (x + 1) * p = x * p + p
      OBVIOUS
    <3>2. (n + 1) - i + 1 = (n - i + 1) + 1 /\ n - i + 1 \in Int
      BY <1>1
    <3> QED BY <1>2, <3>1, <3>2
  <2>2. CASE i = n + 1
    <3>1. n - i + 1 = 0 /\ now - longer[i] = 0
      BY <1>1, <2>2
    <3>2. \A x \in Int : 0 * x = 0
      OBVIOUS
    <3>3. (n - i + 1) * Period = 0 /\ (now - longer[i]) * Calls = 0
      BY <1>2, <3>1, <3>2
    <3>4. ((n + 1) - i + 1) * Period + (t - Period) = t
      BY <1>2, <2>1, <3>3
    <3>5. longer[i] = now
      BY <1>1, <2>2
    <3> QED BY <1>2, <3>3, <3>4, <3>5
  <2>3. CASE i \in 1..n
    <3> DEFINE due == (n - i + 1) * Period
               grown == (now - longer[i]) * Calls
    <3>1. due \in Int /\ grown \in Int
      <4>1. \A x, y \in Int : x * y \in Int
        OBVIOUS
      <4> QED BY <1>1, <1>2, <2>3, <4>1
    <3>2. due + t <= Capacity + grown
      BY <1>1, <1>3, <2>3
    <3> HIDE DEF due, grown
    <3>3. (due + Period) + (t - Period) <= Capacity + grown
      BY <1>2, <3>1, <3>2
    <3> QED BY <1>1, <1>3, <2>1, <2>3, <3>3 DEF due, grown
  <2> QED BY <1>1, <2>2, <2>3
<1>5. PaidFor(longer, [tokens |-> t - Period, last |-> now])
  BY <1>1, <1>4 DEF PaidFor
<1>6. WithinRate(longer)
  <2> SUFFICES ASSUME NEW i \in 1..(n + 1), NEW j \in 1..(n + 1), i <= j
               PROVE  (j - i + 1) * Period <= Capacity + (longer[j] - longer[i]) * Calls
    BY <1>1 DEF WithinRate
  <2>1. CASE j \in 1..n
    <3>1. i \in 1..n
      BY <1>1, <2>1
    <3>2. longer[i] = times[i] /\ longer[j] = times[j]
      BY <1>1, <2>1, <3>1
    <3>3. (j - i + 1) * Period <= Capacity + (times[j] - times[i]) * Calls
      BY <1>1, <2>1, <3>1 DEF WithinRate
    <3> QED BY <3>2, <3>3
  <2>2. CASE j = n + 1
    <3>1. ((n + 1) - i + 1) * Period + (t - Period) <= Capacity + (now - longer[i]) * Calls
      BY <1>4
    <3>2. \A x, y \in Int : x * y \in Int
      OBVIOUS
    <3>3. ((n + 1) - i + 1) * Period \in Int /\ (now - longer[i]) * Calls \in Int
      BY <1>1, <1>2, <3>2
    <3>4. \A x, y, z \in Int : x + (z - Period) <= y /\ z >= Period => x <= y
      BY <1>2
    <3>5. Capacity + (now - longer[i]) * Calls \in Int
      BY <1>2, <3>3
    <3>6. ((n + 1) - i + 1) * Period <= Capacity + (now - longer[i]) * Calls
      BY <1>2, <3>1, <3>3, <3>4, <3>5
    <3> QED BY <1>1, <2>2, <3>6
  <2> QED BY <1>1, <2>1, <2>2
<1> QED BY <1>5, <1>6 DEF longer

\* A Retry-After is a number of seconds.
LEMMA RetryType ==
  ASSUME NEW tokens \in Nat, tokens < Period
  PROVE  RetryAfter(tokens) \in Nat
BY ConstantsAssumption DEF RetryAfter

\* The next whole second after the missing units have been refilled.
LEMMA RetrySuffices ==
  ASSUME NEW tokens \in Nat, tokens < Period, NEW waited \in Nat, waited >= RetryAfter(tokens)
  PROVE  tokens + waited * Calls >= Period
<1>1. Calls \in Nat /\ Calls >= 1 /\ Period \in Nat
  BY ConstantsAssumption
<1> DEFINE missing == Period - tokens
           whole == missing \div Calls
<1>2. missing \in Nat
  BY <1>1
<1>3. whole \in Nat /\ missing < (whole + 1) * Calls
  <2>1. missing = Calls * (missing \div Calls) + (missing % Calls)
    BY <1>1, <1>2
  <2>2. missing % Calls \in 0..(Calls - 1) /\ missing \div Calls \in Nat
    BY <1>1, <1>2
  <2>3. \A x, c \in Nat : (x + 1) * c = c * x + c /\ c * x \in Nat
    OBVIOUS
  <2> QED BY <1>1, <1>2, <2>1, <2>2, <2>3
<1> HIDE DEF whole
<1>4. waited >= whole + 1 /\ RetryAfter(tokens) = whole + 1
  BY DEF RetryAfter, whole
<1>5. waited * Calls >= (whole + 1) * Calls
  <2>1. \A x, y, c \in Nat : x >= y => x * c >= y * c
    OBVIOUS
  <2> QED BY <1>1, <1>3, <1>4, <2>1
<1>6. waited * Calls \in Nat /\ (whole + 1) * Calls \in Nat
  <2>1. \A x, c \in Nat : x * c \in Nat
    OBVIOUS
  <2> QED BY <1>1, <1>3, <2>1
<1> QED BY <1>1, <1>3, <1>4, <1>5, <1>6

-----------------------------------------------------------------------------
(* The invariant. *)

\* Nothing is admitted and nothing is promised at first.
LEMMA InitInv == Init => StoreInv /\ LimitInv
<1> SUFFICES ASSUME Init PROVE StoreInv /\ LimitInv
  OBVIOUS
<1>1. StoreInv
  BY CapacityType, ConstantsAssumption DEF Init, StoreInv, NoPromise
<1>2. \A l \in Limiters, k \in Keys :
        /\ admitted[l][k] = <<>> /\ promise[l][k] = NoPromise
  BY DEF Init
<1>3. WithinRate(<<>>) /\ \A b : PaidFor(<<>>, b)
  BY DEF WithinRate, PaidFor
<1> QED BY <1>1, <1>2, <1>3 DEF LimitInv, KeepsPromise

\* A call of one key leaves the buckets of the others alone, and its own with the
\* rate kept and the promise true, whether the key was known or not.
LEMMA AcquireInv ==
  ASSUME StoreInv, LimitInv, NEW l \in Limiters, NEW k \in Keys, Acquire(l, k)
  PROVE  StoreInv' /\ LimitInv'
<1> DEFINE old == bucket[l][k]
           tokens == IF Known(l, k) THEN Refilled(old) ELSE Capacity
           left == IF Admits(tokens) THEN tokens - Period ELSE tokens
           times == IF Known(l, k) THEN admitted[l][k] ELSE <<>>
           after == IF Admits(tokens) THEN Append(times, now) ELSE admitted[l][k]
           next == [tokens |-> left, last |-> now]
           until == IF Admits(tokens) THEN NoPromise ELSE now + RetryAfter(tokens)
<1>1. /\ now' = now
      /\ bucket' = [bucket EXCEPT ![l][k] = next]
      /\ admitted' = [admitted EXCEPT ![l][k] = after]
      /\ promise' = [promise EXCEPT ![l][k] = until]
  BY DEF Acquire
<1>2. /\ now \in Nat /\ old \in [tokens : 0..Capacity, last : 0..now]
      /\ admitted[l][k] \in Seq(Nat) /\ times \in Seq(Nat)
      /\ WithinRate(admitted[l][k]) /\ PaidFor(admitted[l][k], old)
  BY DEF StoreInv, LimitInv
<1>3. WithinRate(times) /\ (Known(l, k) => times = admitted[l][k])
  BY <1>2 DEF WithinRate
<1>4. tokens \in 0..Capacity /\ (~Known(l, k) => tokens = Capacity)
  BY <1>2, CapacityType, RefilledType
<1>5. PaidFor(times, [tokens |-> tokens, last |-> now])
  <2>1. CASE Known(l, k)
    <3>1. tokens <= old.tokens + (now - old.last) * Calls
      BY <1>2, <2>1, RefilledType
    <3> QED BY <1>2, <1>3, <1>4, <2>1, <3>1, RefillPays
  <2>2. CASE ~Known(l, k)
    BY <2>2 DEF PaidFor
  <2> QED BY <2>1, <2>2
<1> HIDE DEF old, tokens
\* What becomes of the caller's own bucket.
<1>6. /\ next \in [tokens : 0..Capacity, last : 0..now] /\ after \in Seq(Nat) /\ until \in Int
      /\ WithinRate(after) /\ PaidFor(after, next) /\ KeepsPromise(until, next)
  <2>1. CASE Admits(tokens)
    <3>1. tokens >= Period /\ left = tokens - Period /\ after = Append(times, now)
      BY <2>1 DEF Admits
    <3>2. WithinRate(after) /\ PaidFor(after, next)
      BY <1>2, <1>3, <1>4, <1>5, <3>1, AdmissionPays
    <3>3. left \in 0..Capacity /\ after \in Seq(Nat)
      BY <1>2, <1>4, <3>1, CapacityType
    <3> QED BY <1>2, <2>1, <3>2, <3>3 DEF KeepsPromise, NoPromise
  <2>2. CASE ~Admits(tokens)
    <3>1. tokens < Period /\ tokens \in Nat
      BY <1>4, <2>2, CapacityType DEF Admits
    <3>2. Known(l, k)
      BY <1>4, <3>1, CapacityType
    <3>3. after = times /\ next = [tokens |-> tokens, last |-> now]
          /\ until = now + RetryAfter(tokens)
      BY <1>3, <2>2, <3>2
    <3>4. RetryAfter(tokens) \in Int
      BY <3>1, RetryType
    <3> QED BY <1>2, <1>3, <1>4, <1>5, <3>3, <3>4 DEF KeepsPromise
  <2> QED BY <2>1, <2>2
<1> HIDE DEF after, next, until
<1>7. /\ bucket'[l][k] = next /\ admitted'[l][k] = after /\ promise'[l][k] = until
      /\ \A m \in Limiters, j \in Keys : m # l \/ j # k =>
           /\ bucket'[m][j] = bucket[m][j] /\ admitted'[m][j] = admitted[m][j]
           /\ promise'[m][j] = promise[m][j]
  BY <1>1 DEF StoreInv
<1>8. StoreInv'
  BY <1>1, <1>6 DEF StoreInv, Capacity
<1>9. LimitInv'
  <2> SUFFICES ASSUME NEW m \in Limiters, NEW j \in Keys
               PROVE  /\ WithinRate(admitted'[m][j])
                      /\ PaidFor(admitted'[m][j], bucket'[m][j])
                      /\ KeepsPromise(promise'[m][j], bucket'[m][j])
    BY DEF LimitInv, WithinRate, PaidFor, KeepsPromise
  <2>1. CASE m = l /\ j = k
    BY <1>6, <1>7, <2>1
  <2>2. CASE m # l \/ j # k
    BY <1>7, <2>2 DEF LimitInv
  <2> QED BY <2>1, <2>2
<1> QED BY <1>8, <1>9

\* Every step keeps the invariant; time alone changes no bucket.
LEMMA StepInv == StoreInv /\ LimitInv /\ [Next]_vars => (StoreInv /\ LimitInv)'
<1> SUFFICES ASSUME StoreInv, LimitInv, [Next]_vars PROVE (StoreInv /\ LimitInv)'
  OBVIOUS
<1>1. CASE Tick
  <2>1. now' = now + 1 /\ UNCHANGED <<bucket, admitted, promise>>
    BY <1>1 DEF Tick
  <2>2. StoreInv'
    <3>1. now' \in 0..MaxTime /\ now \in 0..now'
      BY <1>1, <2>1, ConstantsAssumption DEF StoreInv, Tick
    <3>2. \A x : x \in [tokens : 0..Capacity, last : 0..now] =>
                x \in [tokens : 0..Capacity, last : 0..now']
      BY <2>1, <3>1 DEF StoreInv
    <3>3. bucket' \in [Limiters -> [Keys -> [tokens : 0..Capacity, last : 0..now']]]
      BY <2>1, <3>2 DEF StoreInv
    <3> QED BY <2>1, <3>1, <3>3 DEF StoreInv, Capacity
  <2>3. LimitInv'
    BY <2>1 DEF LimitInv, WithinRate, PaidFor, KeepsPromise
  <2> QED BY <2>2, <2>3
<1>2. CASE UNCHANGED vars
  BY <1>2 DEF vars, StoreInv, LimitInv, WithinRate, PaidFor, KeepsPromise
<1> QED BY <1>1, <1>2, AcquireInv DEF Next, Over

\* The invariant holds in every reachable state.
LEMMA Invariant == Spec => [](StoreInv /\ LimitInv)
BY InitInv, StepInv, PTL DEF Spec

\* As long as its bucket is kept, what a key is let through with in any span of
\* time is at most a full bucket and what that span refills.
THEOREM RateHolds == Spec => []RateIsKept
<1>1. LimitInv => RateIsKept
  BY DEF LimitInv, RateIsKept
<1> QED BY <1>1, Invariant, PTL

\* A client that waits out its Retry-After, and whose bucket is kept, is admitted.
THEOREM WaitingSuffices == Spec => []RetryAfterSuffices
<1>1. StoreInv /\ LimitInv => RetryAfterSuffices
  <2> SUFFICES ASSUME StoreInv, LimitInv, NEW l \in Limiters, NEW k \in Keys,
                      promise[l][k] # NoPromise, now >= promise[l][k]
               PROVE  Refilled(bucket[l][k]) >= Period
    BY DEF RetryAfterSuffices, Admits
  <2> DEFINE b == bucket[l][k]
             waited == now - b.last
  <2>1. now \in Nat /\ b \in [tokens : 0..Capacity, last : 0..now]
    BY DEF StoreInv
  <2>2. promise[l][k] = b.last + RetryAfter(b.tokens)
    BY DEF LimitInv, KeepsPromise
  <2> HIDE DEF b
  <2>3. waited \in Nat /\ b.tokens \in Nat /\ b.last \in Nat
    BY <2>1
  <2>4. Refilled(b) = Capacity \/ Refilled(b) = b.tokens + waited * Calls
    BY <2>1, RefilledType
  <2>5. CASE b.tokens < Period
    <3>1. RetryAfter(b.tokens) \in Nat
      BY <2>3, <2>5, RetryType
    <3>2. waited >= RetryAfter(b.tokens)
      BY <2>1, <2>2, <2>3, <3>1
    <3>3. b.tokens + waited * Calls >= Period
      BY <2>3, <2>5, <3>2, RetrySuffices
    <3> QED BY <2>4, <3>3, CapacityType DEF b
  <2>6. CASE b.tokens >= Period
    <3>1. waited * Calls \in Nat
      <4>1. \A x, c \in Nat : x * c \in Nat
        OBVIOUS
      <4> QED BY <2>3, <4>1, CapacityType
    <3> QED BY <2>3, <2>4, <2>6, <3>1, CapacityType DEF b
  <2> QED BY <2>3, <2>5, <2>6, CapacityType
<1> QED BY <1>1, Invariant, PTL

-----------------------------------------------------------------------------
(* The order of the buckets. *)

\* The keys with a bucket, each once and no more than the cap, in the order of
\* their last use.
OrderInv ==
  /\ lru \in [Limiters -> Seq(Keys)]
  /\ \A l \in Limiters :
       /\ Len(lru[l]) <= MaxBuckets
       /\ \A i, j \in DOMAIN lru[l] : i < j =>
            /\ lru[l][i] # lru[l][j]
            /\ bucket[l][lru[l][i]].last <= bucket[l][lru[l][j]].last

\* kept is what remains of s when k is used: all the others if k is one of s, and
\* in the order of s; what is dropped stood before all that is kept.
Keeps(kept, s, k) ==
  /\ \A i \in DOMAIN kept : kept[i] # k /\ \E x \in DOMAIN s : kept[i] = s[x]
  /\ \A i, j \in DOMAIN kept : i < j =>
       \E x, y \in DOMAIN s : x < y /\ kept[i] = s[x] /\ kept[j] = s[y]
  /\ \A x \in DOMAIN s : s[x] = k \/ (\E i \in DOMAIN kept : kept[i] = s[x])
       \/ /\ \A y \in DOMAIN s : s[y] # k
          /\ \A i \in DOMAIN kept : \E y \in DOMAIN s : x < y /\ kept[i] = s[y]

\* A known key is taken out of its place, the others stay.
LEMMA RemovedKeeps ==
  ASSUME NEW s \in Seq(Keys), NEW k, NEW p \in DOMAIN s, s[p] = k,
         \A i, j \in DOMAIN s : i < j => s[i] # s[j]
  PROVE  /\ RemoveAt(s, p) \in Seq(Keys) /\ Len(RemoveAt(s, p)) = Len(s) - 1
         /\ Keeps(RemoveAt(s, p), s, k)
<1> DEFINE t == RemoveAt(s, p)
           n == Len(s)
<1>1. n \in Nat /\ p \in 1..n /\ DOMAIN s = 1..n
  OBVIOUS
<1>2. /\ t \in Seq(Keys) /\ Len(t) = n - 1 /\ DOMAIN t = 1..(n - 1)
      /\ \A i \in 1..(n - 1) : t[i] = IF i < p THEN s[i] ELSE s[i + 1]
  <2> DEFINE head == SubSeq(s, 1, p - 1)
             tail == SubSeq(s, p + 1, n)
  <2>1. /\ head \in Seq(Keys) /\ Len(head) = p - 1
        /\ \A i \in 1..(p - 1) : head[i] = s[i]
    BY <1>1, SubSeqProperties
  <2>2. /\ tail \in Seq(Keys) /\ Len(tail) = n - p
        /\ \A i \in 1..(n - p) : tail[i] = s[i + p]
    <3> HIDE DEF n
    <3>1. p + 1 \in Int /\ n \in Int /\ \A i \in (p + 1)..n : s[i] \in Keys
      BY <1>1
    <3>2. /\ tail \in Seq(Keys)
          /\ Len(tail) = IF p + 1 <= n THEN n - (p + 1) + 1 ELSE 0
          /\ \A i \in 1..(n - (p + 1) + 1) : tail[i] = s[(p + 1) + i - 1]
      BY <3>1, SubSeqProperties
    <3> HIDE DEF tail
    <3>3. Len(tail) = n - p
      BY <1>1, <3>2
    <3>4. ASSUME NEW i \in 1..(n - p) PROVE tail[i] = s[i + p]
      <4>1. i \in 1..(n - (p + 1) + 1) /\ (p + 1) + i - 1 = i + p
        BY <1>1, <3>4
      <4> QED BY <3>2, <4>1
    <3> QED BY <3>2, <3>3, <3>4
  <2>3. t = head \o tail
    BY DEF RemoveAt
  <2> HIDE DEF t, n, head, tail
  <2>4. /\ t \in Seq(Keys) /\ Len(t) = n - 1
        /\ \A i \in 1..(n - 1) : t[i] = IF i <= p - 1 THEN head[i] ELSE tail[i - (p - 1)]
    <3>1. Len(head) + Len(tail) = n - 1
      BY <1>1, <2>1, <2>2
    <3>2. /\ head \o tail \in Seq(Keys) /\ Len(head \o tail) = Len(head) + Len(tail)
          /\ \A i \in 1..(Len(head) + Len(tail)) : (head \o tail)[i] =
               IF i <= Len(head) THEN head[i] ELSE tail[i - Len(head)]
      <4>1. head \in Seq(Keys) /\ tail \in Seq(Keys)
        BY <2>1, <2>2
      <4> QED BY <4>1, ConcatProperties, Zenon
    <3> QED BY <2>1, <2>3, <3>1, <3>2
  <2>5. DOMAIN t = 1..(n - 1)
    BY <2>4
  <2>6. ASSUME NEW i \in 1..(n - 1) PROVE t[i] = IF i < p THEN s[i] ELSE s[i + 1]
    <3>1. CASE i < p
      BY <1>1, <2>1, <2>4, <3>1
    <3>2. CASE ~(i < p)
      <4>1. i - (p - 1) \in 1..(n - p) /\ (i - (p - 1)) + p = i + 1
        BY <1>1, <3>2
      <4>2. t[i] = tail[i - (p - 1)] /\ tail[i - (p - 1)] = s[(i - (p - 1)) + p]
        <5>1. ~(i <= p - 1)
          BY <1>1, <3>2
        <5> QED BY <2>2, <2>4, <4>1, <5>1
      <4> QED BY <3>2, <4>1, <4>2
    <3> QED BY <3>1, <3>2
  <2> QED BY <2>4, <2>5, <2>6
<1> HIDE DEF t, n
<1>3. ASSUME NEW i \in DOMAIN t
      PROVE  t[i] # k /\ \E x \in DOMAIN s : t[i] = s[x]
  <2> DEFINE x == IF i < p THEN i ELSE i + 1
  <2>1. x \in DOMAIN s /\ x # p /\ t[i] = s[x]
    BY <1>1, <1>2
  <2>2. s[x] # s[p]
    BY <1>1, <2>1
  <2> QED BY <2>1, <2>2
<1>4. ASSUME NEW i \in DOMAIN t, NEW j \in DOMAIN t, i < j
      PROVE  \E x, y \in DOMAIN s : x < y /\ t[i] = s[x] /\ t[j] = s[y]
  <2> DEFINE x == IF i < p THEN i ELSE i + 1
             y == IF j < p THEN j ELSE j + 1
  <2>1. x \in DOMAIN s /\ y \in DOMAIN s /\ x < y
    BY <1>1, <1>2, <1>4
  <2>2. t[i] = s[x] /\ t[j] = s[y]
    BY <1>2
  <2> QED BY <2>1, <2>2
<1>5. ASSUME NEW x \in DOMAIN s, s[x] # k
      PROVE  \E i \in DOMAIN t : t[i] = s[x]
  <2> DEFINE i == IF x < p THEN x ELSE x - 1
  <2>1. i \in DOMAIN t /\ t[i] = s[x]
    BY <1>1, <1>2, <1>5
  <2> QED BY <2>1
<1>6. Keeps(t, s, k)
  BY <1>3, <1>4, <1>5 DEF Keeps
<1> QED BY <1>2, <1>6 DEF t, n

\* The first keys make room for one that is not known.
LEMMA DroppedKeeps ==
  ASSUME NEW s \in Seq(Keys), NEW k, \A i \in DOMAIN s : s[i] # k,
         NEW e \in 0..Len(s)
  PROVE  /\ SubSeq(s, e + 1, Len(s)) \in Seq(Keys)
         /\ Len(SubSeq(s, e + 1, Len(s))) = Len(s) - e
         /\ Keeps(SubSeq(s, e + 1, Len(s)), s, k)
<1> DEFINE t == SubSeq(s, e + 1, Len(s))
           n == Len(s)
<1>1. n \in Nat /\ e \in 0..n /\ DOMAIN s = 1..n
  OBVIOUS
<1>2. /\ t \in Seq(Keys) /\ Len(t) = n - e /\ DOMAIN t = 1..(n - e)
      /\ \A i \in 1..(n - e) : t[i] = s[i + e]
  <2>1. \A i \in (e + 1)..n : s[i] \in Keys
    BY <1>1
  <2>2. /\ t \in Seq(Keys) /\ Len(t) = IF e + 1 <= n THEN n - (e + 1) + 1 ELSE 0
        /\ \A i \in 1..(n - (e + 1) + 1) : t[i] = s[(e + 1) + i - 1]
    BY <1>1, <2>1, SubSeqProperties
  <2> HIDE DEF t, n
  <2> QED BY <1>1, <2>2
<1> HIDE DEF t, n
<1>3. \A i \in DOMAIN t : i + e \in DOMAIN s /\ t[i] = s[i + e]
  BY <1>1, <1>2
<1>4. \A i, j \in DOMAIN t : i < j => i + e < j + e
  BY <1>1, <1>2
<1>5. ASSUME NEW x \in DOMAIN s, x > e
      PROVE  \E i \in DOMAIN t : t[i] = s[x]
  <2>1. x - e \in DOMAIN t /\ t[x - e] = s[x]
    BY <1>1, <1>2, <1>5
  <2> QED BY <2>1
<1>6. ASSUME NEW x \in DOMAIN s, ~(x > e), NEW i \in DOMAIN t
      PROVE  \E y \in DOMAIN s : x < y /\ t[i] = s[y]
  <2>1. x < i + e
    BY <1>1, <1>2, <1>6
  <2> QED BY <1>3, <2>1
<1>7. Keeps(t, s, k)
  <2>1. \A i \in DOMAIN t : t[i] # k /\ \E x \in DOMAIN s : t[i] = s[x]
    BY <1>3
  <2>2. \A i, j \in DOMAIN t : i < j =>
          \E x, y \in DOMAIN s : x < y /\ t[i] = s[x] /\ t[j] = s[y]
    BY <1>3, <1>4
  <2> QED BY <1>5, <1>6, <2>1, <2>2 DEF Keeps
<1> QED BY <1>2, <1>7 DEF t, n

\* A call puts its key behind what is kept, and there is room for it.
LEMMA TouchedKeeps ==
  ASSUME OrderInv, NEW l \in Limiters, NEW k \in Keys
  PROVE  \E kept \in Seq(Keys) :
           /\ Touched(l, k) = Append(kept, k)
           /\ Len(kept) < MaxBuckets
           /\ Keeps(kept, lru[l], k)
<1> DEFINE s == lru[l]
           excess == Len(s) + 1 - MaxBuckets
<1>1. /\ s \in Seq(Keys) /\ Len(s) \in Nat /\ Len(s) <= MaxBuckets /\ DOMAIN s = 1..Len(s)
      /\ \A i, j \in DOMAIN s : i < j => s[i] # s[j]
      /\ MaxBuckets \in Nat \ {0}
  BY ConstantsAssumption DEF OrderInv
<1>2. Known(l, k) <=> \E i \in DOMAIN s : s[i] = k
  BY DEF Known, ToSet
<1>3. Touched(l, k) = Append(IF Known(l, k) THEN RemoveAt(s, Position(l, k))
                             ELSE IF excess <= 0 THEN s
                             ELSE SubSeq(s, excess + 1, Len(s)), k)
  BY DEF Touched
<1>4. CASE Known(l, k)
  <2>1. Position(l, k) \in DOMAIN s /\ s[Position(l, k)] = k
    BY <1>2, <1>4 DEF Position
  <2> DEFINE kept == RemoveAt(s, Position(l, k))
  <2>2. kept \in Seq(Keys) /\ Len(kept) = Len(s) - 1 /\ Keeps(kept, s, k)
    BY <1>1, <2>1, RemovedKeeps
  <2>3. Touched(l, k) = Append(kept, k)
    BY <1>3, <1>4
  <2> HIDE DEF kept
  <2> QED BY <1>1, <2>2, <2>3
<1>5. CASE ~Known(l, k)
  <2> DEFINE e == IF excess <= 0 THEN 0 ELSE excess
             kept == SubSeq(s, e + 1, Len(s))
  <2>1. e \in 0..Len(s) /\ Len(s) - e < MaxBuckets
    <3>1. \A n, m \in Nat : n <= m /\ m # 0 =>
            LET d == IF n + 1 - m <= 0 THEN 0 ELSE n + 1 - m
            IN d \in 0..n /\ n - d < m
      OBVIOUS
    <3> QED BY <1>1, <3>1
  <2>2. kept \in Seq(Keys) /\ Len(kept) = Len(s) - e /\ Keeps(kept, s, k)
    <3> HIDE DEF s, e
    <3> QED BY <1>1, <1>2, <1>5, <2>1, DroppedKeeps
  <2>3. Touched(l, k) = Append(kept, k)
    <3>1. e = 0 => kept = s
      <4>1. SubSeq(s, 1, Len(s)) = s
        BY <1>1, SubSeqFull
      <4> QED BY <4>1
    <3> HIDE DEF s
    <3> QED BY <1>3, <1>5, <3>1
  <2> HIDE DEF kept, e
  <2> QED BY <2>1, <2>2, <2>3
<1> QED BY <1>4, <1>5

\* No bucket at first.
LEMMA InitOrder == Init => OrderInv
<1> SUFFICES ASSUME Init PROVE OrderInv
  OBVIOUS
<1>1. lru = [l \in Limiters |-> <<>>] /\ <<>> \in Seq(Keys) /\ Len(<<>>) = 0
      /\ DOMAIN <<>> = {}
  BY DEF Init
<1>2. \A l \in Limiters : lru[l] = <<>>
  BY <1>1
<1> QED BY <1>1, <1>2, ConstantsAssumption DEF OrderInv

\* A call moves its key behind the others, and its bucket is now the newest.
LEMMA AcquireOrder ==
  ASSUME StoreInv, OrderInv, NEW l \in Limiters, NEW k \in Keys, Acquire(l, k)
  PROVE  OrderInv'
<1> DEFINE s == lru[l]
           tokens == IF Known(l, k) THEN Refilled(bucket[l][k]) ELSE Capacity
           left == IF Admits(tokens) THEN tokens - Period ELSE tokens
<1>1. /\ lru' = [lru EXCEPT ![l] = Touched(l, k)] /\ now' = now
      /\ bucket' = [bucket EXCEPT ![l][k] = [tokens |-> left, last |-> now]]
  BY DEF Acquire
<1> HIDE DEF left
<1>2. /\ bucket'[l][k].last = now
      /\ \A m \in Limiters, j \in Keys : m # l \/ j # k => bucket'[m][j] = bucket[m][j]
      /\ \A m \in Limiters, j \in Keys : bucket[m][j].last <= now
  BY <1>1 DEF StoreInv
<1>3. PICK kept \in Seq(Keys) : /\ Touched(l, k) = Append(kept, k)
                                /\ Len(kept) < MaxBuckets
                                /\ Keeps(kept, s, k)
  BY TouchedKeeps
<1> DEFINE n == Len(kept)
           t == Append(kept, k)
<1>4. /\ n \in Nat /\ DOMAIN kept = 1..n /\ MaxBuckets \in Nat
      /\ t \in Seq(Keys) /\ Len(t) = n + 1 /\ DOMAIN t = 1..(n + 1)
      /\ \A i \in 1..n : t[i] = kept[i]
      /\ t[n + 1] = k
  BY ConstantsAssumption, AppendProperties
<1>5. /\ lru \in [Limiters -> Seq(Keys)] /\ s \in Seq(Keys) /\ DOMAIN s = 1..Len(s)
      /\ lru' \in [Limiters -> Seq(Keys)]
      /\ lru'[l] = t /\ \A m \in Limiters : m # l => lru'[m] = lru[m]
  BY <1>1, <1>3, <1>4 DEF OrderInv
<1>6. Len(t) <= MaxBuckets
  BY <1>3, <1>4
<1> HIDE DEF t, n, s
<1>7. ASSUME NEW i \in DOMAIN t, NEW j \in DOMAIN t, i < j
      PROVE  t[i] # t[j] /\ bucket'[l][t[i]].last <= bucket'[l][t[j]].last
  <2>1. i \in 1..n /\ t[i] = kept[i] /\ kept[i] # k /\ kept[i] \in Keys
    BY <1>3, <1>4, <1>7 DEF Keeps
  <2>2. CASE j = n + 1
    BY <1>2, <1>4, <2>1, <2>2
  <2>3. CASE j \in 1..n
    <3>1. t[j] = kept[j] /\ kept[j] # k /\ kept[j] \in Keys
      BY <1>3, <1>4, <2>3 DEF Keeps
    <3>2. PICK x, y \in DOMAIN s : x < y /\ kept[i] = s[x] /\ kept[j] = s[y]
      BY <1>3, <1>4, <1>7, <2>1, <2>3 DEF Keeps
    <3>3. s[x] # s[y] /\ bucket[l][s[x]].last <= bucket[l][s[y]].last
      BY <3>2 DEF OrderInv, s
    <3> QED BY <1>2, <2>1, <3>1, <3>2, <3>3
  <2> QED BY <1>4, <2>2, <2>3
<1>8. ASSUME NEW m \in Limiters
      PROVE  /\ Len(lru'[m]) <= MaxBuckets
             /\ \A i, j \in DOMAIN lru'[m] : i < j =>
                  /\ lru'[m][i] # lru'[m][j]
                  /\ bucket'[m][lru'[m][i]].last <= bucket'[m][lru'[m][j]].last
  <2>1. CASE m = l
    BY <1>5, <1>6, <1>7, <2>1
  <2>2. CASE m # l
    <3>1. lru'[m] = lru[m] /\ \A i \in DOMAIN lru[m] : lru[m][i] \in Keys
      BY <1>5, <2>2
    <3>2. \A i \in DOMAIN lru[m] : bucket'[m][lru[m][i]] = bucket[m][lru[m][i]]
      BY <1>2, <2>2, <3>1
    <3> QED BY <3>1, <3>2 DEF OrderInv
  <2> QED BY <2>1, <2>2
<1> QED BY <1>5, <1>8 DEF OrderInv

\* Every step keeps the order; time alone touches nothing.
LEMMA StepOrder == StoreInv /\ OrderInv /\ [Next]_vars => OrderInv'
<1> SUFFICES ASSUME StoreInv, OrderInv, [Next]_vars PROVE OrderInv'
  OBVIOUS
<1>1. CASE UNCHANGED <<lru, bucket>>
  BY <1>1 DEF OrderInv
<1> QED BY <1>1, AcquireOrder DEF Next, Tick, Over, vars

\* The two invariants together.
LEMMA OrderInvariant == Spec => [](StoreInv /\ OrderInv)
BY Invariant, InitOrder, StepOrder, PTL DEF Spec

\* A sequence without repetitions has as many elements as it is long.
LEMMA DistinctElements ==
  ASSUME NEW S, NEW s \in Seq(S), \A i, j \in DOMAIN s : i < j => s[i] # s[j]
  PROVE  Cardinality(ToSet(s)) = Len(s)
<1>1. Len(s) \in Nat /\ DOMAIN s = 1..Len(s)
  OBVIOUS
<1>2. s \in [1..Len(s) -> ToSet(s)]
  BY <1>1 DEF ToSet
<1>3. \A i, j \in 1..Len(s) : s[i] = s[j] => i = j
  BY <1>1
<1>4. \A x \in ToSet(s) : \E i \in 1..Len(s) : s[i] = x
  BY <1>1 DEF ToSet
<1>5. s \in Bijection(1..Len(s), ToSet(s))
  BY <1>2, <1>3, <1>4 DEF Bijection, Injection, Surjection, IsInjective
<1> QED BY <1>1, <1>5, FS_CountingElements DEF ExistsBijection

\* Every bucket holds between nothing and the capacity, and there are never more
\* buckets than the cap allows.
THEOREM TypeCorrect == Spec => []TypeOK
<1>1. StoreInv /\ OrderInv => TypeOK
  <2> SUFFICES ASSUME StoreInv, OrderInv PROVE TypeOK
    OBVIOUS
  <2>1. ASSUME NEW l \in Limiters
        PROVE  /\ Len(lru[l]) <= MaxBuckets
               /\ ToSet(lru[l]) \subseteq Keys
               /\ Cardinality(ToSet(lru[l])) = Len(lru[l])
    <3>1. /\ lru[l] \in Seq(Keys) /\ Len(lru[l]) <= MaxBuckets
          /\ \A i, j \in DOMAIN lru[l] : i < j => lru[l][i] # lru[l][j]
      BY DEF OrderInv
    <3>2. Cardinality(ToSet(lru[l])) = Len(lru[l])
      BY <3>1, DistinctElements
    <3> QED BY <3>1, <3>2 DEF ToSet
  <2>2. \A l \in Limiters, k \in Keys : /\ bucket[l][k].tokens \in 0..Capacity
                                        /\ bucket[l][k].last \in 0..now
    BY DEF StoreInv
  <2> QED BY <2>1, <2>2 DEF TypeOK, StoreInv
<1> QED BY <1>1, OrderInvariant, PTL

\* When a call drops buckets, those of the longest unused keys go.
LEMMA DropsOldest ==
  ASSUME StoreInv, OrderInv, [Next]_vars,
         NEW l \in Limiters, NEW k \in Keys, Known(l, k), ~Known(l, k)',
         NEW other \in Keys, Known(l, other), Known(l, other)'
  PROVE  bucket[l][k].last <= bucket[l][other].last
<1>1. PICK j \in Keys : Acquire(l, j)
  <2>1. lru[l] # lru'[l]
    BY DEF Known
  <2>2. PICK m \in Limiters, j \in Keys : Acquire(m, j)
    BY <2>1 DEF Next, Tick, Over, vars
  <2>3. m = l
    BY <2>1, <2>2 DEF Acquire, OrderInv
  <2> QED BY <2>2, <2>3
<1> DEFINE s == lru[l]
<1>2. PICK kept \in Seq(Keys) : Touched(l, j) = Append(kept, j) /\ Keeps(kept, s, j)
  BY TouchedKeeps
<1>3. lru'[l] = Append(kept, j)
  BY <1>1, <1>2 DEF Acquire, OrderInv
<1>4. s \in Seq(Keys) /\ DOMAIN s = 1..Len(s)
  BY DEF OrderInv
<1>5. \A x : Known(l, x) <=> \E i \in DOMAIN s : s[i] = x
  BY DEF Known, ToSet
<1>6. \A x : Known(l, x)' <=> x = j \/ \E i \in DOMAIN kept : kept[i] = x
  <2>1. \A x : Known(l, x)' <=> \E i \in DOMAIN Append(kept, j) : Append(kept, j)[i] = x
    BY <1>3 DEF Known, ToSet
  <2>2. /\ DOMAIN Append(kept, j) = 1..(Len(kept) + 1) /\ DOMAIN kept = 1..Len(kept)
        /\ Len(kept) \in Nat
        /\ \A i \in 1..Len(kept) : Append(kept, j)[i] = kept[i]
        /\ Append(kept, j)[Len(kept) + 1] = j
    BY AppendProperties
  <2> QED BY <2>1, <2>2
<1> HIDE DEF s
<1>7. PICK x \in DOMAIN s : s[x] = k
  BY <1>5
<1>8. k # j /\ \A i \in DOMAIN kept : kept[i] # k
  BY <1>6
<1>9. \A i \in DOMAIN kept : \E y \in DOMAIN s : x < y /\ kept[i] = s[y]
  BY <1>2, <1>7, <1>8 DEF Keeps
<1>10. CASE other = j
  \* A caller that has a bucket already drops none.
  BY <1>2, <1>5, <1>7, <1>8, <1>10 DEF Keeps
<1>11. CASE other # j
  <2>1. PICK y \in DOMAIN s : x < y /\ other = s[y]
    BY <1>6, <1>9, <1>11
  <2> QED BY <1>7, <2>1 DEF OrderInv, s
<1> QED BY <1>10, <1>11

\* A key in use is not the one that is dropped.
THEOREM OldestGoes == Spec => LeastRecentlyUsedGoes
<1>1. StoreInv /\ OrderInv /\ [Next]_vars =>
        [\A l \in Limiters, k \in Keys :
           (Known(l, k) /\ ~Known(l, k)') =>
             \A other \in Keys : Known(l, other) /\ Known(l, other)'
               => bucket[l][k].last <= bucket[l][other].last]_vars
  BY DropsOldest
<1> QED BY <1>1, OrderInvariant, PTL DEF LeastRecentlyUsedGoes, Spec

=============================================================================
