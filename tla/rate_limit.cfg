\* Three keys share two buckets: rates, retry times, and which bucket is dropped.
CONSTANTS
  k1 = k1
  k2 = k2
  k3 = k3
  Limiters = {send}
  Keys = {k1, k2, k3}
  Calls = 2
  Period = 3
  MaxBuckets = 2
  MaxTime = 5
  MaxCalls = 3
SYMMETRY KeySymmetry
SPECIFICATION Spec
INVARIANTS
  TypeOK
  RateIsKept
  RetryAfterSuffices
PROPERTIES
  LeastRecentlyUsedGoes
