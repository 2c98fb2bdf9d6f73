\* One job, a worker with two lanes, a worker with one, and the legacy loop:
\* crashes, expired leases, hand-backs, requeues and retries in every order.
SPECIFICATION FairSpec
CONSTANTS
  w1 = w1
  w2 = w2
  a1 = a1
  a2 = a2
  b1 = b1
  Jobs = {j1}
  Workers = {w1, w2}
  Lanes = {a1, a2, b1}
  WorkerOf <- TwoAndOne
  Legacy = {g1}
  Nobody = Nobody
  MaxAttempts = 3
  MaxReleases = 2
  MaxRetries = 2
INVARIANTS
  TypeOK
  FencedUnlessReused
  CrashLoopEnds
PROPERTIES
  SettledUnlessUnfenced
  EveryJobSettles
\* Workers restart for ever: no deadlock is expected.
