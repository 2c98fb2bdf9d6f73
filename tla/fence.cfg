\* A lane of worker w1 is cut off while it runs the job; the job fails under
\* another lane of w1 and an operator retries it.
SPECIFICATION Spec
CONSTANTS
  w1 = w1
  w2 = w2
  a1 = a1
  a2 = a2
  b1 = b1
  Jobs = {j1}
  Workers = {w1, w2}
  Lanes = {a1, a2, b1}
  WorkerOf <- TwoAndOne
  Legacy = {}
  Nobody = Nobody
  MaxAttempts = 3
  MaxReleases = 0
  MaxRetries = 1
INVARIANTS
  FenceIsExclusive
