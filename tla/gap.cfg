\* A drainer reads the Procedure; the second write commits before the batch
\* does, and its trigger leaves the job to the entry that is about to go.
SPECIFICATION Spec
CONSTANTS
  procedure = procedure
  goal = goal
  Objects = {procedure, goal}
  Remote = {goal}
  OnSearch = {procedure}
  Writers = {t1, t2}
  Drainers = {d1}
  Batch = 2
  None = None
  MaxAttempts = 2
  MaxWrites <- ProcedureTwice
  MaxCrashes = 0
  MaxRepairs = 0
INVARIANT
  NoSilentGap
CHECK_DEADLOCK FALSE
