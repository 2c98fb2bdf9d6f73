\* A Procedure on K000, projected into the search database, and a Goal on a
\* remote shard, projected into control: a writer and two drainers of batches,
\* which fail and die; an operator retries or reindexes.
SPECIFICATION FairSpec
CONSTANTS
  procedure = procedure
  goal = goal
  Objects = {procedure, goal}
  Remote = {goal}
  OnSearch = {procedure}
  Writers = {t1}
  Drainers = {d1, d2}
  Batch = 2
  None = None
  MaxAttempts = 2
  MaxWrites <- GoalTwice
  MaxCrashes = 1
  MaxRepairs = 1
INVARIANTS
  TypeOK
  GapsExcused
PROPERTIES
  Converges
  ViewSpec
\* When all writes are projected the system may rest.
CHECK_DEADLOCK FALSE
