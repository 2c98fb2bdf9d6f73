\* Two drivers of a chain, a host report and a failed child run, all acting
\* on the same rows, under the fairness of a program that runs: each call
\* returns.  (Symmetry is not sound for liveness.)
SPECIFICATION FairSpec
CONSTANTS
  Nodes <- TwoNodes
  Deps <- Chain
  SideEffecting <- NoNodes
  ChildNodes <- SecondNode
  MaxAttempts = 1
  Workers = {w1, w2}
  Hosts = {h1}
  Verifiers = {}
  HostId = host
  None = None
  Operations = {"execute"}
  Results = {"ok"}
  Evidence = {"met"}
INVARIANTS
  OwnedIffRunning
  FinalFieldsAgree
PROPERTIES
  SucceededNodeFixed
  CallsReturn
\* Every call has returned: the run stops.
CHECK_DEADLOCK FALSE
