\* A side-effecting node crashes, a resume parks it, the next resume comes.
SPECIFICATION Spec
CONSTANTS
  Nodes <- OneNode
  Deps <- Chain
  SideEffecting <- OneNode
  ChildNodes <- NoNodes
  MaxAttempts = 2
  Workers = {w1, w2, w3}
  Hosts = {}
  Verifiers = {}
  HostId = host
  None = None
  Operations = {"execute", "resume"}
  Results = {"ok", "lost"}
  Evidence = {"met"}
SYMMETRY Symmetry
INVARIANTS
  ParkedAwaitsDecision
\* Every call has returned: the run stops.
CHECK_DEADLOCK FALSE
