\* A run held for verification is resumed once the evidence has arrived.
SPECIFICATION Spec
CONSTANTS
  Nodes <- OneNode
  Deps <- Chain
  SideEffecting <- NoNodes
  ChildNodes <- NoNodes
  MaxAttempts = 2
  Workers = {w1, w2}
  Hosts = {}
  Verifiers = {v1}
  HostId = host
  None = None
  Operations = {"execute", "resume"}
  Results = {"ok"}
  Evidence = {"unmet"}
SYMMETRY Symmetry
INVARIANTS
  OneExecutionPerEnding
\* Every call has returned: the run stops.
CHECK_DEADLOCK FALSE
