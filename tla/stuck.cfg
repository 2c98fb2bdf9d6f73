\* A worker dies on the last attempt a node has: the call that re-arms the
\* node never returns.
SPECIFICATION FairSpec
CONSTANTS
  Nodes <- OneNode
  Deps <- Chain
  SideEffecting <- NoNodes
  ChildNodes <- NoNodes
  MaxAttempts = 1
  Workers = {w1, w2}
  Hosts = {}
  Verifiers = {}
  HostId = host
  None = None
  Operations = {"execute", "resume"}
  Results = {"lost"}
  Evidence = {"met"}
PROPERTIES
  EveryCallReturns
\* Every call has returned: the run stops.
CHECK_DEADLOCK FALSE
