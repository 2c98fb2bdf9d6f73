\* Two calls, resume or retry_node, of one run whose second node has side
\* effects and whose verification may arrive: leases run out, workers crash,
\* failures are retried and forced, in every order.  A forced retry grants the
\* second attempt.
SPECIFICATION Spec
CONSTANTS
  Nodes <- TwoNodes
  Deps <- Chain
  SideEffecting <- SecondNode
  ChildNodes <- SecondNode
  MaxAttempts = 1
  Workers = {w1, w2}
  Hosts = {}
  Verifiers = {}
  HostId = host
  None = None
  Operations = {"resume", "retry", "force"}
  Results = {"ok", "retryable", "lost"}
  Evidence = {"met"}
SYMMETRY Symmetry
INVARIANTS
  TypeOK
  OwnedIffRunning
  ClaimHolderExecutes
  DependenciesFirst
  OneDriver
  RetryBounded
  FinalFieldsAgree
  SuccessMeansAllDone
  EpisodeFollowsRun
PROPERTIES
  SucceededNodeFixed
  ImplementsLifecycle
\* Every call has returned: the run stops.
CHECK_DEADLOCK FALSE
