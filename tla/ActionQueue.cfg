CONSTANTS
    c1 = c1
    c2 = c2
    p1 = p1
    None = None
    Clients <- MCClients
    Pausers <- MCPausers
    MaxActions = 2
    MaxOps <- MCMaxOps
    AutoResets = {TRUE, FALSE}
SPECIFICATION Spec
CHECK_DEADLOCK FALSE
INVARIANTS CommitMeansApplied QueueExclusive NoDanglingAction WholeRequests
PROPERTIES CallReturns ImplementsAtomicRequests
