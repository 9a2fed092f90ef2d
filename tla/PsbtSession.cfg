SPECIFICATION Spec
CONSTANTS
    Keystores = {k1, k2, k3}
    Txids = {tx1, tx2}
    MaxInvalidations = 2
    None = None
    Policies <- MCPolicies
    SigLists <- MCSigLists
INVARIANTS
    TypeOK
    HydrationAccepts
    AuditOrder
    CancelIsFinalBeforeChain
    ChainEventsAlternate
PROPERTY
    ImplementsLifecycle
\* A cancelled session accepts no further command: the stream may end.
CHECK_DEADLOCK FALSE
