SPECIFICATION Spec
CONSTANTS
    Keystores = {k1, k2}
    Calls = {c1, c2, c3}
    Workers = {w1, w2}
    Creation = creation
    Tx = tx
    Inputs = {i1}
    Nonces = {n1}
    MaxFaults = 1
    CallKinds = {"upload"}
    None = None
    Policies <- MCPolicies
    SigLists <- MCSigLists
SYMMETRY MCSymmetry
INVARIANTS
    TypeOK
    ReferencedBlobsStored
    PendingHasJob
    QuorumHasJob
    UsableQuorumFinalizes
    AuthorityIsExact
PROPERTY
    ImplementsSession
\* A session may rest: clients promise no further call.
CHECK_DEADLOCK FALSE
