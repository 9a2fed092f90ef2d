SPECIFICATION Spec
CONSTANTS
    Keystores = {k1}
    Calls = {c1, c2, c3, c4}
    CallKinds = {"upload", "cancel", "BroadcastSeen", "Confirmed", "Invalidated"}
    Workers = {w1}
    Creation = creation
    Tx = tx
    Inputs = {i1}
    Nonces = {n1}
    MaxFaults = 0
    None = None
    Policies <- MCPolicies
    SigLists <- MCSigLists
SYMMETRY MCSymmetry
INVARIANT
    AcknowledgedIsRecorded
PROPERTY
    ImplementsSession
\* A session may rest: clients promise no further call.
CHECK_DEADLOCK FALSE
