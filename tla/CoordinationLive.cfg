SPECIFICATION FairSpec
CONSTANTS
    Keystores = {k1, k2}
    Calls = {c1, c2}
    CallKinds = {"upload", "cancel"}
    Workers = {w1, w2}
    Creation = creation
    Tx = tx
    Inputs = {i1}
    Nonces = {n1}
    MaxFaults = 1
    None = None
    Policies <- MCWalletPolicies
    SigLists <- MCSigLists
PROPERTIES
    PsbtGetsBuilt
    QuorumGetsFinalized
\* A session may rest: clients promise no further call.
CHECK_DEADLOCK FALSE
