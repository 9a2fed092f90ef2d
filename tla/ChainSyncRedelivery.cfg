SPECIFICATION Spec
CONSTANTS
    Keystore = k
    Tx = tx
    MaxObservations = 4
    MaxRewinds = 1
    None = None
PROPERTY
    RedeliveryIsNoOp
\* The chain may fall silent once the session has caught up.
CHECK_DEADLOCK FALSE
