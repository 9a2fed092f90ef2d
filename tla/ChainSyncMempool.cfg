SPECIFICATION Spec
CONSTANTS
    Keystore = k
    Tx = tx
    MaxObservations = 5
    MaxRewinds = 0
    None = None
INVARIANT
    MempoolIsReported
\* The chain may fall silent once the session has caught up.
CHECK_DEADLOCK FALSE
