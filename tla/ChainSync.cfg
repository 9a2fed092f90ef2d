SPECIFICATION FairSpec
CONSTANTS
    Keystore = k
    Tx = tx
    MaxObservations = 7
    MaxRewinds = 2
    None = None
INVARIANTS
    TypeOK
    ConfirmedIsExact
PROPERTIES
    ChainHasLastWord
    SettledGetsConfirmed
\* The chain may fall silent once the session has caught up.
CHECK_DEADLOCK FALSE
