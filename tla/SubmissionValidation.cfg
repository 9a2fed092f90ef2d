SPECIFICATION Spec
CONSTANTS
    k1 = k1
    k2 = k2
    Keystores <- MCKeystores
    Stranger = stranger
    NumInputs = 2
    Thresholds = {1, 2}
    Uploads <- MCUploads
    Corruptions <- MCCorruptions
    MaxBlobs = 3
    MaxFaults = 1
    None = None
INVARIANTS
    TypeOK
    ValidatesExactly
    RecordedStandAlone
    UsableQuorumFinalizes
    FinalizedIsAuthorised
\* A finalized session needs nothing more.
CHECK_DEADLOCK FALSE
