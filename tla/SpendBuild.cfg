SPECIFICATION FairSpec
CONSTANTS
    o1 = o1
    o2 = o2
    o3 = o3
    small = small
    large = large
    foreign = foreign
    Outpoints <- MCOutpoints
    Addresses <- MCAddresses
    Local <- MCLocal
    DustOf <- MCDustOf
    ChangeDust = 1
    Change = change
    MaxAmount = 7
    MaxFee = 2
    MaxInputs = 2
    MaxOutputs = 2
    Specs <- MCSpecs
    Chains <- MCChains
    None = None
INVARIANTS
    TypeOK
    TransactionIsSound
    GivenUpIsHopeless
PROPERTY
    BuildableGetsBuilt
\* Nothing follows a built or given-up spend.
CHECK_DEADLOCK FALSE
