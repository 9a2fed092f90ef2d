SPECIFICATION Spec
CONSTANTS
    alice = alice
    bob = bob
    carol = carol
    key1 = key1
    key1b = key1b
    key2 = key2
    key3 = key3
    device1 = device1
    device2 = device2
    device3 = device3
    Users <- MCUsers
    Keys <- MCKeys
    FingerprintOf <- MCFingerprintOf
    KeyOrder <- MCKeyOrder
    Registrations <- MCRegistrations
    MaxMultisigKeys = 2
    MaxRemovals = 2
    None = None
INVARIANTS
    TypeOK
    CollectionIsSound
    DescriptorIsCurrent
    RemovalsPairUp
PROPERTY
    ImplementsCollection
\* Active and Cancelled wallets accept no further command.
CHECK_DEADLOCK FALSE
