SPECIFICATION Spec
CONSTANTS
    Wallets = {w1, w2}
    Users = {alice, bob}
    key1 = key1
    key2 = key2
    Keys <- MCKeys
    KeyOrder <- MCKeyOrder
    Calls = {c1, c2}
    CallKinds = {"submit", "remove", "cancel", "propose"}
    FingerprintOf <- MCFingerprintOf
    Registrations <- MCRegistrations
    MaxMultisigKeys = 2
    MaxRemovals = 1
    None = None
SYMMETRY MCSymmetry
INVARIANTS
    TypeOK
    OneWalletPerPolicy
    ProposalsFitTheirWallet
PROPERTY
    AnswerMatchesImport
    ImplementsWallets
\* Clients promise no further call.
CHECK_DEADLOCK FALSE
