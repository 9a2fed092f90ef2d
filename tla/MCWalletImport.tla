--------------------------- MODULE MCWalletImport ---------------------------
(* A small instance of WalletImport: wallets of the same participants, who  *)
(* may want the same keys under the same threshold or under another one.    *)
EXTENDS WalletImport, TLC

CONSTANTS key1, key2

MCKeys == {key1, key2}

MCRegistrations ==
    {[threshold |-> t, participants |-> ps] :
        t \in 1..2, ps \in {q \in [1..Cardinality(Users) -> Users] : IsInjective(q)}}

\* Every keystore from a device of its own.
MCFingerprintOf == [k \in Keys |-> k]

MCKeyOrder == key1 :> 1 @@ key2 :> 2

MCSymmetry == Permutations(Users)
              \cup Permutations(Wallets) \cup Permutations(Calls)
=============================================================================
