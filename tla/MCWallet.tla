------------------------------ MODULE MCWallet ------------------------------
(* A small instance of Wallet: registrations that are refused as well as    *)
(* accepted, one user who is no participant, and two keystores from one     *)
(* device.                                                                  *)
EXTENDS Wallet, TLC

CONSTANTS alice, bob, carol, key1, key1b, key2, key3, device1, device2, device3

MCUsers == {alice, bob, carol}
MCKeys == {key1, key1b, key2, key3}
MCFingerprintOf == key1 :> device1 @@ key1b :> device1 @@ key2 :> device2 @@ key3 :> device3
MCKeyOrder == key2 :> 1 @@ key1 :> 2 @@ key3 :> 3 @@ key1b :> 4

MCRegistrations ==
    {[threshold |-> t, participants |-> ps] :
        t \in 0..3, ps \in {<<>>, <<alice>>, <<alice, bob>>, <<bob, bob>>, <<alice, bob, carol>>}}
=============================================================================
