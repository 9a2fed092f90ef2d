------------------------- MODULE KeystoreCollection -------------------------
(***************************************************************************)
(* What a wallet promises, without its event stream: participants hold at  *)
(* most one keystore each, from different devices, and may take it back;   *)
(* the keystore that completes the policy activates the wallet at once,    *)
(* and from then on nothing changes.  Wallet is shown to implement it.     *)
(***************************************************************************)
EXTENDS Integers, FiniteSets

CONSTANTS Registrations,  \* [threshold, participants] a wallet may be registered with
          Keys,           \* keystores: xpubs with origin info
          FingerprintOf,  \* the master fingerprint of each keystore
          None            \* no registration, no descriptor

VARIABLES phase,          \* what Wallet::status() reports
          registration,
          held,           \* the keystore each participant currently contributes
          descriptor      \* the descriptor of the active wallet

vars == <<phase, registration, held, descriptor>>

Init == /\ phase = "Unregistered"
        /\ registration = None
        /\ held = [u \in {} |-> None]
        /\ descriptor = None

Register(r) == /\ phase = "Unregistered"
               /\ phase' = "CollectingKeystores"
               /\ registration' = r
               /\ UNCHANGED <<held, descriptor>>

Contribute(u, k) ==
    /\ phase = "CollectingKeystores"
    /\ u \in registration.participants \ DOMAIN held
    /\ \A v \in DOMAIN held : FingerprintOf[held[v]] # FingerprintOf[k]
    /\ held' = [v \in DOMAIN held \cup {u} |-> IF v = u THEN k ELSE held[v]]
    /\ \/ /\ DOMAIN held' # registration.participants
          /\ UNCHANGED <<phase, descriptor>>
       \/ /\ DOMAIN held' = registration.participants
          /\ phase' = "Active"
          /\ descriptor' = [threshold |-> registration.threshold,
                            keys |-> {held'[v] : v \in DOMAIN held'}]
    /\ UNCHANGED registration

TakeBack(u) == /\ phase = "CollectingKeystores"
               /\ u \in DOMAIN held
               /\ held' = [v \in DOMAIN held \ {u} |-> held[v]]
               /\ UNCHANGED <<phase, registration, descriptor>>

Abandon == /\ phase = "CollectingKeystores"
           /\ phase' = "Cancelled"
           /\ UNCHANGED <<registration, held, descriptor>>

Next == \/ \E r \in Registrations : Register(r)
        \/ \E u \in DOMAIN held : TakeBack(u)
        \/ \E k \in Keys : \E r \in Registrations : \E u \in r.participants : Contribute(u, k)
        \/ Abandon

Spec == Init /\ [][Next]_vars
=============================================================================
