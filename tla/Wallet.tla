------------------------------- MODULE Wallet -------------------------------
(***************************************************************************)
(* The Wallet aggregate: an append-only event stream from which status,    *)
(* submissions and descriptor are folded.  As in PsbtSession, commands are *)
(* predicates on a stream, because callers run them on a loaded copy.      *)
(***************************************************************************)
EXTENDS Integers, Sequences, FiniteSets, Functions

CONSTANTS Users,           \* users of the platform
          Keys,            \* keystores: xpubs with origin info
          FingerprintOf,   \* the master fingerprint of each keystore
          KeyOrder,        \* the place of each keystore in the order of string forms
          Registrations,   \* policies submitted for registration
          MaxMultisigKeys, \* keys a wsh(sortedmulti) descriptor may hold
          MaxRemovals,     \* bound: keystores withdrawn from one wallet
          None

ASSUME KeyAssumption == /\ DOMAIN FingerprintOf = Keys
                        /\ KeyOrder \in [Keys -> Nat] /\ IsInjective(KeyOrder)
ASSUME RegistrationAssumption ==
    \A r \in Registrations : /\ r \in [threshold : Nat, participants : Seq(Users)]
ASSUME BoundAssumption == MaxMultisigKeys \in Nat /\ MaxRemovals \in Nat

VARIABLE events            \* the persisted stream; <<>> before registration

vars == <<events>>
-----------------------------------------------------------------------------
(* Events and folds.                                                       *)

\* NewWallet::new: a t-of-n policy over distinct participants.
ValidRegistration(r) ==
    /\ r.participants # <<>>
    /\ r.threshold \in 1..Len(r.participants)
    /\ IsInjective(r.participants)

Policies == {[threshold |-> r.threshold, participants |-> Range(r.participants)] :
                r \in {q \in Registrations : ValidRegistration(q)}}

Registered(r) == [type |-> "Initialized",
                  policy |-> [threshold |-> r.threshold, participants |-> Range(r.participants)]]

Descriptors == [threshold : Nat, keys : Seq(Keys)]

Event == [type : {"Initialized"}, policy : Policies]
         \cup [type : {"KeystoreAdded"}, keystore : Keys, submittedBy : Users]
         \cup [type : {"KeystoreRemoved"}, participant : Users, keystore : Keys]
         \cup [type : {"Activated"}, descriptor : Descriptors]
         \cup [type : {"Cancelled"}]

Policy(es) == es[1].policy

Has(es, type) == \E i \in DOMAIN es : es[i].type = type

\* status(): a fold in which the newest of Activated and Cancelled decides.
Status(es) ==
    LET final == {i \in DOMAIN es : es[i].type \in {"Activated", "Cancelled"}}
    IN  IF final = {} THEN "CollectingKeystores"
        ELSE IF es[CHOOSE i \in final : \A j \in final : j <= i].type = "Activated"
             THEN "Active" ELSE "Cancelled"

\* submissions(): the additions that no later removal took back.
Submissions(es) ==
    {i \in DOMAIN es :
        /\ es[i].type = "KeystoreAdded"
        /\ \A j \in (i + 1)..Len(es) :
              es[j].type = "KeystoreRemoved" => es[j].participant # es[i].submittedBy}

Submitters(es) == {es[i].submittedBy : i \in Submissions(es)}
Keystores(es) == {es[i].keystore : i \in Submissions(es)}

\* The keystore a participant contributes (keystore_fingerprint_of binds the
\* participant's signatures to it).
KeystoreOf(es, u) ==
    es[CHOOSE i \in Submissions(es) : es[i].submittedBy = u].keystore

\* sortedmulti_wsh_descriptor sorts the keys by their string form.
Preceding(keys, k) == {other \in keys : KeyOrder[other] < KeyOrder[k]}
Sorted(keys) == [n \in 1..Cardinality(keys) |->
                    CHOOSE k \in keys : Cardinality(Preceding(keys, k)) = n - 1]

\* Variants with a bug: the keys stay in the order of submission; every key must
\* sign.
DescriptorUnsorted(es) ==
    LET order == SelectSeq([i \in DOMAIN es |-> i], LAMBDA i : i \in Submissions(es))
    IN  [threshold |-> Policy(es).threshold,
         keys |-> [n \in DOMAIN order |-> es[order[n]].keystore]]
DescriptorOfAll(es) ==
    [threshold |-> Cardinality(Policy(es).participants), keys |-> Sorted(Keystores(es))]

DescriptorOf(es) == [threshold |-> Policy(es).threshold, keys |-> Sorted(Keystores(es))]

\* descriptor(): the first activation's.
Active(es) == LET activated == {i \in DOMAIN es : es[i].type = "Activated"}
              IN  es[CHOOSE i \in activated : \A j \in activated : i <= j].descriptor
-----------------------------------------------------------------------------
(* When a command run on stream es records something, and what.            *)

AlreadySubmitted(es, k, u) == u \in Submitters(es) /\ KeystoreOf(es, u) = k

Completes(es) == Cardinality(Submissions(es)) + 1 = Cardinality(Policy(es).participants)

\* Variant with a bug: two keys of one device are accepted.
AcceptsSameDevice(es, k, u) ==
    /\ Status(es) = "CollectingKeystores"
    /\ u \in Policy(es).participants \ Submitters(es)
    /\ Completes(es) => Cardinality(Policy(es).participants) <= MaxMultisigKeys

AcceptsKeystore(es, k, u) ==
    /\ Status(es) = "CollectingKeystores"
    /\ u \in Policy(es).participants
    /\ u \notin Submitters(es)
    /\ \A other \in Keystores(es) : FingerprintOf[other] # FingerprintOf[k]
    /\ Completes(es) => Cardinality(Policy(es).participants) <= MaxMultisigKeys

\* Variant with a bug: the descriptor is derived before the key is added.
WithKeystoreLate(es, k, u) ==
    LET added == Append(es, [type |-> "KeystoreAdded", keystore |-> k, submittedBy |-> u])
    IN  IF Completes(es)
        THEN Append(added, [type |-> "Activated", descriptor |-> DescriptorOf(es)])
        ELSE added

\* add_keystore's events: the completing submission also activates the wallet.
WithKeystore(es, k, u) ==
    LET added == Append(es, [type |-> "KeystoreAdded", keystore |-> k, submittedBy |-> u])
    IN  IF Completes(es)
        THEN Append(added, [type |-> "Activated", descriptor |-> DescriptorOf(added)])
        ELSE added

AcceptsRemoval(es, u) == /\ Status(es) = "CollectingKeystores"
                         /\ u \in Submitters(es)

\* Variants with a bug: the removal does not say which keystore it removed, or
\* names the first one the participant ever submitted.
RemovalOfSomething(es, u) == [type |-> "KeystoreRemoved", participant |-> u]
RemovalOfFirst(es, u) ==
    LET added == {i \in DOMAIN es : es[i].type = "KeystoreAdded" /\ es[i].submittedBy = u}
    IN  [type |-> "KeystoreRemoved", participant |-> u,
         keystore |-> es[CHOOSE i \in added : \A j \in added : i <= j].keystore]

Removal(es, u) ==
    [type |-> "KeystoreRemoved", participant |-> u, keystore |-> KeystoreOf(es, u)]

AcceptsCancel(es) == ~Has(es, "Cancelled") /\ Status(es) = "CollectingKeystores"
-----------------------------------------------------------------------------
Init == events = <<>>

Register(r) ==
    /\ events = <<>>
    /\ ValidRegistration(r)
    /\ events' = <<Registered(r)>>

AddKeystore(k, u) == /\ events # <<>>
                     /\ ~AlreadySubmitted(events, k, u)
                     /\ AcceptsKeystore(events, k, u)
                     /\ events' = WithKeystore(events, k, u)

RemovalsLeft(es) ==
    Cardinality({i \in DOMAIN es : es[i].type = "KeystoreRemoved"}) < MaxRemovals

RemoveKeystore(u) == /\ events # <<>>
                     /\ RemovalsLeft(events)
                     /\ AcceptsRemoval(events, u)
                     /\ events' = Append(events, Removal(events, u))

Cancel == /\ events # <<>>
          /\ AcceptsCancel(events)
          /\ events' = Append(events, [type |-> "Cancelled"])

Next == \/ \E r \in Registrations : Register(r)
        \/ \E k \in Keys, u \in Users : AddKeystore(k, u)
        \/ \E u \in Users : RemoveKeystore(u)
        \/ Cancel

Spec == Init /\ [][Next]_vars
-----------------------------------------------------------------------------
(* Properties.                                                             *)

TypeOK == events \in Seq(Event)

\* Held keystores come from different participants and different devices, and a
\* collecting wallet is never complete: the submission that completes the policy
\* activates the wallet in the same command.
CollectionIsSound ==
    events # <<>> =>
      /\ Submitters(events) \subseteq Policy(events).participants
      /\ \A i, j \in Submissions(events) :
            \/ events[i].submittedBy = events[j].submittedBy
            \/ FingerprintOf[events[i].keystore] = FingerprintOf[events[j].keystore]
            => i = j
      /\ Status(events) = "Active" <=> Submitters(events) = Policy(events).participants

\* The recorded descriptor is that of the keystores the stream folds to, one
\* per participant: every participant of an active wallet can sign, with a key
\* that is in the script, and signatures of two participants never coincide.
DescriptorIsCurrent ==
    Has(events, "Activated") =>
      /\ Active(events) = DescriptorOf(events)
      /\ Cardinality({FingerprintOf[k] : k \in Range(Active(events).keys)})
            = Cardinality(Policy(events).participants)
      /\ Active(events).threshold \in 1..Len(Active(events).keys)

\* Every removal names the keystore its participant had submitted last and not
\* yet withdrawn: the audit trail pairs up.
RemovalsPairUp ==
    \A j \in DOMAIN events : events[j].type = "KeystoreRemoved" =>
      \E i \in 1..(j - 1) :
        /\ events[i].type = "KeystoreAdded"
        /\ events[i].submittedBy = events[j].participant
        /\ events[i].keystore = events[j].keystore
        /\ \A m \in (i + 1)..(j - 1) :
              events[m].type = "KeystoreRemoved" => events[m].participant # events[j].participant

\* The stream, folded, behaves as the wallet's promise.
Collection == INSTANCE KeystoreCollection WITH
    Registrations <- Policies,
    phase <- IF events = <<>> THEN "Unregistered" ELSE Status(events),
    registration <- IF events = <<>> THEN None ELSE Policy(events),
    held <- [u \in Submitters(events) |-> KeystoreOf(events, u)],
    descriptor <- IF ~Has(events, "Activated") THEN None
                  ELSE [Active(events) EXCEPT !.keys = Range(@)]

ImplementsCollection == Collection!Spec
=============================================================================
