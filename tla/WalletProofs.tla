----------------------------- MODULE WalletProofs -----------------------------
(***************************************************************************)
(* Machine-checked proofs about Wallet, for every set of users, keystores  *)
(* and registrations: its type invariant, the safety properties the runs   *)
(* check, and that it implements KeystoreCollection.                       *)
(***************************************************************************)
EXTENDS Wallet, TLAPS, FiniteSetTheorems, SequenceTheorems

-----------------------------------------------------------------------------
(* Policies, and the keys of a descriptor.                                 *)

\* NewWallet::new accepts a policy only if that many of its distinct
\* participants can sign.
LEMMA PolicyIsSatisfiable ==
  ASSUME NEW p \in Policies
  PROVE  /\ p.participants \subseteq Users
         /\ IsFiniteSet(p.participants)
         /\ Cardinality(p.participants) \in Nat
         /\ p.threshold \in Nat
         /\ p.threshold \in 1..Cardinality(p.participants)
         /\ p = [threshold |-> p.threshold, participants |-> p.participants]
<1>1. PICK r \in Registrations :
         /\ ValidRegistration(r)
         /\ p = [threshold |-> r.threshold, participants |-> Range(r.participants)]
  BY DEF Policies
<1>2. r.threshold \in Nat /\ r.participants \in Seq(Users)
  BY RegistrationAssumption
<1> DEFINE who == r.participants
           n == Len(who)
<1>3. n \in Nat /\ who \in [1..n -> Users] /\ DOMAIN who = 1..n
  BY <1>2
<1>4. Range(who) \subseteq Users
  BY <1>3 DEF Range
<1>5. IsFiniteSet(1..n) /\ Cardinality(1..n) = n
  BY <1>3, FS_Interval
<1>6. who \in Surjection(1..n, Range(who))
  BY <1>3 DEF Surjection, Range
<1>7. who \in Injection(1..n, Range(who))
  BY <1>1, <1>3, <1>6 DEF ValidRegistration, IsInjective, Injection, Surjection
<1>8. IsFiniteSet(Range(who)) /\ Cardinality(Range(who)) = n
  BY <1>5, <1>6, <1>7, FS_Surjection
<1>9. QED
  BY <1>1, <1>2, <1>3, <1>4, <1>8 DEF ValidRegistration

\* Sorting lists every key exactly once.
LEMMA SortedListsAll ==
  ASSUME NEW keys \in SUBSET Keys, IsFiniteSet(keys)
  PROVE  /\ Sorted(keys) \in Seq(keys)
         /\ Len(Sorted(keys)) = Cardinality(keys)
         /\ Range(Sorted(keys)) = keys
<1> DEFINE N == Cardinality(keys)
           Place == [k \in keys |-> Cardinality(Preceding(keys, k)) + 1]
<1>1. N \in Nat
  BY FS_CardinalityType
<1>2. ASSUME NEW k \in keys
      PROVE  /\ Preceding(keys, k) \in SUBSET keys
             /\ k \notin Preceding(keys, k)
             /\ IsFiniteSet(Preceding(keys, k))
             /\ Cardinality(Preceding(keys, k)) \in Nat
             /\ Cardinality(Preceding(keys, k)) < N
  <2>1. Preceding(keys, k) \in SUBSET keys /\ k \notin Preceding(keys, k)
    BY KeyAssumption DEF Preceding
  <2>2. /\ IsFiniteSet(Preceding(keys, k))
        /\ Cardinality(Preceding(keys, k)) <= N
        /\ N = Cardinality(Preceding(keys, k)) => keys = Preceding(keys, k)
    BY <2>1, FS_Subset
  <2>3. Cardinality(Preceding(keys, k)) \in Nat
    BY <2>2, FS_CardinalityType
  <2>4. QED
    BY <1>1, <2>1, <2>2, <2>3
<1>3. ASSUME NEW j \in keys, NEW k \in keys, KeyOrder[j] < KeyOrder[k]
      PROVE  Cardinality(Preceding(keys, j)) < Cardinality(Preceding(keys, k))
  <2>1. /\ Preceding(keys, j) \in SUBSET Preceding(keys, k)
        /\ j \in Preceding(keys, k)
    BY <1>3, KeyAssumption DEF Preceding
  <2>2. /\ Cardinality(Preceding(keys, j)) <= Cardinality(Preceding(keys, k))
        /\ Cardinality(Preceding(keys, k)) = Cardinality(Preceding(keys, j))
              => Preceding(keys, k) = Preceding(keys, j)
    BY <1>2, <2>1, FS_Subset
  <2>3. QED
    BY <1>2, <2>1, <2>2
<1>4. Place \in [keys -> 1..N]
  BY <1>1, <1>2
<1>5. ASSUME NEW j \in keys, NEW k \in keys, Place[j] = Place[k]
      PROVE  j = k
  <2>1. Cardinality(Preceding(keys, j)) = Cardinality(Preceding(keys, k))
    BY <1>2, <1>5
  <2>2. KeyOrder[j] = KeyOrder[k]
    BY <1>2, <1>3, <2>1, KeyAssumption
  <2>3. QED
    BY <2>2, KeyAssumption DEF IsInjective
<1>6. Place \in Injection(keys, 1..N)
  BY <1>4, <1>5 DEF Injection, IsInjective
<1>7. IsFiniteSet(1..N) /\ Cardinality(1..N) = N
  BY <1>1, FS_Interval
<1>8. Place \in Surjection(keys, 1..N)
  BY <1>6, <1>7, FS_Injection
<1>9. \A n \in 1..N : \E k \in keys : Cardinality(Preceding(keys, k)) = n - 1
  <2> TAKE n \in 1..N
  <2>1. PICK k \in keys : Place[k] = n
    BY <1>8 DEF Surjection
  <2>2. QED
    BY <1>1, <1>2, <2>1
<1>10. /\ DOMAIN Sorted(keys) = 1..N
       /\ \A n \in 1..N : /\ Sorted(keys)[n] \in keys
                          /\ Cardinality(Preceding(keys, Sorted(keys)[n])) = n - 1
  BY <1>9 DEF Sorted
<1>11. Sorted(keys) \in [1..N -> keys]
  BY <1>10 DEF Sorted
<1>12. keys \subseteq Range(Sorted(keys))
  <2> SUFFICES ASSUME NEW k \in keys PROVE k \in Range(Sorted(keys))
    OBVIOUS
  <2>1. Place[k] \in 1..N
    BY <1>4
  <2>2. Sorted(keys)[Place[k]] \in keys /\ Place[Sorted(keys)[Place[k]]] = Place[k]
    BY <1>1, <1>2, <1>10, <2>1
  <2>3. QED
    BY <1>5, <1>10, <2>1, <2>2 DEF Range
<1>13. QED
  BY <1>1, <1>10, <1>11, <1>12 DEF Range
-----------------------------------------------------------------------------
(* How a recorded event changes what is folded from the stream.            *)

Added(k, u) == [type |-> "KeystoreAdded", keystore |-> k, submittedBy |-> u]
FinalTypes == {"Activated", "Cancelled"}

\* The fields of an event follow from its type.
LEMMA EventFields ==
  ASSUME NEW e \in Event
  PROVE  /\ e.type \in {"Initialized", "KeystoreAdded", "KeystoreRemoved"} \cup FinalTypes
         /\ e.type = "Initialized" => e.policy \in Policies
         /\ e.type = "KeystoreAdded" => e.keystore \in Keys /\ e.submittedBy \in Users
         /\ e.type = "KeystoreRemoved" => e.keystore \in Keys /\ e.participant \in Users
         /\ e.type = "Activated" => e.descriptor \in Descriptors
  BY DEF Event, FinalTypes

\* Recording leaves the recorded prefix alone and adds one event at the end.
LEMMA Appended ==
  ASSUME NEW es \in Seq(Event), NEW e \in Event
  PROVE  /\ Append(es, e) \in Seq(Event)
         /\ Append(es, e) # <<>>
         /\ Len(es) \in Nat
         /\ Len(Append(es, e)) = Len(es) + 1
         /\ DOMAIN es = 1..Len(es)
         /\ DOMAIN Append(es, e) = 1..(Len(es) + 1)
         /\ \A i \in 1..Len(es) : Append(es, e)[i] = es[i]
         /\ Append(es, e)[Len(es) + 1] = e
  OBVIOUS

\* The submissions held after an event: an addition adds one, a removal takes
\* its participant's back, any other event changes none.
LEMMA SubmissionsOfAppend ==
  ASSUME NEW es \in Seq(Event), NEW e \in Event
  PROVE  /\ e.type = "KeystoreAdded" =>
              Submissions(Append(es, e)) = Submissions(es) \cup {Len(es) + 1}
         /\ e.type = "KeystoreRemoved" =>
              Submissions(Append(es, e)) =
                 {i \in Submissions(es) : es[i].submittedBy # e.participant}
         /\ e.type \notin {"KeystoreAdded", "KeystoreRemoved"} =>
              Submissions(Append(es, e)) = Submissions(es)
<1> DEFINE new == Append(es, e)
           n == Len(es)
           Kept(i) == \A j \in (i + 1)..n :
                         es[j].type = "KeystoreRemoved" => es[j].participant # es[i].submittedBy
           KeptNow(i) == \A j \in (i + 1)..(n + 1) :
                         new[j].type = "KeystoreRemoved" => new[j].participant # new[i].submittedBy
<1>1. /\ n \in Nat /\ Len(new) = n + 1
      /\ DOMAIN es = 1..n /\ DOMAIN new = 1..(n + 1)
      /\ \A i \in 1..n : new[i] = es[i]
      /\ new[n + 1] = e
  BY Appended
<1>2. Submissions(es) = {i \in 1..n : es[i].type = "KeystoreAdded" /\ Kept(i)}
  BY <1>1 DEF Submissions
<1>3. Submissions(new) = {i \in 1..(n + 1) : new[i].type = "KeystoreAdded" /\ KeptNow(i)}
  BY <1>1 DEF Submissions
<1> HIDE DEF new, n
<1>4. ASSUME NEW i \in 1..n
      PROVE  KeptNow(i) <=> /\ Kept(i)
                            /\ e.type = "KeystoreRemoved" => e.participant # es[i].submittedBy
  <2>1. (i + 1)..(n + 1) = ((i + 1)..n) \cup {n + 1}
    BY <1>1
  <2>2. \A j \in (i + 1)..n : j \in 1..n
    BY <1>1
  <2>3. QED
    BY <1>1, <2>1, <2>2
<1>5. KeptNow(n + 1)
  BY <1>1
<1> HIDE DEF Kept, KeptNow
<1>6. Submissions(new) =
        {i \in 1..n : es[i].type = "KeystoreAdded" /\ KeptNow(i)}
        \cup {i \in {n + 1} : e.type = "KeystoreAdded"}
  BY <1>1, <1>3, <1>5
<1>7. QED
  BY <1>2, <1>4, <1>6 DEF new, n

\* A held submission is an addition recorded in the stream.
LEMMA SubmissionIsRecorded ==
  ASSUME NEW es \in Seq(Event), NEW i \in Submissions(es)
  PROVE  /\ i \in 1..Len(es)
         /\ i \in DOMAIN es
         /\ es[i].type = "KeystoreAdded"
         /\ es[i].keystore \in Keys
         /\ es[i].submittedBy \in Users
<1>1. i \in DOMAIN es /\ DOMAIN es = 1..Len(es) /\ es[i].type = "KeystoreAdded"
  BY DEF Submissions
<1>2. es[i] \in Event
  BY <1>1
<1>3. QED
  BY <1>1, <1>2, EventFields

\* An event's type is on the stream if it was or is the recorded event's.
LEMMA HasOfAppend ==
  ASSUME NEW es \in Seq(Event), NEW e \in Event, NEW type
  PROVE  Has(Append(es, e), type) <=> Has(es, type) \/ e.type = type
  BY Appended DEF Has
-----------------------------------------------------------------------------
(* The strengthening: how every recorded stream is built.                  *)

\* A stream opens with its only registration and ends at its only activation or
\* cancellation, if it has one.
StreamShape(es) ==
    /\ \A i \in DOMAIN es : es[i].type = "Initialized" <=> i = 1
    /\ \A i \in DOMAIN es : es[i].type \in FinalTypes => i = Len(es)

\* No two held keystores share a participant or a device.
HeldApart(es) ==
    \A i, j \in Submissions(es) :
       \/ es[i].submittedBy = es[j].submittedBy
       \/ FingerprintOf[es[i].keystore] = FingerprintOf[es[j].keystore]
       => i = j

HeldSoundly(es) == /\ Submitters(es) \subseteq Policy(es).participants
                   /\ HeldApart(es)

\* The recorded descriptor is that of the keystores held.
DescriptorFits(es) ==
    /\ Active(es) = DescriptorOf(es)
    /\ Cardinality({FingerprintOf[k] : k \in Range(Active(es).keys)})
          = Cardinality(Policy(es).participants)
    /\ Active(es).threshold \in 1..Len(Active(es).keys)

\* Every removal recorded in es names a submission that was held at the time.
PairedUp(es) ==
    \A j \in DOMAIN es : es[j].type = "KeystoreRemoved" =>
      \E i \in 1..(j - 1) :
        /\ es[i].type = "KeystoreAdded"
        /\ es[i].submittedBy = es[j].participant
        /\ es[i].keystore = es[j].keystore
        /\ \A m \in (i + 1)..(j - 1) :
              es[m].type = "KeystoreRemoved" => es[m].participant # es[j].participant

\* What commands, run one after the other, keep true of a stream: the checked
\* invariants, and the shape that makes status() the type of the last event.
Sound(es) ==
    /\ es \in Seq(Event)
    /\ StreamShape(es)
    /\ es # <<>> => /\ HeldSoundly(es)
                    /\ Status(es) = "Active" <=> Submitters(es) = Policy(es).participants
    /\ Has(es, "Activated") => DescriptorFits(es)
    /\ PairedUp(es)

IInv == Sound(events)

\* On a stream of that shape, status() is told by the last event.
LEMMA StatusIsLast ==
  ASSUME NEW es \in Seq(Event), es # <<>>, StreamShape(es)
  PROVE  /\ Len(es) \in DOMAIN es
         /\ Status(es) = "Active" <=> es[Len(es)].type = "Activated"
         /\ Status(es) = "Cancelled" <=> es[Len(es)].type = "Cancelled"
         /\ Status(es) = "CollectingKeystores" <=> es[Len(es)].type \notin FinalTypes
         /\ Status(es) \in {"CollectingKeystores", "Active", "Cancelled"}
         /\ \A type \in FinalTypes : Has(es, type) <=> es[Len(es)].type = type
<1>1. Len(es) \in DOMAIN es /\ Len(es) \in Nat
  OBVIOUS
<1> DEFINE final == {i \in DOMAIN es : es[i].type \in FinalTypes}
<1>2. \A i \in final : i = Len(es)
  BY DEF StreamShape
<1>3. final # {} => /\ (CHOOSE i \in final : \A j \in final : j <= i) = Len(es)
                    /\ Len(es) \in final
  BY <1>1, <1>2
<1>4. final = {} <=> es[Len(es)].type \notin FinalTypes
  BY <1>1, <1>2
<1>5. Status(es) = IF final = {} THEN "CollectingKeystores"
                   ELSE IF es[CHOOSE i \in final : \A j \in final : j <= i].type = "Activated"
                        THEN "Active" ELSE "Cancelled"
  BY DEF Status, FinalTypes
<1>6. \A type \in FinalTypes : Has(es, type) <=> es[Len(es)].type = type
  BY <1>1, <1>2 DEF Has
<1> HIDE DEF final
<1>7. QED
  BY <1>1, <1>3, <1>4, <1>5, <1>6 DEF FinalTypes

\* An event keeps the shape if no final event precedes it and it is no second
\* registration.
LEMMA ShapeOfAppend ==
  ASSUME NEW es \in Seq(Event), NEW e \in Event, es # <<>>, StreamShape(es),
         Status(es) = "CollectingKeystores", e.type # "Initialized"
  PROVE  /\ StreamShape(Append(es, e))
         /\ Policy(Append(es, e)) = Policy(es)
         /\ e.type \notin FinalTypes => Status(Append(es, e)) = "CollectingKeystores"
         /\ e.type = "Activated" => Status(Append(es, e)) = "Active"
         /\ e.type = "Cancelled" => Status(Append(es, e)) = "Cancelled"
<1> DEFINE new == Append(es, e)
           n == Len(es)
<1>1. /\ n \in Nat /\ Len(new) = n + 1 /\ n > 0
      /\ DOMAIN es = 1..n /\ DOMAIN new = 1..(n + 1)
      /\ \A i \in 1..n : new[i] = es[i]
      /\ new[n + 1] = e /\ new \in Seq(Event) /\ new # <<>>
  BY Appended
<1>2. \A i \in 1..n : es[i].type \notin FinalTypes
  BY <1>1, StatusIsLast DEF StreamShape
<1> HIDE DEF new
<1>3. StreamShape(new)
  BY <1>1, <1>2 DEF StreamShape
<1>4. Policy(new) = Policy(es)
  BY <1>1 DEF Policy
<1>5. QED
  BY <1>1, <1>3, <1>4, StatusIsLast, EventFields DEF new

\* A wallet's policy is the registered one.
LEMMA PolicyIsRegistered ==
  ASSUME NEW es \in Seq(Event), es # <<>>, StreamShape(es)
  PROVE  Policy(es) \in Policies
<1>1. 1 \in DOMAIN es /\ es[1] \in Event
  OBVIOUS
<1>2. QED
  BY <1>1, EventFields DEF StreamShape, Policy

\* Held apart, there are as many participants, keystores and devices as there
\* are submissions held.
LEMMA HeldApartCounts ==
  ASSUME NEW es \in Seq(Event), HeldApart(es)
  PROVE  /\ IsFiniteSet(Submissions(es))
         /\ Cardinality(Submissions(es)) \in Nat
         /\ IsFiniteSet(Submitters(es))
         /\ Cardinality(Submitters(es)) = Cardinality(Submissions(es))
         /\ IsFiniteSet(Keystores(es)) /\ Keystores(es) \subseteq Keys
         /\ Cardinality(Keystores(es)) = Cardinality(Submissions(es))
         /\ Cardinality({FingerprintOf[k] : k \in Keystores(es)}) = Cardinality(Submissions(es))
<1> DEFINE S == Submissions(es)
           who == [i \in S |-> es[i].submittedBy]
           key == [i \in S |-> es[i].keystore]
           device == [i \in S |-> FingerprintOf[es[i].keystore]]
<1>1. S \subseteq 1..Len(es) /\ Len(es) \in Nat
  BY SubmissionIsRecorded
<1>2. IsFiniteSet(S) /\ Cardinality(S) \in Nat
  <2>1. IsFiniteSet(1..Len(es))
    BY <1>1, FS_Interval
  <2>2. IsFiniteSet(S)
    BY <1>1, <2>1, FS_Subset
  <2>3. QED
    BY <2>2, FS_CardinalityType
<1>3. who \in Bijection(S, Submitters(es))
  BY DEF HeldApart, Submitters, Bijection, Injection, Surjection, IsInjective
<1>4. key \in Bijection(S, Keystores(es))
  BY DEF HeldApart, Keystores, Bijection, Injection, Surjection, IsInjective
<1>5. device \in Bijection(S, {FingerprintOf[k] : k \in Keystores(es)})
  BY DEF HeldApart, Keystores, Bijection, Injection, Surjection, IsInjective
<1>6. Keystores(es) \subseteq Keys
  BY SubmissionIsRecorded DEF Keystores
<1>7. QED
  BY <1>2, <1>3, <1>4, <1>5, <1>6, FS_Bijection DEF ExistsBijection

\* The keystore of a participant is that of the one submission held.
LEMMA KeystoreOfHeld ==
  ASSUME NEW es \in Seq(Event), HeldApart(es), NEW i \in Submissions(es)
  PROVE  KeystoreOf(es, es[i].submittedBy) = es[i].keystore
<1> DEFINE P(j) == es[j].submittedBy = es[i].submittedBy
<1>1. \E j \in Submissions(es) : P(j)
  OBVIOUS
<1>2. (CHOOSE j \in Submissions(es) : P(j)) \in Submissions(es)
      /\ P(CHOOSE j \in Submissions(es) : P(j))
  BY <1>1
<1>3. (CHOOSE j \in Submissions(es) : P(j)) = i
  BY <1>2 DEF HeldApart
<1>4. QED
  BY <1>3 DEF KeystoreOf

\* add_keystore: the accepted keystore is held beside the others, and completes
\* the policy exactly when the command says so.
LEMMA AdditionIsHeld ==
  ASSUME NEW es \in Seq(Event), es # <<>>, StreamShape(es), HeldSoundly(es),
         NEW k \in Keys, NEW u \in Users, AcceptsKeystore(es, k, u)
  PROVE  LET added == Append(es, Added(k, u))
         IN  /\ Added(k, u) \in Event /\ added \in Seq(Event)
             /\ Submitters(added) = Submitters(es) \cup {u}
             /\ Keystores(added) = Keystores(es) \cup {k}
             /\ HeldApart(added)
             /\ Submitters(added) \subseteq Policy(es).participants
             /\ KeystoreOf(added, u) = k
             /\ \A v \in Submitters(es) : KeystoreOf(added, v) = KeystoreOf(es, v)
             /\ Completes(es) <=> Submitters(added) = Policy(es).participants
<1> DEFINE e == Added(k, u)
           added == Append(es, e)
           n == Len(es)
<1>1. e \in Event /\ e.type = "KeystoreAdded" /\ e.keystore = k /\ e.submittedBy = u
  BY DEF Added, Event
<1>2. /\ n \in Nat /\ added \in Seq(Event)
      /\ \A i \in 1..n : added[i] = es[i]
      /\ added[n + 1] = e
  BY <1>1, Appended
<1>3. Submissions(added) = Submissions(es) \cup {n + 1}
  BY <1>1, SubmissionsOfAppend
<1>4. \A i \in Submissions(es) : i \in 1..n /\ i # n + 1 /\ added[i] = es[i]
  BY <1>2, SubmissionIsRecorded
<1> HIDE DEF added, e
<1>5. Submitters(added) = Submitters(es) \cup {u} /\ Keystores(added) = Keystores(es) \cup {k}
  BY <1>1, <1>2, <1>3, <1>4 DEF Submitters, Keystores
<1>6. ASSUME NEW i \in Submissions(es)
      PROVE  /\ es[i].submittedBy # u
             /\ FingerprintOf[es[i].keystore] # FingerprintOf[k]
  BY DEF AcceptsKeystore, Submitters, Keystores
<1>7. HeldApart(added)
  BY <1>1, <1>2, <1>3, <1>4, <1>6 DEF HeldApart, HeldSoundly
<1>8. Submitters(added) \subseteq Policy(es).participants
  BY <1>5 DEF HeldSoundly, AcceptsKeystore
<1>9. KeystoreOf(added, u) = k
  BY <1>1, <1>2, <1>3, <1>7, KeystoreOfHeld
<1>10. \A v \in Submitters(es) : KeystoreOf(added, v) = KeystoreOf(es, v)
  <2> TAKE v \in Submitters(es)
  <2>1. PICK i \in Submissions(es) : es[i].submittedBy = v
    BY DEF Submitters
  <2>2. KeystoreOf(es, v) = es[i].keystore
    BY <2>1, KeystoreOfHeld DEF HeldSoundly
  <2>3. KeystoreOf(added, v) = added[i].keystore
    BY <1>2, <1>3, <1>4, <1>7, <2>1, KeystoreOfHeld
  <2>4. QED
    BY <1>4, <2>2, <2>3
<1>11. Completes(es) <=> Submitters(added) = Policy(es).participants
  <2>1. IsFiniteSet(Policy(es).participants)
    BY PolicyIsRegistered, PolicyIsSatisfiable
  <2>2. /\ IsFiniteSet(Submissions(es))
        /\ Cardinality(Submissions(es)) \in Nat
        /\ Cardinality(Submitters(added)) = Cardinality(Submissions(added))
    BY <1>2, <1>7, HeldApartCounts DEF HeldSoundly
  <2>3. Cardinality(Submissions(added)) = Cardinality(Submissions(es)) + 1
    BY <1>3, <1>4, <2>2, FS_AddElement
  <2>4. Cardinality(Submitters(added)) = Cardinality(Policy(es).participants)
          => Submitters(added) = Policy(es).participants
    BY <1>8, <2>1, FS_Subset
  <2>5. QED
    BY <2>2, <2>3, <2>4 DEF Completes
<1>12. QED
  BY <1>1, <1>2, <1>5, <1>7, <1>8, <1>9, <1>10, <1>11 DEF added, e

\* remove_keystore: the participant's submission is no longer held, the others
\* stay.
LEMMA RemovalIsTakenBack ==
  ASSUME NEW es \in Seq(Event), HeldApart(es), NEW u \in Submitters(es)
  PROVE  LET new == Append(es, Removal(es, u))
         IN  /\ Removal(es, u) \in Event /\ new \in Seq(Event)
             /\ Submitters(new) = Submitters(es) \ {u}
             /\ HeldApart(new)
             /\ \A v \in Submitters(new) : KeystoreOf(new, v) = KeystoreOf(es, v)
<1> DEFINE e == Removal(es, u)
           new == Append(es, e)
           n == Len(es)
<1>1. PICK mine \in Submissions(es) : es[mine].submittedBy = u
  BY DEF Submitters
<1>2. KeystoreOf(es, u) = es[mine].keystore
  BY <1>1, KeystoreOfHeld
<1>3. u \in Users /\ KeystoreOf(es, u) \in Keys
  BY <1>1, <1>2, SubmissionIsRecorded
<1>4. e \in Event /\ e.type = "KeystoreRemoved" /\ e.participant = u
  BY <1>3 DEF Removal, Event
<1>5. /\ n \in Nat /\ new \in Seq(Event)
      /\ \A i \in 1..n : new[i] = es[i]
  BY <1>4, Appended
<1>6. Submissions(new) = {i \in Submissions(es) : es[i].submittedBy # u}
  BY <1>4, SubmissionsOfAppend
<1>7. \A i \in Submissions(es) : new[i] = es[i]
  BY <1>5, SubmissionIsRecorded
<1> HIDE DEF new, e
<1>8. Submitters(new) = Submitters(es) \ {u}
  BY <1>6, <1>7 DEF Submitters
<1>9. HeldApart(new)
  BY <1>6, <1>7 DEF HeldApart
<1>10. \A v \in Submitters(new) : KeystoreOf(new, v) = KeystoreOf(es, v)
  <2> TAKE v \in Submitters(new)
  <2>1. PICK i \in Submissions(new) : new[i].submittedBy = v
    BY DEF Submitters
  <2>2. KeystoreOf(new, v) = new[i].keystore
    BY <1>5, <1>9, <2>1, KeystoreOfHeld
  <2>3. KeystoreOf(es, v) = es[i].keystore
    BY <1>6, <1>7, <2>1, KeystoreOfHeld
  <2>4. QED
    BY <1>6, <1>7, <2>2, <2>3
<1>11. QED
  BY <1>4, <1>5, <1>8, <1>9, <1>10 DEF new, e

\* An activation or a cancellation changes nothing that is held.
LEMMA FinalKeepsHeld ==
  ASSUME NEW es \in Seq(Event), NEW e \in Event, e.type \in FinalTypes
  PROVE  LET new == Append(es, e)
         IN  /\ Submissions(new) = Submissions(es)
             /\ Submitters(new) = Submitters(es)
             /\ Keystores(new) = Keystores(es)
             /\ HeldApart(new) <=> HeldApart(es)
             /\ \A v \in Submitters(es) : KeystoreOf(new, v) = KeystoreOf(es, v)
<1> DEFINE new == Append(es, e)
<1>1. Submissions(new) = Submissions(es)
  BY SubmissionsOfAppend DEF FinalTypes
<1>2. \A i \in Submissions(es) : new[i] = es[i]
  BY Appended, SubmissionIsRecorded
<1> HIDE DEF new
<1>3. Submitters(new) = Submitters(es) /\ Keystores(new) = Keystores(es)
  BY <1>1, <1>2 DEF Submitters, Keystores
<1>4. HeldApart(new) <=> HeldApart(es)
  BY <1>1, <1>2 DEF HeldApart
<1>5. ASSUME NEW v \in Submitters(es)
      PROVE  KeystoreOf(new, v) = KeystoreOf(es, v)
  <2>1. \A i \in Submissions(es) : new[i].submittedBy = v <=> es[i].submittedBy = v
    BY <1>2
  <2>2. (CHOOSE i \in Submissions(es) : new[i].submittedBy = v)
          = (CHOOSE i \in Submissions(es) : es[i].submittedBy = v)
    BY <2>1
  <2>3. (CHOOSE i \in Submissions(es) : es[i].submittedBy = v) \in Submissions(es)
    BY DEF Submitters
  <2>4. QED
    BY <1>1, <1>2, <2>2, <2>3 DEF KeystoreOf
<1>6. QED
  BY <1>1, <1>3, <1>4, <1>5 DEF new

\* The completing submission records the descriptor of the keystores then held:
\* one key and one device per participant, and a threshold they can reach.
LEMMA ActivationIsCurrent ==
  ASSUME NEW es \in Seq(Event), es # <<>>, StreamShape(es),
         Status(es) = "CollectingKeystores", HeldApart(es),
         Submitters(es) = Policy(es).participants
  PROVE  LET e == [type |-> "Activated", descriptor |-> DescriptorOf(es)]
             new == Append(es, e)
         IN  /\ e \in Event
             /\ Active(new) = DescriptorOf(es)
             /\ DescriptorOf(new) = DescriptorOf(es)
             /\ Range(DescriptorOf(es).keys) = Keystores(es)
             /\ Cardinality({FingerprintOf[k] : k \in Keystores(es)})
                   = Cardinality(Policy(es).participants)
             /\ DescriptorOf(es).threshold \in 1..Len(DescriptorOf(es).keys)
<1> DEFINE e == [type |-> "Activated", descriptor |-> DescriptorOf(es)]
           new == Append(es, e)
           n == Len(es)
           d == DescriptorOf(es)
           N == Cardinality(Policy(es).participants)
<1>1. Policy(es) \in Policies /\ Policy(es).threshold \in Nat /\ Policy(es).threshold \in 1..N
  BY PolicyIsRegistered, PolicyIsSatisfiable
<1>2. /\ IsFiniteSet(Keystores(es)) /\ Keystores(es) \in SUBSET Keys
      /\ Cardinality(Keystores(es)) = N
      /\ Cardinality({FingerprintOf[k] : k \in Keystores(es)}) = N
  BY HeldApartCounts
<1>3. /\ Sorted(Keystores(es)) \in Seq(Keystores(es))
      /\ Len(Sorted(Keystores(es))) = N
      /\ Range(Sorted(Keystores(es))) = Keystores(es)
  BY <1>2, SortedListsAll
<1>4. Sorted(Keystores(es)) \in Seq(Keys)
  BY <1>2, <1>3
<1>5. d.threshold = Policy(es).threshold /\ d.keys = Sorted(Keystores(es)) /\ d \in Descriptors
  BY <1>1, <1>4 DEF DescriptorOf, Descriptors
<1>6. e \in Event /\ e.type = "Activated" /\ e.descriptor = d
  BY <1>5 DEF Event
<1>7. /\ n \in Nat /\ new \in Seq(Event)
      /\ DOMAIN es = 1..n /\ DOMAIN new = 1..(n + 1)
      /\ \A i \in 1..n : new[i] = es[i]
      /\ new[n + 1] = e
  BY <1>6, Appended
<1> HIDE DEF d, e, new
<1>8. {i \in DOMAIN new : new[i].type = "Activated"} = {n + 1}
  <2>1. es[Len(es)].type \notin FinalTypes
    BY StatusIsLast
  <2>2. \A i \in 1..n : es[i].type # "Activated"
    BY <1>7, <2>1 DEF StreamShape, FinalTypes
  <2>3. QED
    BY <1>6, <1>7, <2>2
<1>9. Active(new) = d
  BY <1>6, <1>7, <1>8 DEF Active
<1>10. DescriptorOf(new) = d
  <2>1. Keystores(new) = Keystores(es)
    BY <1>6, FinalKeepsHeld DEF FinalTypes, new
  <2>2. Policy(new) = Policy(es)
    BY <1>6, ShapeOfAppend DEF new
  <2>3. QED
    BY <2>1, <2>2 DEF DescriptorOf, d
<1>11. QED
  BY <1>1, <1>2, <1>3, <1>5, <1>6, <1>9, <1>10 DEF d, e, new

\* An event keeps the removals paired up if it is no removal, or the removal of
\* a submission held.
LEMMA PairedUpAppend ==
  ASSUME NEW es \in Seq(Event), PairedUp(es), NEW e \in Event,
         e.type = "KeystoreRemoved" =>
            \E i \in Submissions(es) : /\ es[i].submittedBy = e.participant
                                       /\ es[i].keystore = e.keystore
  PROVE  PairedUp(Append(es, e))
<1> DEFINE new == Append(es, e)
           n == Len(es)
<1>1. /\ n \in Nat /\ Len(new) = n + 1
      /\ DOMAIN es = 1..n /\ DOMAIN new = 1..(n + 1)
      /\ \A i \in 1..n : new[i] = es[i]
      /\ new[n + 1] = e
  BY Appended
<1> HIDE DEF new
<1> SUFFICES ASSUME NEW j \in 1..(n + 1), new[j].type = "KeystoreRemoved"
             PROVE  \E i \in 1..(j - 1) :
                      /\ new[i].type = "KeystoreAdded"
                      /\ new[i].submittedBy = new[j].participant
                      /\ new[i].keystore = new[j].keystore
                      /\ \A m \in (i + 1)..(j - 1) :
                           new[m].type = "KeystoreRemoved"
                             => new[m].participant # new[j].participant
  BY <1>1 DEF PairedUp, new
<1>2. CASE j \in 1..n
  <2>1. PICK i \in 1..(j - 1) :
           /\ es[i].type = "KeystoreAdded"
           /\ es[i].submittedBy = es[j].participant
           /\ es[i].keystore = es[j].keystore
           /\ \A m \in (i + 1)..(j - 1) :
                es[m].type = "KeystoreRemoved" => es[m].participant # es[j].participant
    BY <1>1, <1>2 DEF PairedUp
  <2>2. i \in 1..n /\ \A m \in (i + 1)..(j - 1) : m \in 1..n
    BY <1>1, <1>2
  <2>3. QED
    BY <1>1, <1>2, <2>1, <2>2
<1>3. CASE j = n + 1
  <2>1. PICK i \in Submissions(es) : es[i].submittedBy = e.participant /\ es[i].keystore = e.keystore
    BY <1>1, <1>3
  <2>2. /\ i \in 1..n /\ es[i].type = "KeystoreAdded"
        /\ \A m \in (i + 1)..n : es[m].type = "KeystoreRemoved"
                                    => es[m].participant # es[i].submittedBy
    BY <1>1 DEF Submissions
  <2>3. i \in 1..(j - 1) /\ j - 1 = n /\ \A m \in (i + 1)..n : m \in 1..n
    BY <1>1, <1>3, <2>2
  <2>4. QED
    BY <1>1, <1>3, <2>1, <2>2, <2>3
<1>4. QED
  BY <1>1, <1>2, <1>3
-----------------------------------------------------------------------------
(* The invariant.                                                          *)

\* Registration opens a stream of one event, on which nothing is held yet.
LEMMA RegistrationIsSound ==
  ASSUME NEW r \in Registrations, ValidRegistration(r)
  PROVE  LET new == <<Registered(r)>>
         IN  /\ Sound(new) /\ new # <<>>
             /\ Policy(new) \in Policies
             /\ Submitters(new) = {}
             /\ Status(new) = "CollectingKeystores"
             /\ ~Has(new, "Activated")
<1> DEFINE e == Registered(r)
           new == <<e>>
<1>1. e.policy \in Policies /\ e.type = "Initialized" /\ e \in Event
  BY DEF Registered, Policies, Event
<1> HIDE DEF e
<1>2. new \in Seq(Event) /\ Len(new) = 1 /\ DOMAIN new = {1} /\ new[1] = e /\ new # <<>>
  BY <1>1
<1> HIDE DEF new
<1>3. StreamShape(new)
  BY <1>1, <1>2 DEF StreamShape, FinalTypes
<1>4. Status(new) = "CollectingKeystores" /\ ~Has(new, "Activated")
  BY <1>1, <1>2 DEF Status, Has
<1>5. Submissions(new) = {} /\ Submitters(new) = {}
  BY <1>1, <1>2 DEF Submissions, Submitters
<1>6. Policy(new) = e.policy
  BY <1>2 DEF Policy
<1>7. e.policy.participants # {}
  <2>1. Cardinality(e.policy.participants) # 0
    BY <1>1, PolicyIsSatisfiable
  <2>2. QED
    BY <2>1, FS_EmptySet
<1>8. HeldSoundly(new) /\ PairedUp(new)
  BY <1>1, <1>2, <1>5 DEF HeldSoundly, HeldApart, PairedUp
<1>9. Sound(new)
  BY <1>2, <1>3, <1>4, <1>5, <1>6, <1>7, <1>8 DEF Sound
<1>10. QED
  BY <1>1, <1>2, <1>4, <1>5, <1>6, <1>9 DEF e, new

\* What is known of a wallet that still collects keystores.
LEMMA CollectingStream ==
  ASSUME NEW es, Sound(es), es # <<>>, Status(es) = "CollectingKeystores"
  PROVE  /\ es \in Seq(Event) /\ StreamShape(es) /\ HeldSoundly(es) /\ PairedUp(es)
         /\ ~Has(es, "Activated")
         /\ Submitters(es) # Policy(es).participants
<1>1. /\ es \in Seq(Event) /\ StreamShape(es) /\ HeldSoundly(es) /\ PairedUp(es)
      /\ Submitters(es) # Policy(es).participants
  BY DEF Sound
<1>2. ~Has(es, "Activated")
  BY <1>1, StatusIsLast DEF FinalTypes
<1>3. QED
  BY <1>1, <1>2

\* add_keystore holds one keystore more and, when that completes the policy,
\* activates the wallet with the descriptor of all the keystores held.
LEMMA AdditionIsSound ==
  ASSUME NEW es, Sound(es), es # <<>>, NEW k \in Keys, NEW u \in Users,
         AcceptsKeystore(es, k, u)
  PROVE  LET new == WithKeystore(es, k, u)
         IN  /\ Sound(new) /\ new # <<>>
             /\ Policy(new) = Policy(es)
             /\ Submitters(new) = Submitters(es) \cup {u}
             /\ Keystores(new) = Keystores(es) \cup {k}
             /\ KeystoreOf(new, u) = k
             /\ \A v \in Submitters(es) : KeystoreOf(new, v) = KeystoreOf(es, v)
             /\ Submitters(new) # Policy(es).participants =>
                  Status(new) = "CollectingKeystores" /\ ~Has(new, "Activated")
             /\ Submitters(new) = Policy(es).participants =>
                  /\ Status(new) = "Active" /\ Has(new, "Activated")
                  /\ Active(new) \in Descriptors
                  /\ Active(new).threshold = Policy(es).threshold
                  /\ Range(Active(new).keys) = Keystores(new)
<1> DEFINE added == Append(es, Added(k, u))
           act == [type |-> "Activated", descriptor |-> DescriptorOf(added)]
           new == WithKeystore(es, k, u)
<1>1. /\ Status(es) = "CollectingKeystores"
      /\ new = IF Completes(es) THEN Append(added, act) ELSE added
  BY DEF AcceptsKeystore, WithKeystore, Added
<1>2. /\ es \in Seq(Event) /\ StreamShape(es) /\ HeldSoundly(es)
      /\ PairedUp(es) /\ ~Has(es, "Activated")
  BY <1>1, CollectingStream
<1>3. /\ Added(k, u) \in Event /\ added \in Seq(Event)
      /\ Submitters(added) = Submitters(es) \cup {u}
      /\ Keystores(added) = Keystores(es) \cup {k}
      /\ HeldApart(added)
      /\ Submitters(added) \subseteq Policy(es).participants
      /\ KeystoreOf(added, u) = k
      /\ \A v \in Submitters(es) : KeystoreOf(added, v) = KeystoreOf(es, v)
      /\ Completes(es) <=> Submitters(added) = Policy(es).participants
  BY <1>2, AdditionIsHeld
<1>4. /\ StreamShape(added) /\ Policy(added) = Policy(es)
      /\ Status(added) = "CollectingKeystores" /\ added # <<>>
  BY <1>1, <1>2, <1>3, ShapeOfAppend, Appended DEF Added, FinalTypes
<1>5. PairedUp(added) /\ ~Has(added, "Activated")
  BY <1>2, <1>3, PairedUpAppend, HasOfAppend DEF Added
<1> HIDE DEF added, new
<1>6. CASE ~Completes(es)
  <2>1. new = added
    BY <1>1, <1>6
  <2>2. Submitters(added) # Policy(es).participants
    BY <1>3, <1>6
  <2>3. Sound(added)
    BY <1>3, <1>4, <1>5, <2>2 DEF Sound, HeldSoundly
  <2>4. QED
    BY <1>3, <1>4, <1>5, <2>1, <2>2, <2>3 DEF new
<1>7. CASE Completes(es)
  <2>1. new = Append(added, act)
    BY <1>1, <1>7
  <2>2. Submitters(added) = Policy(added).participants
    BY <1>3, <1>4, <1>7
  <2>3. /\ act \in Event
        /\ Active(Append(added, act)) = DescriptorOf(added)
        /\ DescriptorOf(Append(added, act)) = DescriptorOf(added)
        /\ Range(DescriptorOf(added).keys) = Keystores(added)
        /\ Cardinality({FingerprintOf[x] : x \in Keystores(added)})
              = Cardinality(Policy(added).participants)
        /\ DescriptorOf(added).threshold \in 1..Len(DescriptorOf(added).keys)
    BY <1>3, <1>4, <2>2, ActivationIsCurrent
  <2>4. act.type = "Activated" /\ act.type \in FinalTypes
    BY DEF FinalTypes
  <2>5. DescriptorOf(added) \in Descriptors /\ DescriptorOf(added).threshold = Policy(added).threshold
    BY <2>3 DEF Event, DescriptorOf
  <2> HIDE DEF act
  <2>6. /\ new \in Seq(Event) /\ new # <<>> /\ StreamShape(new)
        /\ Policy(new) = Policy(added)
        /\ Status(new) = "Active"
    BY <1>3, <1>4, <2>1, <2>3, <2>4, ShapeOfAppend, Appended
  <2>7. /\ Submitters(new) = Submitters(added)
        /\ Keystores(new) = Keystores(added)
        /\ HeldApart(new)
        /\ \A v \in Submitters(added) : KeystoreOf(new, v) = KeystoreOf(added, v)
    BY <1>3, <2>1, <2>3, <2>4, FinalKeepsHeld
  <2>8. PairedUp(new) /\ Has(new, "Activated")
    BY <1>3, <1>5, <2>1, <2>3, <2>4, PairedUpAppend, HasOfAppend
  <2>9. DescriptorFits(new)
    BY <2>1, <2>3, <2>6 DEF DescriptorFits
  <2>10. Sound(new)
    BY <1>3, <1>4, <2>2, <2>6, <2>7, <2>8, <2>9 DEF Sound, HeldSoundly
  <2>11. QED
    BY <1>3, <1>4, <2>1, <2>2, <2>3, <2>5, <2>6, <2>7, <2>8, <2>10 DEF new
<1>8. QED
  BY <1>6, <1>7

\* remove_keystore takes the participant's keystore back and nothing else.
LEMMA RemovalIsSound ==
  ASSUME NEW es, Sound(es), es # <<>>, NEW u, AcceptsRemoval(es, u)
  PROVE  LET new == Append(es, Removal(es, u))
         IN  /\ Sound(new) /\ new # <<>>
             /\ Policy(new) = Policy(es)
             /\ Submitters(new) = Submitters(es) \ {u}
             /\ \A v \in Submitters(new) : KeystoreOf(new, v) = KeystoreOf(es, v)
             /\ Status(new) = "CollectingKeystores" /\ ~Has(new, "Activated")
<1> DEFINE e == Removal(es, u)
           new == Append(es, e)
<1>1. Status(es) = "CollectingKeystores" /\ u \in Submitters(es)
  BY DEF AcceptsRemoval
<1>2. /\ es \in Seq(Event) /\ StreamShape(es) /\ HeldSoundly(es)
      /\ PairedUp(es) /\ ~Has(es, "Activated")
  BY <1>1, CollectingStream
<1>3. /\ e \in Event /\ new \in Seq(Event)
      /\ Submitters(new) = Submitters(es) \ {u}
      /\ HeldApart(new)
      /\ \A v \in Submitters(new) : KeystoreOf(new, v) = KeystoreOf(es, v)
  BY <1>1, <1>2, RemovalIsTakenBack DEF HeldSoundly
<1>4. e.type = "KeystoreRemoved" /\ e.participant = u /\ e.keystore = KeystoreOf(es, u)
  BY DEF Removal
<1>5. \E i \in Submissions(es) : /\ es[i].submittedBy = e.participant
                                 /\ es[i].keystore = e.keystore
  <2>1. PICK i \in Submissions(es) : es[i].submittedBy = u
    BY <1>1 DEF Submitters
  <2>2. QED
    BY <1>2, <1>4, <2>1, KeystoreOfHeld DEF HeldSoundly
<1> HIDE DEF e
<1>6. /\ StreamShape(new) /\ Policy(new) = Policy(es)
      /\ Status(new) = "CollectingKeystores" /\ new # <<>>
  BY <1>1, <1>2, <1>3, <1>4, ShapeOfAppend, Appended DEF FinalTypes
<1>7. PairedUp(new) /\ ~Has(new, "Activated")
  BY <1>2, <1>3, <1>4, <1>5, PairedUpAppend, HasOfAppend
<1> HIDE DEF new
<1>8. Sound(new)
  <2>1. Submitters(new) \subseteq Policy(es).participants /\ u \notin Submitters(new)
    BY <1>2, <1>3 DEF HeldSoundly
  <2>2. Submitters(new) # Policy(es).participants
    BY <1>1, <1>2, <2>1 DEF HeldSoundly
  <2>3. QED
    BY <1>3, <1>6, <1>7, <2>1, <2>2 DEF Sound, HeldSoundly
<1>9. QED
  BY <1>3, <1>6, <1>7, <1>8 DEF new, e

\* cancel ends the stream and changes nothing that is held.
LEMMA CancellationIsSound ==
  ASSUME NEW es, Sound(es), es # <<>>, AcceptsCancel(es)
  PROVE  LET new == Append(es, [type |-> "Cancelled"])
         IN  /\ Sound(new) /\ new # <<>>
             /\ Policy(new) = Policy(es)
             /\ Submitters(new) = Submitters(es)
             /\ \A v \in Submitters(es) : KeystoreOf(new, v) = KeystoreOf(es, v)
             /\ Status(new) = "Cancelled" /\ ~Has(new, "Activated")
<1> DEFINE e == [type |-> "Cancelled"]
           new == Append(es, e)
<1>1. Status(es) = "CollectingKeystores"
  BY DEF AcceptsCancel
<1>2. /\ es \in Seq(Event) /\ StreamShape(es) /\ HeldSoundly(es)
      /\ PairedUp(es) /\ ~Has(es, "Activated")
      /\ Submitters(es) # Policy(es).participants
  BY <1>1, CollectingStream
<1>3. e \in Event /\ e.type = "Cancelled" /\ e.type \in FinalTypes
  BY DEF Event, FinalTypes
<1> HIDE DEF e
<1>4. /\ new \in Seq(Event) /\ new # <<>> /\ StreamShape(new)
      /\ Policy(new) = Policy(es) /\ Status(new) = "Cancelled"
  BY <1>1, <1>2, <1>3, ShapeOfAppend, Appended
<1>5. PairedUp(new) /\ ~Has(new, "Activated")
  BY <1>2, <1>3, PairedUpAppend, HasOfAppend
<1>6. /\ Submitters(new) = Submitters(es) /\ HeldApart(new)
      /\ \A v \in Submitters(es) : KeystoreOf(new, v) = KeystoreOf(es, v)
  BY <1>2, <1>3, FinalKeepsHeld DEF HeldSoundly
<1> HIDE DEF new
<1>7. Sound(new)
  BY <1>2, <1>4, <1>5, <1>6 DEF Sound, HeldSoundly
<1>8. QED
  BY <1>4, <1>5, <1>6, <1>7 DEF new, e

\* No command makes a sound stream unsound.
LEMMA CommandsKeepSoundness ==
  ASSUME Sound(events), Next
  PROVE  Sound(events')
<1>1. CASE \E r \in Registrations : Register(r)
  BY <1>1, RegistrationIsSound DEF Register
<1>2. CASE \E k \in Keys, u \in Users : AddKeystore(k, u)
  BY <1>2, AdditionIsSound DEF AddKeystore
<1>3. CASE (\E u \in Users : RemoveKeystore(u)) \/ Cancel
  BY <1>3, RemovalIsSound, CancellationIsSound DEF RemoveKeystore, Cancel
<1>4. QED
  BY <1>1, <1>2, <1>3 DEF Next

\* The invariant holds of every state of every behaviour.
THEOREM Invariance == Spec => []IInv
<1>1. Sound(<<>>)
  BY DEF Sound, StreamShape, PairedUp, Has
<1>2. Init => IInv
  BY <1>1 DEF Init, IInv
<1>3. IInv /\ Next => IInv'
  BY CommandsKeepSoundness DEF IInv
<1>4. IInv /\ UNCHANGED vars => IInv'
  BY DEF IInv, vars
<1>5. QED
  BY <1>2, <1>3, <1>4, PTL DEF Spec

\* The stream holds well-formed events, whatever commands are run.
THEOREM TypeCorrect == Spec => []TypeOK
<1>1. IInv => TypeOK
  BY DEF IInv, Sound, TypeOK
<1>2. QED
  BY <1>1, Invariance, PTL

\* Keystores held come from different participants and devices, all of the
\* policy, and a wallet is active exactly when every participant holds one.
THEOREM CollectionAlwaysSound == Spec => []CollectionIsSound
<1>1. IInv => CollectionIsSound
  BY DEF IInv, Sound, HeldSoundly, HeldApart, CollectionIsSound
<1>2. QED
  BY <1>1, Invariance, PTL

\* An active wallet's descriptor is that of its keystores: one key and one device
\* per participant, under a threshold they can reach.
THEOREM DescriptorAlwaysCurrent == Spec => []DescriptorIsCurrent
<1>1. IInv => DescriptorIsCurrent
  BY DEF IInv, Sound, DescriptorFits, DescriptorIsCurrent
<1>2. QED
  BY <1>1, Invariance, PTL

\* Every recorded removal names the submission that was held when it was made.
THEOREM RemovalsAlwaysPairUp == Spec => []RemovalsPairUp
<1>1. IInv => RemovalsPairUp
  BY DEF IInv, Sound, PairedUp, RemovalsPairUp
<1>2. QED
  BY <1>1, Invariance, PTL
-----------------------------------------------------------------------------
(* Wallet implements KeystoreCollection.                                   *)

\* What the mapping shows of a stream as held, and as the descriptor.
HeldOf(es) == [u \in Submitters(es) |-> KeystoreOf(es, u)]
DescriptorShown(es) == IF ~Has(es, "Activated") THEN None
                    ELSE [Active(es) EXCEPT !.keys = Range(@)]

\* Before registration nothing is held and nothing is activated.
LEMMA EmptyStream ==
  /\ Submitters(<<>>) = {}
  /\ ~Has(<<>>, "Activated")
  BY DEF Submitters, Submissions, Has

\* The keystores held are those the participants hold.
LEMMA KeystoresAreHeld ==
  ASSUME NEW es \in Seq(Event), HeldApart(es)
  PROVE  Keystores(es) = {KeystoreOf(es, v) : v \in Submitters(es)}
  BY KeystoreOfHeld DEF Keystores, Submitters

\* A registration of the stream is a registration of the collection.
LEMMA RegisterRefines ==
  ASSUME IInv, NEW r \in Registrations, Register(r)
  PROVE  Collection!Next
<1>1. events = <<>> /\ events' = <<Registered(r)>> /\ ValidRegistration(r)
  BY DEF Register
<1>2. /\ events' # <<>> /\ Policy(events') \in Policies /\ Submitters(events') = {}
      /\ Status(events') = "CollectingKeystores" /\ ~Has(events', "Activated")
  BY <1>1, RegistrationIsSound
<1>3. HeldOf(events') = HeldOf(events)
  BY <1>1, <1>2, EmptyStream DEF HeldOf
<1>4. DescriptorShown(events') = DescriptorShown(events)
  BY <1>1, <1>2, EmptyStream DEF DescriptorShown
<1>5. Collection!Register(Policy(events'))
  BY <1>1, <1>2, <1>3, <1>4 DEF Collection!Register, HeldOf, DescriptorShown
<1>6. QED
  BY <1>2, <1>5 DEF Collection!Next

\* A submission of the stream contributes the keystore, and activates the
\* collection when it completes the policy.
LEMMA AddKeystoreRefines ==
  ASSUME IInv, NEW k \in Keys, NEW u \in Users, AddKeystore(k, u)
  PROVE  Collection!Next
<1> DEFINE who == Submitters(events)
           policy == Policy(events)
<1>1. /\ events # <<>> /\ Status(events) = "CollectingKeystores"
      /\ u \in policy.participants \ who
      /\ \A other \in Keystores(events) : FingerprintOf[other] # FingerprintOf[k]
      /\ AcceptsKeystore(events, k, u) /\ events' = WithKeystore(events, k, u)
  BY DEF AddKeystore, AcceptsKeystore
<1>2. /\ events \in Seq(Event) /\ StreamShape(events) /\ HeldApart(events)
      /\ ~Has(events, "Activated")
  BY <1>1, CollectingStream DEF IInv, HeldSoundly
<1>3. policy \in Policies
  BY <1>1, <1>2, PolicyIsRegistered
<1>4. /\ events' # <<>> /\ Policy(events') = policy
      /\ Submitters(events') = who \cup {u}
      /\ KeystoreOf(events', u) = k
      /\ \A v \in who : KeystoreOf(events', v) = KeystoreOf(events, v)
  BY <1>1, AdditionIsSound DEF IInv
<1>5. \A v \in who : FingerprintOf[HeldOf(events)[v]] # FingerprintOf[k]
  <2>1. \A v \in who : HeldOf(events)[v] \in Keystores(events)
    BY <1>2, KeystoresAreHeld DEF HeldOf
  <2>2. QED
    BY <1>1, <2>1
<1>6. HeldOf(events') = [v \in who \cup {u} |-> IF v = u THEN k ELSE HeldOf(events)[v]]
  <2>1. HeldOf(events') = [v \in who \cup {u} |-> KeystoreOf(events', v)]
    BY <1>4 DEF HeldOf
  <2>2. \A v \in who \cup {u} : KeystoreOf(events', v) = IF v = u THEN k ELSE HeldOf(events)[v]
    BY <1>1, <1>4 DEF HeldOf
  <2>3. QED
    BY <2>1, <2>2
<1>7. DOMAIN HeldOf(events) = who /\ DOMAIN HeldOf(events') = Submitters(events')
  BY DEF HeldOf
<1>8. CASE Submitters(events') # policy.participants
  <2>1. Status(events') = "CollectingKeystores" /\ ~Has(events, "Activated")'
    BY <1>1, <1>8, AdditionIsSound DEF IInv
  <2>2. Collection!Contribute(u, k)
    BY <1>1, <1>2, <1>4, <1>5, <1>6, <1>7, <1>8, <2>1
       DEF Collection!Contribute, HeldOf, DescriptorShown
  <2>3. QED
    BY <1>1, <1>3, <2>2 DEF Collection!Next
<1>9. CASE Submitters(events') = policy.participants
  <2>1. /\ Status(events') = "Active" /\ Has(events, "Activated")'
        /\ Active(events') \in Descriptors
        /\ Active(events').threshold = policy.threshold
        /\ Range(Active(events').keys) = Keystores(events')
    BY <1>1, <1>9, AdditionIsSound DEF IInv
  <2>2. Keystores(events') = {HeldOf(events')[v] : v \in DOMAIN HeldOf(events')}
    <3>1. events' \in Seq(Event) /\ HeldApart(events')
      BY <1>1, <1>4, AdditionIsSound DEF IInv, Sound, HeldSoundly
    <3>2. Keystores(events') = {KeystoreOf(events', v) : v \in Submitters(events')}
      BY <3>1, KeystoresAreHeld
    <3>3. \A v \in Submitters(events') : HeldOf(events')[v] = KeystoreOf(events', v)
      BY DEF HeldOf
    <3>4. QED
      BY <1>7, <3>2, <3>3
  <2>3. DescriptorShown(events') = [threshold |-> policy.threshold, keys |-> Keystores(events')]
    BY <2>1 DEF DescriptorShown, Descriptors
  <2>4. Collection!Contribute(u, k)
    BY <1>1, <1>4, <1>5, <1>6, <1>7, <1>9, <2>1, <2>2, <2>3
       DEF Collection!Contribute, HeldOf, DescriptorShown
  <2>5. QED
    BY <1>1, <1>3, <2>4 DEF Collection!Next
<1>10. QED
  BY <1>8, <1>9

\* A removal takes the participant's keystore back.
LEMMA RemoveKeystoreRefines ==
  ASSUME IInv, NEW u \in Users, RemoveKeystore(u)
  PROVE  Collection!Next
<1>1. /\ events # <<>> /\ Status(events) = "CollectingKeystores"
      /\ u \in Submitters(events)
      /\ AcceptsRemoval(events, u) /\ events' = Append(events, Removal(events, u))
  BY DEF RemoveKeystore, AcceptsRemoval
<1>2. ~Has(events, "Activated")
  BY <1>1, CollectingStream DEF IInv
<1>3. /\ events' # <<>> /\ Policy(events') = Policy(events)
      /\ Submitters(events') = Submitters(events) \ {u}
      /\ \A v \in Submitters(events') : KeystoreOf(events', v) = KeystoreOf(events, v)
      /\ Status(events') = "CollectingKeystores" /\ ~Has(events, "Activated")'
  BY <1>1, RemovalIsSound DEF IInv
<1>4. HeldOf(events') = [v \in DOMAIN HeldOf(events) \ {u} |-> HeldOf(events)[v]]
  BY <1>3 DEF HeldOf
<1>5. Collection!TakeBack(u)
  BY <1>1, <1>2, <1>3, <1>4 DEF Collection!TakeBack, HeldOf, DescriptorShown
<1>6. QED
  BY <1>1, <1>5 DEF Collection!Next, HeldOf

\* A cancellation abandons the collection.
LEMMA CancelRefines ==
  ASSUME IInv, Cancel
  PROVE  Collection!Next
<1>1. /\ events # <<>> /\ Status(events) = "CollectingKeystores"
      /\ AcceptsCancel(events) /\ events' = Append(events, [type |-> "Cancelled"])
  BY DEF Cancel, AcceptsCancel
<1>2. ~Has(events, "Activated")
  BY <1>1, CollectingStream DEF IInv
<1>3. /\ events' # <<>> /\ Policy(events') = Policy(events)
      /\ Submitters(events') = Submitters(events)
      /\ \A v \in Submitters(events) : KeystoreOf(events', v) = KeystoreOf(events, v)
      /\ Status(events') = "Cancelled" /\ ~Has(events, "Activated")'
  BY <1>1, CancellationIsSound DEF IInv
<1>4. HeldOf(events') = HeldOf(events)
  BY <1>3 DEF HeldOf
<1>5. Collection!Abandon
  BY <1>1, <1>2, <1>3, <1>4 DEF Collection!Abandon, HeldOf, DescriptorShown
<1>6. QED
  BY <1>5 DEF Collection!Next

\* The stream, folded, behaves as the collection of keystores it promises to be.
THEOREM WalletImplementsCollection == Spec => ImplementsCollection
<1>1. Init => Collection!Init
  <2> SUFFICES ASSUME Init PROVE Collection!Init
    OBVIOUS
  <2>1. HeldOf(events) = [u \in {} |-> None]
    BY EmptyStream DEF Init, HeldOf
  <2>2. QED
    BY <2>1, EmptyStream DEF Init, Collection!Init, HeldOf, DescriptorShown
<1>2. ASSUME IInv, Next
      PROVE  Collection!Next
  <2>1. CASE \E r \in Registrations : Register(r)
    BY <1>2, <2>1, RegisterRefines
  <2>2. CASE \E k \in Keys, u \in Users : AddKeystore(k, u)
    BY <1>2, <2>2, AddKeystoreRefines
  <2>3. CASE (\E u \in Users : RemoveKeystore(u)) \/ Cancel
    BY <1>2, <2>3, RemoveKeystoreRefines, CancelRefines
  <2>4. QED
    BY <1>2, <2>1, <2>2, <2>3 DEF Next
<1>3. UNCHANGED vars => UNCHANGED Collection!vars
  BY DEF vars, Collection!vars
<1>4. IInv /\ [Next]_vars => [Collection!Next]_(Collection!vars)
  BY <1>2, <1>3
<1>5. QED
  BY <1>1, <1>4, Invariance, PTL DEF Spec, ImplementsCollection, Collection!Spec
=============================================================================
