------------------------- MODULE PsbtSessionProofs -------------------------
(***************************************************************************)
(* Machine-checked proofs about PsbtSession, for every set of keystores,   *)
(* policies, transactions and sigs_used lists: its type invariant, the     *)
(* safety properties the runs check, and that it implements SpendLifecycle. *)
(***************************************************************************)
EXTENDS PsbtSession, TLAPS, FiniteSetTheorems, SequenceTheorems

\* The events that move status().
LifecycleTypes == {"PsbtCreated", "Finalized", "BroadcastSeen", "Confirmed",
                   "Invalidated", "Cancelled"}

ChainTypes == {"BroadcastSeen", "Confirmed", "Invalidated"}

\* status() is moved by exactly these event types.
LEMMA ShowsDomain == DOMAIN Shows = LifecycleTypes
  BY DEF Shows, LifecycleTypes

\* An event of the stream has one of the declared types.
LEMMA EventTypes ==
  ASSUME NEW e \in Event
  PROVE  e.type \in LifecycleTypes \cup {"Initialized", "SignatureAdded"}
  BY DEF Event, LifecycleTypes

-----------------------------------------------------------------------------
(* Type correctness.                                                       *)

\* Finalize records a set of keystores.
LEMMA UsedType ==
  ASSUME NEW list \in SigLists
  PROVE  Used(list) \in SUBSET Keystores
  BY SigListAssumption, ElementOfSeq DEF Used, Range

\* The stream holds well-formed events, whatever commands are run.
THEOREM TypeCorrect == Spec => []TypeOK
<1>1. Init => TypeOK
  BY DEF Init, TypeOK
<1>2. TypeOK /\ [Next]_vars => TypeOK'
  <2> SUFFICES ASSUME TypeOK, [Next]_vars PROVE TypeOK'
    OBVIOUS
  <2> USE DEF TypeOK, Push, Event
  <2>1. CASE \E p \in Policies : Propose(p)
    BY <2>1, SMT DEF Propose
  <2>2. CASE RecordPsbtCreated
    BY <2>2 DEF RecordPsbtCreated
  <2>3. CASE \E k \in Keystores : AddSignature(k)
    BY <2>3 DEF AddSignature
  <2>4. CASE \E tx \in Txids, list \in SigLists : Finalize(tx, list)
    BY <2>4, UsedType DEF Finalize
  <2>5. CASE \E tx \in Txids : MarkBroadcastSeen(tx)
    BY <2>5 DEF MarkBroadcastSeen
  <2>6. CASE \E tx \in Txids : Confirm(tx)
    BY <2>6 DEF Confirm
  <2>7. CASE Invalidate
    BY <2>7 DEF Invalidate
  <2>8. CASE Cancel
    BY <2>8 DEF Cancel
  <2>9. CASE UNCHANGED vars
    BY <2>9 DEF vars
  <2>10. QED
    BY <2>1, <2>2, <2>3, <2>4, <2>5, <2>6, <2>7, <2>8, <2>9 DEF Next
<1>3. QED
  BY <1>1, <1>2, PTL DEF Spec
-----------------------------------------------------------------------------
(* How a pushed event changes what is folded from the stream.              *)

\* Pushing leaves the recorded prefix alone and adds one event at the end.
LEMMA Appended ==
  ASSUME NEW es \in Seq(Event), NEW e \in Event
  PROVE  /\ Append(es, e) \in Seq(Event)
         /\ Len(es) \in Nat
         /\ Len(Append(es, e)) = Len(es) + 1
         /\ DOMAIN es = 1..Len(es)
         /\ DOMAIN Append(es, e) = 1..(Len(es) + 1)
         /\ \A i \in 1..Len(es) : Append(es, e)[i] = es[i]
         /\ Append(es, e)[Len(es) + 1] = e
  OBVIOUS

\* The positions of events of given types, after a push.
LEMMA IndicesOfAppend ==
  ASSUME NEW es \in Seq(Event), NEW e \in Event, NEW types
  PROVE  /\ e.type \in types => Indices(Append(es, e), types) =
                                    Indices(es, types) \cup {Len(es) + 1}
         /\ e.type \notin types => Indices(Append(es, e), types) = Indices(es, types)
<1> DEFINE new == Append(es, e)
<1>1. /\ DOMAIN es = 1..Len(es)
      /\ DOMAIN new = 1..(Len(es) + 1)
      /\ \A i \in 1..Len(es) : new[i] = es[i]
      /\ new[Len(es) + 1] = e
      /\ Len(es) \in Nat
  BY Appended
<1> HIDE DEF new
<1>2. QED
  BY <1>1 DEF Indices, new

\* Every non-empty set of positions the folds look at has a newest element.
HasNewest(es, types) ==
    Indices(es, types) # {} =>
      \E i \in Indices(es, types) : \A j \in Indices(es, types) : j <= i

\* The newest position is one, and none is newer.
LEMMA NewestIsNewest ==
  ASSUME NEW es \in Seq(Event), NEW types, HasNewest(es, types),
         Indices(es, types) # {}
  PROVE  /\ Newest(es, types) \in Indices(es, types)
         /\ \A j \in Indices(es, types) : j <= Newest(es, types)
  BY DEF HasNewest, Newest

\* A push keeps a newest position to be found.
LEMMA HasNewestOfAppend ==
  ASSUME NEW es \in Seq(Event), NEW e \in Event, NEW types, HasNewest(es, types)
  PROVE  HasNewest(Append(es, e), types)
<1>1. \A i \in Indices(es, types) : i \in 1..Len(es)
  BY DEF Indices
<1>2. Len(es) \in Nat
  OBVIOUS
<1>3. CASE e.type \in types
  <2>1. Indices(Append(es, e), types) = Indices(es, types) \cup {Len(es) + 1}
    BY <1>3, IndicesOfAppend
  <2>2. QED
    BY <1>1, <1>2, <2>1 DEF HasNewest
<1>4. CASE e.type \notin types
  <2>1. Indices(Append(es, e), types) = Indices(es, types)
    BY <1>4, IndicesOfAppend
  <2>2. QED
    BY <2>1 DEF HasNewest
<1>5. QED
  BY <1>3, <1>4

\* The newest position after a push: the new one if it counts, else the old one.
LEMMA NewestOfAppend ==
  ASSUME NEW es \in Seq(Event), NEW e \in Event, NEW types
  PROVE  Newest(Append(es, e), types) =
            IF e.type \in types THEN Len(es) + 1 ELSE Newest(es, types)
<1>1. \A i \in Indices(es, types) : i \in 1..Len(es)
  BY DEF Indices
<1>2. Len(es) \in Nat
  OBVIOUS
<1>3. CASE e.type \in types
  <2>1. Indices(Append(es, e), types) = Indices(es, types) \cup {Len(es) + 1}
    BY <1>3, IndicesOfAppend
  <2>2. \A i \in Indices(Append(es, e), types) :
           (\A j \in Indices(Append(es, e), types) : j <= i) <=> i = Len(es) + 1
    BY <1>1, <1>2, <2>1
  <2>3. QED
    BY <1>3, <2>1, <2>2 DEF Newest
<1>4. CASE e.type \notin types
  BY <1>4, IndicesOfAppend DEF Newest
<1>5. QED
  BY <1>3, <1>4

\* Which event types a stream holds, after a push.
LEMMA HasOfAppend ==
  ASSUME NEW es \in Seq(Event), NEW e \in Event, NEW type
  PROVE  Has(Append(es, e), type) <=> Has(es, type) \/ e.type = type
<1>1. CASE e.type \in {type}
  <2>1. Indices(Append(es, e), {type}) = Indices(es, {type}) \cup {Len(es) + 1}
    BY <1>1, IndicesOfAppend
  <2>2. QED
    BY <1>1, <2>1 DEF Has
<1>2. CASE e.type \notin {type}
  BY <1>2, IndicesOfAppend DEF Has
<1>3. QED
  BY <1>1, <1>2

\* status() after a push: a lifecycle event decides it, any other leaves it.
LEMMA StatusOfAppend ==
  ASSUME NEW es \in Seq(Event), NEW e \in Event, HasNewest(es, LifecycleTypes)
  PROVE  Status(Append(es, e)) =
            IF e.type \in LifecycleTypes THEN Shows[e.type] ELSE Status(es)
<1>1. CASE e.type \in LifecycleTypes
  <2>1. Indices(Append(es, e), LifecycleTypes) # {}
    BY <1>1, IndicesOfAppend, ZenonT(20)
  <2>2. Append(es, e)[Newest(Append(es, e), LifecycleTypes)] = e
    BY <1>1, NewestOfAppend, Appended
  <2>3. QED
    BY <1>1, <2>1, <2>2, ShowsDomain DEF Status
<1>2. CASE e.type \notin LifecycleTypes
  <2>1. Indices(Append(es, e), LifecycleTypes) = Indices(es, LifecycleTypes)
    BY <1>2, IndicesOfAppend
  <2>2. CASE Indices(es, LifecycleTypes) = {}
    BY <1>2, <2>1, <2>2, ShowsDomain DEF Status
  <2>3. CASE Indices(es, LifecycleTypes) # {}
    <3>1. Newest(es, LifecycleTypes) \in DOMAIN es
      BY <2>3, NewestIsNewest DEF Indices
    <3>2. Append(es, e)[Newest(es, LifecycleTypes)] = es[Newest(es, LifecycleTypes)]
      BY <3>1, Appended
    <3>3. Newest(Append(es, e), LifecycleTypes) = Newest(es, LifecycleTypes)
      BY <1>2, NewestOfAppend
    <3>4. QED
      BY <1>2, <2>1, <2>3, <3>2, <3>3, ShowsDomain DEF Status
  <2>4. QED
    BY <2>2, <2>3
<1>3. QED
  BY <1>1, <1>2
-----------------------------------------------------------------------------
(* What the guards say of the stream.                                      *)

\* A guard that nothing resets holds for ever once the event is recorded.
LEMMA NothingResets ==
  ASSUME NEW es \in Seq(Event), NEW type
  PROVE  AlreadyApplied(es, type, {}) <=> Has(es, type)
  BY DEF AlreadyApplied, Has

\* status() is decided by the newest lifecycle event, and tells its type.
LEMMA StatusShowsNewest ==
  ASSUME NEW es \in Seq(Event), HasNewest(es, LifecycleTypes), Status(es) # "Pending"
  PROVE  \E m \in Indices(es, LifecycleTypes) :
            /\ Status(es) = Shows[es[m].type]
            /\ \A j \in Indices(es, LifecycleTypes) : j <= m
<1>1. Indices(es, LifecycleTypes) # {}
  BY ShowsDomain DEF Status
<1>2. Status(es) = Shows[es[Newest(es, LifecycleTypes)].type]
  BY <1>1, ShowsDomain DEF Status
<1>3. QED
  BY <1>1, <1>2, NewestIsNewest

\* A session shows Pending only before its first lifecycle event.
LEMMA PendingHasNoLifecycle ==
  ASSUME NEW es \in Seq(Event), HasNewest(es, LifecycleTypes), Status(es) = "Pending"
  PROVE  Indices(es, LifecycleTypes) = {}
<1> SUFFICES ASSUME Indices(es, LifecycleTypes) # {} PROVE FALSE
  OBVIOUS
<1>1. Newest(es, LifecycleTypes) \in Indices(es, LifecycleTypes)
  BY NewestIsNewest
<1>2. es[Newest(es, LifecycleTypes)].type \in LifecycleTypes
  BY <1>1 DEF Indices
<1>3. Status(es) = Shows[es[Newest(es, LifecycleTypes)].type]
  BY ShowsDomain DEF Status
<1>4. \A type \in LifecycleTypes : Shows[type] # "Pending"
  BY DEF LifecycleTypes, Shows
<1>5. QED
  BY <1>2, <1>3, <1>4

\* The guard under which a command pushes event e on a non-empty stream.
Allows(es, e) ==
    \/ e.type = "PsbtCreated" /\ RecordsPsbt(es)
    \/ e.type = "SignatureAdded" /\ AcceptsSignature(es, e.fingerprint)
    \/ e.type = "Finalized" /\ \E list \in SigLists : /\ AcceptsFinalization(es, list)
                                                     /\ e.used = Used(list)
    \/ e.type = "BroadcastSeen" /\ RecordsBroadcast(es, e.txid)
    \/ e.type = "Confirmed" /\ RecordsConfirmation(es, e.txid)
    \/ e.type = "Invalidated" /\ RecordsInvalidation(es)
    \/ e.type = "Cancelled" /\ AcceptsCancel(es)

\* Every step proposes, or pushes one event its guard allows.
LEMMA StepsPush ==
  ASSUME TypeOK, Next
  PROVE  \/ \E p \in Policies : Propose(p)
         \/ /\ events # <<>>
            /\ \E e \in Event : Allows(events, e) /\ events' = Append(events, e)
<1> USE DEF Push
<1>1. CASE \E p \in Policies : Propose(p)
  BY <1>1
<1>2. CASE RecordPsbtCreated
  BY <1>2 DEF RecordPsbtCreated, Allows, Event
<1>3. CASE \E k \in Keystores : AddSignature(k)
  <2>1. PICK k \in Keystores : AddSignature(k)
    BY <1>3
  <2> DEFINE e == [type |-> "SignatureAdded", fingerprint |-> k]
  <2>2. e \in Event
    BY DEF Event
  <2>3. e.type = "SignatureAdded" /\ e.fingerprint = k
    OBVIOUS
  <2>4. events # <<>> /\ AcceptsSignature(events, k) /\ events' = Append(events, e)
    BY <2>1 DEF AddSignature
  <2> HIDE DEF e
  <2>5. QED
    BY <2>2, <2>3, <2>4 DEF Allows
<1>4. CASE \E tx \in Txids, list \in SigLists : Finalize(tx, list)
  <2>1. PICK tx \in Txids, list \in SigLists : Finalize(tx, list)
    BY <1>4
  <2> DEFINE e == [type |-> "Finalized", txid |-> tx, used |-> Used(list)]
  <2>2. e \in Event
    BY UsedType DEF Event
  <2>3. e.type = "Finalized" /\ e.used = Used(list)
    OBVIOUS
  <2>4. events # <<>> /\ AcceptsFinalization(events, list) /\ events' = Append(events, e)
    BY <2>1 DEF Finalize
  <2> HIDE DEF e
  <2>5. QED
    BY <2>2, <2>3, <2>4 DEF Allows
<1>5. CASE \E tx \in Txids : MarkBroadcastSeen(tx)
  <2>1. PICK tx \in Txids : MarkBroadcastSeen(tx)
    BY <1>5
  <2> DEFINE e == [type |-> "BroadcastSeen", txid |-> tx]
  <2>2. e \in Event
    BY DEF Event
  <2>3. e.type = "BroadcastSeen" /\ e.txid = tx
    OBVIOUS
  <2>4. events # <<>> /\ RecordsBroadcast(events, tx) /\ events' = Append(events, e)
    BY <2>1 DEF MarkBroadcastSeen
  <2> HIDE DEF e
  <2>5. QED
    BY <2>2, <2>3, <2>4 DEF Allows
<1>6. CASE \E tx \in Txids : Confirm(tx)
  <2>1. PICK tx \in Txids : Confirm(tx)
    BY <1>6
  <2> DEFINE e == [type |-> "Confirmed", txid |-> tx]
  <2>2. e \in Event
    BY DEF Event
  <2>3. e.type = "Confirmed" /\ e.txid = tx
    OBVIOUS
  <2>4. events # <<>> /\ RecordsConfirmation(events, tx) /\ events' = Append(events, e)
    BY <2>1 DEF Confirm
  <2> HIDE DEF e
  <2>5. QED
    BY <2>2, <2>3, <2>4 DEF Allows
<1>7. CASE Invalidate
  BY <1>7 DEF Invalidate, Allows, Event
<1>8. CASE Cancel
  BY <1>8 DEF Cancel, Allows, Event
<1>9. QED
  BY <1>1, <1>2, <1>3, <1>4, <1>5, <1>6, <1>7, <1>8 DEF Next
-----------------------------------------------------------------------------
(* The inductive invariant.  The properties the runs check need three more *)
(* facts: the stream starts with its policy, the folds find a newest       *)
(* event, and the chain only speaks of finalized sessions.                 *)

StartsWithPolicy ==
    events # <<>> => events[1].type = "Initialized" /\ events[1].policy \in Policies

FoldsHaveNewest == /\ HasNewest(events, LifecycleTypes)
                   /\ HasNewest(events, {"Finalized"})

ChainFollowsFinalization ==
    \A i \in Indices(events, ChainTypes) :
       \E j \in 1..(i - 1) : events[j].type = "Finalized"

IInv == /\ TypeOK
        /\ StartsWithPolicy
        /\ FoldsHaveNewest
        /\ ChainFollowsFinalization
        /\ AuditOrder
        /\ ChainEventsAlternate
        /\ CancelIsFinalBeforeChain
        /\ HydrationAccepts

\* What a lifecycle event shows tells its type.
LEMMA ShowsByType ==
  ASSUME NEW type \in LifecycleTypes
  PROVE  /\ Shows[type] = "Collecting" <=> type = "PsbtCreated"
         /\ Shows[type] = "Finalized" <=> type = "Finalized"
         /\ Shows[type] = "Broadcast" <=> type = "BroadcastSeen"
         /\ Shows[type] = "Confirmed" <=> type = "Confirmed"
         /\ Shows[type] = "Invalidated" <=> type = "Invalidated"
         /\ Shows[type] = "Cancelled" <=> type = "Cancelled"
         /\ Shows[type] # "Pending"
  BY DEF LifecycleTypes, Shows

\* A collecting session has its PSBT and was neither finalized nor cancelled.
LEMMA CollectingIsOpen ==
  ASSUME TypeOK, FoldsHaveNewest, AuditOrder, Status(events) = "Collecting"
  PROVE  /\ \E m \in DOMAIN events : events[m].type = "PsbtCreated"
         /\ \A i \in DOMAIN events : events[i].type \notin {"Finalized", "Cancelled"}
<1>1. events \in Seq(Event) /\ HasNewest(events, LifecycleTypes)
  BY DEF TypeOK, FoldsHaveNewest
<1>2. PICK m \in Indices(events, LifecycleTypes) :
         /\ Status(events) = Shows[events[m].type]
         /\ \A j \in Indices(events, LifecycleTypes) : j <= m
  BY <1>1, StatusShowsNewest
<1>3. m \in DOMAIN events /\ events[m].type = "PsbtCreated"
  BY <1>2, ShowsByType DEF Indices
<1>4. ASSUME NEW i \in DOMAIN events, events[i].type \in {"Finalized", "Cancelled"}
      PROVE  FALSE
  <2>1. i \in Indices(events, LifecycleTypes)
    BY <1>4 DEF Indices, LifecycleTypes
  <2>2. i <= m /\ i # m
    BY <1>2, <1>3, <1>4, <2>1
  <2>3. i \in 1..Len(events) /\ m \in 1..Len(events) /\ Len(events) \in Nat
    BY <1>1, <1>3
  <2>4. i < m
    BY <2>2, <2>3
  <2>5. QED
    BY <1>3, <1>4, <2>4 DEF AuditOrder
<1>5. QED
  BY <1>3, <1>4

\* The status guards keep the audit trail in causal order.
LEMMA AuditOrderKept ==
  ASSUME TypeOK, StartsWithPolicy, FoldsHaveNewest, AuditOrder, events # <<>>,
         NEW e \in Event, Allows(events, e), events' = Append(events, e)
  PROVE  AuditOrder'
<1> DEFINE n == Len(events)
<1>1. /\ n \in Nat
      /\ DOMAIN events = 1..n
      /\ DOMAIN events' = 1..(n + 1)
      /\ \A i \in 1..n : events'[i] = events[i]
      /\ events'[n + 1] = e
  BY Appended DEF TypeOK
<1> HIDE DEF n
<1>2. SUFFICES ASSUME NEW i \in 1..(n + 1), NEW j \in 1..(n + 1), i < j
      PROVE  /\ events'[i].type = "SignatureAdded" => events'[j].type # "PsbtCreated"
             /\ events'[i].type \in {"Finalized", "Cancelled"} =>
                   events'[j].type \notin {"PsbtCreated", "SignatureAdded", "Finalized"}
             /\ events'[j].type \in {"SignatureAdded", "Finalized"} =>
                   \E m \in 1..(j - 1) : events'[m].type = "PsbtCreated"
  BY <1>1 DEF AuditOrder
<1>3. CASE j # n + 1
  <2>1. i \in 1..n /\ j \in 1..n /\ \A m \in 1..(j - 1) : m \in 1..n
    BY <1>1, <1>2, <1>3
  <2>2. events'[i] = events[i] /\ events'[j] = events[j]
        /\ \A m \in 1..(j - 1) : events'[m] = events[m]
    BY <1>1, <2>1
  <2>3. QED
    BY <1>1, <1>2, <2>1, <2>2 DEF AuditOrder
<1>4. CASE j = n + 1
  <2>1. i \in 1..n /\ events'[i] = events[i] /\ events'[j] = e /\ 1..(j - 1) = 1..n
    BY <1>1, <1>2, <1>4
  <2>2. CASE e.type = "PsbtCreated"
    <3>1. Indices(events, LifecycleTypes) = {}
      BY <2>2, PendingHasNoLifecycle DEF Allows, RecordsPsbt, TypeOK, FoldsHaveNewest
    <3>2. \A m \in 1..n : events[m].type \notin LifecycleTypes
      BY <1>1, <3>1 DEF Indices
    <3>3. ASSUME events[i].type = "SignatureAdded" PROVE FALSE
      <4>1. events[1].type = "Initialized" /\ 1 \in 1..n
        BY <1>1, <2>1 DEF StartsWithPolicy
      <4>2. 1 < i
        BY <1>1, <2>1, <3>3, <4>1
      <4>3. \E m \in 1..(i - 1) : events[m].type = "PsbtCreated"
        BY <1>1, <2>1, <3>3, <4>1, <4>2 DEF AuditOrder
      <4>4. QED
        BY <1>1, <2>1, <3>2, <4>3 DEF LifecycleTypes
    <3>4. QED
      BY <2>1, <2>2, <3>2, <3>3 DEF LifecycleTypes
  <2>3. CASE e.type \in {"SignatureAdded", "Finalized"}
    <3>1. Status(events) = "Collecting"
      BY <2>3 DEF Allows, AcceptsSignature, AcceptsFinalization
    <3>2. QED
      BY <1>1, <2>1, <2>3, <3>1, CollectingIsOpen
  <2>4. CASE e.type \notin {"PsbtCreated", "SignatureAdded", "Finalized"}
    BY <2>1, <2>4
  <2>5. QED
    BY <2>2, <2>3, <2>4
<1>5. QED
  BY <1>3, <1>4

\* Only a finalized session hears from the chain.
LEMMA ChainFollowsFinalizationKept ==
  ASSUME TypeOK, FoldsHaveNewest, ChainFollowsFinalization,
         NEW e \in Event, Allows(events, e), events' = Append(events, e)
  PROVE  ChainFollowsFinalization'
<1> DEFINE n == Len(events)
<1>1. /\ n \in Nat
      /\ DOMAIN events = 1..n
      /\ DOMAIN events' = 1..(n + 1)
      /\ \A i \in 1..n : events'[i] = events[i]
      /\ events'[n + 1] = e
  BY Appended DEF TypeOK
<1> HIDE DEF n
<1>2. SUFFICES ASSUME NEW i \in 1..(n + 1), events'[i].type \in ChainTypes
      PROVE  \E j \in 1..(i - 1) : events'[j].type = "Finalized"
  BY <1>1 DEF ChainFollowsFinalization, Indices
<1>3. CASE i # n + 1
  <2>1. i \in 1..n /\ i \in Indices(events, ChainTypes)
    BY <1>1, <1>2, <1>3 DEF Indices
  <2>2. PICK j \in 1..(i - 1) : events[j].type = "Finalized"
    BY <2>1 DEF ChainFollowsFinalization
  <2>3. j \in 1..n
    BY <1>1, <2>1, <2>2
  <2>4. QED
    BY <1>1, <2>2, <2>3
<1>4. CASE i = n + 1
  <2>1. \E j \in 1..n : events[j].type = "Finalized"
    <3>1. CASE e.type \in {"BroadcastSeen", "Confirmed"}
      BY <1>1, <3>1
         DEF Allows, RecordsBroadcast, RecordsConfirmation, Names, Has, Indices
    <3>2. CASE e.type = "Invalidated"
      <4>1. Status(events) \in {"Broadcast", "Confirmed"}
        BY <3>2 DEF Allows, RecordsInvalidation
      <4>2. PICK m \in Indices(events, LifecycleTypes) :
               Status(events) = Shows[events[m].type]
        BY <4>1, StatusShowsNewest DEF TypeOK, FoldsHaveNewest
      <4>3. m \in 1..n /\ events[m].type \in ChainTypes
        BY <1>1, <4>1, <4>2, ShowsByType DEF Indices, ChainTypes
      <4>4. PICK j \in 1..(m - 1) : events[j].type = "Finalized"
        BY <1>1, <4>3 DEF ChainFollowsFinalization, Indices
      <4>5. QED
        BY <1>1, <4>3, <4>4
    <3>3. QED
      BY <1>1, <1>2, <1>4, <3>1, <3>2 DEF ChainTypes
  <2>2. QED
    BY <1>1, <1>4, <2>1
<1>5. QED
  BY <1>3, <1>4

\* The guards of Confirm and Invalidate keep the chain's epochs apart, and the
\* txid they compare is that of the finalization.
LEMMA ChainEventsAlternateKept ==
  ASSUME TypeOK, FoldsHaveNewest, ChainEventsAlternate,
         NEW e \in Event, Allows(events, e), events' = Append(events, e)
  PROVE  ChainEventsAlternate'
<1> DEFINE n == Len(events)
<1>1. /\ n \in Nat
      /\ DOMAIN events = 1..n
      /\ DOMAIN events' = 1..(n + 1)
      /\ \A i \in 1..n : events'[i] = events[i]
      /\ events'[n + 1] = e
  BY Appended DEF TypeOK
<1> HIDE DEF n
<1>2. ASSUME NEW i \in 1..(n + 1), NEW j \in 1..(n + 1), i < j,
             events'[i].type = events'[j].type,
             events'[i].type \in {"Confirmed", "Invalidated"}
      PROVE  \E m \in (i + 1)..(j - 1) :
                events'[m].type \in {"Confirmed", "Invalidated"} \ {events'[i].type}
  <2>1. i \in 1..n /\ events'[i] = events[i]
    BY <1>1, <1>2
  <2>2. SUFFICES \E m \in (i + 1)..(j - 1) :
                    events[m].type \in {"Confirmed", "Invalidated"} \ {events[i].type}
    BY <1>1, <1>2, <2>1
  <2>3. CASE j # n + 1
    BY <1>1, <1>2, <2>1, <2>3 DEF ChainEventsAlternate
  <2>4. CASE j = n + 1
    <3>1. e.type = events[i].type /\ i \in Indices(events, {e.type})
      BY <1>1, <1>2, <2>1, <2>4 DEF Indices
    <3>2. CASE e.type = "Confirmed"
      <4>1. ~AlreadyApplied(events, "Confirmed", {"Invalidated"})
        BY <3>2 DEF Allows, RecordsConfirmation
      <4>2. QED
        BY <1>1, <2>4, <3>1, <3>2, <4>1 DEF AlreadyApplied, n
    <3>3. CASE e.type = "Invalidated"
      <4>1. ~AlreadyApplied(events, "Invalidated", {"Confirmed"})
        BY <3>3 DEF Allows, RecordsInvalidation
      <4>2. QED
        BY <1>1, <2>4, <3>1, <3>3, <4>1 DEF AlreadyApplied, n
    <3>4. QED
      BY <1>2, <2>1, <3>1, <3>2, <3>3
  <2>5. QED
    BY <2>3, <2>4
<1>3. ASSUME NEW i \in 1..(n + 1), events'[i].type \in {"BroadcastSeen", "Confirmed"}
      PROVE  \E j \in 1..(i - 1) : /\ events'[j].type = "Finalized"
                                   /\ events'[j].txid = events'[i].txid
  <2>1. CASE i # n + 1
    <3>1. i \in 1..n /\ events'[i] = events[i]
      BY <1>1, <2>1
    <3>2. PICK j \in 1..(i - 1) : /\ events[j].type = "Finalized"
                                  /\ events[j].txid = events[i].txid
      BY <1>1, <1>3, <3>1 DEF ChainEventsAlternate, Indices
    <3>3. j \in 1..n
      BY <1>1, <3>1
    <3>4. QED
      BY <1>1, <3>1, <3>2, <3>3
  <2>2. CASE i = n + 1
    <3>1. Names(events, e.txid)
      BY <1>1, <1>3, <2>2 DEF Allows, RecordsBroadcast, RecordsConfirmation
    <3>2. Newest(events, {"Finalized"}) \in Indices(events, {"Finalized"})
      BY <3>1, NewestIsNewest DEF TypeOK, FoldsHaveNewest, Names, Has
    <3>3. /\ Newest(events, {"Finalized"}) \in 1..n
          /\ events[Newest(events, {"Finalized"})].type = "Finalized"
          /\ events[Newest(events, {"Finalized"})].txid = e.txid
      BY <1>1, <3>1, <3>2 DEF Indices, Names, Finalization
    <3>4. QED
      BY <1>1, <2>2, <3>3
  <2>3. QED
    BY <2>1, <2>2
<1>4. QED
  BY <1>1, <1>2, <1>3 DEF ChainEventsAlternate, Indices

\* Cancel is only accepted before any chain event, and a session cancelled
\* before it was finalized is closed: every other command refuses it.
LEMMA CancelKept ==
  ASSUME TypeOK, FoldsHaveNewest, ChainFollowsFinalization, AuditOrder,
         CancelIsFinalBeforeChain,
         NEW e \in Event, Allows(events, e), events' = Append(events, e)
  PROVE  CancelIsFinalBeforeChain'
<1> DEFINE n == Len(events)
<1>1. /\ n \in Nat
      /\ DOMAIN events = 1..n
      /\ DOMAIN events' = 1..(n + 1)
      /\ \A i \in 1..n : events'[i] = events[i]
      /\ events'[n + 1] = e
      /\ Len(events') = n + 1
  BY Appended DEF TypeOK
<1>2. events \in Seq(Event) /\ HasNewest(events, LifecycleTypes)
  BY DEF TypeOK, FoldsHaveNewest
<1> HIDE DEF n
<1>3. SUFFICES ASSUME NEW i \in 1..(n + 1), events'[i].type = "Cancelled"
      PROVE  /\ \A j \in 1..(i - 1) : events'[j].type \notin ChainTypes
             /\ Has(events', "Finalized") \/ i = n + 1
  BY <1>1 DEF CancelIsFinalBeforeChain, Indices, ChainTypes
<1>4. CASE i = n + 1
  <2>1. Status(events) \in {"Pending", "Collecting", "Finalized"}
    BY <1>1, <1>3, <1>4 DEF Allows, AcceptsCancel
  <2>2. ASSUME NEW j \in 1..n, events[j].type \in ChainTypes PROVE FALSE
    <3>1. j \in Indices(events, LifecycleTypes)
      BY <1>1, <2>2 DEF Indices, LifecycleTypes, ChainTypes
    <3>2. PICK m \in Indices(events, LifecycleTypes) :
             /\ Status(events) = Shows[events[m].type]
             /\ \A l \in Indices(events, LifecycleTypes) : l <= m
      BY <1>2, <3>1, StatusShowsNewest, PendingHasNoLifecycle
    <3>3. m \in 1..n /\ events[m].type \in {"PsbtCreated", "Finalized"}
      BY <1>1, <2>1, <3>2, ShowsByType DEF Indices
    <3>4. j < m
      BY <1>1, <2>2, <3>1, <3>2, <3>3 DEF ChainTypes
    <3>5. PICK k \in 1..(j - 1) : events[k].type = "Finalized"
      BY <1>1, <2>2 DEF ChainFollowsFinalization, Indices
    <3>6. k \in 1..n /\ k < m
      BY <1>1, <3>3, <3>4, <3>5
    <3>7. QED
      BY <1>1, <3>3, <3>5, <3>6 DEF AuditOrder
  <2>3. QED
    BY <1>1, <1>4, <2>2
<1>5. CASE i # n + 1
  <2>1. i \in 1..n /\ i \in Indices(events, {"Cancelled"})
    BY <1>1, <1>3, <1>5 DEF Indices
  <2>2. \A j \in 1..(i - 1) : events'[j].type \notin ChainTypes
    BY <1>1, <2>1 DEF CancelIsFinalBeforeChain, ChainTypes
  <2>3. Has(events, "Finalized") \/ i = n
    BY <2>1 DEF CancelIsFinalBeforeChain, n
  <2>4. ASSUME i = n, ~Has(events, "Finalized") PROVE FALSE
    <3>1. i \in Indices(events, LifecycleTypes) /\ events[i].type = "Cancelled"
      BY <2>1 DEF Indices, LifecycleTypes
    <3>2. PICK m \in Indices(events, LifecycleTypes) :
             /\ Status(events) = Shows[events[m].type]
             /\ \A l \in Indices(events, LifecycleTypes) : l <= m
      BY <1>2, <3>1, StatusShowsNewest, PendingHasNoLifecycle
    <3>3. m = n
      BY <1>1, <2>4, <3>1, <3>2 DEF Indices
    <3>4. Status(events) = "Cancelled"
      BY <2>4, <3>1, <3>2, <3>3 DEF Shows
    <3>5. AlreadyApplied(events, "Cancelled", {})
      BY <1>2, <2>1, NothingResets DEF Has
    <3>6. QED
      BY <2>4, <3>4, <3>5
         DEF Allows, RecordsPsbt, AcceptsSignature, AcceptsFinalization,
             RecordsBroadcast, RecordsConfirmation, RecordsInvalidation,
             AcceptsCancel, Names
  <2>5. Has(events, "Finalized") => Has(events', "Finalized")
    BY <1>2, HasOfAppend
  <2>6. QED
    BY <2>2, <2>3, <2>4, <2>5
<1>6. QED
  BY <1>4, <1>5

\* A list without repetition names as many keystores as it has entries.
LEMMA DistinctEntriesCount ==
  ASSUME NEW list \in Seq(Keystores), IsInjective(list)
  PROVE  IsFiniteSet(Range(list)) /\ Cardinality(Range(list)) = Len(list)
<1>1. Len(list) \in Nat /\ DOMAIN list = 1..Len(list)
  OBVIOUS
<1>2. list \in Bijection(1..Len(list), Range(list))
  BY <1>1 DEF IsInjective, Range, Bijection, Injection, Surjection
<1>3. ExistsBijection(1..Len(list), Range(list))
  BY <1>2 DEF ExistsBijection
<1>4. QED
  BY <1>1, <1>3, FS_CountingElements, FS_NatBijection

\* Whatever a command pushes, the stream still loads.
LEMMA HydrationKept ==
  ASSUME TypeOK, StartsWithPolicy, FoldsHaveNewest, HydrationAccepts, events # <<>>,
         NEW e \in Event, Allows(events, e), events' = Append(events, e)
  PROVE  HydrationAccepts'
<1> DEFINE n == Len(events)
           policy == Policy(events)
<1>1. /\ n \in Nat \ {0}
      /\ DOMAIN events = 1..n
      /\ DOMAIN events' = 1..(n + 1)
      /\ \A i \in 1..n : events'[i] = events[i]
      /\ events'[n + 1] = e
  BY Appended DEF TypeOK
<1>2. Policy(events') = policy
  BY <1>1 DEF Policy
<1>3. policy.threshold \in 1..Cardinality(policy.keystores)
  BY DEF HydrationAccepts
<1> HIDE DEF n
<1>4. ASSUME NEW i \in Indices(events', {"SignatureAdded"}), i # n + 1
      PROVE  i \in Indices(events, {"SignatureAdded"}) /\ events'[i] = events[i]
  BY <1>1, <1>4 DEF Indices
<1>5. ASSUME e.type = "SignatureAdded"
      PROVE  e.fingerprint \in policy.keystores /\ ~Signed(events, e.fingerprint)
  BY <1>5 DEF Allows, AcceptsSignature
<1>6. ASSUME NEW i \in Indices(events', {"SignatureAdded"})
      PROVE  events'[i].fingerprint \in policy.keystores
  <2>1. CASE i = n + 1
    BY <1>1, <1>5, <1>6, <2>1 DEF Indices
  <2>2. CASE i # n + 1
    BY <1>4, <1>6, <2>2 DEF HydrationAccepts
  <2>3. QED
    BY <2>1, <2>2
<1>7. ASSUME NEW i \in Indices(events', {"SignatureAdded"}),
             NEW j \in Indices(events', {"SignatureAdded"}),
             events'[i].fingerprint = events'[j].fingerprint
      PROVE  i = j
  <2>1. CASE i = n + 1 /\ j # n + 1
    BY <1>1, <1>4, <1>5, <1>7, <2>1 DEF Indices, Signed
  <2>2. CASE j = n + 1 /\ i # n + 1
    BY <1>1, <1>4, <1>5, <1>7, <2>2 DEF Indices, Signed
  <2>3. CASE i # n + 1 /\ j # n + 1
    BY <1>4, <1>7, <2>3 DEF HydrationAccepts
  <2>4. QED
    BY <2>1, <2>2, <2>3
<1>8. \A k : Signed(events, k) => k \in Signers(events')
  <2>1. \A i \in Indices(events, {"SignatureAdded"}) :
           i \in Indices(events', {"SignatureAdded"}) /\ events'[i] = events[i]
    BY <1>1 DEF Indices
  <2>2. QED
    BY <2>1 DEF Signed, Signers
<1>9. ASSUME Has(events', "Finalized")
      PROVE  /\ Cardinality(Finalization(events').used) >= policy.threshold
             /\ Finalization(events').used \subseteq Signers(events')
  <2>1. CASE e.type = "Finalized"
    <3>1. Finalization(events') = e
      BY <1>1, <2>1, NewestOfAppend DEF Finalization, TypeOK, n
    <3>2. PICK list \in SigLists : AcceptsFinalization(events, list) /\ e.used = Used(list)
      BY <2>1 DEF Allows
    <3>3. list \in Seq(Keystores)
      BY SigListAssumption
    <3>4. Cardinality(e.used) = Len(list)
      BY <3>2, <3>3, DistinctEntriesCount DEF AcceptsFinalization, Used
    <3>5. Len(list) >= policy.threshold
      BY <3>2 DEF AcceptsFinalization
    <3>6. e.used \subseteq Signers(events')
      BY <1>8, <3>2 DEF AcceptsFinalization, Used, Range
    <3>7. QED
      BY <3>1, <3>4, <3>5, <3>6
  <2>2. CASE e.type # "Finalized"
    <3>1. Has(events, "Finalized") /\ Indices(events, {"Finalized"}) # {}
      BY <1>9, <2>2, HasOfAppend DEF TypeOK, Has
    <3>2. Newest(events', {"Finalized"}) = Newest(events, {"Finalized"})
      BY <2>2, NewestOfAppend DEF TypeOK
    <3>3. Newest(events, {"Finalized"}) \in 1..n
      BY <1>1, <3>1, NewestIsNewest DEF TypeOK, FoldsHaveNewest, Indices
    <3>4. Finalization(events') = Finalization(events)
      BY <1>1, <3>2, <3>3 DEF Finalization
    <3>5. /\ Cardinality(Finalization(events).used) >= policy.threshold
          /\ Finalization(events).used \subseteq Signers(events)
      BY <3>1 DEF HydrationAccepts
    <3>6. Signers(events) \subseteq Signers(events')
      BY <1>8 DEF Signers, Signed
    <3>7. QED
      BY <3>4, <3>5, <3>6
  <2>3. QED
    BY <2>1, <2>2
<1>10. QED
  BY <1>2, <1>3, <1>6, <1>7, <1>9 DEF HydrationAccepts

\* A proposal starts the stream with an active wallet's policy.
LEMMA ProposalStarts ==
  ASSUME NEW p \in Policies, Propose(p)
  PROVE  IInv'
<1> DEFINE e == [type |-> "Initialized", policy |-> p]
<1>1. e \in Event /\ e.type = "Initialized" /\ e.policy = p
  BY DEF Event
<1>2. events' = Append(events, e) /\ events = <<>>
  BY DEF Propose, Push
<1> HIDE DEF e
<1>3. events' \in Seq(Event) /\ Len(events') = 1 /\ DOMAIN events' = {1} /\ events'[1] = e
  BY <1>1, <1>2
<1>4. \A types : "Initialized" \notin types => Indices(events', types) = {}
  BY <1>1, <1>3 DEF Indices
<1>5. /\ Indices(events', LifecycleTypes) = {}
      /\ Indices(events', ChainTypes) = {}
      /\ Indices(events', {"BroadcastSeen", "Confirmed"}) = {}
      /\ \A type \in {"Finalized", "Cancelled", "SignatureAdded"} :
            Indices(events', {type}) = {}
  BY <1>4 DEF LifecycleTypes, ChainTypes
<1>6. TypeOK' /\ StartsWithPolicy'
  BY <1>1, <1>3 DEF TypeOK, StartsWithPolicy
<1>7. FoldsHaveNewest' /\ ChainFollowsFinalization'
  BY <1>5 DEF FoldsHaveNewest, HasNewest, ChainFollowsFinalization
<1>8. AuditOrder'
  BY <1>3 DEF AuditOrder
<1>9. ChainEventsAlternate' /\ CancelIsFinalBeforeChain'
  BY <1>3, <1>5 DEF ChainEventsAlternate, CancelIsFinalBeforeChain
<1>10. HydrationAccepts'
  <2>1. Policy(events') = p
    BY <1>1, <1>3 DEF Policy
  <2>2. p.threshold \in 1..Cardinality(p.keystores)
    BY PolicyAssumption, FS_CardinalityType
  <2>3. QED
    BY <1>5, <2>1, <2>2 DEF HydrationAccepts, Has
<1>11. QED
  BY <1>6, <1>7, <1>8, <1>9, <1>10 DEF IInv

\* An event its guard allows keeps the invariant.
LEMMA PushKeeps ==
  ASSUME IInv, events # <<>>,
         NEW e \in Event, Allows(events, e), events' = Append(events, e)
  PROVE  IInv'
<1> USE DEF IInv
<1>1. TypeOK'
  BY Appended DEF TypeOK
<1>2. StartsWithPolicy'
  <2>1. 1 \in 1..Len(events)
    BY DEF TypeOK
  <2>2. events'[1] = events[1]
    BY <2>1, Appended DEF TypeOK
  <2>3. QED
    BY <2>2 DEF StartsWithPolicy
<1>3. FoldsHaveNewest'
  BY HasNewestOfAppend DEF TypeOK, FoldsHaveNewest
<1>4. ChainFollowsFinalization'
  BY ChainFollowsFinalizationKept
<1>5. AuditOrder'
  BY AuditOrderKept
<1>6. ChainEventsAlternate'
  BY ChainEventsAlternateKept
<1>7. CancelIsFinalBeforeChain'
  BY CancelKept
<1>8. HydrationAccepts'
  BY HydrationKept
<1>9. QED
  BY <1>1, <1>2, <1>3, <1>4, <1>5, <1>6, <1>7, <1>8

\* The invariant is inductive.
LEMMA InvariantKept == IInv /\ [Next]_vars => IInv'
<1> SUFFICES ASSUME IInv, [Next]_vars PROVE IInv'
  OBVIOUS
<1>1. CASE UNCHANGED vars
  <2>1. events' = events
    BY <1>1 DEF vars
  <2>2. QED
    BY <2>1 DEF IInv, TypeOK, StartsWithPolicy, FoldsHaveNewest,
                ChainFollowsFinalization, AuditOrder, ChainEventsAlternate,
                CancelIsFinalBeforeChain, HydrationAccepts
<1>2. CASE \E p \in Policies : Propose(p)
  BY <1>2, ProposalStarts
<1>3. CASE Next
  BY <1>2, <1>3, StepsPush, PushKeeps DEF IInv
<1>4. QED
  BY <1>1, <1>3

\* The inductive invariant holds of every stream the commands can record.
LEMMA InvariantHolds == Spec => []IInv
<1>1. Init => IInv
  BY DEF Init, IInv, TypeOK, StartsWithPolicy, FoldsHaveNewest, HasNewest, Indices,
         ChainFollowsFinalization, AuditOrder, ChainEventsAlternate,
         CancelIsFinalBeforeChain, HydrationAccepts
<1>2. QED
  BY <1>1, InvariantKept, PTL DEF Spec

\* No sequence of commands leaves a session that verify_hydrated_invariants
\* refuses to load: every authority is a quorum of distinct recorded signers.
THEOREM AlwaysLoads == Spec => []HydrationAccepts
<1>1. IInv => HydrationAccepts
  BY DEF IInv
<1>2. QED
  BY <1>1, InvariantHolds, PTL

\* The audit trail is in causal order, whatever order the commands arrive in.
THEOREM AuditTrailOrdered == Spec => []AuditOrder
<1>1. IInv => AuditOrder
  BY DEF IInv
<1>2. QED
  BY <1>1, InvariantHolds, PTL

\* Cancel never follows a chain event, and closes an unfinalized session.
THEOREM CancelFinal == Spec => []CancelIsFinalBeforeChain
<1>1. IInv => CancelIsFinalBeforeChain
  BY DEF IInv
<1>2. QED
  BY <1>1, InvariantHolds, PTL

\* The stream records each confirmation epoch once, and only of the
\* transaction the quorum authorised.
THEOREM EpochsAlternate == Spec => []ChainEventsAlternate
<1>1. IInv => ChainEventsAlternate
  BY DEF IInv
<1>2. QED
  BY <1>1, InvariantHolds, PTL
-----------------------------------------------------------------------------
(* PsbtSession implements SpendLifecycle.                                  *)

\* What a pushed event changes of the state the session reports.
LEMMA FoldsOfPush ==
  ASSUME TypeOK, FoldsHaveNewest, events # <<>>,
         NEW e \in Event, events' = Append(events, e)
  PROVE  /\ events' # <<>>
         /\ Policy(events') = Policy(events)
         /\ Status(events') = IF e.type \in LifecycleTypes THEN Shows[e.type]
                              ELSE Status(events)
         /\ e.type = "SignatureAdded" =>
               Signers(events') = Signers(events) \cup {e.fingerprint}
         /\ e.type # "SignatureAdded" => Signers(events') = Signers(events)
         /\ e.type = "Finalized" => /\ Has(events', "Finalized")
                                    /\ Finalization(events') = e
         /\ e.type # "Finalized" =>
               /\ Has(events', "Finalized") <=> Has(events, "Finalized")
               /\ Has(events, "Finalized") => Finalization(events') = Finalization(events)
<1> DEFINE n == Len(events)
<1>1. /\ n \in Nat \ {0}
      /\ DOMAIN events = 1..n
      /\ DOMAIN events' = 1..(n + 1)
      /\ \A i \in 1..n : events'[i] = events[i]
      /\ events'[n + 1] = e
  BY Appended DEF TypeOK
<1>2. events \in Seq(Event) /\ HasNewest(events, LifecycleTypes)
  BY DEF TypeOK, FoldsHaveNewest
<1>3. \A i \in Indices(events, {"SignatureAdded"}) : events'[i] = events[i]
  BY <1>1 DEF Indices
<1>4. events' # <<>> /\ Policy(events') = Policy(events)
  BY <1>1 DEF Policy
<1>5. Status(events') = IF e.type \in LifecycleTypes THEN Shows[e.type] ELSE Status(events)
  BY <1>2, StatusOfAppend
<1>6. ASSUME e.type = "SignatureAdded"
      PROVE  Signers(events') = Signers(events) \cup {e.fingerprint}
  <2>1. Indices(events', {"SignatureAdded"}) = Indices(events, {"SignatureAdded"}) \cup {n + 1}
    BY <1>2, <1>6, IndicesOfAppend
  <2>2. n + 1 \in Indices(events', {"SignatureAdded"}) /\ events'[n + 1] = e
    BY <1>1, <2>1
  <2> HIDE DEF n
  <2>3. \A k : k \in Signers(events') <=> k \in Signers(events) \/ k = e.fingerprint
    BY <1>3, <2>1, <2>2 DEF Signers
  <2>4. QED
    BY <2>3
<1>7. ASSUME e.type # "SignatureAdded" PROVE Signers(events') = Signers(events)
  <2>1. Indices(events', {"SignatureAdded"}) = Indices(events, {"SignatureAdded"})
    BY <1>2, <1>7, IndicesOfAppend
  <2>2. QED
    BY <1>3, <2>1 DEF Signers
<1>8. Has(events', "Finalized") <=> Has(events, "Finalized") \/ e.type = "Finalized"
  BY <1>2, HasOfAppend
<1>9. ASSUME e.type = "Finalized" PROVE Finalization(events') = e
  BY <1>1, <1>2, <1>9, NewestOfAppend DEF Finalization
<1>10. ASSUME e.type # "Finalized", Has(events, "Finalized")
       PROVE  Finalization(events') = Finalization(events)
  <2>1. Newest(events', {"Finalized"}) = Newest(events, {"Finalized"})
    BY <1>2, <1>10, NewestOfAppend
  <2>2. Newest(events, {"Finalized"}) \in 1..n
    BY <1>1, <1>10, NewestIsNewest DEF TypeOK, FoldsHaveNewest, Indices, Has
  <2>3. QED
    BY <1>1, <2>1, <2>2 DEF Finalization
<1>11. QED
  BY <1>4, <1>5, <1>6, <1>7, <1>8, <1>9, <1>10

\* The transaction of a finalized session is one.
LEMMA FinalizationNamesTx ==
  ASSUME TypeOK, FoldsHaveNewest, Has(events, "Finalized")
  PROVE  Finalization(events).txid \in Txids
<1>1. /\ Newest(events, {"Finalized"}) \in DOMAIN events
      /\ events[Newest(events, {"Finalized"})].type = "Finalized"
  BY NewestIsNewest DEF TypeOK, FoldsHaveNewest, Has, Indices
<1>2. Finalization(events) \in Event
  BY <1>1, ElementOfSeq DEF Finalization, TypeOK
<1>3. Finalization(events).type = "Finalized"
  BY <1>1 DEF Finalization
<1>4. QED
  BY <1>2, <1>3 DEF Event

\* A finalization ends the collection phase for good.
LEMMA FinalizedIsPastCollection ==
  ASSUME TypeOK, FoldsHaveNewest, AuditOrder, Has(events, "Finalized")
  PROVE  Status(events) \in {"Finalized", "Broadcast", "Confirmed", "Invalidated", "Cancelled"}
<1>1. PICK f \in DOMAIN events : events[f].type = "Finalized"
  BY DEF Has, Indices
<1>2. f \in Indices(events, LifecycleTypes)
  BY <1>1 DEF Indices, LifecycleTypes
<1>3. Status(events) # "Pending"
  BY <1>2, PendingHasNoLifecycle DEF TypeOK, FoldsHaveNewest
<1>4. Status(events) # "Collecting"
  BY <1>1, CollectingIsOpen
<1>5. PICK m \in Indices(events, LifecycleTypes) : Status(events) = Shows[events[m].type]
  BY <1>3, StatusShowsNewest DEF TypeOK, FoldsHaveNewest
<1>6. events[m].type \in LifecycleTypes
  BY <1>5 DEF Indices
<1>7. QED
  BY <1>4, <1>5, <1>6, ShowsByType DEF LifecycleTypes

\* A session that shows Confirmed refuses another confirmation: no reversal
\* was recorded since.
LEMMA ConfirmedIsApplied ==
  ASSUME TypeOK, FoldsHaveNewest, Status(events) = "Confirmed"
  PROVE  AlreadyApplied(events, "Confirmed", {"Invalidated"})
<1>1. PICK m \in Indices(events, LifecycleTypes) :
         /\ Status(events) = Shows[events[m].type]
         /\ \A j \in Indices(events, LifecycleTypes) : j <= m
  BY StatusShowsNewest DEF TypeOK, FoldsHaveNewest
<1>2. m \in DOMAIN events /\ events[m].type = "Confirmed"
  BY <1>1, ShowsByType DEF Indices
<1>3. Len(events) \in Nat /\ DOMAIN events = 1..Len(events)
  BY DEF TypeOK
<1>4. \A j \in (m + 1)..Len(events) : events[j].type # "Invalidated"
  BY <1>1, <1>2, <1>3 DEF Indices, LifecycleTypes
<1>5. QED
  BY <1>2, <1>4 DEF AlreadyApplied, Indices

\* A session that shows Broadcast has recorded the sighting.
LEMMA BroadcastIsApplied ==
  ASSUME TypeOK, FoldsHaveNewest, Status(events) = "Broadcast"
  PROVE  AlreadyApplied(events, "BroadcastSeen", {})
<1>1. PICK m \in Indices(events, LifecycleTypes) : Status(events) = Shows[events[m].type]
  BY StatusShowsNewest DEF TypeOK, FoldsHaveNewest
<1>2. m \in DOMAIN events /\ events[m].type = "BroadcastSeen"
  BY <1>1, ShowsByType DEF Indices
<1>3. QED
  BY <1>2 DEF AlreadyApplied, Indices

\* The lifecycle counts a quorum with the same Cardinality.
LEMMA SameCardinality == \A S : Lifecycle!Cardinality(S) = Cardinality(S)
  BY DEF Cardinality, Lifecycle!Cardinality, IsFiniteSet, Lifecycle!IsFiniteSet

\* Every push on a proposed session is a step of the lifecycle.
LEMMA PushImplements ==
  ASSUME IInv, events # <<>>,
         NEW e \in Event, Allows(events, e), events' = Append(events, e)
  PROVE  Lifecycle!Next
<1>1. /\ TypeOK /\ FoldsHaveNewest /\ AuditOrder
      /\ e.type \in LifecycleTypes \cup {"Initialized", "SignatureAdded"}
  BY EventTypes DEF IInv
<1>2. /\ events' # <<>>
      /\ Policy(events') = Policy(events)
      /\ Status(events') = IF e.type \in LifecycleTypes THEN Shows[e.type]
                           ELSE Status(events)
      /\ e.type # "SignatureAdded" => Signers(events') = Signers(events)
      /\ e.type # "Finalized" =>
            /\ Has(events', "Finalized") <=> Has(events, "Finalized")
            /\ Has(events, "Finalized") => Finalization(events') = Finalization(events)
  BY <1>1, FoldsOfPush
<1>3. CASE e.type = "PsbtCreated"
  <2>1. Status(events) = "Pending" /\ Status(events') = "Collecting"
    BY <1>2, <1>3, ShowsByType DEF Allows, RecordsPsbt, LifecycleTypes
  <2>2. Lifecycle!AttachPsbt
    BY <1>2, <1>3, <2>1 DEF Lifecycle!AttachPsbt
  <2>3. QED
    BY <2>2 DEF Lifecycle!Next
<1>4. CASE e.type = "SignatureAdded"
  <2>1. AcceptsSignature(events, e.fingerprint) /\ e.fingerprint \in Keystores
    BY <1>4 DEF Allows, Event
  <2>2. Status(events) = "Collecting" /\ Status(events') = "Collecting"
    BY <1>2, <1>4, <2>1 DEF AcceptsSignature, LifecycleTypes
  <2>3. e.fingerprint \in Policy(events).keystores \ Signers(events)
    BY <2>1 DEF AcceptsSignature, Signed, Signers
  <2>4. Signers(events') = Signers(events) \cup {e.fingerprint}
    BY <1>1, <1>4, FoldsOfPush
  <2>5. Lifecycle!Sign(e.fingerprint)
    BY <1>2, <1>4, <2>2, <2>3, <2>4 DEF Lifecycle!Sign
  <2>6. QED
    BY <2>1, <2>5 DEF Lifecycle!Next
<1>5. CASE e.type = "Finalized"
  <2>1. PICK list \in SigLists : AcceptsFinalization(events, list) /\ e.used = Used(list)
    BY <1>5 DEF Allows
  <2>2. Status(events) = "Collecting" /\ Status(events') = "Finalized"
    BY <1>2, <1>5, <2>1, ShowsByType DEF AcceptsFinalization, LifecycleTypes
  <2>3. Cardinality(e.used) >= Policy(events).threshold
    BY <2>1, SigListAssumption, DistinctEntriesCount DEF AcceptsFinalization, Used
  <2>4. e.used \subseteq Signers(events)
    BY <2>1 DEF AcceptsFinalization, Used, Range, Signed, Signers
  <2>5. e.txid \in Txids /\ e.used \in SUBSET Keystores
    BY <1>5 DEF Event
  <2>6. Has(events', "Finalized") /\ Finalization(events') = e
    BY <1>1, <1>5, FoldsOfPush
  <2>7. Lifecycle!Authorize(e.txid, e.used)
    BY <1>2, <1>5, <2>2, <2>3, <2>4, <2>6, SameCardinality DEF Lifecycle!Authorize
  <2>8. QED
    BY <2>5, <2>7 DEF Lifecycle!Next
<1>6. CASE e.type = "Cancelled"
  <2>1. Status(events) \in {"Pending", "Collecting", "Finalized"} /\ Status(events') = "Cancelled"
    BY <1>2, <1>6, ShowsByType DEF Allows, AcceptsCancel, LifecycleTypes
  <2>2. Lifecycle!Abandon
    BY <1>2, <1>6, <2>1 DEF Lifecycle!Abandon
  <2>3. QED
    BY <2>2 DEF Lifecycle!Next
<1>7. CASE e.type \in {"BroadcastSeen", "Confirmed"}
  <2>1. Names(events, e.txid)
    BY <1>7 DEF Allows, RecordsBroadcast, RecordsConfirmation
  <2>2. Has(events, "Finalized") /\ Finalization(events).txid # None
    BY <1>1, <2>1, FinalizationNamesTx, NoneAssumption DEF Names
  <2>3. Status(events) \in {"Finalized", "Broadcast", "Confirmed", "Invalidated", "Cancelled"}
    BY <1>1, <2>2, FinalizedIsPastCollection
  <2>4. CASE e.type = "BroadcastSeen"
    <3>1. Status(events) \notin {"Broadcast", "Confirmed"} /\ Status(events') = "Broadcast"
      BY <1>1, <1>2, <2>4, BroadcastIsApplied, ShowsByType
         DEF Allows, RecordsBroadcast, LifecycleTypes
    <3>2. Lifecycle!SeeInMempool
      BY <1>2, <2>2, <2>3, <2>4, <3>1 DEF Lifecycle!SeeInMempool
    <3>3. QED
      BY <3>2 DEF Lifecycle!Next
  <2>5. CASE e.type = "Confirmed"
    <3>1. Status(events) # "Confirmed" /\ Status(events') = "Confirmed"
      BY <1>1, <1>2, <2>5, ConfirmedIsApplied, ShowsByType
         DEF Allows, RecordsConfirmation, LifecycleTypes
    <3>2. Lifecycle!SeeInBlock
      BY <1>2, <2>2, <2>3, <2>5, <3>1 DEF Lifecycle!SeeInBlock
    <3>3. QED
      BY <3>2 DEF Lifecycle!Next
  <2>6. QED
    BY <1>7, <2>4, <2>5
<1>8. CASE e.type = "Invalidated"
  <2>1. Status(events) \in {"Broadcast", "Confirmed"} /\ Status(events') = "Invalidated"
    BY <1>2, <1>8, ShowsByType DEF Allows, RecordsInvalidation, LifecycleTypes
  <2>2. Lifecycle!SeeReversal
    BY <1>2, <1>8, <2>1 DEF Lifecycle!SeeReversal
  <2>3. QED
    BY <2>2 DEF Lifecycle!Next
<1>9. e.type # "Initialized"
  BY DEF Allows
<1>10. QED
  BY <1>1, <1>3, <1>4, <1>5, <1>6, <1>7, <1>8, <1>9 DEF LifecycleTypes

\* The event stream with its backward scans implements the session's promise.
THEOREM SessionImplementsLifecycle == Spec => ImplementsLifecycle
<1>1. Init => Lifecycle!Init
  BY DEF Init, Lifecycle!Init, Signers, Has, Indices
<1>2. IInv /\ [Next]_vars => [Lifecycle!Next]_(Lifecycle!vars)
  <2> SUFFICES ASSUME IInv, [Next]_vars PROVE [Lifecycle!Next]_(Lifecycle!vars)
    OBVIOUS
  <2>1. CASE \E p \in Policies : Propose(p)
    <3>1. PICK p \in Policies : Propose(p)
      BY <2>1
    <3>2. events = <<>> /\ events' = <<[type |-> "Initialized", policy |-> p]>>
      BY <3>1 DEF Propose, Push
    <3>3. \A types : "Initialized" \notin types => Indices(events', types) = {}
      BY <3>2 DEF Indices
    <3>4. /\ Signers(events) = {} /\ Signers(events') = {}
          /\ ~Has(events, "Finalized") /\ ~Has(events', "Finalized")
      BY <3>2, <3>3 DEF Signers, Has, Indices
    <3>5. Status(events') = "Pending" /\ Policy(events') = p /\ events' # <<>>
      BY <3>2, <3>3, ShowsDomain DEF Status, Policy, LifecycleTypes
    <3>6. Lifecycle!Propose(p)
      BY <3>2, <3>4, <3>5 DEF Lifecycle!Propose
    <3>7. QED
      BY <3>6 DEF Lifecycle!Next
  <2>2. ASSUME events # <<>>,
               NEW e \in Event, Allows(events, e), events' = Append(events, e)
        PROVE  Lifecycle!Next
    BY <2>2, PushImplements
  <2>3. CASE UNCHANGED vars
    BY <2>3 DEF vars, Lifecycle!vars, Signers, Status, Policy, Has, Finalization
  <2>4. QED
    BY <2>1, <2>2, <2>3, StepsPush DEF IInv
<1>3. QED
  BY <1>1, <1>2, InvariantHolds, PTL DEF Spec, ImplementsLifecycle, Lifecycle!Spec
=============================================================================
