-------------------------- MODULE ChainSyncProofs --------------------------
(***************************************************************************)
(* Machine-checked proofs about ChainSync, for every length of the feed    *)
(* and every number of rewinds: a caught-up session reports Confirmed      *)
(* exactly when its transaction is in a block, and once the chain has      *)
(* spoken only the chain moves the session.                                *)
(***************************************************************************)
EXTENDS ChainSync, TLAPS, FiniteSetTheorems

\* The lemmas about the aggregate.
S == INSTANCE PsbtSessionProofs WITH
    Keystores <- {Keystore}, Txids <- {Tx}, SigLists <- {<<Keystore>>},
    Policies <- {[threshold |-> 1, keystores |-> {Keystore}]},
    MaxInvalidations <- MaxObservations
-----------------------------------------------------------------------------
(* The aggregate's lemmas and this module speak of the same folds.         *)

\* What PsbtSession assumes of the constants holds of ChainSync's.
LEMMA SAssumes ==
  /\ \A p \in {[threshold |-> 1, keystores |-> {Keystore}]} :
        /\ p \in [threshold : Nat \ {0}, keystores : SUBSET {Keystore}]
        /\ S!IsFiniteSet(p.keystores)
        /\ p.threshold <= S!Cardinality(p.keystores)
  /\ {<<Keystore>>} \subseteq Seq({Keystore})
  /\ None \notin {Tx}
  /\ MaxObservations \in Nat
<1>1. IsFiniteSet({Keystore}) /\ Cardinality({Keystore}) = 1
  BY FS_Singleton
<1>2. S!IsFiniteSet({Keystore}) /\ S!Cardinality({Keystore}) = 1
  BY <1>1 DEF IsFiniteSet, S!IsFiniteSet, Cardinality, S!Cardinality
<1>3. <<Keystore>> \in Seq({Keystore})
  OBVIOUS
<1>4. QED
  BY <1>2, <1>3, BoundAssumption, NoneAssumption

\* Session and S fold a stream alike, and their commands have the same guards.
LEMMA SameFolds ==
  ASSUME NEW es
  PROVE  /\ Session!Status(es) = S!Status(es)
         /\ \A tx : Session!RecordsBroadcast(es, tx) <=> S!RecordsBroadcast(es, tx)
         /\ \A tx : Session!RecordsConfirmation(es, tx) <=> S!RecordsConfirmation(es, tx)
         /\ Session!RecordsInvalidation(es) <=> S!RecordsInvalidation(es)
         /\ Session!AcceptsCancel(es) <=> S!AcceptsCancel(es)
<1>1. \A types : Session!Indices(es, types) = S!Indices(es, types)
  BY DEF Session!Indices, S!Indices
<1>2. \A types : Session!Newest(es, types) = S!Newest(es, types)
  BY <1>1 DEF Session!Newest, S!Newest
<1>3. Session!Shows = S!Shows
  BY DEF Session!Shows, S!Shows
<1>4. Session!Status(es) = S!Status(es)
  BY <1>1, <1>2, <1>3 DEF Session!Status, S!Status
<1>5. \A type, resets : Session!AlreadyApplied(es, type, resets)
                           <=> S!AlreadyApplied(es, type, resets)
  BY <1>1 DEF Session!AlreadyApplied, S!AlreadyApplied
<1>6. \A tx : Session!Names(es, tx) <=> S!Names(es, tx)
  BY <1>1, <1>2 DEF Session!Names, S!Names, Session!Has, S!Has,
       Session!Finalization, S!Finalization
<1>7. /\ Session!RecordsInvalidation(es) <=> S!RecordsInvalidation(es)
      /\ Session!AcceptsCancel(es) <=> S!AcceptsCancel(es)
  BY <1>4, <1>5 DEF Session!RecordsInvalidation, S!RecordsInvalidation,
       Session!AcceptsCancel, S!AcceptsCancel
<1>8. \A tx : /\ Session!RecordsBroadcast(es, tx) <=> S!RecordsBroadcast(es, tx)
              /\ Session!RecordsConfirmation(es, tx) <=> S!RecordsConfirmation(es, tx)
  BY <1>4, <1>5, <1>6 DEF Session!RecordsBroadcast, S!RecordsBroadcast,
       Session!RecordsConfirmation, S!RecordsConfirmation
<1>9. QED
  BY <1>4, <1>7, <1>8
-----------------------------------------------------------------------------
(* The inductive invariant.                                                *)

\* The session was finalized, and its folds find a newest event.  A confirmation no
\* reversal was recorded after is what the session reports.
StreamSound ==
    /\ S!TypeOK
    /\ S!FoldsHaveNewest
    /\ S!Has(events, "Finalized")
    /\ S!AlreadyApplied(events, "Confirmed", {"Invalidated"}) => S!Status(events) = "Confirmed"

StateTypes == /\ chain \in {"absent", "mempool", "block", "dead"}
              /\ feed \in Seq(Observations)
              /\ delivered \in 0..Len(feed)
              /\ cursor \in 0..delivered
              /\ rewinds \in 0..MaxRewinds

\* Among the first n observations there is a confirmation nothing reversed.
Standing(es, n) == \E i \in 1..n : /\ es[i] = "Confirmed"
                                   /\ \A j \in (i + 1)..n : es[j] # "Invalidated"

\* The feed tells whether the transaction is in a block.
FeedIsExact == chain = "block" <=> Standing(feed, Len(feed))

\* Unless a confirmation or a reversal has to be handled once more, the session
\* agrees with what was handled so far.
SessionFollows ==
    (\A i \in (cursor + 1)..delivered : feed[i] = "BroadcastSeen")
        => (S!Status(events) = "Confirmed" <=> Standing(feed, delivered))

IInv == StreamSound /\ StateTypes /\ FeedIsExact /\ SessionFollows
-----------------------------------------------------------------------------
(* What a handled observation does.                                        *)

\* A recorded event and what the session reports then.
LEMMA EventRecorded ==
  ASSUME StreamSound, NEW e \in S!Event, events' = Append(events, e),
         \/ e.type \in {"Confirmed", "Invalidated"}
         \/ e.type \in {"BroadcastSeen", "Cancelled"} /\ S!Status(events) # "Confirmed"
  PROVE  StreamSound' /\ S!Status(events') = S!Shows[e.type]
<1>1. /\ events \in Seq(S!Event) /\ S!HasNewest(events, S!LifecycleTypes)
      /\ S!HasNewest(events, {"Finalized"})
  BY DEF StreamSound, S!TypeOK, S!FoldsHaveNewest
<1>2. S!Status(events') = S!Shows[e.type]
  BY <1>1, S!StatusOfAppend, SAssumes DEF S!LifecycleTypes
<1>3. S!TypeOK' /\ S!FoldsHaveNewest'
  BY <1>1, S!HasNewestOfAppend, SAssumes DEF S!TypeOK, S!FoldsHaveNewest
<1>4. S!Has(events', "Finalized")
  BY <1>1, S!HasOfAppend, SAssumes DEF StreamSound
<1>5. /\ Len(events) \in Nat /\ DOMAIN events = 1..Len(events)
      /\ Len(events') = Len(events) + 1 /\ DOMAIN events' = 1..(Len(events) + 1)
      /\ \A i \in 1..Len(events) : events'[i] = events[i]
      /\ events'[Len(events) + 1] = e
  BY <1>1
<1>6. ASSUME S!AlreadyApplied(events', "Confirmed", {"Invalidated"})
      PROVE  S!Status(events') = "Confirmed"
  <2>1. PICK i \in S!Indices(events', {"Confirmed"}) :
           \A j \in (i + 1)..Len(events') : events'[j].type \notin {"Invalidated"}
    BY <1>6 DEF S!AlreadyApplied
  <2>2. i \in 1..(Len(events) + 1) /\ events'[i].type = "Confirmed"
    BY <1>5, <2>1 DEF S!Indices
  <2>3. CASE i = Len(events) + 1
    BY <1>2, <1>5, <2>2, <2>3 DEF S!Shows
  <2>4. CASE i # Len(events) + 1
    <3>1. i \in 1..Len(events) /\ events[i].type = "Confirmed"
      BY <1>5, <2>2, <2>4
    <3>2. e.type # "Invalidated"
      BY <1>5, <2>1, <3>1
    <3>3. \A j \in (i + 1)..Len(events) : events[j].type \notin {"Invalidated"}
      BY <1>5, <2>1, <3>1
    <3>4. S!AlreadyApplied(events, "Confirmed", {"Invalidated"})
      BY <1>5, <3>1, <3>3 DEF S!AlreadyApplied, S!Indices
    <3>5. S!Status(events) = "Confirmed"
      BY <3>4 DEF StreamSound
    <3>6. e.type = "Confirmed"
      BY <3>2, <3>5
    <3>7. QED
      BY <1>2, <3>6 DEF S!Shows
  <2>5. QED
    BY <2>3, <2>4
<1>7. QED
  BY <1>2, <1>3, <1>4, <1>6 DEF StreamSound

\* The finalization names the session's transaction.
LEMMA NamesTx ==
  ASSUME StreamSound
  PROVE  S!Names(events, Tx)
  BY S!FinalizationNamesTx, SAssumes DEF StreamSound, S!Names

\* A reversal is refused as a repetition only of a session that is not confirmed.
LEMMA ReversedIsNotConfirmed ==
  ASSUME StreamSound, S!AlreadyApplied(events, "Invalidated", {"Confirmed"})
  PROVE  S!Status(events) # "Confirmed"
<1> SUFFICES ASSUME S!Status(events) = "Confirmed" PROVE FALSE
  OBVIOUS
<1>1. /\ events \in Seq(S!Event) /\ S!HasNewest(events, S!LifecycleTypes)
      /\ Len(events) \in Nat /\ DOMAIN events = 1..Len(events)
  BY DEF StreamSound, S!TypeOK, S!FoldsHaveNewest
<1>2. PICK m \in S!Indices(events, S!LifecycleTypes) :
         /\ S!Status(events) = S!Shows[events[m].type]
         /\ \A j \in S!Indices(events, S!LifecycleTypes) : j <= m
  BY <1>1, S!StatusShowsNewest, SAssumes
<1>3. m \in DOMAIN events /\ events[m].type = "Confirmed"
  BY <1>2, S!ShowsByType, SAssumes DEF S!Indices
<1>4. PICK i \in S!Indices(events, {"Invalidated"}) :
         \A j \in (i + 1)..Len(events) : events[j].type \notin {"Confirmed"}
  BY DEF S!AlreadyApplied
<1>5. i \in DOMAIN events /\ events[i].type = "Invalidated"
  BY <1>4 DEF S!Indices
<1>6. i <= m /\ i # m
  BY <1>2, <1>3, <1>5 DEF S!Indices, S!LifecycleTypes
<1>7. m \in (i + 1)..Len(events)
  BY <1>1, <1>3, <1>5, <1>6
<1>8. QED
  BY <1>3, <1>4, <1>7

\* Handling an observation, for the first time or once more, leaves a session that
\* reports Confirmed after a confirmation, something else after a reversal, and
\* after a sighting whichever of the two it was.
LEMMA Handled ==
  ASSUME StreamSound, NEW o \in Observations, events' = Apply(events, o)
  PROVE  /\ StreamSound'
         /\ o = "Confirmed" => S!Status(events') = "Confirmed"
         /\ o = "Invalidated" => S!Status(events') # "Confirmed"
         /\ o = "BroadcastSeen" =>
               (S!Status(events') = "Confirmed" <=> S!Status(events) = "Confirmed")
         /\ S!Status(events') \in {S!Status(events), "Broadcast", "Confirmed", "Invalidated"}
<1>1. CASE events' = events
  <2>1. StreamSound'
    BY <1>1 DEF StreamSound, S!TypeOK, S!FoldsHaveNewest
  <2>2. ASSUME o = "Confirmed"
        PROVE  S!Status(events') = "Confirmed"
    <3>1. ~S!RecordsConfirmation(events, Tx)
      <4> SUFFICES ASSUME S!RecordsConfirmation(events, Tx) PROVE FALSE
        OBVIOUS
      <4>1. events' = Append(events, [type |-> "Confirmed", txid |-> Tx])
        BY <2>2, SameFolds DEF Apply
      <4>2. events \in Seq(S!Event)
        BY DEF StreamSound, S!TypeOK
      <4>3. Append(events, [type |-> "Confirmed", txid |-> Tx]) # events
        BY <4>2
      <4>4. QED
        BY <1>1, <4>1, <4>3
    <3>2. S!AlreadyApplied(events, "Confirmed", {"Invalidated"})
      BY <3>1, NamesTx DEF S!RecordsConfirmation
    <3>3. QED
      BY <1>1, <3>2 DEF StreamSound
  <2>3. ASSUME o = "Invalidated"
        PROVE  S!Status(events') # "Confirmed"
    <3>1. ~S!RecordsInvalidation(events)
      <4> SUFFICES ASSUME S!RecordsInvalidation(events) PROVE FALSE
        OBVIOUS
      <4>1. events' = Append(events, [type |-> "Invalidated"])
        BY <2>3, SameFolds DEF Apply
      <4>2. events \in Seq(S!Event)
        BY DEF StreamSound, S!TypeOK
      <4>3. Append(events, [type |-> "Invalidated"]) # events
        BY <4>2
      <4>4. QED
        BY <1>1, <4>1, <4>3
    <3>2. QED
      BY <1>1, <3>1, ReversedIsNotConfirmed DEF S!RecordsInvalidation
  <2>4. QED
    BY <1>1, <2>1, <2>2, <2>3
<1>2. CASE ~(events' = events)
  <2>1. \/ /\ o = "BroadcastSeen" /\ S!RecordsBroadcast(events, Tx)
           /\ events' = Append(events, [type |-> "BroadcastSeen", txid |-> Tx])
        \/ /\ o = "Confirmed"
           /\ events' = Append(events, [type |-> "Confirmed", txid |-> Tx])
        \/ /\ o = "Invalidated"
           /\ events' = Append(events, [type |-> "Invalidated"])
    BY <1>2, SameFolds DEF Apply
  <2>2. CASE /\ o = "BroadcastSeen" /\ S!RecordsBroadcast(events, Tx)
             /\ events' = Append(events, [type |-> "BroadcastSeen", txid |-> Tx])
    <3>1. S!Status(events) # "Confirmed"
      BY <2>2 DEF S!RecordsBroadcast
    <3>2. StreamSound' /\ S!Status(events') = "Broadcast"
      BY <2>2, <3>1, EventRecorded DEF S!Event, S!Shows
    <3>3. QED
      BY <2>2, <3>1, <3>2
  <2>3. CASE o = "Confirmed" /\ events' = Append(events, [type |-> "Confirmed", txid |-> Tx])
    <3>1. StreamSound' /\ S!Status(events') = "Confirmed"
      BY <2>3, EventRecorded DEF S!Event, S!Shows
    <3>2. QED
      BY <2>3, <3>1
  <2>4. CASE o = "Invalidated" /\ events' = Append(events, [type |-> "Invalidated"])
    <3>1. StreamSound' /\ S!Status(events') = "Invalidated"
      BY <2>4, EventRecorded DEF S!Event, S!Shows
    <3>2. QED
      BY <2>4, <3>1
  <2>5. QED
    BY <2>1, <2>2, <2>3, <2>4
<1>3. QED
  BY <1>1, <1>2
-----------------------------------------------------------------------------
(* The feed.                                                               *)

\* What stands among the first n observations is decided by the n-th, unless it is
\* a sighting.
LEMMA StandingByLast ==
  ASSUME NEW n \in Nat, NEW es \in Seq(Observations), n + 1 \in DOMAIN es
  PROVE  /\ es[n + 1] = "Confirmed" => Standing(es, n + 1)
         /\ es[n + 1] = "Invalidated" => ~Standing(es, n + 1)
         /\ es[n + 1] = "BroadcastSeen" => (Standing(es, n + 1) <=> Standing(es, n))
<1>1. \A j \in (n + 2)..(n + 1) : FALSE
  OBVIOUS
<1>2. ASSUME es[n + 1] = "Confirmed"
      PROVE  Standing(es, n + 1)
  BY <1>2 DEF Standing
<1>3. ASSUME es[n + 1] = "Invalidated", NEW i \in 1..(n + 1), es[i] = "Confirmed",
             \A j \in (i + 1)..(n + 1) : es[j] # "Invalidated"
      PROVE  FALSE
  <2>1. i # n + 1
    BY <1>3
  <2>2. n + 1 \in (i + 1)..(n + 1)
    BY <2>1
  <2>3. QED
    BY <1>3, <2>2
<1>4. ASSUME es[n + 1] = "BroadcastSeen", Standing(es, n)
      PROVE  Standing(es, n + 1)
  <2>1. PICK i \in 1..n : es[i] = "Confirmed" /\ \A j \in (i + 1)..n : es[j] # "Invalidated"
    BY <1>4 DEF Standing
  <2>2. \A j \in (i + 1)..(n + 1) : es[j] # "Invalidated"
    BY <1>4, <2>1
  <2>3. QED
    BY <2>1, <2>2 DEF Standing
<1>5. ASSUME es[n + 1] = "BroadcastSeen", Standing(es, n + 1)
      PROVE  Standing(es, n)
  <2>1. PICK i \in 1..(n + 1) : /\ es[i] = "Confirmed"
                                /\ \A j \in (i + 1)..(n + 1) : es[j] # "Invalidated"
    BY <1>5 DEF Standing
  <2>2. i \in 1..n
    BY <1>5, <2>1
  <2>3. \A j \in (i + 1)..n : es[j] # "Invalidated"
    BY <2>1
  <2>4. QED
    BY <2>1, <2>2, <2>3 DEF Standing
<1>6. QED
  BY <1>2, <1>3, <1>4, <1>5 DEF Standing

\* What stands among the first n observations does not depend on later ones.
LEMMA StandingOfPrefix ==
  ASSUME NEW n \in Nat, NEW es, NEW fs, \A i \in 1..n : es[i] = fs[i]
  PROVE  Standing(es, n) <=> Standing(fs, n)
<1>1. ASSUME NEW a, NEW b, \A i \in 1..n : a[i] = b[i], Standing(a, n)
      PROVE  Standing(b, n)
  <2>1. PICK i \in 1..n : a[i] = "Confirmed" /\ \A j \in (i + 1)..n : a[j] # "Invalidated"
    BY <1>1 DEF Standing
  <2>2. \A j \in (i + 1)..n : j \in 1..n
    BY <2>1
  <2>3. b[i] = "Confirmed" /\ \A j \in (i + 1)..n : b[j] # "Invalidated"
    BY <1>1, <2>1, <2>2
  <2>4. QED
    BY <2>3 DEF Standing
<1>2. QED
  BY <1>1

\* The chain publishes one observation per move, and the consumer and the session
\* are where they were.
LEMMA Published ==
  ASSUME IInv, NEW from, NEW to, NEW o \in Observations, Publish(from, to, o),
         to \in {"absent", "mempool", "block", "dead"},
         o = "Confirmed" <=> to = "block",
         o = "BroadcastSeen" => from = {"absent"}
  PROVE  IInv'
<1> DEFINE n == Len(feed)
<1>1. /\ n \in Nat /\ feed \in Seq(Observations)
      /\ feed' = Append(feed, o) /\ chain \in from /\ chain' = to
      /\ UNCHANGED <<events, cursor, delivered, rewinds>>
  BY DEF IInv, StateTypes, Publish
<1>2. /\ feed' \in Seq(Observations) /\ Len(feed') = n + 1 /\ DOMAIN feed' = 1..(n + 1)
      /\ feed'[n + 1] = o /\ \A i \in 1..n : feed'[i] = feed[i]
  BY <1>1
<1>3. delivered \in 0..n /\ cursor \in 0..delivered
  BY DEF IInv, StateTypes
<1>4. StreamSound'
  BY <1>1 DEF IInv, StreamSound, S!TypeOK, S!FoldsHaveNewest
<1>5. StateTypes'
  <2>1. delivered' \in 0..Len(feed')
    BY <1>1, <1>2, <1>3
  <2>2. QED
    BY <1>1, <1>2, <1>3, <2>1 DEF IInv, StateTypes
<1>6. FeedIsExact'
  <2>1. /\ o = "Confirmed" => Standing(feed', n + 1)
        /\ o = "Invalidated" => ~Standing(feed', n + 1)
        /\ o = "BroadcastSeen" => (Standing(feed', n + 1) <=> Standing(feed', n))
    <3>1. n + 1 \in DOMAIN feed'
      BY <1>1, <1>2
    <3>2. QED
      BY <1>1, <1>2, <3>1, StandingByLast
  <2>2. Standing(feed', n) <=> Standing(feed, n)
    BY <1>1, <1>2, StandingOfPrefix
  <2>3. o = "BroadcastSeen" => ~Standing(feed, n)
    BY <1>1 DEF IInv, FeedIsExact
  <2>4. chain' = "block" <=> Standing(feed', n + 1)
    BY <1>1, <2>1, <2>2, <2>3 DEF Observations
  <2>5. QED
    BY <1>2, <2>4 DEF FeedIsExact
<1>7. SessionFollows'
  <2>1. Standing(feed', delivered) <=> Standing(feed, delivered)
    <3>1. delivered \in Nat /\ \A i \in 1..delivered : i \in 1..n
      BY <1>1, <1>3
    <3>2. QED
      BY <1>2, <3>1, StandingOfPrefix
  <2>2. \A i \in (cursor + 1)..delivered : i \in 1..n
    BY <1>1, <1>3
  <2>3. \A i \in (cursor + 1)..delivered : feed'[i] = feed[i]
    BY <1>2, <2>2
  <2>4. S!Status(events') = S!Status(events)
    BY <1>1
  <2>5. QED
    BY <1>1, <2>1, <2>3, <2>4 DEF IInv, SessionFollows
<1>8. QED
  BY <1>4, <1>5, <1>6, <1>7 DEF IInv
-----------------------------------------------------------------------------
(* The consumer and the user.                                              *)

\* A handled observation, for the first time or once more, brings the session
\* closer to what was handled.
LEMMA Delivered ==
  ASSUME IInv, Deliver
  PROVE  IInv'
<1> DEFINE o == feed[cursor + 1]
<1>1. /\ Len(feed) \in Nat /\ feed \in Seq(Observations) /\ DOMAIN feed = 1..Len(feed)
      /\ delivered \in 0..Len(feed) /\ cursor \in 0..delivered /\ cursor < Len(feed)
      /\ events' = Apply(events, o) /\ cursor' = cursor + 1
      /\ delivered' = IF cursor = delivered THEN delivered + 1 ELSE delivered
      /\ UNCHANGED <<chain, feed, rewinds>>
  BY DEF IInv, StateTypes, Deliver
<1>2. cursor + 1 \in DOMAIN feed /\ o \in Observations
  BY <1>1
<1>3. /\ StreamSound'
      /\ o = "Confirmed" => S!Status(events') = "Confirmed"
      /\ o = "Invalidated" => S!Status(events') # "Confirmed"
      /\ o = "BroadcastSeen" =>
            (S!Status(events') = "Confirmed" <=> S!Status(events) = "Confirmed")
  BY <1>1, <1>2, Handled DEF IInv
<1>4. StateTypes'
  <2>1. delivered' \in 0..Len(feed) /\ cursor' \in 0..delivered'
    BY <1>1
  <2>2. QED
    BY <1>1, <2>1 DEF IInv, StateTypes
<1>5. FeedIsExact'
  BY <1>1 DEF IInv, FeedIsExact
<1>6. ASSUME \A i \in (cursor' + 1)..delivered' : feed[i] = "BroadcastSeen"
      PROVE  S!Status(events') = "Confirmed" <=> Standing(feed, delivered')
  <2>1. CASE cursor = delivered
    <3>1. delivered' = delivered + 1 /\ delivered \in Nat
      BY <1>1, <2>1
    <3>2. S!Status(events) = "Confirmed" <=> Standing(feed, delivered)
      <4>1. \A i \in (cursor + 1)..delivered : FALSE
        BY <1>1, <2>1
      <4>2. QED
        BY <4>1 DEF IInv, SessionFollows
    <3>3. /\ o = "Confirmed" => Standing(feed, delivered')
          /\ o = "Invalidated" => ~Standing(feed, delivered')
          /\ o = "BroadcastSeen" => (Standing(feed, delivered') <=> Standing(feed, delivered))
      BY <1>1, <1>2, <2>1, <3>1, StandingByLast
    <3>4. QED
      BY <1>2, <1>3, <3>2, <3>3 DEF Observations
  <2>2. CASE cursor # delivered
    <3>1. delivered' = delivered /\ cursor + 1 \in 1..delivered
      BY <1>1, <2>2
    <3>2. \A i \in (cursor + 2)..delivered : feed[i] = "BroadcastSeen"
      BY <1>1, <1>6, <3>1
    <3>3. CASE o = "Confirmed"
      <4>1. Standing(feed, delivered)
        BY <3>1, <3>2, <3>3, <1>1 DEF Standing
      <4>2. QED
        BY <1>3, <3>1, <3>3, <4>1
    <3>4. CASE o = "Invalidated"
      <4>1. ~Standing(feed, delivered)
        <5> SUFFICES ASSUME NEW i \in 1..delivered, feed[i] = "Confirmed",
                            \A j \in (i + 1)..delivered : feed[j] # "Invalidated"
                     PROVE  FALSE
          BY DEF Standing
        <5>1. i # cursor + 1 /\ i \notin (cursor + 2)..delivered
          BY <3>2, <3>4
        <5>2. cursor + 1 \in (i + 1)..delivered
          BY <1>1, <3>1, <5>1
        <5>3. QED
          BY <3>4, <5>2
      <4>2. QED
        BY <1>3, <3>1, <3>4, <4>1
    <3>5. CASE o = "BroadcastSeen"
      <4>1. \A i \in (cursor + 1)..delivered : feed[i] = "BroadcastSeen"
        BY <1>1, <3>2, <3>5
      <4>2. QED
        BY <1>3, <3>1, <3>5, <4>1 DEF IInv, SessionFollows
    <3>6. QED
      BY <1>2, <3>3, <3>4, <3>5 DEF Observations
  <2>3. QED
    BY <2>1, <2>2
<1>7. SessionFollows'
  BY <1>1, <1>6 DEF SessionFollows
<1>8. QED
  BY <1>3, <1>4, <1>5, <1>7 DEF IInv

\* A consumer sent back has more to handle once more.
LEMMA SentBack ==
  ASSUME IInv, Rewind
  PROVE  IInv'
<1>1. PICK position \in 0..(cursor - 1) : cursor' = position
  BY DEF Rewind
<1>2. /\ Len(feed) \in Nat /\ delivered \in 0..Len(feed) /\ cursor \in 0..delivered
      /\ rewinds \in 0..MaxRewinds /\ rewinds < MaxRewinds /\ rewinds' = rewinds + 1
      /\ UNCHANGED <<events, chain, feed, delivered>>
  BY DEF IInv, StateTypes, Rewind
<1>3. StateTypes'
  <2>1. cursor' \in 0..delivered /\ rewinds' \in 0..MaxRewinds
    BY <1>1, <1>2, BoundAssumption
  <2>2. QED
    BY <1>2, <2>1 DEF IInv, StateTypes
<1>4. \A i \in (cursor + 1)..delivered : i \in (cursor' + 1)..delivered
  BY <1>1, <1>2
<1>5. SessionFollows'
  BY <1>2, <1>4 DEF IInv, SessionFollows
<1>6. QED
  BY <1>2, <1>3, <1>5 DEF IInv, StreamSound, FeedIsExact, S!TypeOK, S!FoldsHaveNewest

\* A session can be cancelled only while it is not confirmed.
LEMMA Abandoned ==
  ASSUME IInv, Cancel
  PROVE  IInv'
<1>1. /\ events' = Append(events, [type |-> "Cancelled"])
      /\ S!Status(events) \in {"Pending", "Collecting", "Finalized"}
      /\ UNCHANGED <<chain, feed, cursor, delivered, rewinds>>
  BY SameFolds DEF Cancel, S!AcceptsCancel
<1>2. StreamSound' /\ S!Status(events') = "Cancelled"
  BY <1>1, EventRecorded DEF IInv, S!Event, S!Shows
<1>3. QED
  BY <1>1, <1>2 DEF IInv, StateTypes, FeedIsExact, SessionFollows
-----------------------------------------------------------------------------
(* The theorems.                                                           *)

\* The finalized stream is well formed, and reports Finalized.
LEMMA FinalizedStreamIsSound ==
  ASSUME events = FinalizedStream
  PROVE  StreamSound /\ S!Status(events) = "Finalized"
<1> DEFINE p == [threshold |-> 1, keystores |-> {Keystore}]
           e1 == [type |-> "Initialized", policy |-> p]
           e2 == [type |-> "PsbtCreated"]
           e3 == [type |-> "SignatureAdded", fingerprint |-> Keystore]
           e4 == [type |-> "Finalized", txid |-> Tx, used |-> {Keystore}]
           three == <<e1, e2, e3>>
<1>1. /\ e1 \in S!Event /\ e2 \in S!Event /\ e3 \in S!Event /\ e4 \in S!Event
  <2>1. e1 \in S!Event
    BY DEF S!Event
  <2>2. e2 \in S!Event
    BY DEF S!Event
  <2>3. e3 \in S!Event
    BY DEF S!Event
  <2>4. e4 \in S!Event
    BY DEF S!Event
  <2>5. QED
    BY <2>1, <2>2, <2>3, <2>4
<1>2. /\ e1.type = "Initialized" /\ e2.type = "PsbtCreated"
      /\ e3.type = "SignatureAdded" /\ e4.type = "Finalized"
  OBVIOUS
<1>3. events = <<e1, e2, e3, e4>>
  BY DEF FinalizedStream
<1> HIDE DEF e1, e2, e3, e4
<1>4. /\ three \in Seq(S!Event) /\ events = Append(three, e4) /\ DOMAIN three = 1..3
      /\ three[1] = e1 /\ three[2] = e2 /\ three[3] = e3
  BY <1>1, <1>3
<1> HIDE DEF three
<1>5. S!HasNewest(three, S!LifecycleTypes) /\ S!HasNewest(three, {"Finalized"})
  <2>1. S!Indices(three, S!LifecycleTypes) = {2}
    BY <1>2, <1>4 DEF S!Indices, S!LifecycleTypes
  <2>2. S!Indices(three, {"Finalized"}) = {}
    BY <1>2, <1>4 DEF S!Indices
  <2>3. QED
    BY <2>1, <2>2 DEF S!HasNewest
<1>6. S!TypeOK /\ S!FoldsHaveNewest
  BY <1>1, <1>4, <1>5, S!HasNewestOfAppend, SAssumes DEF S!TypeOK, S!FoldsHaveNewest
<1>7. S!Has(events, "Finalized")
  BY <1>1, <1>2, <1>4, S!HasOfAppend, SAssumes
<1>8. S!Status(events) = "Finalized"
  BY <1>1, <1>2, <1>4, <1>5, S!StatusOfAppend, SAssumes DEF S!LifecycleTypes, S!Shows
<1>9. ~S!AlreadyApplied(events, "Confirmed", {"Invalidated"})
  <2>1. DOMAIN events = 1..4 /\ events[1] = e1 /\ events[2] = e2 /\ events[3] = e3 /\ events[4] = e4
    BY <1>3
  <2>2. \A i \in DOMAIN events : events[i].type # "Confirmed"
    BY <1>2, <2>1
  <2>3. QED
    BY <2>2 DEF S!AlreadyApplied, S!Indices
<1>10. QED
  BY <1>6, <1>7, <1>8, <1>9 DEF StreamSound

LEMMA InitIsSound == Init => IInv
<1> SUFFICES ASSUME Init PROVE IInv
  OBVIOUS
<1>1. StreamSound /\ S!Status(events) = "Finalized"
  BY FinalizedStreamIsSound DEF Init
<1>2. StateTypes
  BY BoundAssumption DEF Init, StateTypes
<1>3. ~Standing(feed, 0) /\ Len(feed) = 0 /\ delivered = 0 /\ chain = "absent"
  BY DEF Init, Standing
<1>4. QED
  BY <1>1, <1>2, <1>3 DEF IInv, FeedIsExact, SessionFollows

LEMMA StepsKeepSoundness == IInv /\ [Next]_vars => IInv'
<1> SUFFICES ASSUME IInv, [Next]_vars PROVE IInv'
  OBVIOUS
<1>1. CASE Relay
  BY <1>1, Published DEF Relay, Observations
<1>2. CASE Mine
  BY <1>2, Published DEF Mine, Observations
<1>3. CASE Drop
  BY <1>3, Published DEF Drop, Observations
<1>4. CASE Conflict
  BY <1>4, Published DEF Conflict, Observations
<1>5. CASE Deliver
  BY <1>5, Delivered
<1>6. CASE Rewind
  BY <1>6, SentBack
<1>7. CASE Cancel
  BY <1>7, Abandoned
<1>8. CASE UNCHANGED vars
  BY <1>8 DEF vars, IInv, StreamSound, StateTypes, FeedIsExact, SessionFollows,
       S!TypeOK, S!FoldsHaveNewest
<1>9. QED
  BY <1>1, <1>2, <1>3, <1>4, <1>5, <1>6, <1>7, <1>8 DEF Next

\* The stream, the feed and the positions of the consumer stay what they are
\* declared to be.
THEOREM TypeCorrect == Spec => []TypeOK
<1>1. IInv => TypeOK
  <2>1. S!TypeOK <=> Session!TypeOK
    BY DEF S!TypeOK, Session!TypeOK, S!Event, Session!Event
  <2>2. QED
    BY <2>1 DEF IInv, StreamSound, StateTypes, TypeOK
<1>2. QED
  BY <1>1, InitIsSound, StepsKeepSoundness, PTL DEF Spec

\* However the consumer is sent back and whenever the user cancels, a session that
\* caught up with the chain reports Confirmed exactly when its transaction is in a
\* block: apply_chain_observation's idempotency guards lose nothing a confirmation
\* depends on.
THEOREM ConfirmedExact == Spec => []ConfirmedIsExact
<1>1. IInv => ConfirmedIsExact
  <2> SUFFICES ASSUME IInv, CaughtUp
               PROVE  Session!Status(events) = "Confirmed" <=> chain = "block"
    BY DEF ConfirmedIsExact
  <2>1. /\ Len(feed) \in Nat /\ delivered \in 0..Len(feed) /\ cursor \in 0..delivered
        /\ cursor = Len(feed)
    BY DEF IInv, StateTypes, CaughtUp
  <2>2. delivered = Len(feed) /\ \A i \in (cursor + 1)..delivered : FALSE
    BY <2>1
  <2>3. S!Status(events) = "Confirmed" <=> Standing(feed, Len(feed))
    BY <2>2 DEF IInv, SessionFollows
  <2>4. QED
    BY <2>3, SameFolds DEF IInv, FeedIsExact
<1>2. QED
  BY <1>1, InitIsSound, StepsKeepSoundness, PTL DEF Spec

\* No user command moves a session the chain has spoken about, and no observation
\* takes it back to Finalized or Cancelled.
THEOREM ChainKeepsLastWord == Spec => ChainHasLastWord
<1> DEFINE Spoken == {"Broadcast", "Confirmed", "Invalidated"}
<1>1. ASSUME IInv, [Next]_vars
      PROVE  [Session!Status(events) \in Spoken => Session!Status(events') \in Spoken]_events
  <2> SUFFICES ASSUME events' # events, Session!Status(events) \in Spoken
               PROVE  Session!Status(events') \in Spoken
    OBVIOUS
  <2>1. S!Status(events) \in Spoken
    BY SameFolds
  <2>2. CASE Deliver
    <3>1. feed \in Seq(Observations) /\ cursor \in Nat /\ StreamSound
      BY <1>1 DEF IInv, StateTypes
    <3>2. events' = Apply(events, feed[cursor + 1]) /\ feed[cursor + 1] \in Observations
      BY <2>2, <3>1 DEF Deliver
    <3>3. S!Status(events') \in {S!Status(events), "Broadcast", "Confirmed", "Invalidated"}
      BY <3>1, <3>2, Handled
    <3>4. QED
      BY <2>1, <3>3, SameFolds
  <2>3. CASE Cancel
    <3>1. S!Status(events) \in {"Pending", "Collecting", "Finalized"}
      BY <2>3, SameFolds DEF Cancel, S!AcceptsCancel
    <3>2. QED
      BY <2>1, <3>1
  <2>4. CASE Relay \/ Mine \/ Drop \/ Conflict \/ Rewind \/ UNCHANGED vars
    <3>1. events' = events
      BY <2>4 DEF Relay, Mine, Drop, Conflict, Publish, Rewind, vars
    <3>2. QED
      BY <3>1
  <2>5. QED
    BY <1>1, <2>2, <2>3, <2>4 DEF Next
<1>2. QED
  BY <1>1, InitIsSound, StepsKeepSoundness, PTL DEF Spec, ChainHasLastWord
=============================================================================
