------------------------- MODULE CoordinationProofs -------------------------
(***************************************************************************)
(* Machine-checked proofs about Coordination, for every set of policies,   *)
(* calls, workers and faults: the persisted stream is a behaviour of       *)
(* PsbtSession however calls, jobs and crashes interleave, every blob an   *)
(* event refers to is stored, pending work always has a job, and the       *)
(* recorded authority is exact.                                            *)
(***************************************************************************)
EXTENDS Coordination, TLAPS, FiniteSetTheorems, SequenceTheorems, WellFoundedInduction

\* The stream as the aggregate sees it, without hashes.
Bare(es) == [i \in DOMAIN es |-> Plain(es[i])]

\* The lemmas about the aggregate, of the bare stream.
S == INSTANCE PsbtSessionProofs WITH
    events <- Bare(log), Txids <- {Tx}, MaxInvalidations <- Cardinality(Calls)

\* The events the service stores: those of the aggregate, with the hash of the
\* document they refer to.
LogEvent == [type : {"Initialized"}, policy : Policies]
            \cup [type : {"PsbtCreated"}, hash : Hashes]
            \cup [type : {"SignatureAdded"}, fingerprint : Keystores, hash : Hashes]
            \cup [type : {"Finalized"}, txid : {Tx}, hash : Hashes, used : SUBSET Keystores]
            \cup [type : {"BroadcastSeen", "Confirmed"}, txid : {Tx}]
            \cup [type : {"Invalidated", "Cancelled"}]
-----------------------------------------------------------------------------
(* The aggregate on the stored stream and on the bare one.                 *)

\* Each instance has library operators of its own, which agree.
LEMMA SameLibrary ==
  ASSUME NEW X
  PROVE  /\ Session!Cardinality(X) = Cardinality(X) /\ S!Cardinality(X) = Cardinality(X)
         /\ Session!IsFiniteSet(X) <=> IsFiniteSet(X)
         /\ S!IsFiniteSet(X) <=> IsFiniteSet(X)
         /\ Session!Range(X) = S!Range(X)
         /\ Session!IsInjective(X) <=> S!IsInjective(X)
<1>1. Session!Cardinality(X) = Cardinality(X)
  BY DEF Cardinality, Session!Cardinality
<1>2. S!Cardinality(X) = Cardinality(X)
  BY DEF Cardinality, S!Cardinality
<1>3. Session!IsFiniteSet(X) <=> IsFiniteSet(X)
  BY DEF IsFiniteSet, Session!IsFiniteSet
<1>4. S!IsFiniteSet(X) <=> IsFiniteSet(X)
  BY DEF IsFiniteSet, S!IsFiniteSet
<1>5. Session!Range(X) = S!Range(X) /\ (Session!IsInjective(X) <=> S!IsInjective(X))
  BY DEF Session!Range, S!Range, Session!IsInjective, S!IsInjective
<1>6. QED
  BY <1>1, <1>2, <1>3, <1>4, <1>5

\* What PsbtSession assumes of the constants holds of Coordination's.
LEMMA SAssumes ==
  /\ \A p \in Policies : /\ p \in [threshold : Nat \ {0}, keystores : SUBSET Keystores]
                         /\ S!IsFiniteSet(p.keystores)
                         /\ p.threshold <= S!Cardinality(p.keystores)
  /\ SigLists \subseteq Seq(Keystores)
  /\ None \notin {Tx}
  /\ Cardinality(Calls) \in Nat
<1>1. Cardinality(Calls) \in Nat
  BY CallAssumption, FS_CardinalityType
<1>2. QED
  BY <1>1, SessionAssumption, CallAssumption, SameLibrary

\* What the aggregate sees of a stored event.
LEMMA BareEvent ==
  ASSUME NEW e \in LogEvent
  PROVE  /\ Plain(e) \in S!Event
         /\ Plain(e).type = e.type
         /\ e.type = "Initialized" => Plain(e).policy = e.policy
         /\ e.type = "SignatureAdded" => Plain(e).fingerprint = e.fingerprint
         /\ e.type = "Finalized" => Plain(e).used = e.used
         /\ e.type \in {"Finalized", "BroadcastSeen", "Confirmed"} =>
               Plain(e).txid = e.txid
<1>1. CASE e \in [type : {"Initialized"}, policy : Policies]
  BY <1>1 DEF Plain, S!Event
<1>2. CASE e \in [type : {"PsbtCreated"}, hash : Hashes]
  <2>1. DOMAIN e \ {"hash"} = {"type"} /\ "hash" \in DOMAIN e
    BY <1>2
  <2>2. Plain(e) = [type |-> e.type]
    BY <2>1 DEF Plain
  <2>3. QED
    BY <1>2, <2>2 DEF S!Event
<1>3. CASE e \in [type : {"SignatureAdded"}, fingerprint : Keystores, hash : Hashes]
  <2>1. DOMAIN e \ {"hash"} = {"type", "fingerprint"} /\ "hash" \in DOMAIN e
    BY <1>3
  <2>2. Plain(e) = [type |-> e.type, fingerprint |-> e.fingerprint]
    BY <2>1 DEF Plain
  <2>3. QED
    BY <1>3, <2>2 DEF S!Event
<1>4. CASE e \in [type : {"Finalized"}, txid : {Tx}, hash : Hashes, used : SUBSET Keystores]
  <2>1. DOMAIN e \ {"hash"} = {"type", "txid", "used"} /\ "hash" \in DOMAIN e
    BY <1>4
  <2>2. Plain(e) = [type |-> e.type, txid |-> e.txid, used |-> e.used]
    BY <2>1 DEF Plain
  <2>3. QED
    BY <1>4, <2>2 DEF S!Event
<1>5. CASE e \in [type : {"BroadcastSeen", "Confirmed"}, txid : {Tx}]
  BY <1>5 DEF Plain, S!Event
<1>6. CASE e \in [type : {"Invalidated", "Cancelled"}]
  BY <1>6 DEF Plain, S!Event
<1>7. QED
  BY <1>1, <1>2, <1>3, <1>4, <1>5, <1>6 DEF LogEvent

\* The bare stream has the same length and, event by event, the same content.
LEMMA BareStream ==
  ASSUME NEW es \in Seq(LogEvent)
  PROVE  /\ Bare(es) \in Seq(S!Event) /\ Len(Bare(es)) = Len(es) /\ Len(es) \in Nat
         /\ DOMAIN es = 1..Len(es) /\ DOMAIN Bare(es) = 1..Len(es)
         /\ \A i \in 1..Len(es) : es[i] \in LogEvent /\ Bare(es)[i] = Plain(es[i])
         /\ \A i \in 1..Len(es) : Bare(es)[i].type = es[i].type
         /\ Bare(es) = <<>> <=> es = <<>>
<1>1. DOMAIN es = 1..Len(es) /\ Len(es) \in Nat /\ \A i \in 1..Len(es) : es[i] \in LogEvent
  OBVIOUS
<1>2. Bare(es) = [i \in 1..Len(es) |-> Plain(es[i])]
  BY <1>1 DEF Bare
<1>3. \A i \in 1..Len(es) : Plain(es[i]) \in S!Event /\ Plain(es[i]).type = es[i].type
  BY <1>1, BareEvent
<1>4. Bare(es) \in [1..Len(es) -> S!Event]
  BY <1>2, <1>3
<1>5. Bare(es) \in Seq(S!Event) /\ Len(Bare(es)) = Len(es)
  BY <1>1, <1>4, SeqDef
<1>6. QED
  BY <1>1, <1>2, <1>3, <1>5, EmptySeq

\* Appending commutes with leaving the hashes out.
LEMMA BareOfAppend ==
  ASSUME NEW es \in Seq(LogEvent), NEW e \in LogEvent
  PROVE  Bare(Append(es, e)) = Append(Bare(es), Plain(e))
<1> DEFINE new == Append(es, e)
<1>1. /\ new \in Seq(LogEvent) /\ Len(new) = Len(es) + 1
      /\ \A i \in 1..Len(es) : new[i] = es[i]
      /\ new[Len(es) + 1] = e
  OBVIOUS
<1> HIDE DEF new
<1>2. /\ Bare(new) \in Seq(S!Event) /\ Len(Bare(new)) = Len(es) + 1
      /\ \A i \in 1..(Len(es) + 1) : Bare(new)[i] = Plain(new[i])
      /\ Bare(es) \in Seq(S!Event) /\ Len(Bare(es)) = Len(es) /\ Len(es) \in Nat
      /\ \A i \in 1..Len(es) : Bare(es)[i] = Plain(es[i])
  BY <1>1, BareStream
<1>3. Plain(e) \in S!Event
  BY BareEvent
<1>4. /\ Append(Bare(es), Plain(e)) \in Seq(S!Event)
      /\ Len(Append(Bare(es), Plain(e))) = Len(es) + 1
      /\ \A i \in 1..(Len(es) + 1) : Append(Bare(es), Plain(e))[i] = Plain(new[i])
  BY <1>1, <1>2, <1>3
<1>5. QED
  BY <1>2, <1>4, SeqEqual DEF new

\* Session and S fold a stream alike.
LEMMA SameFolds ==
  ASSUME NEW es
  PROVE  /\ \A types : Session!Indices(es, types) = S!Indices(es, types)
         /\ \A type : Session!Has(es, type) <=> S!Has(es, type)
         /\ Session!Status(es) = S!Status(es)
         /\ Session!Policy(es) = S!Policy(es)
         /\ \A k : Session!Signed(es, k) <=> S!Signed(es, k)
         /\ Session!Signers(es) = S!Signers(es)
         /\ Session!ThresholdMet(es) <=> S!ThresholdMet(es)
         /\ Session!Finalization(es) = S!Finalization(es)
         /\ \A type, resets : Session!AlreadyApplied(es, type, resets)
                                 <=> S!AlreadyApplied(es, type, resets)
<1>1. \A types : Session!Indices(es, types) = S!Indices(es, types)
  BY DEF Session!Indices, S!Indices
<1>2. \A types : Session!Newest(es, types) = S!Newest(es, types)
  BY <1>1 DEF Session!Newest, S!Newest
<1>3. Session!Shows = S!Shows
  BY DEF Session!Shows, S!Shows
<1>4. Session!Status(es) = S!Status(es)
  BY <1>1, <1>2, <1>3 DEF Session!Status, S!Status
<1>5. Session!Policy(es) = S!Policy(es)
  BY DEF Session!Policy, S!Policy
<1>6. Session!ThresholdMet(es) <=> S!ThresholdMet(es)
  BY <1>1, <1>5, SameLibrary DEF Session!ThresholdMet, S!ThresholdMet
<1>7. /\ \A type : Session!Has(es, type) <=> S!Has(es, type)
      /\ \A k : Session!Signed(es, k) <=> S!Signed(es, k)
      /\ Session!Signers(es) = S!Signers(es)
  BY <1>1 DEF Session!Has, S!Has, Session!Signed, S!Signed, Session!Signers, S!Signers
<1>8. Session!Finalization(es) = S!Finalization(es)
  BY <1>2 DEF Session!Finalization, S!Finalization
<1>9. \A type, resets : Session!AlreadyApplied(es, type, resets)
                           <=> S!AlreadyApplied(es, type, resets)
  BY <1>1 DEF Session!AlreadyApplied, S!AlreadyApplied
<1>10. QED
  BY <1>1, <1>4, <1>5, <1>6, <1>7, <1>8, <1>9

\* Their commands have the same guards.
LEMMA SameGuards ==
  ASSUME NEW es
  PROVE  /\ Session!RecordsPsbt(es) <=> S!RecordsPsbt(es)
         /\ \A k : Session!AcceptsSignature(es, k) <=> S!AcceptsSignature(es, k)
         /\ \A list : Session!AcceptsFinalization(es, list) <=> S!AcceptsFinalization(es, list)
         /\ \A list : Session!Used(list) = S!Used(list)
         /\ \A tx : Session!RecordsBroadcast(es, tx) <=> S!RecordsBroadcast(es, tx)
         /\ \A tx : Session!RecordsConfirmation(es, tx) <=> S!RecordsConfirmation(es, tx)
         /\ Session!RecordsInvalidation(es) <=> S!RecordsInvalidation(es)
         /\ Session!AcceptsCancel(es) <=> S!AcceptsCancel(es)
<1>1. /\ Session!RecordsPsbt(es) <=> S!RecordsPsbt(es)
      /\ \A k : Session!AcceptsSignature(es, k) <=> S!AcceptsSignature(es, k)
      /\ Session!RecordsInvalidation(es) <=> S!RecordsInvalidation(es)
      /\ Session!AcceptsCancel(es) <=> S!AcceptsCancel(es)
  BY SameFolds DEF Session!RecordsPsbt, S!RecordsPsbt, Session!AcceptsSignature,
       S!AcceptsSignature, Session!RecordsInvalidation, S!RecordsInvalidation,
       Session!AcceptsCancel, S!AcceptsCancel
<1>2. \A list : Session!AcceptsFinalization(es, list) <=> S!AcceptsFinalization(es, list)
  BY SameFolds, SameLibrary DEF Session!AcceptsFinalization, S!AcceptsFinalization
<1>3. \A list : Session!Used(list) = S!Used(list)
  BY SameLibrary DEF Session!Used, S!Used
<1>4. /\ \A tx : Session!RecordsBroadcast(es, tx) <=> S!RecordsBroadcast(es, tx)
      /\ \A tx : Session!RecordsConfirmation(es, tx) <=> S!RecordsConfirmation(es, tx)
  BY SameFolds DEF Session!RecordsBroadcast, S!RecordsBroadcast, Session!Names, S!Names,
       Session!RecordsConfirmation, S!RecordsConfirmation
<1>5. QED
  BY <1>1, <1>2, <1>3, <1>4

\* A stream the service can have stored: it starts with its policy, and the folds
\* that look for a newest event find one.
Loads(es) == /\ es \in Seq(LogEvent)
             /\ es # <<>> => es[1].type = "Initialized"
             /\ S!HasNewest(Bare(es), S!LifecycleTypes)
             /\ S!HasNewest(Bare(es), {"Finalized"})

\* The folds do not look at the hashes.
LEMMA BareFolds ==
  ASSUME NEW es, Loads(es)
  PROVE  /\ \A types : S!Indices(es, types) = S!Indices(Bare(es), types)
         /\ \A type : S!Has(es, type) <=> S!Has(Bare(es), type)
         /\ S!Status(es) = S!Status(Bare(es))
         /\ es # <<>> => S!Policy(es) = S!Policy(Bare(es))
         /\ \A k : S!Signed(es, k) <=> S!Signed(Bare(es), k)
         /\ S!Signers(es) = S!Signers(Bare(es))
         /\ es # <<>> => (S!ThresholdMet(es) <=> S!ThresholdMet(Bare(es)))
         /\ S!Has(es, "Finalized") =>
               /\ S!Finalization(es).used = S!Finalization(Bare(es)).used
               /\ S!Finalization(es).txid = S!Finalization(Bare(es)).txid
         /\ \A type, resets : S!AlreadyApplied(es, type, resets)
                                 <=> S!AlreadyApplied(Bare(es), type, resets)
<1>1. /\ Bare(es) \in Seq(S!Event) /\ Len(Bare(es)) = Len(es) /\ Len(es) \in Nat
      /\ DOMAIN es = 1..Len(es) /\ DOMAIN Bare(es) = 1..Len(es)
      /\ \A i \in 1..Len(es) : /\ es[i] \in LogEvent
                               /\ Bare(es)[i] = Plain(es[i])
                               /\ Bare(es)[i].type = es[i].type
  BY BareStream DEF Loads
<1>2. \A types : S!Indices(es, types) = S!Indices(Bare(es), types)
  BY <1>1 DEF S!Indices
<1>3. \A type : S!Has(es, type) <=> S!Has(Bare(es), type)
  BY <1>2 DEF S!Has
<1>4. \A types : S!Newest(es, types) = S!Newest(Bare(es), types)
  BY <1>2 DEF S!Newest
<1>5. S!Status(es) = S!Status(Bare(es))
  <2>1. CASE S!Indices(es, S!LifecycleTypes) = {}
    BY <1>2, <2>1, S!ShowsDomain, SAssumes DEF S!Status
  <2>2. CASE S!Indices(es, S!LifecycleTypes) # {}
    <3>1. S!Newest(Bare(es), S!LifecycleTypes) \in S!Indices(Bare(es), S!LifecycleTypes)
      BY <1>1, <1>2, <2>2, S!NewestIsNewest, SAssumes DEF Loads
    <3>2. S!Newest(Bare(es), S!LifecycleTypes) \in 1..Len(es)
      BY <1>1, <3>1 DEF S!Indices
    <3>3. QED
      BY <1>1, <1>2, <1>4, <2>2, <3>2, S!ShowsDomain, SAssumes DEF S!Status
  <2>3. QED
    BY <2>1, <2>2
<1>6. es # <<>> => S!Policy(es) = S!Policy(Bare(es))
  BY <1>1, BareEvent, EmptySeq DEF Loads, S!Policy
<1>7. \A i \in S!Indices(es, {"SignatureAdded"}) :
         es[i].fingerprint = Bare(es)[i].fingerprint
  BY <1>1, BareEvent DEF S!Indices
<1>8. /\ \A k : S!Signed(es, k) <=> S!Signed(Bare(es), k)
      /\ S!Signers(es) = S!Signers(Bare(es))
  BY <1>2, <1>7 DEF S!Signed, S!Signers
<1>9. es # <<>> => (S!ThresholdMet(es) <=> S!ThresholdMet(Bare(es)))
  BY <1>2, <1>6 DEF S!ThresholdMet
<1>10. ASSUME S!Has(es, "Finalized")
       PROVE  /\ S!Finalization(es).used = S!Finalization(Bare(es)).used
              /\ S!Finalization(es).txid = S!Finalization(Bare(es)).txid
  <2>1. S!Newest(Bare(es), {"Finalized"}) \in S!Indices(Bare(es), {"Finalized"})
    BY <1>1, <1>2, <1>10, S!NewestIsNewest, SAssumes DEF Loads, S!Has
  <2>2. /\ S!Newest(Bare(es), {"Finalized"}) \in 1..Len(es)
        /\ es[S!Newest(Bare(es), {"Finalized"})].type = "Finalized"
    BY <1>1, <2>1 DEF S!Indices
  <2>3. QED
    BY <1>1, <1>4, <2>2, BareEvent DEF S!Finalization
<1>11. ASSUME NEW type, NEW resets
       PROVE  S!AlreadyApplied(es, type, resets) <=> S!AlreadyApplied(Bare(es), type, resets)
  <2>1. \A i \in S!Indices(es, {type}) : i \in 1..Len(es)
    BY <1>1 DEF S!Indices
  <2>2. \A i \in S!Indices(es, {type}) : \A j \in (i + 1)..Len(es) :
           Bare(es)[j].type = es[j].type
    BY <1>1, <2>1
  <2>3. QED
    BY <1>1, <1>2, <2>2 DEF S!AlreadyApplied
<1>12. QED
  BY <1>2, <1>3, <1>5, <1>6, <1>8, <1>9, <1>10, <1>11

\* Nor do the guards.
LEMMA BareGuards ==
  ASSUME NEW es, Loads(es), es # <<>>
  PROVE  /\ S!RecordsPsbt(es) <=> S!RecordsPsbt(Bare(es))
         /\ \A k : S!AcceptsSignature(es, k) <=> S!AcceptsSignature(Bare(es), k)
         /\ \A list : S!AcceptsFinalization(es, list) <=> S!AcceptsFinalization(Bare(es), list)
         /\ \A tx : S!RecordsBroadcast(es, tx) <=> S!RecordsBroadcast(Bare(es), tx)
         /\ \A tx : S!RecordsConfirmation(es, tx) <=> S!RecordsConfirmation(Bare(es), tx)
         /\ S!RecordsInvalidation(es) <=> S!RecordsInvalidation(Bare(es))
         /\ S!AcceptsCancel(es) <=> S!AcceptsCancel(Bare(es))
<1>1. /\ S!RecordsPsbt(es) <=> S!RecordsPsbt(Bare(es))
      /\ \A k : S!AcceptsSignature(es, k) <=> S!AcceptsSignature(Bare(es), k)
      /\ S!RecordsInvalidation(es) <=> S!RecordsInvalidation(Bare(es))
      /\ S!AcceptsCancel(es) <=> S!AcceptsCancel(Bare(es))
  BY BareFolds DEF S!RecordsPsbt, S!AcceptsSignature, S!RecordsInvalidation, S!AcceptsCancel
<1>2. \A list : S!AcceptsFinalization(es, list) <=> S!AcceptsFinalization(Bare(es), list)
  BY BareFolds DEF S!AcceptsFinalization
<1>3. \A tx : S!Names(es, tx) <=> S!Names(Bare(es), tx)
  BY BareFolds DEF S!Names
<1>4. /\ \A tx : S!RecordsBroadcast(es, tx) <=> S!RecordsBroadcast(Bare(es), tx)
      /\ \A tx : S!RecordsConfirmation(es, tx) <=> S!RecordsConfirmation(Bare(es), tx)
  BY <1>3, BareFolds DEF S!RecordsBroadcast, S!RecordsConfirmation
<1>5. QED
  BY <1>1, <1>2, <1>4
-----------------------------------------------------------------------------
(* The recorded signatures, in order.                                      *)

\* Positions of events are finitely many, and counted by a number.
LEMMA IndicesCount ==
  ASSUME NEW es \in Seq(LogEvent), NEW types
  PROVE  /\ S!Indices(es, types) \in SUBSET (1..Len(es))
         /\ IsFiniteSet(S!Indices(es, types))
         /\ Cardinality(S!Indices(es, types)) \in Nat
<1>1. S!Indices(es, types) \in SUBSET (1..Len(es))
  BY DEF S!Indices
<1>2. IsFiniteSet(1..Len(es))
  BY FS_Interval
<1>3. QED
  BY <1>1, <1>2, FS_Subset, FS_CardinalityType

\* Every recorded signature has its place, and every place its signature.
LEMMA RecordedInOrder ==
  ASSUME NEW es \in Seq(LogEvent)
  PROVE  LET signed == SignedAt(es)
             N == Cardinality(signed)
         IN  /\ N \in Nat
             /\ DOMAIN Recorded(es) = 1..N
             /\ \A n \in 1..N : /\ Nth(es, n) \in signed
                                /\ Recorded(es)[n] = es[Nth(es, n)]
                                /\ Cardinality(SignedUpTo(es, Nth(es, n))) = n
             /\ \A i \in signed : \E n \in 1..N : Recorded(es)[n] = es[i]
<1> DEFINE signed == SignedAt(es)
           N == Cardinality(signed)
           UpTo(i) == SignedUpTo(es, i)
           Place == [i \in signed |-> Cardinality(UpTo(i))]
<1>1. signed \in SUBSET (1..Len(es)) /\ IsFiniteSet(signed) /\ N \in Nat
  BY IndicesCount, SameFolds DEF SignedAt
<1>2. \A i \in signed : i \in Nat
  BY <1>1
<1>3. \A i : UpTo(i) = {j \in signed : j <= i}
  BY DEF SignedUpTo
<1> HIDE DEF signed, UpTo
<1>4. ASSUME NEW i \in signed
      PROVE  /\ UpTo(i) \in SUBSET signed /\ IsFiniteSet(UpTo(i))
             /\ Cardinality(UpTo(i)) \in 1..N
             /\ Cardinality(UpTo(i)) \in Nat
  <2>1. UpTo(i) \in SUBSET signed /\ i \in UpTo(i)
    BY <1>2, <1>3
  <2>2. IsFiniteSet(UpTo(i)) /\ Cardinality(UpTo(i)) <= N
    BY <1>1, <2>1, FS_Subset
  <2>3. Cardinality(UpTo(i)) \in Nat /\ Cardinality(UpTo(i)) # 0
    BY <2>1, <2>2, FS_CardinalityType, FS_EmptySet
  <2>4. QED
    BY <1>1, <2>1, <2>2, <2>3
<1>5. ASSUME NEW i \in signed, NEW j \in signed, i < j
      PROVE  Cardinality(UpTo(i)) < Cardinality(UpTo(j))
  <2>1. UpTo(i) \in SUBSET UpTo(j) /\ j \in UpTo(j) /\ j \notin UpTo(i)
    BY <1>2, <1>3, <1>5
  <2>2. /\ Cardinality(UpTo(i)) <= Cardinality(UpTo(j))
        /\ Cardinality(UpTo(j)) = Cardinality(UpTo(i)) => UpTo(j) = UpTo(i)
    BY <1>4, <2>1, FS_Subset
  <2>3. Cardinality(UpTo(i)) \in Nat /\ Cardinality(UpTo(j)) \in Nat
    BY <1>4
  <2>4. QED
    BY <2>1, <2>2, <2>3
<1>6. Place \in [signed -> 1..N]
  BY <1>4
<1>7. \A i, j \in signed : Place[i] = Place[j] => i = j
  <2> SUFFICES ASSUME NEW i \in signed, NEW j \in signed, Place[i] = Place[j], i # j
               PROVE  FALSE
    OBVIOUS
  <2>1. Cardinality(UpTo(i)) = Cardinality(UpTo(j))
    OBVIOUS
  <2>2. i < j \/ j < i
    BY <1>2
  <2>3. Cardinality(UpTo(i)) \in Nat
    BY <1>4
  <2>4. QED
    BY <1>5, <2>1, <2>2, <2>3
<1>8. Place \in Injection(signed, 1..N)
  BY <1>6, <1>7 DEF Injection, IsInjective
<1>9. IsFiniteSet(1..N) /\ Cardinality(1..N) = N
  BY <1>1, FS_Interval
<1>10. Place \in Surjection(signed, 1..N)
  BY <1>8, <1>9, FS_Injection
<1>11. \A n \in 1..N : \E i \in signed : Cardinality(UpTo(i)) = n
  BY <1>10 DEF Surjection
<1>12. DOMAIN Recorded(es) = 1..N
  BY DEF Recorded, signed
<1>13. ASSUME NEW n \in 1..N
       PROVE  /\ Nth(es, n) \in signed
              /\ Recorded(es)[n] = es[Nth(es, n)]
              /\ Cardinality(UpTo(Nth(es, n))) = n
  <2>1. Recorded(es)[n] = es[Nth(es, n)]
    BY DEF Recorded, signed
  <2>2. Nth(es, n) = CHOOSE i \in signed : Cardinality(UpTo(i)) = n
    BY DEF Nth, signed, UpTo
  <2>3. QED
    BY <1>11, <2>1, <2>2
<1>14. ASSUME NEW i \in signed
       PROVE  \E n \in 1..N : Recorded(es)[n] = es[i]
  <2> DEFINE m == Nth(es, Cardinality(UpTo(i)))
  <2>1. /\ m \in signed
        /\ Recorded(es)[Cardinality(UpTo(i))] = es[m]
        /\ Cardinality(UpTo(m)) = Cardinality(UpTo(i))
    BY <1>4, <1>13
  <2>2. m = i
    BY <1>7, <2>1
  <2>3. QED
    BY <1>4, <2>1, <2>2
<1>15. QED
  BY <1>1, <1>12, <1>13, <1>14 DEF signed, UpTo

\* Events that are no signatures leave them alone.
LEMMA RecordedOfAppend ==
  ASSUME NEW es \in Seq(LogEvent), NEW e \in LogEvent, e.type # "SignatureAdded"
  PROVE  Recorded(Append(es, e)) = Recorded(es)
<1> DEFINE new == Append(es, e)
<1>1. /\ DOMAIN es = 1..Len(es) /\ Len(es) \in Nat
      /\ DOMAIN new = 1..(Len(es) + 1)
      /\ \A i \in 1..Len(es) : new[i] = es[i]
      /\ new[Len(es) + 1] = e
  OBVIOUS
<1> HIDE DEF new
<1>2. SignedAt(new) = SignedAt(es)
  <2>1. S!Indices(new, {"SignatureAdded"}) = S!Indices(es, {"SignatureAdded"})
    BY <1>1 DEF S!Indices
  <2>2. QED
    BY <2>1, SameFolds DEF SignedAt
<1>3. \A n : Nth(new, n) = Nth(es, n)
  BY <1>2 DEF Nth, SignedUpTo
<1>4. \A n \in 1..Cardinality(SignedAt(es)) : new[Nth(es, n)] = es[Nth(es, n)]
  <2>1. \A i \in SignedAt(es) : new[i] = es[i]
    BY <1>1, SameFolds DEF S!Indices, SignedAt
  <2>2. QED
    BY <2>1, RecordedInOrder
<1>5. QED
  BY <1>2, <1>3, <1>4 DEF Recorded, new

\* The signatures of a recorded event's blob are by the keystore the event names.
SignedAlone(e) == \A sig \in e.hash.sigs : sig[1][1] = e.fingerprint

\* Each signature's blob carries signatures of the keystore its event names, on
\* whatever inputs they are usable on, and a keystore signs once.
SignaturesSound(es) ==
    /\ \A i \in SignedAt(es) : SignedAlone(es[i])
    /\ \A i, j \in SignedAt(es) : es[i].fingerprint = es[j].fingerprint => i = j

\* Among the first n of these recorded events, those who signed input i usably, and
\* whether each input has t of them.
SignersOf(rec, n, i) ==
    {rec[m].fingerprint : m \in {l \in 1..n : SignersOn(rec[l].hash.sigs, i) # {}}}

QuorumOf(rec, n, t) == \A i \in Inputs : Cardinality(SignersOf(rec, n, i)) >= t

\* The first n blobs add up to signatures of the first n signers, n in number; on
\* an input they are by those of them who signed it usably.
LEMMA GatheredSigners ==
  ASSUME NEW es \in Seq(LogEvent), SignaturesSound(es),
         NEW n \in 1..Cardinality(SignedAt(es))
  PROVE  LET first == {Recorded(es)[i].fingerprint : i \in 1..n}
         IN  /\ IsFiniteSet(first) /\ Cardinality(first) = n
             /\ \A i, j \in 1..n :
                   Recorded(es)[i].fingerprint = Recorded(es)[j].fingerprint => i = j
             /\ \A i : SignersOn(Gathered(es, n), i) = SignersOf(Recorded(es), n, i)
             /\ \A i : SignersOf(Recorded(es), n, i) \in SUBSET first
<1> DEFINE first == {Recorded(es)[i].fingerprint : i \in 1..n}
           f == [i \in 1..n |-> Recorded(es)[i].fingerprint]
<1>1. /\ Cardinality(SignedAt(es)) \in Nat
      /\ \A i \in 1..n : /\ Nth(es, i) \in SignedAt(es)
                         /\ Recorded(es)[i] = es[Nth(es, i)]
                         /\ Cardinality(SignedUpTo(es, Nth(es, i))) = i
  <2>1. Cardinality(SignedAt(es)) \in Nat
    BY RecordedInOrder
  <2>2. \A i \in 1..Cardinality(SignedAt(es)) :
           /\ Nth(es, i) \in SignedAt(es)
           /\ Recorded(es)[i] = es[Nth(es, i)]
           /\ Cardinality(SignedUpTo(es, Nth(es, i))) = i
    BY RecordedInOrder
  <2>3. \A i \in 1..n : i \in 1..Cardinality(SignedAt(es))
    BY <2>1
  <2>4. QED
    BY <2>1, <2>2, <2>3
<1>2. \A m \in 1..n : SignedAlone(Recorded(es)[m])
  BY <1>1 DEF SignaturesSound
<1>3. ASSUME NEW i
      PROVE  SignersOn(Gathered(es, n), i) = SignersOf(Recorded(es), n, i)
  <2>1. ASSUME NEW k \in SignersOn(Gathered(es, n), i)
        PROVE  k \in SignersOf(Recorded(es), n, i)
    <3>1. PICK sig \in Gathered(es, n) : sig[1][2] = i /\ sig[1][1] = k
      BY DEF SignersOn
    <3>2. PICK m \in 1..n : sig \in Recorded(es)[m].hash.sigs
      BY DEF Gathered
    <3>3. Recorded(es)[m].fingerprint = k
      BY <1>2, <3>1, <3>2 DEF SignedAlone
    <3>4. k \in SignersOn(Recorded(es)[m].hash.sigs, i)
      BY <3>1, <3>2 DEF SignersOn
    <3>5. QED
      BY <3>3, <3>4 DEF SignersOf
  <2>2. ASSUME NEW k \in SignersOf(Recorded(es), n, i)
        PROVE  k \in SignersOn(Gathered(es, n), i)
    <3>1. PICK m \in 1..n : /\ SignersOn(Recorded(es)[m].hash.sigs, i) # {}
                           /\ Recorded(es)[m].fingerprint = k
      BY DEF SignersOf
    <3>2. PICK sig \in Recorded(es)[m].hash.sigs : sig[1][2] = i
      BY <3>1 DEF SignersOn
    <3>3. sig[1][1] = k
      BY <1>2, <3>1, <3>2 DEF SignedAlone
    <3>4. sig \in Gathered(es, n)
      BY <3>2 DEF Gathered
    <3>5. QED
      BY <3>2, <3>3, <3>4 DEF SignersOn
  <2>3. QED
    BY <2>1, <2>2
<1>4. \A i, j \in 1..n :
         Recorded(es)[i].fingerprint = Recorded(es)[j].fingerprint => i = j
  <2> TAKE i, j \in 1..n
  <2> HAVE Recorded(es)[i].fingerprint = Recorded(es)[j].fingerprint
  <2>1. Nth(es, i) = Nth(es, j)
    BY <1>1 DEF SignaturesSound
  <2>2. QED
    BY <1>1, <2>1
<1>5. f \in Surjection(1..n, first) /\ f \in Injection(1..n, first)
  BY <1>4 DEF Surjection, Injection, IsInjective
<1>6. IsFiniteSet(1..n) /\ Cardinality(1..n) = n
  <2>1. n \in Int /\ n >= 1
    BY <1>1
  <2>2. QED
    BY <2>1, FS_Interval
<1>7. IsFiniteSet(first) /\ Cardinality(first) = n
  BY <1>5, <1>6, FS_Surjection
<1>8. \A i : SignersOf(Recorded(es), n, i) \in SUBSET first
  BY DEF SignersOf
<1>9. QED
  BY <1>3, <1>4, <1>7, <1>8

\* A nonempty set of numbers has a least one.
LEMMA LeastOfSet ==
  ASSUME NEW Some, Some \subseteq Nat, Some # {}
  PROVE  \E m \in Some : \A n \in Some : m <= n
<1>1. PICK top \in Some : top \in Nat
  OBVIOUS
<1> DEFINE below == {n \in Some : n <= top}
           initial == {1..n : n \in below}
<1>2. initial \subseteq FiniteSubsetsOf(1..top) /\ initial # {}
  <2>1. \A n \in below : n \in Nat /\ 1..n \subseteq 1..top /\ IsFiniteSet(1..n)
    BY <1>1, FS_Interval
  <2>2. top \in below
    BY <1>1
  <2>3. QED
    BY <2>1, <2>2 DEF FiniteSubsetsOf
<1>3. PICK first \in initial : \A s \in initial : <<s, first>> \notin StrictSubsetOrdering(1..top)
  BY <1>2, FS_StrictSubsetOrderingWellFounded, WFMin, Zenon
<1>4. PICK m \in below : first = 1..m
  OBVIOUS
<1>5. ASSUME NEW n \in Some, n < m
      PROVE  FALSE
  <2>1. n \in below /\ n \in Nat /\ m \in Nat
    BY <1>1, <1>4, <1>5
  <2>2. 1..n \subseteq 1..m /\ m \in 1..m /\ m \notin 1..n
    BY <1>5, <2>1
  <2>3. <<1..n, first>> \in StrictSubsetOrdering(1..top)
    BY <1>2, <1>4, <2>1, <2>2 DEF StrictSubsetOrdering, FiniteSubsetsOf
  <2>4. QED
    BY <1>3, <2>1, <2>3
<1>6. QED
  BY <1>4, <1>5

\* The transaction finalizes with a prefix that has a quorum for each input, and
\* there is a shortest one; a quorum takes at least as many signers as the
\* threshold asks for.
LEMMA QuorumFinalizes ==
  ASSUME NEW es \in Seq(LogEvent), SignaturesSound(es),
         S!Policy(es).threshold \in Nat \ {0}
  PROVE  LET N == Cardinality(SignedAt(es))
             t == S!Policy(es).threshold
         IN  /\ N \in Nat /\ Len(Recorded(es)) = N
             /\ Prefixes(es) = {n \in 1..N : QuorumOf(Recorded(es), n, t)}
             /\ QuorumOf(Recorded(es), N, t) => Prefixes(es) # {}
             /\ Prefixes(es) # {} => /\ Minimal(es) \in Prefixes(es)
                                     /\ \A n \in Prefixes(es) : Minimal(es) <= n
                                     /\ t <= Minimal(es)
<1> DEFINE N == Cardinality(SignedAt(es))
           t == S!Policy(es).threshold
<1>1. N \in Nat /\ DOMAIN Recorded(es) = 1..N
  BY RecordedInOrder
<1>2. Len(Recorded(es)) = N
  BY <1>1 DEF Recorded
<1>3. Session!Policy(es).threshold = t
  BY SameFolds
<1>4. ASSUME NEW n \in 1..N
      PROVE  /\ Satisfies(es, n) <=> QuorumOf(Recorded(es), n, t)
             /\ QuorumOf(Recorded(es), n, t) => t <= n
  <2> DEFINE first == {Recorded(es)[i].fingerprint : i \in 1..n}
  <2>1. /\ IsFiniteSet(first) /\ Cardinality(first) = n
        /\ \A i : SignersOn(Gathered(es, n), i) = SignersOf(Recorded(es), n, i)
        /\ \A i : SignersOf(Recorded(es), n, i) \in SUBSET first
    BY GatheredSigners
  <2>2. \A i : /\ Cardinality(SignersOf(Recorded(es), n, i)) <= n
               /\ Cardinality(SignersOf(Recorded(es), n, i)) \in Nat
    <3> TAKE i
    <3>1. IsFiniteSet(SignersOf(Recorded(es), n, i))
      BY <2>1, FS_Subset
    <3>2. QED
      BY <2>1, <3>1, FS_Subset, FS_CardinalityType
  <2>3. Satisfies(es, n) <=> QuorumOf(Recorded(es), n, t)
    BY <1>3, <2>1 DEF Satisfies, QuorumOf
  <2>4. QuorumOf(Recorded(es), n, t) => t <= n
    <3>1. PICK i \in Inputs : TRUE
      BY InputAssumption
    <3>2. n \in Nat /\ t \in Nat
      BY <1>1
    <3>3. QED
      BY <2>2, <3>1, <3>2 DEF QuorumOf
  <2>5. QED
    BY <2>3, <2>4
<1>5. Prefixes(es) = {n \in 1..N : QuorumOf(Recorded(es), n, t)}
  BY <1>2, <1>4 DEF Prefixes
<1>6. ASSUME QuorumOf(Recorded(es), N, t)
      PROVE  Prefixes(es) # {}
  <2>1. PICK i \in Inputs : TRUE
    BY InputAssumption
  <2>2. N # 0
    <3> SUFFICES ASSUME N = 0 PROVE FALSE
      OBVIOUS
    <3>1. SignersOf(Recorded(es), N, i) = {}
      BY DEF SignersOf
    <3>2. Cardinality(SignersOf(Recorded(es), N, i)) = 0
      BY <3>1, FS_EmptySet
    <3>3. QED
      BY <1>6, <2>1, <3>2 DEF QuorumOf
  <2>3. QED
    BY <1>1, <1>5, <1>6, <2>2
<1>7. ASSUME Prefixes(es) # {}
      PROVE  /\ Minimal(es) \in Prefixes(es)
             /\ \A n \in Prefixes(es) : Minimal(es) <= n
             /\ t <= Minimal(es)
  <2>1. Prefixes(es) \in SUBSET Nat
    BY <1>1, <1>5
  <2>2. \E m \in Prefixes(es) : \A n \in Prefixes(es) : m <= n
    BY <1>7, <2>1, LeastOfSet
  <2>3. Minimal(es) \in Prefixes(es) /\ \A n \in Prefixes(es) : Minimal(es) <= n
    BY <2>2 DEF Minimal
  <2>4. QED
    BY <1>4, <1>5, <2>3
<1>8. QED
  BY <1>1, <1>2, <1>5, <1>6, <1>7

-----------------------------------------------------------------------------
(* The inductive invariant.                                                *)

\* The stream is one the aggregate's commands can have recorded.
LogSound == Loads(log) /\ S!IInv

\* The variables other than the stream have their types.
StateTypes == /\ blobs \subseteq Hashes
              /\ build \in Outcomes /\ funded \in BOOLEAN
              /\ call \in [Calls -> Steps]
              /\ jobs \in [JobIds -> {"none", "queued", "running", "gone"}]
              /\ worker \in [Workers -> Steps]
              /\ faults \in 0..MaxFaults

\* Recorded blobs are stored, and a signature's blob carries signatures of exactly
\* the keystore its event names.
DocumentsSound ==
    /\ ReferencedBlobsStored
    /\ S!Has(log, "PsbtCreated") => Unsigned \in blobs
    /\ \A i \in S!Indices(log, {"SignatureAdded"}) : SignedAlone(log[i])

\* The finalization names the signers of the shortest prefix of these recorded
\* events that has a quorum, and its transaction is signed by those among them who
\* signed usably.
Authority(rec, final, t) ==
    LET n == Cardinality(final.used)
    IN  /\ n \in DOMAIN rec
        /\ final.used = {rec[m].fingerprint : m \in 1..n}
        /\ QuorumOf(rec, n, t) /\ \A m \in 1..(n - 1) : ~QuorumOf(rec, m, t)
        /\ \A i \in Inputs : /\ SignersOn(final.hash.sigs, i) \subseteq SignersOf(rec, n, i)
                            /\ Cardinality(SignersOn(final.hash.sigs, i)) = t

\* What a call holds between its steps, and what it has been told; it spawns its
\* job only when it is answered.
CallSound(c) ==
    LET x == call[c]
    IN  /\ x.step \in {"idle", "loaded", "stored", "done"}
        /\ x.step # "idle" => log # <<>>
        /\ x.step # "done" => jobs[c] = "none"
        /\ x.seen <= Len(log)
        /\ x.step # "idle" /\ x.kind = "upload" => x.key \in Keystores
        /\ x.step = "stored" => /\ x.kind = "upload"
                                /\ x.hash \in blobs
                                /\ \E usable \in SUBSET ({x.key} \X Inputs), nonce \in Nonces :
                                      x.hash = Merged(usable, nonce)
        /\ x.step = "done" => /\ x.kind = "upload" => S!Signed(log, x.key)
                              /\ x.kind = "cancel" => S!Has(log, "Cancelled")

\* What an execution of the creation job holds: it only ends when its session is
\* not pending any more, or can never be built.
CreationSound(x) ==
    /\ x.step = "stored" => x.hash = Unsigned /\ Unsigned \in blobs
    /\ x.step = "ended" => S!Status(log) # "Pending" \/ build = "given up"

\* What an execution of a finalization job holds: it goes on only with a quorum on
\* its copy, and ends with a quorum there only when collection is closed.
FinalizationSound(x) ==
    LET view == View(x.seen)
    IN  /\ x.step \in {"loaded", "stored"} => S!ThresholdMet(view)
        /\ x.step = "stored" => /\ Prefixes(view) # {}
                                /\ \E sigs \in Witnesses(view) : x.hash = FinalTx(sigs)
                                /\ x.hash \in blobs
        /\ x.step = "ended" => S!Status(log) # "Collecting" \/ ~S!ThresholdMet(view)

WorkerSound(w) ==
    LET x == worker[w]
    IN  \/ x = Idle
        \/ /\ x.step \in {"loaded", "stored", "ended"}
           /\ x.key \in JobIds /\ jobs[x.key] # "none"
           /\ log # <<>> /\ x.seen \in 1..Len(log)
           /\ x.key = Creation => CreationSound(x)
           /\ x.key \in Calls => FinalizationSound(x)

\* Every reversal in the stream was recorded by a call of its own.
ReversalsCounted ==
    Cardinality(S!Indices(log, {"Invalidated"}))
      <= Cardinality({c \in Calls : call[c].step = "done" /\ call[c].kind = "Invalidated"})

JobsSound == /\ log = <<>> => \A j \in JobIds : jobs[j] = "none"
             /\ PendingHasJob
             /\ QuorumHasJob

IInv == /\ LogSound
        /\ StateTypes
        /\ DocumentsSound
        /\ AuthorityIsExact
        /\ \A c \in Calls : CallSound(c)
        /\ \A w \in Workers : WorkerSound(w)
        /\ ReversalsCounted
        /\ JobsSound
-----------------------------------------------------------------------------
(* How a recorded event changes what is folded from the stream.            *)

\* The stream after a commit, and its folds.
LEMMA StreamAfter ==
  ASSUME NEW es, Loads(es), es # <<>>, NEW e \in LogEvent
  PROVE  LET new == Append(es, e)
         IN  /\ Loads(new) /\ new # <<>>
             /\ Bare(new) = Append(Bare(es), Plain(e))
             /\ S!Policy(new) = S!Policy(es)
             /\ S!Status(new) = IF e.type \in S!LifecycleTypes THEN S!Shows[e.type]
                                ELSE S!Status(es)
             /\ \A type : S!Has(new, type) <=> S!Has(es, type) \/ e.type = type
             /\ \A types : S!Indices(new, types) =
                              IF e.type \in types THEN S!Indices(es, types) \cup {Len(es) + 1}
                              ELSE S!Indices(es, types)
             /\ e.type # "Finalized" /\ S!Has(es, "Finalized") =>
                   S!Finalization(new) = S!Finalization(es)
             /\ e.type = "Finalized" => S!Finalization(new) = e
             /\ \A k : S!Signed(new, k) <=>
                          S!Signed(es, k) \/ (e.type = "SignatureAdded" /\ e.fingerprint = k)
<1> DEFINE new == Append(es, e)
           n == Len(es)
<1>1. /\ es \in Seq(LogEvent) /\ new \in Seq(LogEvent)
      /\ n \in Nat \ {0} /\ DOMAIN es = 1..n /\ DOMAIN new = 1..(n + 1)
      /\ \A i \in 1..n : new[i] = es[i]
      /\ new[n + 1] = e /\ Len(new) = n + 1
  BY EmptySeq DEF Loads
<1> HIDE DEF new
<1>2. /\ Bare(new) = Append(Bare(es), Plain(e))
      /\ Bare(es) \in Seq(S!Event) /\ Plain(e) \in S!Event /\ Plain(e).type = e.type
      /\ Len(Bare(es)) = n
  BY <1>1, BareOfAppend, BareStream, BareEvent DEF new
<1>3. /\ S!HasNewest(Bare(new), S!LifecycleTypes)
      /\ S!HasNewest(Bare(new), {"Finalized"})
  BY <1>2, S!HasNewestOfAppend, SAssumes DEF Loads
<1>4. Loads(new)
  BY <1>1, <1>3, EmptySeq DEF Loads
<1>5. S!Policy(new) = S!Policy(es)
  BY <1>1 DEF S!Policy
<1>6. S!Status(new) = IF e.type \in S!LifecycleTypes THEN S!Shows[e.type] ELSE S!Status(es)
  <2>1. S!Status(Bare(new)) = IF Plain(e).type \in S!LifecycleTypes
                              THEN S!Shows[Plain(e).type] ELSE S!Status(Bare(es))
    BY <1>2, S!StatusOfAppend, SAssumes DEF Loads
  <2>2. S!Status(new) = S!Status(Bare(new)) /\ S!Status(es) = S!Status(Bare(es))
    BY <1>4, BareFolds
  <2>3. QED
    BY <1>2, <2>1, <2>2
<1>7. ASSUME NEW types
      PROVE  S!Indices(new, types) = IF e.type \in types THEN S!Indices(es, types) \cup {n + 1}
                                     ELSE S!Indices(es, types)
  BY <1>1 DEF S!Indices
<1>8. \A type : S!Has(new, type) <=> S!Has(es, type) \/ e.type = type
  BY <1>7 DEF S!Has
<1>9. ASSUME e.type # "Finalized", S!Has(es, "Finalized")
       PROVE  S!Finalization(new) = S!Finalization(es)
  <2>1. S!Indices(new, {"Finalized"}) = S!Indices(es, {"Finalized"})
    BY <1>7, <1>9
  <2>2. S!Newest(new, {"Finalized"}) = S!Newest(es, {"Finalized"})
    BY <2>1 DEF S!Newest
  <2>3. S!Indices(es, {"Finalized"}) = S!Indices(Bare(es), {"Finalized"})
    BY BareFolds
  <2>4. S!Newest(Bare(es), {"Finalized"}) \in S!Indices(es, {"Finalized"})
    BY <1>2, <1>9, <2>3, S!NewestIsNewest, SAssumes DEF Loads, S!Has
  <2>5. S!Newest(es, {"Finalized"}) \in 1..n
    BY <1>1, <2>3, <2>4 DEF S!Newest, S!Indices
  <2>6. QED
    BY <1>1, <2>2, <2>5 DEF S!Finalization
<1>10. ASSUME e.type = "Finalized"
       PROVE  S!Finalization(new) = e
  <2>1. S!Indices(new, {"Finalized"}) = S!Indices(es, {"Finalized"}) \cup {n + 1}
    BY <1>7, <1>10
  <2>2. \A i \in S!Indices(es, {"Finalized"}) : i \in 1..n
    BY <1>1 DEF S!Indices
  <2>3. \A i \in S!Indices(new, {"Finalized"}) :
           (\A j \in S!Indices(new, {"Finalized"}) : j <= i) <=> i = n + 1
    BY <1>1, <2>1, <2>2
  <2>4. S!Newest(new, {"Finalized"}) = n + 1
    BY <2>1, <2>3 DEF S!Newest
  <2>5. QED
    BY <1>1, <2>4 DEF S!Finalization
<1>11. \A k : S!Signed(new, k) <=>
                 S!Signed(es, k) \/ (e.type = "SignatureAdded" /\ e.fingerprint = k)
  <2>1. \A i \in S!Indices(es, {"SignatureAdded"}) : new[i] = es[i]
    BY <1>1 DEF S!Indices
  <2>2. QED
    BY <1>1, <1>7, <2>1 DEF S!Signed
<1>12. QED
  BY <1>1, <1>2, <1>4, <1>5, <1>6, <1>7, <1>8, <1>9, <1>10, <1>11, EmptySeq DEF new

\* A command of the aggregate keeps the stream sound.
LEMMA CommandKeepsLog ==
  ASSUME LogSound, log # <<>>, NEW e \in LogEvent,
         S!Allows(Bare(log), Plain(e)), log' = Append(log, e)
  PROVE  LogSound'
<1>1. Loads(log') /\ Bare(log)' = Append(Bare(log), Plain(e))
  BY StreamAfter DEF LogSound, Bare
<1>2. Plain(e) \in S!Event /\ Bare(log) # <<>>
  BY BareEvent, BareStream DEF LogSound, Loads
<1>3. S!IInv'
  BY <1>1, <1>2, S!PushKeeps, SAssumes DEF LogSound
<1>4. QED
  BY <1>1, <1>3 DEF LogSound, Loads, Bare

\* What the aggregate's invariant says of the stored stream.
LEMMA LogFacts ==
  ASSUME LogSound, log # <<>>
  PROVE  /\ S!Policy(log) \in Policies
         /\ S!Policy(log).threshold \in Nat \ {0}
         /\ \A k : S!Signed(log, k) => k \in S!Policy(log).keystores
         /\ \A i, j \in SignedAt(log) : log[i].fingerprint = log[j].fingerprint => i = j
         /\ S!Status(log) = "Collecting" => S!Has(log, "PsbtCreated") /\ ~S!Has(log, "Finalized")
         /\ S!Status(log) = "Pending" => SignedAt(log) = {}
<1> DEFINE es == Bare(log)
<1>1. /\ Loads(log) /\ log \in Seq(LogEvent) /\ es \in Seq(S!Event) /\ es # <<>>
      /\ DOMAIN log = 1..Len(log) /\ Len(log) \in Nat /\ DOMAIN es = 1..Len(log)
      /\ \A i \in 1..Len(log) : log[i] \in LogEvent /\ es[i] = Plain(log[i])
      /\ \A i \in 1..Len(log) : es[i].type = log[i].type
  BY BareStream DEF LogSound, Loads
<1>2. /\ S!TypeOK /\ S!StartsWithPolicy /\ S!FoldsHaveNewest /\ S!AuditOrder
      /\ S!HydrationAccepts
  BY DEF LogSound, S!IInv
<1>3. /\ \A types : S!Indices(log, types) = S!Indices(es, types)
      /\ S!Status(log) = S!Status(es) /\ S!Policy(log) = S!Policy(es)
      /\ \A k : S!Signed(log, k) <=> S!Signed(es, k)
      /\ \A type : S!Has(log, type) <=> S!Has(es, type)
  BY <1>1, BareFolds
<1>4. SignedAt(log) = S!Indices(es, {"SignatureAdded"})
  BY <1>3, SameFolds DEF SignedAt
<1>5. \A i \in SignedAt(log) : es[i].fingerprint = log[i].fingerprint
  BY <1>1, <1>4, BareEvent DEF S!Indices
<1> HIDE DEF es
<1>6. S!Policy(log) \in Policies
  BY <1>1, <1>2, <1>3 DEF S!StartsWithPolicy, S!Policy, es
<1>7. S!Policy(log).threshold \in Nat \ {0}
  BY <1>6, SessionAssumption
<1>8. \A i \in S!Indices(es, {"SignatureAdded"}) :
         /\ es[i].fingerprint \in S!Policy(es).keystores
         /\ \A j \in S!Indices(es, {"SignatureAdded"}) :
               es[i].fingerprint = es[j].fingerprint => i = j
  BY <1>1, <1>2 DEF S!HydrationAccepts, es
<1>9. \A k : S!Signed(log, k) => k \in S!Policy(log).keystores
  BY <1>3, <1>8 DEF S!Signed
<1>10. \A i, j \in SignedAt(log) : log[i].fingerprint = log[j].fingerprint => i = j
  BY <1>4, <1>5, <1>8
<1>11. ASSUME S!Status(log) = "Collecting"
       PROVE  S!Has(log, "PsbtCreated") /\ ~S!Has(log, "Finalized")
  <2>1. S!Status(es) = "Collecting"
    BY <1>3, <1>11
  <2>2. /\ \E m \in DOMAIN es : es[m].type = "PsbtCreated"
        /\ \A i \in DOMAIN es : es[i].type \notin {"Finalized", "Cancelled"}
    BY <1>2, <2>1, S!CollectingIsOpen, SAssumes DEF es
  <2>3. QED
    BY <1>3, <2>2 DEF S!Has, S!Indices
<1>12. ASSUME S!Status(log) = "Pending"
       PROVE  SignedAt(log) = {}
  <2>1. S!Indices(es, S!LifecycleTypes) = {}
    BY <1>1, <1>3, <1>12, S!PendingHasNoLifecycle, SAssumes DEF Loads, es
  <2>2. \A i \in DOMAIN es : es[i].type # "PsbtCreated"
    BY <2>1 DEF S!Indices, S!LifecycleTypes
  <2>3. ASSUME NEW j \in DOMAIN es, es[j].type = "SignatureAdded",
               es[1].type = "Initialized"
        PROVE  FALSE
    <3>1. 1 \in DOMAIN es /\ 1 < j
      BY <1>1, <2>3
    <3>2. \E m \in 1..(j - 1) : es[m].type = "PsbtCreated"
      BY <1>2, <2>3, <3>1 DEF S!AuditOrder, es
    <3>3. QED
      BY <1>1, <2>2, <2>3, <3>2
  <2>4. es[1].type = "Initialized"
    BY <1>1, <1>2 DEF S!StartsWithPolicy, es
  <2>5. QED
    BY <1>4, <1>6, <2>3, <2>4 DEF S!Indices
<1>13. QED
  BY <1>6, <1>7, <1>9, <1>10, <1>11, <1>12

\* A session whose unsigned PSBT is recorded is not pending any more.
LEMMA PsbtEndsPending ==
  ASSUME LogSound, S!Has(log, "PsbtCreated")
  PROVE  S!Status(log) # "Pending"
<1> SUFFICES ASSUME S!Status(log) = "Pending" PROVE FALSE
  OBVIOUS
<1>1. Loads(log) /\ S!Status(Bare(log)) = "Pending" /\ S!Has(Bare(log), "PsbtCreated")
  BY BareFolds DEF LogSound
<1>2. Bare(log) \in Seq(S!Event)
  BY <1>1, BareStream DEF Loads
<1>3. S!Indices(Bare(log), S!LifecycleTypes) = {}
  BY <1>1, <1>2, S!PendingHasNoLifecycle, SAssumes DEF Loads
<1>4. QED
  BY <1>1, <1>3 DEF S!Has, S!Indices, S!LifecycleTypes

\* The signatures gathered are by keystores, on inputs.
LEMMA GatheredType ==
  ASSUME NEW es \in Seq(LogEvent), NEW n \in 1..Cardinality(SignedAt(es))
  PROVE  Gathered(es, n) \in SUBSET ((Keystores \X Inputs) \X Nonces)
<1>1. ASSUME NEW i \in 1..n
      PROVE  Recorded(es)[i].hash.sigs \in SUBSET ((Keystores \X Inputs) \X Nonces)
  <2>1. Cardinality(SignedAt(es)) \in Nat
    BY RecordedInOrder
  <2>2. i \in 1..Cardinality(SignedAt(es))
    BY <2>1
  <2>3. Nth(es, i) \in SignedAt(es) /\ Recorded(es)[i] = es[Nth(es, i)]
    BY <2>2, RecordedInOrder
  <2>4. Nth(es, i) \in DOMAIN es /\ es[Nth(es, i)].type = "SignatureAdded"
    BY <2>3, SameFolds DEF SignedAt, S!Indices
  <2>5. es[Nth(es, i)] \in LogEvent
    BY <2>4
  <2>6. es[Nth(es, i)].hash \in Hashes
    BY <2>4, <2>5 DEF LogEvent
  <2>7. QED
    BY <2>3, <2>6 DEF Hashes, Unsigned
<1>2. QED
  BY <1>1 DEF Gathered

\* What the session and its documents say of the recorded signatures.
LEMMA LogSignatures ==
  ASSUME LogSound, log # <<>>, DocumentsSound
  PROVE  SignaturesSound(log)
<1>1. \A i \in SignedAt(log) : SignedAlone(log[i])
  BY SameFolds DEF DocumentsSound, SignedAt
<1>2. QED
  BY <1>1, LogFacts DEF SignaturesSound

\* Whom the finalization of a stream names, in terms of its recorded signatures.
LEMMA AuthorityIs ==
  /\ AuthorityIsExact <=>
        (S!Has(log, "Finalized") =>
            Authority(Recorded(log), S!Finalization(log), S!Policy(log).threshold))
  /\ AuthorityIsExact' <=>
        (S!Has(log', "Finalized") =>
            Authority(Recorded(log'), S!Finalization(log'), S!Policy(log').threshold))
  BY SameFolds DEF AuthorityIsExact, Authority, UsableQuorum, UsableSigners, QuorumOf, SignersOf

\* What finalization is called with, and what it may say of the stream.
LEMMA FinalizationFits ==
  ASSUME LogSound, log # <<>>, SignaturesSound(log), Prefixes(log) # {}
  PROVE  LET n == Minimal(log)
             used == {Recorded(log)[i].fingerprint : i \in 1..n}
         IN  /\ SigsUsed(log) \in SigLists /\ S!IsInjective(SigsUsed(log))
             /\ Len(SigsUsed(log)) >= S!Policy(log).threshold
             /\ \A i \in DOMAIN SigsUsed(log) : S!Signed(log, SigsUsed(log)[i])
             /\ S!Used(SigsUsed(log)) = used /\ used \in SUBSET Keystores
             /\ n \in DOMAIN Recorded(log) /\ Cardinality(used) = n
<1> DEFINE p == S!Policy(log)
           t == p.threshold
           n == Minimal(log)
           N == Cardinality(SignedAt(log))
           list == [i \in 1..n |-> Recorded(log)[i].fingerprint]
           used == {Recorded(log)[i].fingerprint : i \in 1..n}
<1>1. log \in Seq(LogEvent) /\ p \in Policies /\ t \in Nat \ {0}
  BY LogFacts DEF LogSound, Loads
<1>2. n \in 1..N /\ N \in Nat /\ t <= n /\ DOMAIN Recorded(log) = 1..N
  BY <1>1, QuorumFinalizes, RecordedInOrder
<1>3. SigsUsed(log) = list
  BY DEF SigsUsed
<1>4. /\ Cardinality(used) = n
      /\ \A i, j \in 1..n : Recorded(log)[i].fingerprint = Recorded(log)[j].fingerprint => i = j
  BY <1>1, <1>2, GatheredSigners
<1>5. ASSUME NEW i \in 1..n
      PROVE  S!Signed(log, Recorded(log)[i].fingerprint)
  <2>1. i \in 1..N
    BY <1>2
  <2>2. Nth(log, i) \in SignedAt(log) /\ Recorded(log)[i] = log[Nth(log, i)]
    BY <1>1, <2>1, RecordedInOrder
  <2>3. QED
    BY <2>2, SameFolds DEF SignedAt, S!Signed
<1>6. \A i \in 1..n : Recorded(log)[i].fingerprint \in p.keystores
  BY <1>5, LogFacts
<1>7. p.keystores \in SUBSET Keystores /\ n \in 1..Cardinality(p.keystores)
  <2>1. /\ p \in [threshold : Nat \ {0}, keystores : SUBSET Keystores]
        /\ IsFiniteSet(p.keystores)
    BY <1>1, SessionAssumption
  <2>2. used \in SUBSET p.keystores
    BY <1>6
  <2>3. Cardinality(used) <= Cardinality(p.keystores) /\ Cardinality(p.keystores) \in Nat
    BY <2>1, <2>2, FS_Subset, FS_CardinalityType
  <2>4. QED
    BY <1>2, <1>4, <2>1, <2>3
<1>8. list \in SigLists
  <2>1. list \in [1..n -> p.keystores]
    BY <1>6
  <2>2. \A i, j \in 1..n : list[i] = list[j] => i = j
    BY <1>4
  <2> HIDE DEF list, n, p
  <2>3. QED
    BY <1>1, <1>7, <2>1, <2>2, SessionAssumption
<1>9. S!IsInjective(list)
  BY <1>4 DEF S!IsInjective
<1>10. Len(list) = n /\ DOMAIN list = 1..n
  BY <1>2
<1>11. S!Used(list) = used
  BY DEF S!Used, S!Range
<1>12. used \in SUBSET Keystores
  BY <1>6, <1>7
<1> HIDE DEF n
<1>13. QED
  BY <1>1, <1>2, <1>3, <1>4, <1>5, <1>8, <1>9, <1>10, <1>11, <1>12 DEF n

-----------------------------------------------------------------------------
(* What a step may do to the stream, and what that leaves alone.           *)

\* The stream stays, or a command of the aggregate adds event e to it.
Adds(e) == /\ log # <<>> /\ e \in LogEvent
           /\ S!Allows(Bare(log), Plain(e))
           /\ log' = Append(log, e)

Onward == log' = log \/ \E e \in LogEvent : Adds(e)

\* A quorum, once recorded, stays one.
LEMMA QuorumStays ==
  ASSUME LogSound, NEW e, Adds(e)
  PROVE  /\ S!ThresholdMet(log) => S!ThresholdMet(log')
         /\ S!ThresholdMet(log') /\ e.type # "SignatureAdded" => S!ThresholdMet(log)
<1> DEFINE A == S!Indices(log, {"SignatureAdded"})
           B == S!Indices(log', {"SignatureAdded"})
           t == S!Policy(log).threshold
<1>1. log \in Seq(LogEvent) /\ t \in Nat
  BY LogFacts DEF LogSound, Loads, Adds
<1>2. /\ S!Policy(log') = S!Policy(log)
      /\ B = IF e.type \in {"SignatureAdded"} THEN A \cup {Len(log) + 1} ELSE A
  BY StreamAfter DEF LogSound, Adds
<1>3. IsFiniteSet(A) /\ Cardinality(A) \in Nat
  BY <1>1, IndicesCount
<1>4. Cardinality(B) \in Nat /\ Cardinality(A) <= Cardinality(B)
  <2>1. B = A \/ B = A \cup {Len(log) + 1}
    BY <1>2
  <2>2. \/ Cardinality(A \cup {Len(log) + 1}) = Cardinality(A)
        \/ Cardinality(A \cup {Len(log) + 1}) = Cardinality(A) + 1
    BY <1>3, FS_AddElement
  <2> HIDE DEF A, B
  <2>3. Cardinality(B) = Cardinality(A) \/ Cardinality(B) = Cardinality(A) + 1
    BY <2>1, <2>2, Zenon
  <2>4. QED
    BY <1>3, <2>3
<1>5. /\ S!ThresholdMet(log) <=> Cardinality(A) >= t
      /\ S!ThresholdMet(log') <=> Cardinality(B) >= t
  BY <1>2, SameLibrary DEF S!ThresholdMet
<1> HIDE DEF A, B, t
<1>6. QED
  BY <1>1, <1>2, <1>3, <1>4, <1>5

\* A session with a quorum has its unsigned PSBT: signatures come after it.
LEMMA QuorumIsNotPending ==
  ASSUME LogSound, log # <<>>, S!ThresholdMet(log)
  PROVE  S!Status(log) # "Pending"
<1> SUFFICES ASSUME S!Status(log) = "Pending" PROVE FALSE
  OBVIOUS
<1>1. SignedAt(log) = {}
  BY LogFacts
<1>2. S!Indices(log, {"SignatureAdded"}) = {}
  BY <1>1, SameFolds DEF SignedAt
<1>3. S!Cardinality(S!Indices(log, {"SignatureAdded"})) = 0
  BY <1>2, FS_EmptySet, SameLibrary
<1>4. S!Policy(log).threshold \in Nat \ {0}
  BY LogFacts
<1>5. S!Policy(log).threshold <= 0
  BY <1>3 DEF S!ThresholdMet
<1>6. QED
  BY <1>4, <1>5

\* What is in the stream stays there, and a copy stays a copy of its beginning.
LEMMA OnwardFacts ==
  ASSUME LogSound, Onward
  PROVE  /\ LogSound'
         /\ log # <<>> => log' # <<>>
         /\ Len(log) \in Nat /\ Len(log') \in Nat /\ Len(log) <= Len(log')
         /\ \A seen \in 0..Len(log) : SubSeq(log', 1, seen) = SubSeq(log, 1, seen)
         /\ \A type : S!Has(log, type) => S!Has(log', type)
         /\ \A k : S!Signed(log, k) => S!Signed(log', k)
         /\ log # <<>> /\ S!ThresholdMet(log) => S!ThresholdMet(log')
         /\ log # <<>> /\ S!ThresholdMet(log) /\ S!Status(log) # "Collecting"
               => S!Status(log') # "Collecting"
         /\ S!Status(log') = "Pending" => S!Status(log) = "Pending"
<1>1. CASE log' = log
  <2>1. UNCHANGED S!vars
    BY <1>1 DEF S!vars, Bare
  <2>2. S!IInv'
    BY <2>1, S!InvariantKept, SAssumes DEF LogSound
  <2>3. LogSound'
    BY <1>1, <2>2 DEF LogSound, Loads
  <2>4. Len(log) \in Nat
    BY DEF LogSound, Loads
  <2>5. QED
    BY <1>1, <2>3, <2>4
<1>2. ASSUME NEW e \in LogEvent, Adds(e)
      PROVE  /\ LogSound'
             /\ log # <<>> => log' # <<>>
             /\ Len(log) \in Nat /\ Len(log') \in Nat /\ Len(log) <= Len(log')
             /\ \A seen \in 0..Len(log) : SubSeq(log', 1, seen) = SubSeq(log, 1, seen)
             /\ \A type : S!Has(log, type) => S!Has(log', type)
             /\ \A k : S!Signed(log, k) => S!Signed(log', k)
             /\ log # <<>> /\ S!ThresholdMet(log) => S!ThresholdMet(log')
             /\ log # <<>> /\ S!ThresholdMet(log) /\ S!Status(log) # "Collecting"
                   => S!Status(log') # "Collecting"
             /\ S!Status(log') = "Pending" => S!Status(log) = "Pending"
  <2>1. /\ log # <<>> /\ log' = Append(log, e) /\ log \in Seq(LogEvent)
        /\ S!Allows(Bare(log), Plain(e)) /\ Loads(log)
    BY <1>2 DEF Adds, LogSound, Loads
  <2>2. LogSound'
    BY <1>2, <2>1, CommandKeepsLog
  <2>3. /\ log' # <<>>
        /\ S!Status(log') = IF e.type \in S!LifecycleTypes THEN S!Shows[e.type]
                            ELSE S!Status(log)
        /\ \A type : S!Has(log', type) <=> S!Has(log, type) \/ e.type = type
        /\ \A k : S!Signed(log, k) => S!Signed(log', k)
    BY <2>1, StreamAfter
  <2>4. Len(log) \in Nat /\ Len(log') = Len(log) + 1 /\ \A i \in 1..Len(log) : log'[i] = log[i]
    BY <2>1
  <2>5. ASSUME NEW seen \in 0..Len(log)
        PROVE  SubSeq(log', 1, seen) = SubSeq(log, 1, seen)
    <3>1. SubSeq(log, 1, seen) = [i \in 1..seen |-> log[i]]
      BY <2>1, <2>4
    <3>2. SubSeq(log', 1, seen) = [i \in 1..seen |-> log'[i]]
      BY <2>1, <2>4
    <3>3. \A i \in 1..seen : log'[i] = log[i]
      BY <2>4
    <3>4. QED
      BY <3>1, <3>2, <3>3
  <2>6. S!Status(log') = "Pending" => S!Status(log) = "Pending"
    BY <2>3, S!ShowsByType, SAssumes
  <2>7. ASSUME S!ThresholdMet(log), S!Status(log) # "Collecting"
        PROVE  S!Status(log') # "Collecting"
    <3>1. S!Status(log) # "Pending"
      BY <2>1, <2>7, QuorumIsNotPending
    <3>2. S!Status(Bare(log)) = S!Status(log)
      BY <2>1, BareFolds
    <3>3. Plain(e).type = e.type
      BY BareEvent
    <3>4. e.type # "PsbtCreated"
      BY <2>1, <3>1, <3>2, <3>3 DEF S!Allows, S!RecordsPsbt
    <3>5. QED
      BY <2>3, <2>7, <3>4, S!ShowsByType, SAssumes
  <2>8. QED
    BY <1>2, <2>2, <2>3, <2>4, <2>5, <2>6, <2>7, QuorumStays
<1>3. QED
  BY <1>1, <1>2 DEF Onward

\* The beginning of a sound stream.
LEMMA ViewFacts ==
  ASSUME LogSound, NEW seen \in 0..Len(log)
  PROVE  /\ View(seen) \in Seq(LogEvent) /\ Len(View(seen)) = seen
         /\ \A i \in 1..seen : View(seen)[i] = log[i]
         /\ seen # 0 => S!Policy(View(seen)) = S!Policy(log)
         /\ \A types : S!Indices(View(seen), types) = {i \in S!Indices(log, types) : i <= seen}
         /\ \A k : S!Signed(View(seen), k) => S!Signed(log, k)
         /\ \A type : S!Has(View(seen), type) => S!Has(log, type)
<1>1. /\ log \in Seq(LogEvent) /\ DOMAIN log = 1..Len(log) /\ Len(log) \in Nat
      /\ seen \in 0..Len(log)
  BY DEF LogSound, Loads
<1>2. /\ View(seen) \in Seq(LogEvent) /\ Len(View(seen)) = seen
      /\ DOMAIN View(seen) = 1..seen
      /\ \A i \in 1..seen : View(seen)[i] = log[i]
  BY <1>1 DEF View
<1> HIDE DEF View
<1>3. seen # 0 => S!Policy(View(seen)) = S!Policy(log)
  BY <1>1, <1>2 DEF S!Policy
<1>4. \A types : S!Indices(View(seen), types) = {i \in S!Indices(log, types) : i <= seen}
  BY <1>1, <1>2 DEF S!Indices
<1>5. \A k : S!Signed(View(seen), k) => S!Signed(log, k)
  BY <1>1, <1>2, <1>4 DEF S!Signed, S!Indices
<1>6. \A type : S!Has(View(seen), type) => S!Has(log, type)
  BY <1>4 DEF S!Has
<1>7. QED
  BY <1>2, <1>3, <1>4, <1>5, <1>6

\* A copy with a quorum is of a stream with one.
LEMMA ViewQuorum ==
  ASSUME LogSound, NEW seen \in 1..Len(log), S!ThresholdMet(View(seen))
  PROVE  S!ThresholdMet(log)
<1> DEFINE A == S!Indices(View(seen), {"SignatureAdded"})
           B == S!Indices(log, {"SignatureAdded"})
           t == S!Policy(log).threshold
<1>1. log # <<>> /\ log \in Seq(LogEvent) /\ seen \in 0..Len(log) /\ seen # 0
  BY EmptySeq DEF LogSound, Loads
<1>2. t \in Nat
  BY <1>1, LogFacts
<1>3. A \in SUBSET B /\ S!Policy(View(seen)) = S!Policy(log)
  BY <1>1, ViewFacts
<1>4. IsFiniteSet(B) /\ Cardinality(B) \in Nat
  BY <1>1, IndicesCount
<1>5. Cardinality(A) <= Cardinality(B) /\ Cardinality(A) \in Nat
  BY <1>3, <1>4, FS_Subset, FS_CardinalityType
<1>6. Cardinality(A) >= t
  BY <1>3, SameLibrary DEF S!ThresholdMet
<1> HIDE DEF A, B, t
<1>7. Cardinality(B) >= t
  BY <1>2, <1>4, <1>5, <1>6
<1>8. QED
  BY <1>7, SameLibrary DEF S!ThresholdMet, B, t

\* A job has its row, or none, as before.
RowStays(j) == jobs'[j] = "none" <=> jobs[j] = "none"

\* A call that takes no part in a step stays sound.
LEMMA CallStays ==
  ASSUME LogSound, Onward, StateTypes, blobs \subseteq blobs',
         NEW c \in Calls, CallSound(c), call'[c] = call[c], RowStays(c)
  PROVE  CallSound(c)'
<1>1. call[c].seen \in Nat
  BY DEF StateTypes, Steps
<1>2. /\ log # <<>> => log' # <<>>
      /\ Len(log) \in Nat /\ Len(log') \in Nat /\ Len(log) <= Len(log')
      /\ \A type : S!Has(log, type) => S!Has(log', type)
      /\ \A k : S!Signed(log, k) => S!Signed(log', k)
  BY OnwardFacts
<1>3. QED
  BY <1>1, <1>2 DEF CallSound, RowStays

\* A worker that takes no part in a step stays sound.
LEMMA WorkerStays ==
  ASSUME LogSound, Onward, StateTypes, blobs \subseteq blobs', build' = build,
         NEW w \in Workers, WorkerSound(w), worker'[w] = worker[w],
         \A j \in JobIds : jobs[j] # "none" => jobs'[j] # "none"
  PROVE  WorkerSound(w)'
<1> DEFINE x == worker[w]
<1>1. CASE x = Idle
  BY <1>1 DEF WorkerSound, Idle
<1>2. CASE x # Idle
  <2>1. /\ x.step \in {"loaded", "stored", "ended"}
        /\ x.key \in JobIds /\ jobs[x.key] # "none"
        /\ log # <<>> /\ x.seen \in 1..Len(log)
        /\ x.key = Creation => CreationSound(x)
        /\ x.key \in Calls => FinalizationSound(x)
    BY <1>2 DEF WorkerSound
  <2>2. /\ log' # <<>>
        /\ Len(log) \in Nat /\ Len(log') \in Nat /\ Len(log) <= Len(log')
        /\ SubSeq(log', 1, x.seen) = SubSeq(log, 1, x.seen)
        /\ S!Status(log') = "Pending" => S!Status(log) = "Pending"
    BY <2>1, OnwardFacts
  <2>3. jobs'[x.key] # "none" /\ x.seen \in 1..Len(log')
    BY <2>1, <2>2
  <2>4. ASSUME x.key = Creation
        PROVE  /\ x.step = "stored" => x.hash = Unsigned /\ Unsigned \in blobs'
               /\ x.step = "ended" => S!Status(log') # "Pending" \/ build' = "given up"
    BY <2>1, <2>2, <2>4 DEF CreationSound
  <2>5. ASSUME x.key \in Calls
        PROVE  LET view == SubSeq(log', 1, x.seen)
               IN  /\ x.step \in {"loaded", "stored"} => S!ThresholdMet(view)
                   /\ x.step = "stored" => /\ Prefixes(view) # {}
                                           /\ \E sigs \in Witnesses(view) : x.hash = FinalTx(sigs)
                                           /\ x.hash \in blobs'
                   /\ x.step = "ended" =>
                         S!Status(log') # "Collecting" \/ ~S!ThresholdMet(view)
    <3>1. FinalizationSound(x)
      BY <2>1, <2>5
    <3>2. S!ThresholdMet(SubSeq(log, 1, x.seen)) => S!ThresholdMet(log)
      BY <2>1, ViewQuorum DEF View
    <3>3. S!Status(log) # "Collecting" /\ S!ThresholdMet(log) => S!Status(log') # "Collecting"
      BY <2>1, OnwardFacts
    <3>4. QED
      BY <2>2, <3>1, <3>2, <3>3 DEF FinalizationSound, View
  <2>6. QED
    BY <2>1, <2>2, <2>3, <2>4, <2>5 DEF WorkerSound, CreationSound, FinalizationSound, View
<1>3. QED
  BY <1>1, <1>2

\* Blobs stay stored, and what the stream refers to stays sound.
LEMMA QuietDocuments ==
  ASSUME DocumentsSound, AuthorityIsExact, log' = log, blobs \subseteq blobs'
  PROVE  DocumentsSound' /\ AuthorityIsExact'
<1>1. DocumentsSound'
  BY DEF DocumentsSound, ReferencedBlobsStored
<1>2. AuthorityIsExact'
  BY AuthorityIs
<1>3. QED
  BY <1>1, <1>2

\* Reversals stay counted when no other is recorded.
LEMMA QuietReversals ==
  ASSUME ReversalsCounted, call \in [Calls -> Steps], log \in Seq(LogEvent),
         S!Indices(log', {"Invalidated"}) = S!Indices(log, {"Invalidated"}),
         \A c \in Calls : call[c].step = "done" => call'[c] = call[c]
  PROVE  ReversalsCounted'
<1> DEFINE A == {c \in Calls : call[c].step = "done" /\ call[c].kind = "Invalidated"}
           B == {c \in Calls : call'[c].step = "done" /\ call'[c].kind = "Invalidated"}
<1>1. A \in SUBSET B /\ IsFiniteSet(B)
  BY CallAssumption, FS_Subset
<1>2. Cardinality(A) <= Cardinality(B)
  BY <1>1, FS_Subset
<1>3. IsFiniteSet(A) /\ Cardinality(A) \in Nat /\ Cardinality(B) \in Nat
  BY <1>1, FS_Subset, FS_CardinalityType
<1>4. Cardinality(S!Indices(log, {"Invalidated"})) \in Nat
  BY IndicesCount
<1>5. Cardinality(S!Indices(log, {"Invalidated"})) <= Cardinality(A)
  BY DEF ReversalsCounted
<1> HIDE DEF A, B
<1>6. Cardinality(S!Indices(log', {"Invalidated"})) <= Cardinality(B)
  BY <1>2, <1>3, <1>4, <1>5
<1>7. QED
  BY <1>6 DEF ReversalsCounted, B

\* A recorded quorum waits for its finalization.
QuorumWaits(es) == S!Status(es) = "Collecting" /\ S!ThresholdMet(es)

\* A finalization job no execution of which works on a copy without a quorum.
HasJob(c) == /\ jobs[c] \in {"queued", "running"}
             /\ \A w \in Workers : worker[w].key = c => S!ThresholdMet(View(worker[w].seen))

\* It stays one while its row stays, and none but an execution that sees a quorum
\* starts from it.
LEMMA JobKept ==
  ASSUME LogSound, Onward, NEW c \in Calls, HasJob(c), jobs'[c] \in {"queued", "running"},
         \A w \in Workers : WorkerSound(w),
         \A w \in Workers : worker'[w].key = c =>
            \/ worker[w].key = c /\ worker'[w].seen = worker[w].seen
            \/ S!ThresholdMet(SubSeq(log', 1, worker'[w].seen))
  PROVE  HasJob(c)'
<1>1. ASSUME NEW w \in Workers, worker[w].key = c
      PROVE  SubSeq(log', 1, worker[w].seen) = SubSeq(log, 1, worker[w].seen)
  <2>1. worker[w] # Idle
    BY <1>1, CallAssumption DEF Idle
  <2>2. worker[w].seen \in 1..Len(log)
    BY <2>1 DEF WorkerSound
  <2>3. QED
    BY <2>2, OnwardFacts
<1>2. ASSUME NEW w \in Workers, worker'[w].key = c
      PROVE  S!ThresholdMet(SubSeq(log', 1, worker'[w].seen))
  BY <1>1, <1>2 DEF HasJob, View
<1>3. QED
  BY <1>2 DEF HasJob, View

\* Jobs stay sound when those that are needed keep their row and their executions.
LEMMA JobsStay ==
  ASSUME LogSound, Onward, log # <<>>, JobsSound, build' = build,
         jobs[Creation] \in {"queued", "running"} /\ S!Status(log') = "Pending"
            /\ build # "given up" => jobs'[Creation] \in {"queued", "running"},
         QuorumWaits(log') => QuorumWaits(log),
         \A c \in Calls : HasJob(c) /\ QuorumWaits(log') => HasJob(c)'
  PROVE  JobsSound'
<1>1. log' # <<>> /\ (S!Status(log') = "Pending" => S!Status(log) = "Pending")
  BY OnwardFacts
<1>2. PendingHasJob'
  BY <1>1, SameFolds DEF JobsSound, PendingHasJob
<1>3. QuorumHasJob'
  <2>1. QuorumHasJob => (QuorumWaits(log) => \E c \in Calls : HasJob(c))
    BY SameFolds DEF QuorumHasJob, QuorumWaits, HasJob
  <2>2. ASSUME QuorumWaits(log') => \E c \in Calls : HasJob(c)'
        PROVE  QuorumHasJob'
    <3> SUFFICES ASSUME NEW c \in Calls, HasJob(c)'
                 PROVE  /\ jobs'[c] \in {"queued", "running"}
                        /\ \A w \in Workers : worker'[w].key = c =>
                              Session!ThresholdMet(SubSeq(log', 1, worker'[w].seen))
      BY <2>2, SameFolds DEF QuorumHasJob, QuorumWaits, View
    <3>1. QED
      BY SameFolds DEF HasJob, View
  <2>3. QED
    BY <2>1, <2>2 DEF JobsSound
<1>4. QED
  BY <1>1, <1>2, <1>3 DEF JobsSound

\* A step of call c that does not touch stream, jobs and workers.
LEMMA CallStep ==
  ASSUME IInv, log # <<>>, log' = log, blobs \subseteq blobs',
         UNCHANGED <<build, jobs, worker>>, StateTypes',
         NEW c \in Calls, call[c].step # "done", NEW x, call' = [call EXCEPT ![c] = x],
         CallSound(c)'
  PROVE  IInv'
<1> USE DEF IInv
<1>1. Onward
  BY DEF Onward
<1>2. LogSound'
  BY <1>1, OnwardFacts
<1>3. DocumentsSound' /\ AuthorityIsExact'
  BY QuietDocuments
<1>4. \A d \in Calls \ {c} : call'[d] = call[d]
  BY DEF StateTypes
<1>5. \A d \in Calls : CallSound(d)'
  BY <1>1, <1>4, CallStays DEF RowStays, JobIds
<1>6. \A w \in Workers : WorkerSound(w)'
  BY <1>1, WorkerStays
<1>7. ReversalsCounted'
  BY <1>4, QuietReversals DEF StateTypes, LogSound, Loads
<1>8. JobsSound'
  BY DEF JobsSound, PendingHasJob, QuorumHasJob, View
<1>9. QED
  BY <1>2, <1>3, <1>5, <1>6, <1>7, <1>8

\* A step of workers and jobs that does not touch stream and calls.
LEMMA WorkerStep ==
  ASSUME IInv, log # <<>>, log' = log, blobs \subseteq blobs',
         UNCHANGED <<build, call>>, StateTypes',
         \A w \in Workers : worker'[w] = worker[w] \/ WorkerSound(w)',
         \A j \in JobIds : RowStays(j),
         jobs[Creation] \in {"queued", "running"} /\ S!Status(log) = "Pending"
            /\ build # "given up" => jobs'[Creation] \in {"queued", "running"},
         \A c \in Calls : HasJob(c) /\ QuorumWaits(log) => HasJob(c)'
  PROVE  IInv'
<1> USE DEF IInv
<1>1. Onward
  BY DEF Onward
<1>2. LogSound'
  BY <1>1, OnwardFacts
<1>3. DocumentsSound' /\ AuthorityIsExact'
  BY QuietDocuments
<1>4. \A c \in Calls : CallSound(c)'
  BY <1>1, CallStays DEF JobIds
<1>5. \A w \in Workers : WorkerSound(w)'
  BY <1>1, WorkerStays DEF RowStays
<1>6. ReversalsCounted'
  BY QuietReversals DEF StateTypes, LogSound, Loads
<1>7. JobsSound'
  BY <1>1, JobsStay
<1>8. QED
  BY <1>2, <1>3, <1>4, <1>5, <1>6, <1>7

-----------------------------------------------------------------------------
(* The steps of calls and of the environment that leave the stream alone.  *)

\* Before the proposal nothing runs.
LEMMA NothingRuns ==
  ASSUME IInv, log = <<>>
  PROVE  /\ \A c \in Calls : call[c].step = "idle"
         /\ \A w \in Workers : worker[w] = Idle
         /\ \A j \in JobIds : jobs[j] = "none"
  BY DEF IInv, CallSound, WorkerSound, JobsSound

\* The chain backend's news touch nothing else.
LEMMA FundingArrivesKeeps ==
  ASSUME IInv, FundingArrives
  PROVE  IInv'
<1> USE DEF IInv, FundingArrives
<1>1. Onward
  BY DEF Onward
<1>2. LogSound'
  BY <1>1, OnwardFacts
<1>3. StateTypes'
  BY DEF StateTypes
<1>4. DocumentsSound' /\ AuthorityIsExact'
  BY QuietDocuments
<1>5. \A c \in Calls : CallSound(c)'
  BY <1>1, CallStays DEF RowStays
<1>6. \A w \in Workers : WorkerSound(w)'
  BY <1>1, WorkerStays
<1>7. ReversalsCounted'
  BY QuietReversals DEF StateTypes, LogSound, Loads
<1>8. JobsSound'
  BY DEF JobsSound, PendingHasJob, QuorumHasJob, View
<1>9. QED
  BY <1>2, <1>3, <1>4, <1>5, <1>6, <1>7, <1>8

\* A call starts from a copy of the stream as it is.
LEMMA LoadCallKeeps ==
  ASSUME IInv, NEW c \in Calls, NEW kind \in CallKinds, NEW k \in Keystores \cup {None},
         kind = "upload" => k \in Keystores, LoadCall(c, kind, k)
  PROVE  IInv'
<1> DEFINE x == Loaded(kind, k)
<1>1. /\ log # <<>> /\ log' = log /\ blobs' = blobs /\ UNCHANGED <<build, jobs, worker>>
      /\ call[c].step = "idle" /\ call' = [call EXCEPT ![c] = x]
  BY DEF LoadCall
<1>2. /\ x.step = "loaded" /\ x.kind = kind /\ x.key = k /\ x.seen = Len(log) /\ x.hash = None
      /\ Len(log) \in Nat
  BY DEF Loaded, IInv, LogSound, Loads
<1>3. x \in Steps
  BY <1>2, CallAssumption DEF Steps, Loaded
<1>4. StateTypes'
  BY <1>1, <1>3 DEF LoadCall, IInv, StateTypes
<1>5. call'[c] = x
  BY <1>1 DEF IInv, StateTypes
<1> HIDE DEF x
<1>6. CallSound(c)'
  BY <1>1, <1>2, <1>5 DEF CallSound, IInv
<1>7. QED
  BY <1>1, <1>4, <1>6, CallStep

\* A call that gives up leaves nothing behind.
LEMMA AbandonCallKeeps ==
  ASSUME IInv, NEW c \in Calls, AbandonCall(c)
  PROVE  IInv'
<1>1. /\ log' = log /\ blobs' = blobs /\ UNCHANGED <<build, jobs, worker>>
      /\ call[c].step \in {"loaded", "stored"} /\ call' = [call EXCEPT ![c] = Idle]
  BY DEF AbandonCall
<1>2. log # <<>>
  BY <1>1 DEF IInv, CallSound
<1>3. StateTypes'
  BY <1>1 DEF AbandonCall, IInv, StateTypes, Steps, Idle
<1>4. call'[c] = Idle
  BY <1>1 DEF IInv, StateTypes
<1>5. CallSound(c)'
  BY <1>1, <1>4 DEF CallSound, Idle, IInv, LogSound, Loads
<1>6. QED
  BY <1>1, <1>2, <1>3, <1>5, CallStep

\* What a step of a call or a worker that has stored its document holds.
LEMMA StoredFields ==
  ASSUME NEW x \in Steps, NEW hash \in Hashes
  PROVE  /\ Stored(x, hash) \in Steps
         /\ Stored(x, hash).step = "stored" /\ Stored(x, hash).hash = hash
         /\ Stored(x, hash).kind = x.kind /\ Stored(x, hash).key = x.key
         /\ Stored(x, hash).seen = x.seen
  BY DEF Stored, Steps

\* A valid upload is stored before it is recorded.
LEMMA StoreSignatureKeeps ==
  ASSUME IInv, NEW c \in Calls, NEW signed \in SUBSET (Keystores \X Inputs),
         NEW usable \in SUBSET signed, NEW nonce \in Nonces,
         StoreSignature(c, signed, usable, nonce)
  PROVE  IInv'
<1> DEFINE k == call[c].key
           merged == Merged(usable, nonce)
           x == Stored(call[c], merged)
<1>1. /\ log' = log /\ blobs' = blobs \cup {merged} /\ UNCHANGED <<build, jobs, worker>>
      /\ call[c].step = "loaded" /\ call[c].kind = "upload"
      /\ call' = [call EXCEPT ![c] = x]
      /\ UNCHANGED <<funded, faults>>
      /\ usable \in SUBSET ({k} \X Inputs)
  BY DEF StoreSignature, ValidSubmission, Put
<1>2. log # <<>> /\ k \in Keystores /\ call[c].seen <= Len(log) /\ jobs[c] = "none"
  BY <1>1 DEF IInv, CallSound
<1>3. merged \in Hashes
  <2>1. usable \X {nonce} \in SUBSET ((Keystores \X Inputs) \X Nonces)
    OBVIOUS
  <2>2. QED
    BY <2>1 DEF Merged, Hashes
<1>4. call[c] \in Steps /\ call \in [Calls -> Steps]
  BY DEF IInv, StateTypes
<1>5. /\ x \in Steps /\ x.step = "stored" /\ x.hash = merged /\ x.kind = "upload"
      /\ x.key = k /\ x.seen = call[c].seen
  BY <1>1, <1>3, <1>4, StoredFields
<1> HIDE DEF x
<1>6. StateTypes'
  BY <1>1, <1>3, <1>5 DEF IInv, StateTypes
<1>7. call'[c] = x
  BY <1>1, <1>4
<1>8. CallSound(c)'
  <2>1. /\ x.hash \in blobs' /\ jobs'[c] = "none"
        /\ \E u \in SUBSET ({x.key} \X Inputs), n \in Nonces : x.hash = Merged(u, n)
    BY <1>1, <1>2, <1>5
  <2>2. log' # <<>> /\ x.seen <= Len(log') /\ x.key \in Keystores
    BY <1>1, <1>2, <1>5
  <2> HIDE DEF merged, k
  <2>3. QED
    BY <1>5, <1>7, <2>1, <2>2 DEF CallSound
<1>9. QED
  BY <1>1, <1>2, <1>6, <1>8, CallStep
-----------------------------------------------------------------------------
(* The steps of jobs that leave the stream alone.                          *)

\* What is known of a worker that is not idle.
LEMMA BusyWorker ==
  ASSUME IInv, NEW w \in Workers, worker[w].step # "idle"
  PROVE  /\ log # <<>>
         /\ worker[w].step \in {"loaded", "stored", "ended"}
         /\ worker[w].key \in JobIds /\ jobs[worker[w].key] # "none"
         /\ worker[w].seen \in 1..Len(log)
         /\ worker[w].key = Creation => CreationSound(worker[w])
         /\ worker[w].key \in Calls => FinalizationSound(worker[w])
         /\ worker[w] \in Steps /\ worker \in [Workers -> Steps]
         /\ jobs \in [JobIds -> {"none", "queued", "running", "gone"}]
  BY DEF IInv, WorkerSound, Idle, StateTypes

\* A copy nothing was committed against is the stream itself.
LEMMA FreshView ==
  ASSUME LogSound, NEW seen, Fresh(seen)
  PROVE  View(seen) = log
<1>1. log \in Seq(LogEvent) /\ seen = Len(log) /\ Len(log) \in Nat
  BY DEF LogSound, Loads, Fresh
<1>2. SubSeq(log, 1, Len(log)) = [i \in 1..Len(log) |-> log[i]]
  BY <1>1
<1>3. log = [i \in 1..Len(log) |-> log[i]]
  BY <1>1
<1>4. QED
  BY <1>1, <1>2, <1>3 DEF View

\* An idle worker is bound to no job.
LEMMA IdleIsFree ==
  /\ Idle \in Steps /\ Idle.step = "idle" /\ Idle.key = None
  /\ \A j \in JobIds : Idle.key # j
  BY CallAssumption DEF Idle, Steps, JobIds

\* A rescheduled job is queued, unless another execution has completed it.
LEMMA RescheduleKeeps ==
  ASSUME IInv, NEW w \in Workers, worker[w].step # "idle", Reschedule(w),
         log' = log, blobs' = blobs, UNCHANGED <<build, funded, call, faults>>
  PROVE  IInv'
<1> DEFINE j == worker[w].key
<1>1. /\ log # <<>> /\ j \in JobIds /\ jobs[j] # "none"
      /\ worker \in [Workers -> Steps]
      /\ jobs \in [JobIds -> {"none", "queued", "running", "gone"}]
  BY BusyWorker
<1>2. /\ jobs' = [jobs EXCEPT ![j] = IF jobs[j] = "gone" THEN "gone" ELSE "queued"]
      /\ worker' = [worker EXCEPT ![w] = Idle]
  BY DEF Reschedule
<1> HIDE DEF j
<1>3. /\ jobs'[j] = IF jobs[j] = "gone" THEN "gone" ELSE "queued"
      /\ \A i \in JobIds \ {j} : jobs'[i] = jobs[i]
      /\ worker'[w] = Idle
      /\ \A v \in Workers \ {w} : worker'[v] = worker[v]
  BY <1>1, <1>2
<1>4. StateTypes'
  BY <1>1, <1>2, IdleIsFree DEF IInv, StateTypes
<1>5. \A v \in Workers : worker'[v] = worker[v] \/ WorkerSound(v)'
  BY <1>3 DEF WorkerSound
<1>6. \A i \in JobIds : RowStays(i)
  BY <1>1, <1>3 DEF RowStays
<1>7. jobs[Creation] \in {"queued", "running"} => jobs'[Creation] \in {"queued", "running"}
  BY <1>3 DEF JobIds
<1>8. ASSUME NEW c \in Calls, HasJob(c)
      PROVE  HasJob(c)'
  <2>1. jobs'[c] \in {"queued", "running"}
    BY <1>3, <1>8 DEF HasJob, JobIds
  <2>2. \A v \in Workers : worker'[v].key = c => worker'[v] = worker[v]
    BY <1>3, IdleIsFree DEF JobIds
  <2>3. Onward
    BY DEF Onward
  <2>4. QED
    BY <1>8, <2>1, <2>2, <2>3, JobKept DEF IInv
<1>9. QED
  BY <1>1, <1>4, <1>5, <1>6, <1>7, <1>8, WorkerStep

\* An execution that ended is complete, and its row gone: it gave up for good, its
\* phase is closed, or it saw no quorum and another job will.
LEMMA FinishJobKeeps ==
  ASSUME IInv, NEW w \in Workers, FinishJob(w)
  PROVE  IInv'
<1> DEFINE j == worker[w].key
<1>1. /\ worker[w].step = "ended"
      /\ log' = log /\ blobs' = blobs /\ UNCHANGED <<build, funded, call, faults>>
      /\ jobs' = [jobs EXCEPT ![j] = "gone"]
      /\ worker' = [worker EXCEPT ![w] = Idle]
  BY DEF FinishJob, Complete
<1>2. /\ log # <<>> /\ j \in JobIds /\ jobs[j] # "none"
      /\ j = Creation => S!Status(log) # "Pending" \/ build = "given up"
      /\ j \in Calls => \/ S!Status(log) # "Collecting"
                       \/ ~S!ThresholdMet(View(worker[w].seen))
      /\ worker \in [Workers -> Steps]
      /\ jobs \in [JobIds -> {"none", "queued", "running", "gone"}]
  BY <1>1, BusyWorker DEF CreationSound, FinalizationSound
<1>3. /\ jobs'[j] = "gone"
      /\ \A i \in JobIds \ {j} : jobs'[i] = jobs[i]
      /\ worker'[w] = Idle
      /\ \A v \in Workers \ {w} : worker'[v] = worker[v]
  BY <1>1, <1>2
<1>4. ASSUME NEW c \in Calls, HasJob(c), QuorumWaits(log)
      PROVE  HasJob(c)'
  <2>1. c # j
    BY <1>2, <1>4 DEF QuorumWaits, HasJob
  <2> HIDE DEF j
  <2>2. jobs'[c] \in {"queued", "running"}
    BY <1>3, <1>4, <2>1 DEF HasJob, JobIds
  <2>3. \A v \in Workers : worker'[v].key = c => worker'[v] = worker[v]
    BY <1>3, IdleIsFree DEF JobIds
  <2>4. Onward
    BY <1>1 DEF Onward
  <2>5. QED
    BY <1>4, <2>2, <2>3, <2>4, JobKept DEF IInv
<1> HIDE DEF j
<1>5. StateTypes'
  BY <1>1, <1>2, IdleIsFree DEF IInv, StateTypes
<1>6. \A v \in Workers : worker'[v] = worker[v] \/ WorkerSound(v)'
  BY <1>3 DEF WorkerSound
<1>7. \A i \in JobIds : RowStays(i)
  BY <1>2, <1>3 DEF RowStays
<1>8. jobs[Creation] \in {"queued", "running"} /\ S!Status(log) = "Pending"
         /\ build # "given up" => jobs'[Creation] \in {"queued", "running"}
  BY <1>2, <1>3 DEF JobIds
<1>9. QED
  BY <1>1, <1>2, <1>4, <1>5, <1>6, <1>7, <1>8, WorkerStep

\* A job starts from a copy of the stream as it is; with nothing to do on it the
\* execution is over, but its row stays.
LEMMA StartJobKeeps ==
  ASSUME IInv, NEW w \in Workers, NEW j \in JobIds, StartJob(w, j)
  PROVE  IInv'
<1> DEFINE x == IF NothingToDo(j, log) THEN Ended(Loaded(None, j)) ELSE Loaded(None, j)
<1>1. /\ worker[w].step = "idle" /\ jobs[j] = "queued"
      /\ log' = log /\ blobs' = blobs /\ UNCHANGED <<build, funded, call, faults>>
      /\ jobs' = [jobs EXCEPT ![j] = "running"] /\ worker' = [worker EXCEPT ![w] = x]
  BY DEF StartJob
<1>2. /\ log # <<>>
      /\ worker \in [Workers -> Steps]
      /\ jobs \in [JobIds -> {"none", "queued", "running", "gone"}]
      /\ Len(log) \in Nat
  BY <1>1 DEF IInv, JobsSound, StateTypes, LogSound, Loads
<1>3. /\ x.step = IF NothingToDo(j, log) THEN "ended" ELSE "loaded"
      /\ x.key = j /\ x.seen = Len(log) /\ x \in Steps
  BY <1>2 DEF Loaded, Ended, Steps
<1> HIDE DEF x
<1>4. /\ jobs'[j] = "running"
      /\ \A i \in JobIds \ {j} : jobs'[i] = jobs[i]
      /\ worker'[w] = x
      /\ \A v \in Workers \ {w} : worker'[v] = worker[v]
  BY <1>1, <1>2
<1>5. StateTypes'
  BY <1>1, <1>2, <1>3 DEF IInv, StateTypes
<1>6. SubSeq(log', 1, x.seen) = log
  BY <1>1, <1>3, FreshView DEF IInv, Fresh, View
<1>7. ASSUME j = Creation, x.step = "ended"
      PROVE  S!Status(log) # "Pending"
  <2>1. S!Has(log, "PsbtCreated") \/ S!Status(log) # "Pending"
    BY <1>3, <1>7, SameFolds DEF NothingToDo
  <2>2. QED
    BY <2>1, PsbtEndsPending DEF IInv
<1>8. ASSUME j \in Calls
      PROVE  /\ x.step = "loaded" => S!ThresholdMet(log)
             /\ x.step = "ended" => S!Status(log) # "Collecting" \/ ~S!ThresholdMet(log)
  <2>1. NothingToDo(j, log) <=> \/ S!Has(log, "Finalized")
                                \/ S!Status(log) # "Collecting"
                                \/ ~S!ThresholdMet(log)
    BY <1>8, CallAssumption, SameFolds DEF NothingToDo
  <2>2. S!Has(log, "Finalized") => S!Status(log) # "Collecting"
    BY <1>2, LogFacts DEF IInv
  <2>3. QED
    BY <1>3, <2>1, <2>2
<1>9. WorkerSound(w)'
  <2>1. x.step \in {"loaded", "ended"} /\ log' # <<>> /\ x.seen \in 1..Len(log')
    BY <1>1, <1>2, <1>3, EmptySeq DEF IInv, LogSound, Loads
  <2>2. x.key = Creation /\ x.step = "ended" => S!Status(log') # "Pending"
    BY <1>1, <1>3, <1>7
  <2>3. x.key \in Calls =>
           /\ x.step = "loaded" => S!ThresholdMet(SubSeq(log', 1, x.seen))
           /\ x.step = "ended" => \/ S!Status(log') # "Collecting"
                                 \/ ~S!ThresholdMet(SubSeq(log', 1, x.seen))
    BY <1>1, <1>3, <1>6, <1>8
  <2>4. jobs'[x.key] # "none" /\ x.key \in JobIds
    BY <1>3, <1>4
  <2>5. QED
    BY <1>4, <2>1, <2>2, <2>3, <2>4 DEF WorkerSound, CreationSound, FinalizationSound, View
<1>10. \A i \in JobIds : RowStays(i)
  BY <1>1, <1>4 DEF RowStays
<1>11. jobs[Creation] \in {"queued", "running"} => jobs'[Creation] \in {"queued", "running"}
  BY <1>4 DEF JobIds
<1>12. ASSUME NEW c \in Calls, HasJob(c), QuorumWaits(log)
       PROVE  HasJob(c)'
  <2>1. jobs'[c] \in {"queued", "running"}
    BY <1>4, <1>12 DEF HasJob, JobIds
  <2>2. ASSUME NEW v \in Workers, worker'[v].key = c
        PROVE  \/ worker[v].key = c /\ worker'[v].seen = worker[v].seen
               \/ S!ThresholdMet(SubSeq(log', 1, worker'[v].seen))
    BY <1>4, <1>6, <1>12, <2>2 DEF QuorumWaits
  <2>3. Onward
    BY <1>1 DEF Onward
  <2>4. QED
    BY <1>12, <2>1, <2>2, <2>3, JobKept DEF IInv
<1>13. \A v \in Workers : worker'[v] = worker[v] \/ WorkerSound(v)'
  BY <1>4, <1>9
<1>14. QED
  BY <1>1, <1>2, <1>5, <1>10, <1>11, <1>12, <1>13, WorkerStep

\* A worker that goes on with the same job and copy; rows and other workers stay.
LEMMA SameJobKeeps ==
  ASSUME IInv, NEW w \in Workers, worker[w].step # "idle", NEW y \in Steps,
         log' = log, blobs \subseteq blobs', blobs' \subseteq Hashes,
         y.key = worker[w].key, y.seen = worker[w].seen,
         worker' = [worker EXCEPT ![w] = y],
         UNCHANGED <<build, funded, call, jobs, faults>>, WorkerSound(w)'
  PROVE  IInv'
<1>1. log # <<>> /\ worker \in [Workers -> Steps]
  BY BusyWorker
<1>2. worker'[w] = y /\ \A v \in Workers \ {w} : worker'[v] = worker[v]
  BY <1>1
<1>3. StateTypes'
  BY <1>1 DEF IInv, StateTypes
<1>4. \A v \in Workers : worker'[v] = worker[v] \/ WorkerSound(v)'
  BY <1>2
<1>5. ASSUME NEW c \in Calls, HasJob(c)
      PROVE  HasJob(c)'
  <2>1. jobs'[c] \in {"queued", "running"}
    BY <1>5 DEF HasJob
  <2>2. \A v \in Workers : worker'[v].key = worker[v].key /\ worker'[v].seen = worker[v].seen
    BY <1>2
  <2>3. Onward
    BY DEF Onward
  <2>4. QED
    BY <1>5, <2>1, <2>2, <2>3, JobKept DEF IInv
<1>6. QED
  BY <1>1, <1>3, <1>4, <1>5, WorkerStep DEF RowStays

\* A worker that has stored its document.
LEMMA StoredKeeps ==
  ASSUME IInv, NEW w \in Workers, worker[w].step = "loaded", NEW hash \in Hashes,
         log' = log, blobs' = blobs \cup {hash},
         worker' = [worker EXCEPT ![w] = Stored(worker[w], hash)],
         UNCHANGED <<build, funded, call, jobs, faults>>,
         worker[w].key = Creation => hash = Unsigned,
         worker[w].key \in Calls =>
            LET view == View(worker[w].seen)
            IN  Prefixes(view) # {} /\ \E sigs \in Witnesses(view) : hash = FinalTx(sigs)
  PROVE  IInv'
<1> DEFINE x == worker[w]
           y == Stored(x, hash)
<1>1. /\ log # <<>> /\ x.key \in JobIds /\ jobs[x.key] # "none" /\ x.seen \in 1..Len(log)
      /\ x.key \in Calls => FinalizationSound(x)
      /\ x \in Steps /\ worker \in [Workers -> Steps]
  BY BusyWorker
<1>2. /\ y \in Steps /\ y.step = "stored" /\ y.hash = hash
      /\ y.key = x.key /\ y.seen = x.seen
  BY <1>1, StoredFields
<1>3. worker' = [worker EXCEPT ![w] = y]
  OBVIOUS
<1> HIDE DEF y
<1>4. worker'[w] = y
  BY <1>1, <1>3
<1>5. WorkerSound(w)'
  <2>1. y.key = Creation => y.hash = Unsigned /\ Unsigned \in blobs'
    BY <1>2
  <2>2. ASSUME y.key \in Calls
        PROVE  LET view == SubSeq(log', 1, y.seen)
               IN  /\ S!ThresholdMet(view) /\ Prefixes(view) # {}
                   /\ \E sigs \in Witnesses(view) : y.hash = FinalTx(sigs)
                   /\ y.hash \in blobs'
    BY <1>1, <1>2, <2>2 DEF FinalizationSound, View
  <2>3. y.key \in JobIds /\ jobs'[y.key] # "none" /\ log' # <<>> /\ y.seen \in 1..Len(log')
    BY <1>1, <1>2
  <2>4. QED
    BY <1>2, <1>4, <2>1, <2>2, <2>3 DEF WorkerSound, CreationSound, FinalizationSound, View
<1>6. blobs \subseteq blobs' /\ blobs' \subseteq Hashes
  BY DEF IInv, StateTypes
<1>7. QED
  BY <1>2, <1>3, <1>5, <1>6, SameJobKeeps

\* What an execution that has returned holds.
LEMMA EndedFields ==
  ASSUME NEW x \in Steps
  PROVE  /\ Ended(x) \in Steps /\ Ended(x).step = "ended"
         /\ Ended(x).key = x.key /\ Ended(x).seen = x.seen
  BY DEF Ended, Steps

\* The creation job retries, gives up for good, or stores the unsigned PSBT.
LEMMA BuildPsbtKeeps ==
  ASSUME IInv, NEW w \in Workers, BuildPsbt(w)
  PROVE  IInv'
<1>1. /\ worker[w].step = "loaded" /\ worker[w].key = Creation /\ Creation \notin Calls
      /\ log' = log /\ UNCHANGED <<build, funded, call, faults>>
  BY CallAssumption DEF BuildPsbt
<1>2. CASE Reschedule(w) /\ blobs' = blobs
  BY <1>1, <1>2, RescheduleKeeps
<1>3. CASE /\ blobs' = blobs /\ jobs' = jobs /\ build = "given up"
           /\ worker' = [worker EXCEPT ![w] = Ended(worker[w])]
  <2> DEFINE y == Ended(worker[w])
  <2>1. /\ log # <<>> /\ worker[w].key \in JobIds /\ jobs[worker[w].key] # "none"
        /\ worker[w].seen \in 1..Len(log)
        /\ worker[w] \in Steps /\ worker \in [Workers -> Steps]
    BY <1>1, BusyWorker
  <2>2. /\ y \in Steps /\ y.step = "ended" /\ y.key = worker[w].key /\ y.seen = worker[w].seen
        /\ worker'[w] = y /\ worker' = [worker EXCEPT ![w] = y]
    BY <1>3, <2>1, EndedFields
  <2> HIDE DEF y
  <2>3. WorkerSound(w)'
    BY <1>1, <1>3, <2>1, <2>2 DEF WorkerSound, CreationSound
  <2>4. blobs \subseteq blobs' /\ blobs' \subseteq Hashes
    BY <1>3 DEF IInv, StateTypes
  <2>5. QED
    BY <1>1, <1>3, <2>2, <2>3, <2>4, SameJobKeeps
<1>4. CASE /\ blobs' = blobs \cup {Unsigned} /\ jobs' = jobs
           /\ worker' = [worker EXCEPT ![w] = Stored(worker[w], Unsigned)]
  <2>1. Unsigned \in Hashes
    BY DEF Hashes
  <2>2. QED
    BY <1>1, <1>4, <2>1, StoredKeeps
<1>5. QED
  BY <1>2, <1>3, <1>4 DEF BuildPsbt, Put

\* The signatures recorded by then are sound when all are.
LEMMA ViewSignatures ==
  ASSUME IInv, NEW seen \in 1..Len(log)
  PROVE  SignaturesSound(View(seen)) /\ S!Policy(View(seen)).threshold \in Nat \ {0}
<1>1. LogSound /\ log # <<>>
  BY EmptySeq DEF IInv, LogSound, Loads
<1>2. SignedAt(View(seen)) = {i \in SignedAt(log) : i <= seen}
  BY <1>1, ViewFacts, SameFolds DEF SignedAt
<1>3. \A i \in SignedAt(View(seen)) : i \in SignedAt(log) /\ View(seen)[i] = log[i]
  <2>1. \A i \in SignedAt(log) : i \in DOMAIN log /\ i \in Nat \ {0}
    BY <1>1, SameFolds DEF SignedAt, S!Indices, LogSound, Loads
  <2>2. QED
    BY <1>1, <1>2, <2>1, ViewFacts
<1>4. SignaturesSound(log)
  BY <1>1, LogSignatures DEF IInv
<1>5. SignaturesSound(View(seen))
  BY <1>3, <1>4 DEF SignaturesSound
<1>6. QED
  BY <1>1, <1>5, ViewFacts, LogFacts

\* The finalization job stores the transaction, or tries again.
LEMMA AssembleTxKeeps ==
  ASSUME IInv, NEW w \in Workers, AssembleTx(w)
  PROVE  IInv'
<1> DEFINE view == View(worker[w].seen)
<1>1. /\ worker[w].step = "loaded" /\ worker[w].key \in Calls
      /\ worker[w].key # Creation
      /\ log' = log /\ UNCHANGED <<build, funded, call, faults>>
  BY CallAssumption DEF AssembleTx
<1>2. CASE ~Assemblable(view)
  BY <1>1, <1>2, RescheduleKeeps DEF AssembleTx
<1>3. CASE Assemblable(view)
  <2>1. worker[w].seen \in 1..Len(log) /\ LogSound
    BY <1>1, BusyWorker DEF IInv
  <2>2. Prefixes(view) # {}
    BY <1>3 DEF Assemblable
  <2>3. view \in Seq(LogEvent) /\ SignaturesSound(view)
           /\ S!Policy(view).threshold \in Nat \ {0}
    BY <2>1, ViewFacts, ViewSignatures
  <2>4. PICK sigs \in Witnesses(view) :
               /\ blobs' = blobs \cup {FinalTx(sigs)} /\ jobs' = jobs
               /\ worker' = [worker EXCEPT ![w] = Stored(worker[w], FinalTx(sigs))]
    BY <1>3 DEF AssembleTx, Put
  <2> HIDE DEF view
  <2>5. Minimal(view) \in 1..Cardinality(SignedAt(view))
    BY <2>2, <2>3, QuorumFinalizes
  <2>6. sigs \in SUBSET ((Keystores \X Inputs) \X Nonces)
    BY <2>3, <2>5, GatheredType DEF Witnesses
  <2>7. FinalTx(sigs) \in Hashes
    BY <2>6 DEF Hashes, FinalTx
  <2>8. QED
    BY <1>1, <2>2, <2>4, <2>7, StoredKeeps DEF view
<1>4. QED
  BY <1>2, <1>3

\* A lost worker leaves its job running, and orphaned.
LEMMA LoseWorkerKeeps ==
  ASSUME IInv, NEW w \in Workers, LoseWorker(w)
  PROVE  IInv'
<1>1. /\ worker[w].step # "idle" /\ log' = log /\ blobs' = blobs
      /\ UNCHANGED <<build, funded, call, jobs>> /\ faults' = faults + 1 /\ faults < MaxFaults
      /\ worker' = [worker EXCEPT ![w] = Idle]
  BY DEF LoseWorker
<1>2. log # <<>> /\ worker \in [Workers -> Steps]
  BY <1>1, BusyWorker
<1>3. worker'[w] = Idle /\ \A v \in Workers \ {w} : worker'[v] = worker[v]
  BY <1>1, <1>2
<1>4. StateTypes'
  BY <1>1, <1>2, FaultAssumption, IdleIsFree DEF IInv, StateTypes
<1>5. \A v \in Workers : worker'[v] = worker[v] \/ WorkerSound(v)'
  BY <1>3 DEF WorkerSound
<1>6. ASSUME NEW c \in Calls, HasJob(c)
      PROVE  HasJob(c)'
  <2>1. jobs'[c] \in {"queued", "running"}
    BY <1>1, <1>6 DEF HasJob
  <2>2. \A v \in Workers : worker'[v].key = c => worker'[v] = worker[v]
    BY <1>3, IdleIsFree DEF JobIds
  <2>3. Onward
    BY <1>1 DEF Onward
  <2>4. QED
    BY <1>6, <2>1, <2>2, <2>3, JobKept DEF IInv
<1>7. QED
  BY <1>1, <1>2, <1>4, <1>5, <1>6, WorkerStep DEF RowStays

\* A job handed out again is queued again.
LEMMA RequeueKeeps ==
  ASSUME IInv, NEW j \in JobIds, jobs[j] = "running", jobs' = [jobs EXCEPT ![j] = "queued"],
         UNCHANGED <<log, blobs, build, funded, call, worker>>, faults' \in 0..MaxFaults
  PROVE  IInv'
<1>1. log # <<>> /\ jobs \in [JobIds -> {"none", "queued", "running", "gone"}]
  BY DEF IInv, JobsSound, StateTypes
<1>2. jobs'[j] = "queued" /\ \A i \in JobIds \ {j} : jobs'[i] = jobs[i]
  BY <1>1
<1>3. StateTypes'
  BY <1>1 DEF IInv, StateTypes
<1>4. ASSUME NEW c \in Calls, HasJob(c)
      PROVE  HasJob(c)'
  <2>1. jobs'[c] \in {"queued", "running"}
    BY <1>2, <1>4 DEF HasJob, JobIds
  <2>2. Onward
    BY DEF Onward
  <2>3. QED
    BY <1>4, <2>1, <2>2, JobKept DEF IInv
<1>5. jobs[Creation] \in {"queued", "running"} => jobs'[Creation] \in {"queued", "running"}
  BY <1>2 DEF JobIds
<1>6. QED
  BY <1>1, <1>2, <1>3, <1>4, <1>5, WorkerStep DEF RowStays
-----------------------------------------------------------------------------
(* What a commit adds.                                                     *)

\* The aggregate's guards, of the stored stream.
LEMMA AllowsBare ==
  ASSUME LogSound, log # <<>>, NEW e \in LogEvent,
         \/ e.type = "PsbtCreated" /\ S!RecordsPsbt(log)
         \/ e.type = "SignatureAdded" /\ S!AcceptsSignature(log, e.fingerprint)
         \/ e.type = "Finalized" /\ \E list \in SigLists : /\ S!AcceptsFinalization(log, list)
                                                          /\ e.used = S!Used(list)
         \/ e.type = "BroadcastSeen" /\ S!RecordsBroadcast(log, e.txid)
         \/ e.type = "Confirmed" /\ S!RecordsConfirmation(log, e.txid)
         \/ e.type = "Invalidated" /\ S!RecordsInvalidation(log)
         \/ e.type = "Cancelled" /\ S!AcceptsCancel(log),
         log' = Append(log, e)
  PROVE  Adds(e)
<1>1. Loads(log)
  BY DEF LogSound
<1>2. S!Allows(Bare(log), Plain(e))
  BY <1>1, BareGuards, BareEvent DEF S!Allows
<1>3. QED
  BY <1>2 DEF Adds

\* An upload records its caller's signature, and says so in the same transaction.
LEMMA SignatureAdds ==
  ASSUME IInv, NEW c \in Calls, CommitSignature(c), ~(log' = log)
  PROVE  Adds([type |-> "SignatureAdded", fingerprint |-> call[c].key, hash |-> call[c].hash])
<1> DEFINE e == [type |-> "SignatureAdded", fingerprint |-> call[c].key, hash |-> call[c].hash]
<1>1. /\ call[c].step = "stored" /\ Fresh(call[c].seen) /\ log' = Append(log, e)
      /\ Session!AcceptsSignature(View(call[c].seen), call[c].key)
  BY DEF CommitSignature, Commit
<1>2. call[c].key \in Keystores /\ call[c].hash \in Hashes /\ log # <<>> /\ LogSound
  BY <1>1 DEF IInv, CallSound, StateTypes
<1>3. S!AcceptsSignature(log, call[c].key)
  BY <1>1, <1>2, FreshView, SameGuards
<1>4. e \in LogEvent
  BY <1>2 DEF LogEvent
<1>5. QED
  BY <1>1, <1>2, <1>3, <1>4, AllowsBare

\* A cancellation is recorded once.
LEMMA CancelAdds ==
  ASSUME IInv, NEW c \in Calls, CommitCancel(c), ~(log' = log)
  PROVE  Adds([type |-> "Cancelled"])
<1> DEFINE e == [type |-> "Cancelled"]
<1>1. /\ call[c].step = "loaded" /\ Fresh(call[c].seen) /\ log' = Append(log, e)
      /\ Session!AcceptsCancel(View(call[c].seen))
  BY DEF CommitCancel, Commit
<1>2. log # <<>> /\ LogSound
  BY <1>1 DEF IInv, CallSound
<1>3. S!AcceptsCancel(log)
  BY <1>1, <1>2, FreshView, SameGuards
<1>4. e \in LogEvent
  BY DEF LogEvent
<1>5. QED
  BY <1>1, <1>2, <1>3, <1>4, AllowsBare

\* An observation is recorded when it is news.
LEMMA ObservationAdds ==
  ASSUME IInv, NEW c \in Calls, CommitObservation(c)
  PROVE  Adds(ChainEvent(call[c].kind))
<1> DEFINE e == ChainEvent(call[c].kind)
<1>1. /\ call[c].step = "loaded" /\ Fresh(call[c].seen) /\ log' = Append(log, e)
      /\ call[c].kind \in {"BroadcastSeen", "Confirmed", "Invalidated"}
      /\ Records(View(call[c].seen), call[c].kind)
  BY DEF CommitObservation, Commit, Observations
<1>2. log # <<>> /\ LogSound
  BY <1>1 DEF IInv, CallSound
<1>3. Records(log, call[c].kind)
  BY <1>1, <1>2, FreshView
<1>4. e \in LogEvent /\ e.type = call[c].kind /\ (e.type # "Invalidated" => e.txid = Tx)
  BY <1>1 DEF LogEvent, ChainEvent
<1>5. \/ e.type = "BroadcastSeen" /\ S!RecordsBroadcast(log, e.txid)
      \/ e.type = "Confirmed" /\ S!RecordsConfirmation(log, e.txid)
      \/ e.type = "Invalidated" /\ S!RecordsInvalidation(log)
  BY <1>1, <1>3, <1>4, SameGuards DEF Records
<1>6. QED
  BY <1>1, <1>2, <1>4, <1>5, AllowsBare

\* What the two jobs record.
PsbtEvent(w) == [type |-> "PsbtCreated", hash |-> worker[w].hash]
FinalEvent(w) == [type |-> "Finalized", txid |-> Tx, hash |-> worker[w].hash,
                  used |-> S!Used(SigsUsed(log))]

\* The job's result is recorded on the stream the job loaded.
LEMMA ResultAdds ==
  ASSUME IInv, NEW w \in Workers, RecordResult(w), ~(log' = log)
  PROVE  /\ worker[w].step = "stored" /\ UNCHANGED <<blobs, build, funded, call, jobs, faults>>
         /\ worker' = [worker EXCEPT ![w] = Ended(worker[w])] /\ View(worker[w].seen) = log
         /\ \/ worker[w].key = Creation /\ Adds(PsbtEvent(w))
            \/ worker[w].key \in Calls /\ Adds(FinalEvent(w))
<1> DEFINE seen == worker[w].seen
<1>1. /\ worker[w].step = "stored" /\ Fresh(seen)
      /\ UNCHANGED <<blobs, build, funded, call, jobs, faults>>
      /\ worker' = [worker EXCEPT ![w] = Ended(worker[w])]
  BY DEF RecordResult, Commit, Reschedule
<1>2. log # <<>> /\ LogSound
  BY <1>1, BusyWorker DEF IInv
<1>3. View(seen) = log
  BY <1>1, <1>2, FreshView
<1>4. worker[w].hash \in blobs /\ worker[w].hash \in Hashes
  BY <1>1, BusyWorker DEF CreationSound, FinalizationSound, JobIds, IInv, StateTypes
<1>5. CASE /\ worker[w].key = Creation /\ S!RecordsPsbt(log)
           /\ log' = Append(log, PsbtEvent(w))
  <2>1. PsbtEvent(w) \in LogEvent /\ PsbtEvent(w).type = "PsbtCreated"
    BY <1>4 DEF PsbtEvent, LogEvent
  <2>2. QED
    BY <1>1, <1>2, <1>3, <1>5, <2>1, AllowsBare
<1>6. CASE /\ worker[w].key \in Calls /\ S!AcceptsFinalization(log, SigsUsed(log))
           /\ log' = Append(log, FinalEvent(w))
  <2>1. SignaturesSound(log) /\ Prefixes(log) # {}
    <3>1. Prefixes(log) # {}
      BY <1>1, <1>3, <1>6, BusyWorker DEF FinalizationSound
    <3>2. QED
      BY <1>2, <3>1, LogSignatures DEF IInv
  <2>2. SigsUsed(log) \in SigLists /\ S!Used(SigsUsed(log)) \in SUBSET Keystores
    BY <1>2, <2>1, FinalizationFits
  <2>3. /\ FinalEvent(w) \in LogEvent /\ FinalEvent(w).type = "Finalized"
        /\ FinalEvent(w).used = S!Used(SigsUsed(log))
    BY <1>4, <2>2 DEF FinalEvent, LogEvent
  <2>4. QED
    BY <1>1, <1>2, <1>3, <1>6, <2>2, <2>3, AllowsBare
<1>7. \/ /\ worker[w].key = Creation /\ S!RecordsPsbt(log)
         /\ log' = Append(log, PsbtEvent(w))
      \/ /\ worker[w].key \in Calls /\ S!AcceptsFinalization(log, SigsUsed(log))
         /\ log' = Append(log, FinalEvent(w))
  BY <1>3, SameGuards DEF RecordResult, Commit, PsbtEvent, FinalEvent
<1>8. QED
  BY <1>5, <1>6, <1>7
-----------------------------------------------------------------------------
(* The steps that commit.                                                  *)

\* Recorded documents stay sound when what is added refers to a stored one.
LEMMA DocumentsAfter ==
  ASSUME LogSound, DocumentsSound, NEW e, Adds(e), blobs \subseteq blobs',
         "hash" \in DOMAIN e => e.hash \in blobs,
         e.type = "PsbtCreated" => Unsigned \in blobs,
         e.type = "SignatureAdded" => SignedAlone(e)
  PROVE  DocumentsSound'
<1>1. /\ Loads(log) /\ log \in Seq(LogEvent) /\ log # <<>> /\ e \in LogEvent
      /\ log' = Append(log, e)
  BY DEF LogSound, Loads, Adds
<1>2. /\ Len(log) \in Nat /\ DOMAIN log = 1..Len(log) /\ DOMAIN log' = 1..(Len(log) + 1)
      /\ \A i \in 1..Len(log) : log'[i] = log[i]
      /\ log'[Len(log) + 1] = e
  BY <1>1
<1>3. ReferencedBlobsStored'
  BY <1>2 DEF DocumentsSound, ReferencedBlobsStored
<1>4. S!Has(log', "PsbtCreated") => Unsigned \in blobs'
  BY <1>1, StreamAfter DEF DocumentsSound
<1>5. ASSUME NEW i \in S!Indices(log', {"SignatureAdded"})
      PROVE  SignedAlone(log'[i])
  <2>1. CASE i = Len(log) + 1
    BY <1>2, <1>5, <2>1 DEF S!Indices
  <2>2. CASE i # Len(log) + 1
    <3>1. i \in S!Indices(log, {"SignatureAdded"}) /\ log'[i] = log[i]
      BY <1>2, <1>5, <2>2 DEF S!Indices
    <3>2. QED
      BY <3>1 DEF DocumentsSound
  <2>3. QED
    BY <2>1, <2>2
<1>6. QED
  BY <1>3, <1>4, <1>5 DEF DocumentsSound

\* A session records nothing that could change whom its finalization names.
LEMMA AuthorityAfter ==
  ASSUME LogSound, AuthorityIsExact, NEW e, Adds(e), e.type # "Finalized"
  PROVE  AuthorityIsExact'
<1>1. /\ Loads(log) /\ log \in Seq(LogEvent) /\ log # <<>> /\ e \in LogEvent
      /\ log' = Append(log, e) /\ S!Allows(Bare(log), Plain(e))
  BY DEF LogSound, Loads, Adds
<1> SUFFICES ASSUME S!Has(log', "Finalized") PROVE AuthorityIsExact'
  BY AuthorityIs
<1>2. /\ S!Has(log, "Finalized") /\ S!Finalization(log') = S!Finalization(log)
      /\ S!Policy(log') = S!Policy(log)
  BY <1>1, StreamAfter
<1>3. e.type # "SignatureAdded"
  <2>1. S!Status(log) # "Collecting"
    BY <1>1, <1>2, LogFacts
  <2>2. S!Status(Bare(log)) = S!Status(log) /\ Plain(e).type = e.type
    BY <1>1, BareFolds, BareEvent
  <2>3. QED
    BY <1>1, <2>1, <2>2 DEF S!Allows, S!AcceptsSignature
<1>4. Recorded(log') = Recorded(log)
  BY <1>1, <1>3, RecordedOfAppend
<1>5. QED
  BY <1>2, <1>4, AuthorityIs

\* Only an added signature can complete a quorum.
LEMMA NoNewQuorum ==
  ASSUME LogSound, NEW e, Adds(e), e.type # "SignatureAdded", QuorumWaits(log')
  PROVE  QuorumWaits(log)
<1>1. /\ Loads(log) /\ log # <<>> /\ e \in LogEvent
      /\ log' = Append(log, e) /\ S!Allows(Bare(log), Plain(e))
  BY DEF LogSound, Adds
<1>2. S!ThresholdMet(log)
  BY QuorumStays DEF QuorumWaits
<1>3. S!Status(log) # "Pending"
  BY <1>1, <1>2, QuorumIsNotPending
<1>4. S!Status(Bare(log)) = S!Status(log) /\ Plain(e).type = e.type
  BY <1>1, BareFolds, BareEvent
<1>5. e.type # "PsbtCreated"
  BY <1>1, <1>3, <1>4 DEF S!Allows, S!RecordsPsbt
<1>6. S!Status(log') = IF e.type \in S!LifecycleTypes THEN S!Shows[e.type] ELSE S!Status(log)
  BY <1>1, StreamAfter
<1>7. QED
  BY <1>2, <1>5, <1>6, S!ShowsByType, SAssumes DEF QuorumWaits

\* A step of call c that ends it, and may record an event.
LEMMA CommitStep ==
  ASSUME IInv, log # <<>>, Onward, StateTypes', blobs' = blobs, UNCHANGED <<build, worker>>,
         NEW c \in Calls, call[c].step # "done", NEW x, call' = [call EXCEPT ![c] = x],
         CallSound(c)', DocumentsSound', AuthorityIsExact', ReversalsCounted',
         JobsSound', \A j \in JobIds \ {c} : RowStays(j), jobs[c] # "none" => jobs'[c] # "none"
  PROVE  IInv'
<1> USE DEF IInv
<1>1. LogSound'
  BY OnwardFacts
<1>2. \A d \in Calls \ {c} : call'[d] = call[d]
  BY DEF StateTypes
<1>3. \A d \in Calls : CallSound(d)'
  BY <1>2, CallStays DEF JobIds
<1>4. \A w \in Workers : WorkerSound(w)'
  BY WorkerStays DEF RowStays
<1>5. QED
  BY <1>1, <1>3, <1>4

\* What a finished call holds.
LEMMA DoneFields ==
  ASSUME call \in [Calls -> Steps], NEW c \in Calls, Done(c)
  PROVE  \E x \in Steps : /\ call' = [call EXCEPT ![c] = x]
                          /\ call'[c] = x
                          /\ x.step = "done" /\ x.seen = 0 /\ x.hash = None
                          /\ x.kind = call[c].kind /\ x.key = call[c].key
<1> DEFINE x == [call[c] EXCEPT !.step = "done", !.seen = 0, !.hash = None]
<1>1. call[c] \in Steps
  OBVIOUS
<1>2. /\ x \in Steps
      /\ x.step = "done" /\ x.seen = 0 /\ x.hash = None
      /\ x.kind = call[c].kind /\ x.key = call[c].key
  BY <1>1 DEF Steps
<1>3. call' = [call EXCEPT ![c] = x]
  BY DEF Done
<1>4. call'[c] = x
  BY <1>3
<1>5. QED
  BY <1>2, <1>3, <1>4

\* An upload that is answered is in the stream, and its finalization job queued.
LEMMA CommitSignatureKeeps ==
  ASSUME IInv, NEW c \in Calls, CommitSignature(c)
  PROVE  IInv' /\ Onward
<1> DEFINE k == call[c].key
           e == [type |-> "SignatureAdded", fingerprint |-> k, hash |-> call[c].hash]
<1>1. /\ call[c].step = "stored" /\ jobs' = [jobs EXCEPT ![c] = "queued"] /\ Done(c)
      /\ UNCHANGED <<blobs, build, funded, worker, faults>>
  BY DEF CommitSignature, Spawn
<1>2. /\ log # <<>> /\ LogSound /\ Len(log) \in Nat
      /\ call \in [Calls -> Steps]
      /\ jobs \in [JobIds -> {"none", "queued", "running", "gone"}]
  <2>1. log # <<>>
    BY <1>1 DEF IInv, CallSound
  <2>2. QED
    BY <2>1 DEF IInv, StateTypes, LogSound, Loads
<1>3. /\ call[c].kind = "upload" /\ k \in Keystores /\ jobs[c] = "none"
      /\ call[c].hash \in blobs
      /\ \E usable \in SUBSET ({k} \X Inputs), nonce \in Nonces :
            call[c].hash = Merged(usable, nonce)
  BY <1>1 DEF IInv, CallSound
<1>4. call[c].seen \in 0..Len(log)
  <2>1. call[c].seen \in Nat /\ call[c].seen <= Len(log)
    BY <1>2 DEF IInv, CallSound, Steps
  <2>2. QED
    BY <1>2, <2>1
<1>5. PICK x \in Steps : /\ call' = [call EXCEPT ![c] = x] /\ call'[c] = x
                         /\ x.step = "done" /\ x.seen = 0 /\ x.hash = None
                         /\ x.kind = "upload" /\ x.key = k
  BY <1>1, <1>2, <1>3, DoneFields
<1>6. /\ c \in JobIds /\ jobs'[c] = "queued" /\ jobs'[Creation] = jobs[Creation]
      /\ \A j \in JobIds \ {c} : jobs'[j] = jobs[j]
  BY <1>1, <1>2, CallAssumption DEF JobIds
<1>7. StateTypes'
  BY <1>1, <1>2, <1>5, <1>6 DEF IInv, StateTypes
<1>8. /\ Onward /\ S!Signed(log', k) /\ DocumentsSound' /\ AuthorityIsExact'
      /\ S!Indices(log', {"Invalidated"}) = S!Indices(log, {"Invalidated"})
      /\ S!Status(log') = S!Status(log)
  <2>1. CASE log' = log
    <3>1. Onward
      BY <2>1 DEF Onward
    <3>2. S!Signed(View(call[c].seen), k)
      <4>1. Session!Signed(View(call[c].seen), k) \/ log' = Append(log, e)
        BY DEF CommitSignature, Commit
      <4>2. Append(log, e) # log
        BY <1>2 DEF LogSound, Loads
      <4>3. QED
        BY <2>1, <4>1, <4>2, SameFolds
    <3>3. S!Signed(log', k)
      BY <1>2, <1>4, <2>1, <3>2, ViewFacts
    <3>4. DocumentsSound' /\ AuthorityIsExact'
      BY <1>1, <2>1, QuietDocuments DEF IInv
    <3>5. QED
      BY <2>1, <3>1, <3>3, <3>4
  <2>2. CASE ~(log' = log)
    <3>1. Adds(e)
      BY <2>2, SignatureAdds
    <3>2. /\ Onward /\ e \in LogEvent /\ e.type = "SignatureAdded" /\ e.fingerprint = k
          /\ e.hash = call[c].hash /\ e.hash \in blobs
      BY <1>3, <3>1 DEF Onward, Adds
    <3> HIDE DEF e, k
    <3>3. /\ S!Signed(log', k)
          /\ S!Indices(log', {"Invalidated"}) = S!Indices(log, {"Invalidated"})
          /\ S!Status(log') = S!Status(log)
      BY <1>2, <3>1, <3>2, StreamAfter DEF Adds, LogSound, S!LifecycleTypes
    <3>4. SignedAlone(e)
      <4>1. PICK usable \in SUBSET ({k} \X Inputs), nonce \in Nonces :
                    e.hash = Merged(usable, nonce)
        BY <1>3, <3>2
      <4>2. e.hash.sigs = usable \X {nonce}
        BY <4>1 DEF Merged
      <4>3. \A sig \in usable \X {nonce} : sig[1][1] = k
        OBVIOUS
      <4>4. QED
        BY <3>2, <4>2, <4>3 DEF SignedAlone
    <3>5. DocumentsSound' /\ AuthorityIsExact'
      BY <1>1, <1>2, <3>1, <3>2, <3>4, DocumentsAfter, AuthorityAfter DEF IInv
    <3>6. QED
      BY <3>2, <3>3, <3>5
  <2>3. QED
    BY <2>1, <2>2
<1>9. log' # <<>> /\ Len(log') \in Nat
  BY <1>2, <1>8, OnwardFacts
<1>10. CallSound(c)'
  BY <1>3, <1>5, <1>8, <1>9 DEF CallSound
<1>11. ReversalsCounted'
  BY <1>1, <1>2, <1>5, <1>8, QuietReversals DEF IInv, LogSound, Loads
<1>12. JobsSound'
  <2>1. PendingHasJob'
    <3>1. Session!Status(log') = Session!Status(log)
      BY <1>8, SameFolds
    <3>2. QED
      BY <1>1, <1>2, <1>6, <3>1 DEF IInv, JobsSound, PendingHasJob
  <2>2. \A w \in Workers : worker'[w].key # c
    BY <1>1, <1>3, CallAssumption DEF IInv, WorkerSound, Idle
  <2>3. QuorumHasJob'
    BY <1>6, <2>2 DEF QuorumHasJob
  <2>4. QED
    BY <1>9, <2>1, <2>3 DEF JobsSound
<1>13. (\A j \in JobIds \ {c} : RowStays(j)) /\ jobs'[c] # "none"
  BY <1>6 DEF RowStays
<1>14. QED
  BY <1>1, <1>2, <1>5, <1>7, <1>8, <1>10, <1>11, <1>12, <1>13, CommitStep

\* A call that ends leaves the jobs alone unless its event completes a quorum.
LEMMA QuietJobs ==
  ASSUME LogSound, log # <<>>, Onward, JobsSound, UNCHANGED <<build, jobs, worker>>,
         \A w \in Workers : WorkerSound(w),
         \A e \in LogEvent : Adds(e) => e.type # "SignatureAdded"
  PROVE  JobsSound' /\ \A j \in JobIds : RowStays(j)
<1>1. QuorumWaits(log') => QuorumWaits(log)
  BY NoNewQuorum DEF Onward
<1>2. \A c \in Calls : HasJob(c) => HasJob(c)'
  BY JobKept DEF HasJob
<1>3. JobsSound'
  BY <1>1, <1>2, JobsStay
<1>4. QED
  BY <1>3 DEF RowStays

\* An event of a type, told from its type by what a step appends.
LEMMA OneAdded ==
  ASSUME LogSound, NEW e, Adds(e), NEW f, Adds(f)
  PROVE  e = f
<1>1. log \in Seq(LogEvent) /\ Append(log, e) = Append(log, f)
  BY DEF Adds, LogSound, Loads
<1>2. Append(log, e)[Len(log) + 1] = e /\ Append(log, f)[Len(log) + 1] = f
  BY <1>1 DEF Adds
<1>3. QED
  BY <1>1, <1>2

\* A cancellation that is answered is in the stream.
LEMMA CommitCancelKeeps ==
  ASSUME IInv, NEW c \in Calls, CommitCancel(c)
  PROVE  IInv' /\ Onward
<1> DEFINE e == [type |-> "Cancelled"]
<1>1. /\ call[c].step = "loaded" /\ call[c].kind = "cancel" /\ Done(c)
      /\ UNCHANGED <<blobs, build, funded, jobs, worker, faults>>
  BY DEF CommitCancel
<1>2. /\ log # <<>> /\ LogSound /\ Len(log) \in Nat /\ call \in [Calls -> Steps]
  <2>1. log # <<>>
    BY <1>1 DEF IInv, CallSound
  <2>2. QED
    BY <2>1 DEF IInv, StateTypes, LogSound, Loads
<1>3. call[c].seen \in 0..Len(log)
  <2>1. call[c].seen \in Nat /\ call[c].seen <= Len(log)
    BY <1>2 DEF IInv, CallSound, Steps
  <2>2. QED
    BY <1>2, <2>1
<1>4. PICK x \in Steps : /\ call' = [call EXCEPT ![c] = x] /\ call'[c] = x
                         /\ x.step = "done" /\ x.seen = 0 /\ x.hash = None
                         /\ x.kind = "cancel" /\ x.key = call[c].key
  BY <1>1, <1>2, DoneFields
<1>5. StateTypes'
  BY <1>1, <1>2, <1>4 DEF IInv, StateTypes
<1>6. /\ Onward /\ S!Has(log', "Cancelled") /\ DocumentsSound' /\ AuthorityIsExact'
      /\ S!Indices(log', {"Invalidated"}) = S!Indices(log, {"Invalidated"})
      /\ \A f \in LogEvent : Adds(f) => f.type # "SignatureAdded"
  <2>1. CASE log' = log
    <3>1. Onward
      BY <2>1 DEF Onward
    <3>2. Append(log, e) # log /\ \A f \in LogEvent : Append(log, f) # log
      BY <1>2 DEF LogSound, Loads
    <3>3. S!AlreadyApplied(View(call[c].seen), "Cancelled", {})
      <4>1. Session!AlreadyApplied(View(call[c].seen), "Cancelled", {}) \/ log' = Append(log, e)
        BY DEF CommitCancel, Commit
      <4>2. QED
        BY <2>1, <3>2, <4>1, SameFolds
    <3>4. S!Has(View(call[c].seen), "Cancelled")
      BY <3>3 DEF S!AlreadyApplied, S!Has
    <3>5. S!Has(log', "Cancelled")
      BY <1>2, <1>3, <2>1, <3>4, ViewFacts
    <3>6. DocumentsSound' /\ AuthorityIsExact'
      BY <1>1, <2>1, QuietDocuments DEF IInv
    <3>7. QED
      BY <2>1, <3>1, <3>2, <3>5, <3>6 DEF Adds
  <2>2. CASE ~(log' = log)
    <3>1. Adds(e)
      BY <2>2, CancelAdds
    <3>2. Onward /\ e \in LogEvent /\ e.type = "Cancelled" /\ "hash" \notin DOMAIN e
      BY <3>1 DEF Onward, Adds
    <3> HIDE DEF e
    <3>3. /\ S!Has(log', "Cancelled")
          /\ S!Indices(log', {"Invalidated"}) = S!Indices(log, {"Invalidated"})
      BY <1>2, <3>1, <3>2, StreamAfter DEF Adds, LogSound
    <3>4. DocumentsSound' /\ AuthorityIsExact'
      BY <1>1, <1>2, <3>1, <3>2, DocumentsAfter, AuthorityAfter DEF IInv
    <3>5. QED
      BY <1>2, <3>1, <3>2, <3>3, <3>4, OneAdded
  <2>3. QED
    BY <2>1, <2>2
<1>7. log' # <<>> /\ Len(log') \in Nat
  BY <1>2, <1>6, OnwardFacts
<1>8. CallSound(c)'
  BY <1>4, <1>6, <1>7 DEF CallSound
<1>9. ReversalsCounted'
  BY <1>1, <1>2, <1>4, <1>6, QuietReversals DEF IInv, LogSound, Loads
<1>10. JobsSound' /\ \A j \in JobIds : RowStays(j)
  BY <1>1, <1>2, <1>6, QuietJobs DEF IInv
<1>11. QED
  BY <1>1, <1>2, <1>4, <1>5, <1>6, <1>8, <1>9, <1>10, CommitStep

\* A reversal recorded by a call is counted to it.
LEMMA ReversalCounted ==
  ASSUME ReversalsCounted, LogSound, call \in [Calls -> Steps],
         NEW c \in Calls, call[c].step = "loaded", call'[c].step = "done",
         call'[c].kind = "Invalidated", \A d \in Calls \ {c} : call'[d] = call[d],
         S!Indices(log', {"Invalidated"}) = S!Indices(log, {"Invalidated"}) \cup {Len(log) + 1}
  PROVE  ReversalsCounted'
<1> DEFINE A == {d \in Calls : call[d].step = "done" /\ call[d].kind = "Invalidated"}
           B == {d \in Calls : call'[d].step = "done" /\ call'[d].kind = "Invalidated"}
           I == S!Indices(log, {"Invalidated"})
           J == S!Indices(log', {"Invalidated"})
<1>1. B = A \cup {c} /\ c \notin A
  OBVIOUS
<1>2. IsFiniteSet(A)
  BY CallAssumption, FS_Subset
<1>3. log \in Seq(LogEvent) /\ J = I \cup {Len(log) + 1}
  BY DEF LogSound, Loads
<1>4. I \in SUBSET (1..Len(log)) /\ IsFiniteSet(I) /\ Cardinality(I) \in Nat
  BY <1>3, IndicesCount
<1>5. Len(log) + 1 \notin I
  BY <1>3, <1>4
<1>6. Cardinality(I) <= Cardinality(A)
  BY DEF ReversalsCounted
<1> HIDE DEF A, B, I, J
<1>7. Cardinality(B) = Cardinality(A) + 1 /\ Cardinality(A) \in Nat
  BY <1>1, <1>2, FS_AddElement, FS_CardinalityType
<1>8. Cardinality(J) = Cardinality(I) + 1
  BY <1>3, <1>4, <1>5, FS_AddElement
<1>9. Cardinality(J) <= Cardinality(B)
  BY <1>4, <1>6, <1>7, <1>8
<1>10. QED
  BY <1>9 DEF ReversalsCounted, B, J

\* An observation is recorded by the call that delivers it.
LEMMA CommitObservationKeeps ==
  ASSUME IInv, NEW c \in Calls, CommitObservation(c)
  PROVE  IInv' /\ Onward
<1> DEFINE kind == call[c].kind
           e == ChainEvent(kind)
<1>1. /\ call[c].step = "loaded" /\ kind \in {"BroadcastSeen", "Confirmed", "Invalidated"}
      /\ Done(c) /\ UNCHANGED <<blobs, build, funded, jobs, worker, faults>>
  BY DEF CommitObservation, Observations
<1>2. /\ log # <<>> /\ LogSound /\ Len(log) \in Nat /\ call \in [Calls -> Steps]
  <2>1. log # <<>>
    BY <1>1 DEF IInv, CallSound
  <2>2. QED
    BY <2>1 DEF IInv, StateTypes, LogSound, Loads
<1>3. PICK x \in Steps : /\ call' = [call EXCEPT ![c] = x] /\ call'[c] = x
                         /\ x.step = "done" /\ x.seen = 0 /\ x.hash = None
                         /\ x.kind = kind /\ x.key = call[c].key
  BY <1>1, <1>2, DoneFields
<1>4. StateTypes'
  BY <1>1, <1>2, <1>3 DEF IInv, StateTypes
<1>5. Adds(e)
  BY ObservationAdds
<1>6. Onward /\ e \in LogEvent /\ e.type = kind /\ "hash" \notin DOMAIN e
  BY <1>1, <1>5 DEF Onward, Adds, ChainEvent
<1> HIDE DEF e, kind
<1>7. DocumentsSound' /\ AuthorityIsExact'
  BY <1>1, <1>2, <1>5, <1>6, DocumentsAfter, AuthorityAfter DEF IInv
<1>8. S!Indices(log', {"Invalidated"}) = IF kind = "Invalidated"
                                         THEN S!Indices(log, {"Invalidated"}) \cup {Len(log) + 1}
                                         ELSE S!Indices(log, {"Invalidated"})
  <2>1. Loads(log) /\ log' = Append(log, e)
    BY <1>5 DEF Adds, IInv, LogSound
  <2>2. \A types : S!Indices(Append(log, e), types) =
                      IF e.type \in types THEN S!Indices(log, types) \cup {Len(log) + 1}
                      ELSE S!Indices(log, types)
    BY <1>2, <1>6, <2>1, StreamAfter
  <2>3. e.type \in {"Invalidated"} <=> kind = "Invalidated"
    BY <1>6
  <2>4. QED
    BY <2>1, <2>2, <2>3
<1>9. \A d \in Calls \ {c} : call'[d] = call[d]
  BY <1>2, <1>3
<1>10. ReversalsCounted'
  <2>1. CASE kind = "Invalidated"
    BY <1>1, <1>2, <1>3, <1>8, <1>9, <2>1, ReversalCounted DEF IInv
  <2>2. CASE kind # "Invalidated"
    BY <1>1, <1>2, <1>8, <1>9, <2>2, QuietReversals DEF IInv, LogSound, Loads
  <2>3. QED
    BY <2>1, <2>2
<1>11. log' # <<>> /\ Len(log') \in Nat
  BY <1>2, <1>6, OnwardFacts
<1>12. CallSound(c)'
  BY <1>1, <1>3, <1>11 DEF CallSound
<1>13. \A f \in LogEvent : Adds(f) => f.type # "SignatureAdded"
  BY <1>1, <1>2, <1>5, <1>6, OneAdded
<1>14. JobsSound' /\ \A j \in JobIds : RowStays(j)
  BY <1>1, <1>2, <1>6, <1>13, QuietJobs DEF IInv
<1>15. QED
  BY <1>1, <1>2, <1>3, <1>4, <1>6, <1>7, <1>10, <1>12, <1>14, CommitStep

\* A job that stored its document records it on the stream it loaded.
LEMMA RecordedKeeps ==
  ASSUME IInv, NEW w \in Workers, worker[w].step = "stored", NEW e, Adds(e),
         UNCHANGED <<blobs, build, funded, call, jobs, faults>>,
         worker' = [worker EXCEPT ![w] = Ended(worker[w])],
         \/ worker[w].key = Creation /\ e.type = "PsbtCreated"
         \/ worker[w].key \in Calls /\ e.type = "Finalized",
         DocumentsSound', AuthorityIsExact'
  PROVE  IInv' /\ Onward
<1> DEFINE x == worker[w]
           y == Ended(x)
<1>1. /\ log # <<>> /\ LogSound /\ Loads(log) /\ e \in LogEvent /\ log' = Append(log, e)
      /\ Len(log) \in Nat /\ Len(log') = Len(log) + 1
  BY DEF Adds, IInv, LogSound, Loads
<1>2. /\ x.key \in JobIds /\ jobs[x.key] # "none" /\ x.seen \in 1..Len(log)
      /\ x.key \in Calls => FinalizationSound(x)
      /\ x \in Steps /\ worker \in [Workers -> Steps]
  BY BusyWorker
<1>3. y \in Steps /\ y.step = "ended" /\ y.key = x.key /\ y.seen = x.seen
  BY <1>2, EndedFields
<1>4. worker' = [worker EXCEPT ![w] = y]
  OBVIOUS
<1> HIDE DEF y
<1>5. worker'[w] = y /\ \A v \in Workers \ {w} : worker'[v] = worker[v]
  BY <1>2, <1>4
<1>6. Onward
  BY <1>1 DEF Onward
<1>7. LogSound' /\ log' # <<>>
  BY <1>1, <1>6, OnwardFacts DEF IInv
<1>8. StateTypes'
  BY <1>3, <1>4 DEF IInv, StateTypes
<1>9. \A c \in Calls : CallSound(c)'
  BY <1>6, CallStays DEF IInv, RowStays
<1>10. /\ S!Has(log', e.type)
       /\ S!Status(log') = S!Shows[e.type]
       /\ S!Indices(log', {"Invalidated"}) = S!Indices(log, {"Invalidated"})
  BY <1>1, StreamAfter DEF S!LifecycleTypes
<1>11. WorkerSound(w)'
  <2>1. y.key = Creation => S!Status(log') # "Pending"
    BY <1>3, <1>10, CallAssumption DEF S!Shows
  <2>2. y.key \in Calls => S!Status(log') # "Collecting"
    BY <1>3, <1>10, CallAssumption DEF S!Shows
  <2>3. y.key \in JobIds /\ jobs'[y.key] # "none" /\ y.seen \in 1..Len(log')
    BY <1>1, <1>2, <1>3
  <2>4. QED
    BY <1>3, <1>5, <1>7, <2>1, <2>2, <2>3
       DEF WorkerSound, CreationSound, FinalizationSound
<1>12. \A v \in Workers \ {w} : WorkerSound(v)'
  BY <1>5, <1>6, WorkerStays DEF IInv
<1>13. ReversalsCounted'
  BY <1>1, <1>10, QuietReversals DEF IInv, StateTypes, Loads
<1>14. JobsSound'
  <2>1. \A v \in Workers : worker'[v].key = worker[v].key /\ worker'[v].seen = worker[v].seen
    BY <1>3, <1>5
  <2>2. \A c \in Calls : HasJob(c) => HasJob(c)'
    BY <1>6, <2>1, JobKept DEF IInv, HasJob
  <2>3. QuorumWaits(log') => QuorumWaits(log)
    BY <1>1, NoNewQuorum
  <2>4. QED
    BY <1>1, <1>6, <2>2, <2>3, JobsStay DEF IInv
<1>15. QED
  BY <1>6, <1>7, <1>8, <1>9, <1>11, <1>12, <1>13, <1>14 DEF IInv

\* The signers a finalization names are those of the shortest prefix it can be
\* assembled from, and its document carries signatures of theirs only.
LEMMA FinalIsExact ==
  ASSUME IInv, NEW w \in Workers, Adds(FinalEvent(w)), Prefixes(log) # {},
         NEW sigs \in Witnesses(log), worker[w].hash = FinalTx(sigs)
  PROVE  AuthorityIsExact'
<1> DEFINE e == FinalEvent(w)
           t == S!Policy(log).threshold
           n == Minimal(log)
           rec == Recorded(log)
<1>1. /\ log # <<>> /\ LogSound /\ Loads(log) /\ log \in Seq(LogEvent)
      /\ e \in LogEvent /\ log' = Append(log, e)
  BY DEF Adds, IInv, LogSound, Loads
<1>2. SignaturesSound(log) /\ t \in Nat \ {0}
  BY <1>1, LogSignatures, LogFacts DEF IInv
<1>3. /\ e.type = "Finalized" /\ e.used = S!Used(SigsUsed(log)) /\ e.hash.sigs = sigs
  BY DEF FinalEvent, FinalTx
<1>4. /\ e.used = {rec[m].fingerprint : m \in 1..n}
      /\ n \in DOMAIN rec /\ Cardinality(e.used) = n
  BY <1>1, <1>2, <1>3, FinalizationFits
<1>5. /\ Cardinality(SignedAt(log)) \in Nat
      /\ n \in 1..Cardinality(SignedAt(log))
      /\ Prefixes(log) = {m \in 1..Cardinality(SignedAt(log)) : QuorumOf(rec, m, t)}
      /\ \A m \in Prefixes(log) : n <= m
      /\ n \in Prefixes(log)
  BY <1>1, <1>2, QuorumFinalizes
<1>6. ASSUME NEW i \in Inputs
      PROVE  /\ SignersOn(sigs, i) \subseteq SignersOf(rec, n, i)
             /\ Cardinality(SignersOn(sigs, i)) = t
  <2>1. sigs \in SUBSET Gathered(log, n) /\ Cardinality(SignersOn(sigs, i)) = t
    BY SameFolds DEF Witnesses
  <2>2. SignersOn(sigs, i) \subseteq SignersOn(Gathered(log, n), i)
    BY <2>1 DEF SignersOn
  <2>3. SignersOn(Gathered(log, n), i) = SignersOf(rec, n, i)
    BY <1>1, <1>2, <1>5, GatheredSigners
  <2>4. QED
    BY <2>1, <2>2, <2>3
<1>7. Recorded(log') = rec
  BY <1>1, <1>3, RecordedOfAppend
<1>8. S!Finalization(log') = e /\ S!Policy(log') = S!Policy(log)
  BY <1>1, <1>3, StreamAfter
<1> HIDE DEF e, t, n, rec
<1>9. QuorumOf(rec, n, t) /\ \A m \in 1..(n - 1) : ~QuorumOf(rec, m, t)
  BY <1>5
<1>10. Authority(rec, e, t)
  BY <1>3, <1>4, <1>6, <1>9 DEF Authority
<1>11. QED
  BY <1>7, <1>8, <1>10, AuthorityIs DEF t

\* A job's result is recorded against the copy it worked on, or the job runs again.
LEMMA RecordResultKeeps ==
  ASSUME IInv, NEW w \in Workers, RecordResult(w)
  PROVE  IInv' /\ Onward
<1>1. worker[w].step = "stored" /\ UNCHANGED <<blobs, build, funded, call, faults>>
  BY DEF RecordResult
<1>2. LogSound /\ log # <<>>
  BY <1>1, BusyWorker DEF IInv
<1>3. CASE log' = log
  <2>1. \A e : Append(log, e) # log
    BY <1>2 DEF LogSound, Loads
  <2>2. Reschedule(w)
    BY <1>3, <2>1 DEF RecordResult, Commit
  <2>3. QED
    BY <1>1, <1>3, <2>2, RescheduleKeeps DEF Onward
<1>4. CASE ~(log' = log)
  <2>1. /\ UNCHANGED <<blobs, build, funded, call, jobs, faults>>
        /\ worker' = [worker EXCEPT ![w] = Ended(worker[w])] /\ View(worker[w].seen) = log
        /\ \/ worker[w].key = Creation /\ Adds(PsbtEvent(w))
           \/ worker[w].key \in Calls /\ Adds(FinalEvent(w))
    BY <1>4, ResultAdds
  <2>2. CASE worker[w].key = Creation /\ Adds(PsbtEvent(w))
    <3>1. PsbtEvent(w).type = "PsbtCreated" /\ PsbtEvent(w).hash = worker[w].hash
      BY DEF PsbtEvent
    <3>2. worker[w].hash = Unsigned /\ Unsigned \in blobs
      BY <1>1, <2>2, BusyWorker DEF CreationSound
    <3>3. DocumentsSound' /\ AuthorityIsExact'
      BY <1>1, <1>2, <2>2, <3>1, <3>2, DocumentsAfter, AuthorityAfter DEF IInv
    <3>4. QED
      BY <1>1, <2>1, <2>2, <3>1, <3>3, RecordedKeeps
  <2>3. CASE worker[w].key \in Calls /\ Adds(FinalEvent(w))
    <3>1. FinalEvent(w).type = "Finalized" /\ FinalEvent(w).hash = worker[w].hash
      BY DEF FinalEvent
    <3>2. /\ Prefixes(log) # {} /\ worker[w].hash \in blobs
          /\ \E sigs \in Witnesses(log) : worker[w].hash = FinalTx(sigs)
      BY <1>1, <2>1, <2>3, BusyWorker DEF FinalizationSound
    <3>3. DocumentsSound'
      BY <1>1, <1>2, <2>3, <3>1, <3>2, DocumentsAfter DEF IInv
    <3>4. AuthorityIsExact'
      BY <2>3, <3>2, FinalIsExact
    <3>5. QED
      BY <1>1, <2>1, <2>3, <3>1, <3>3, <3>4, RecordedKeeps
  <2>4. QED
    BY <2>1, <2>2, <2>3
<1>5. QED
  BY <1>3, <1>4

\* A proposal starts the stream together with the job that builds its PSBT.
LEMMA ProposeKeeps ==
  ASSUME IInv, NEW p \in Policies, NEW outcome \in Outcomes, Propose(p, outcome)
  PROVE  IInv'
<1> DEFINE e == [type |-> "Initialized", policy |-> p]
<1>1. /\ log = <<>> /\ log' = <<e>> /\ jobs' = [jobs EXCEPT ![Creation] = "queued"]
      /\ build' = outcome /\ UNCHANGED <<blobs, funded, call, worker, faults>>
  BY DEF Propose, Spawn
<1>2. /\ \A c \in Calls : call[c].step = "idle"
      /\ \A w \in Workers : worker[w] = Idle
      /\ jobs \in [JobIds -> {"none", "queued", "running", "gone"}]
  BY <1>1, NothingRuns DEF IInv, StateTypes
<1>3. e \in LogEvent /\ e.type = "Initialized" /\ e.policy = p /\ Plain(e) = e
  BY DEF LogEvent, Plain
<1>4. log' = Append(log, e)
  BY <1>1
<1> HIDE DEF e
<1>5. /\ log' \in Seq(LogEvent) /\ log' # <<>> /\ Len(log') = 1 /\ DOMAIN log' = {1}
      /\ log'[1] = e
  BY <1>1, <1>3
<1>6. /\ Bare(log) = <<>> /\ Bare(log)' = Append(Bare(log), e)
  <2>1. log \in Seq(LogEvent)
    BY <1>1
  <2>2. Bare(log') = Append(Bare(log), Plain(e))
    BY <1>3, <1>4, <2>1, BareOfAppend
  <2>3. Bare(log) = <<>>
    BY <1>1, <2>1, BareStream
  <2>4. QED
    BY <1>3, <2>2, <2>3 DEF Bare
<1>7. S!IInv'
  <2>1. S!Propose(p)
    BY <1>6 DEF S!Propose, S!Push, e
  <2>2. QED
    BY <2>1, S!ProposalStarts, SAssumes
<1>8. \A types : "Initialized" \notin types => S!Indices(log', types) = {}
  BY <1>3, <1>5 DEF S!Indices
<1>9. LogSound'
  <2>1. Loads(log')
    <3>1. Bare(log') \in Seq(S!Event) /\ DOMAIN Bare(log') = {1} /\ Bare(log')[1].type = "Initialized"
      BY <1>3, <1>5, BareStream
    <3>2. \A types : "Initialized" \notin types => S!Indices(Bare(log'), types) = {}
      BY <3>1 DEF S!Indices
    <3>3. QED
      BY <1>3, <1>5, <3>2 DEF Loads, S!HasNewest, S!LifecycleTypes
  <2>2. QED
    BY <1>7, <2>1 DEF LogSound, Loads, Bare
<1>10. StateTypes'
  BY <1>1, <1>2 DEF IInv, StateTypes, JobIds
<1>11. S!Status(log') = "Pending"
  BY <1>8, S!ShowsDomain, SAssumes DEF S!Status, S!LifecycleTypes
<1>12. DocumentsSound'
  <2>1. S!Indices(log', {"PsbtCreated"}) = {} /\ S!Indices(log', {"SignatureAdded"}) = {}
    BY <1>8
  <2>2. "hash" \notin DOMAIN e
    BY DEF e
  <2>3. QED
    BY <1>5, <2>1, <2>2 DEF DocumentsSound, ReferencedBlobsStored, S!Has
<1>13. AuthorityIsExact'
  <2>1. ~S!Has(log', "Finalized")
    BY <1>8 DEF S!Has
  <2>2. QED
    BY <2>1, SameFolds DEF AuthorityIsExact
<1>14. \A c \in Calls : CallSound(c)'
  <2> TAKE c \in Calls
  <2>1. call[c].seen \in Nat /\ call[c].seen <= 0
    BY <1>1 DEF IInv, StateTypes, Steps, CallSound
  <2>2. jobs'[c] = "none"
    BY <1>1, <1>2, NothingRuns, CallAssumption DEF JobIds
  <2>3. QED
    BY <1>1, <1>2, <1>5, <2>1, <2>2 DEF CallSound
<1>15. \A w \in Workers : WorkerSound(w)'
  BY <1>1, <1>2 DEF WorkerSound
<1>16. ReversalsCounted'
  <2>1. S!Indices(log', {"Invalidated"}) = {}
    BY <1>8
  <2>2. Cardinality({c \in Calls : call'[c].step = "done" /\ call'[c].kind = "Invalidated"}) \in Nat
    BY CallAssumption, FS_Subset, FS_CardinalityType
  <2>3. Cardinality(S!Indices(log', {"Invalidated"})) = 0
    BY <2>1, FS_EmptySet
  <2>4. QED
    BY <2>2, <2>3 DEF ReversalsCounted
<1>17. JobsSound'
  <2>1. jobs'[Creation] = "queued"
    BY <1>1, <1>2 DEF JobIds
  <2>2. Session!Status(log') = "Pending"
    BY <1>11, SameFolds
  <2>3. QED
    BY <1>5, <2>1, <2>2 DEF JobsSound, PendingHasJob, QuorumHasJob
<1>18. QED
  BY <1>9, <1>10, <1>12, <1>13, <1>14, <1>15, <1>16, <1>17 DEF IInv
-----------------------------------------------------------------------------
(* The theorems.                                                           *)

\* Every step but a proposal leaves the stream alone or adds one event to it that
\* the aggregate, asked then and there, would have added.
LEMMA NextStep ==
  ASSUME IInv, Next
  PROVE  IInv' /\ (Onward \/ \E p \in Policies, outcome \in Outcomes : Propose(p, outcome))
<1>1. CASE \E p \in Policies, outcome \in Outcomes : Propose(p, outcome)
  BY <1>1, ProposeKeeps
<1>2. CASE FundingArrives
  BY <1>2, FundingArrivesKeeps DEF FundingArrives, Onward
<1>3. CASE \E c \in Calls, k \in Keystores : LoadCall(c, "upload", k)
  BY <1>3, LoadCallKeeps DEF LoadCall, Onward
<1>4. CASE \E c \in Calls, kind \in CallKinds \ {"upload"} : LoadCall(c, kind, None)
  BY <1>4, LoadCallKeeps DEF LoadCall, Onward
<1>5. CASE \E c \in Calls : AbandonCall(c)
  BY <1>5, AbandonCallKeeps DEF AbandonCall, Onward
<1>6. CASE \E c \in Calls, signed \in SUBSET (Keystores \X Inputs) :
              \E usable \in SUBSET signed, nonce \in Nonces :
                 StoreSignature(c, signed, usable, nonce)
  BY <1>6, StoreSignatureKeeps DEF StoreSignature, Onward
<1>7. CASE \E c \in Calls : CommitSignature(c)
  BY <1>7, CommitSignatureKeeps
<1>8. CASE \E c \in Calls : CommitCancel(c)
  BY <1>8, CommitCancelKeeps
<1>9. CASE \E c \in Calls : CommitObservation(c)
  BY <1>9, CommitObservationKeeps
<1>10. CASE \E w \in Workers, j \in JobIds : StartJob(w, j)
  BY <1>10, StartJobKeeps DEF StartJob, Onward
<1>11. CASE \E w \in Workers : BuildPsbt(w)
  BY <1>11, BuildPsbtKeeps DEF BuildPsbt, Onward
<1>12. CASE \E w \in Workers : AssembleTx(w)
  BY <1>12, AssembleTxKeeps DEF AssembleTx, Onward
<1>13. CASE \E w \in Workers : RecordResult(w)
  BY <1>13, RecordResultKeeps
<1>14. CASE \E w \in Workers : FinishJob(w)
  BY <1>14, FinishJobKeeps DEF FinishJob, Onward
<1>15. CASE \E w \in Workers : LoseWorker(w)
  BY <1>15, LoseWorkerKeeps DEF LoseWorker, Onward
<1>16. CASE \E j \in JobIds : RescheduleLost(j)
  <2>1. PICK j \in JobIds : RescheduleLost(j)
    BY <1>16
  <2>2. faults' \in 0..MaxFaults
    BY <2>1 DEF RescheduleLost, IInv, StateTypes
  <2>3. QED
    BY <2>1, <2>2, RequeueKeeps DEF RescheduleLost, Orphaned, Onward
<1>17. CASE \E j \in JobIds : RescheduleSlow(j)
  <2>1. PICK j \in JobIds : RescheduleSlow(j)
    BY <1>17
  <2>2. faults' \in 0..MaxFaults
    BY <2>1, FaultAssumption DEF RescheduleSlow, IInv, StateTypes
  <2>3. QED
    BY <2>1, <2>2, RequeueKeeps DEF RescheduleSlow, Onward
<1>18. QED
  BY <1>1, <1>2, <1>3, <1>4, <1>5, <1>6, <1>7, <1>8, <1>9, <1>10, <1>11, <1>12, <1>13,
     <1>14, <1>15, <1>16, <1>17 DEF Next

\* Nothing happens, and what is folded from the stream stays as it is.
LEMMA StutterKeeps == IInv /\ UNCHANGED vars => IInv'
<1> SUFFICES ASSUME IInv, UNCHANGED vars PROVE IInv'
  OBVIOUS
<1>1. UNCHANGED <<log, blobs, build, funded, call, jobs, worker, faults>> /\ Onward
  BY DEF vars, Onward
<1>2. LogSound'
  BY <1>1, OnwardFacts DEF IInv
<1>3. StateTypes' /\ DocumentsSound' /\ AuthorityIsExact'
  BY <1>1, QuietDocuments DEF IInv, StateTypes
<1>4. (\A c \in Calls : CallSound(c)') /\ (\A w \in Workers : WorkerSound(w)')
  BY <1>1, CallStays, WorkerStays DEF IInv, RowStays
<1>5. ReversalsCounted'
  BY <1>1, QuietReversals DEF IInv, StateTypes, LogSound, Loads
<1>6. JobsSound'
  BY <1>1 DEF IInv, JobsSound, PendingHasJob, QuorumHasJob, View
<1>7. QED
  BY <1>2, <1>3, <1>4, <1>5, <1>6 DEF IInv

\* The invariant holds before the proposal.
LEMMA InitSound == Init => IInv
<1> SUFFICES ASSUME Init PROVE IInv
  OBVIOUS
<1>1. /\ log = <<>> /\ log \in Seq(LogEvent) /\ DOMAIN log = {} /\ Len(log) = 0
      /\ Bare(log) = <<>> /\ DOMAIN Bare(log) = {}
  <2>1. log = <<>> /\ log \in Seq(LogEvent) /\ DOMAIN log = {} /\ Len(log) = 0
    BY DEF Init
  <2>2. QED
    BY <2>1, BareStream
<1>2. LogSound
  <2>1. \A types : S!Indices(Bare(log), types) = {}
    BY <1>1 DEF S!Indices
  <2>2. S!TypeOK /\ S!StartsWithPolicy /\ S!AuditOrder /\ S!HydrationAccepts
    <3>1. Bare(log) \in Seq(S!Event)
      BY <1>1, BareStream
    <3>2. QED
      BY <1>1, <3>1 DEF S!TypeOK, S!StartsWithPolicy, S!AuditOrder, S!HydrationAccepts
  <2>3. /\ S!FoldsHaveNewest /\ S!ChainFollowsFinalization
        /\ S!ChainEventsAlternate /\ S!CancelIsFinalBeforeChain
    BY <1>1, <2>1 DEF S!FoldsHaveNewest, S!HasNewest, S!ChainFollowsFinalization,
         S!ChainEventsAlternate, S!CancelIsFinalBeforeChain
  <2>4. QED
    BY <1>1, <2>1, <2>2, <2>3 DEF LogSound, Loads, S!HasNewest, S!IInv
<1>3. \A types : S!Indices(log, types) = {}
  BY <1>1 DEF S!Indices
<1>4. StateTypes
  <2>1. call \in [Calls -> Steps] /\ worker \in [Workers -> Steps]
    BY IdleIsFree DEF Init
  <2>2. jobs \in [JobIds -> {"none", "queued", "running", "gone"}]
    BY DEF Init
  <2>3. faults \in 0..MaxFaults
    BY FaultAssumption DEF Init
  <2>4. QED
    BY <2>1, <2>2, <2>3 DEF Init, StateTypes, Outcomes
<1>5. DocumentsSound
  BY <1>1, <1>3 DEF DocumentsSound, ReferencedBlobsStored, S!Has
<1>6. AuthorityIsExact
  BY <1>3, SameFolds DEF AuthorityIsExact, S!Has
<1>7. \A c \in Calls : CallSound(c)
  BY <1>1 DEF Init, CallSound, Idle, JobIds
<1>8. \A w \in Workers : WorkerSound(w)
  BY DEF Init, WorkerSound
<1>9. ReversalsCounted
  <2>1. Cardinality({c \in Calls : call[c].step = "done" /\ call[c].kind = "Invalidated"}) \in Nat
    BY CallAssumption, FS_Subset, FS_CardinalityType
  <2>2. Cardinality(S!Indices(log, {"Invalidated"})) = 0
    BY <1>3, FS_EmptySet
  <2>3. QED
    BY <2>1, <2>2 DEF ReversalsCounted
<1>10. JobsSound
  BY DEF Init, JobsSound, PendingHasJob, QuorumHasJob
<1>11. QED
  BY <1>2, <1>4, <1>5, <1>6, <1>7, <1>8, <1>9, <1>10 DEF IInv

\* The inductive invariant holds of everything calls, jobs and crashes reach.
LEMMA InvariantHolds == Spec => []IInv
<1>1. IInv /\ [Next]_vars => IInv'
  BY NextStep, StutterKeeps
<1>2. QED
  BY <1>1, InitSound, PTL DEF Spec

\* The stream, the jobs, the calls and the workers have their types.
THEOREM TypeCorrect == Spec => []TypeOK
<1>1. ASSUME IInv PROVE TypeOK
  <2>1. /\ log \in Seq(LogEvent) /\ DOMAIN log = 1..Len(log)
        /\ \A i \in DOMAIN log : log[i] \in LogEvent
    BY <1>1 DEF IInv, LogSound, Loads
  <2>2. Session!TypeOK
    <3>1. Bare(log) \in Seq(S!Event)
      BY <2>1, BareStream
    <3>2. S!Event = Session!Event
      BY DEF S!Event, Session!Event
    <3>3. QED
      BY <3>1, <3>2 DEF Session!TypeOK, Bare
  <2>3. ASSUME NEW e \in LogEvent
        PROVE  /\ e.type \in {"PsbtCreated", "SignatureAdded", "Finalized"} <=> "hash" \in DOMAIN e
               /\ "hash" \in DOMAIN e => e.hash \in Hashes
    BY DEF LogEvent
  <2>4. QED
    BY <1>1, <2>1, <2>2, <2>3 DEF TypeOK, IInv, StateTypes
<1>2. QED
  BY <1>1, InvariantHolds, PTL

\* No event ever refers to a blob that was not stored before it was recorded.
THEOREM BlobsOutliveCrashes == Spec => []ReferencedBlobsStored
<1>1. IInv => ReferencedBlobsStored
  BY DEF IInv, DocumentsSound
<1>2. QED
  BY <1>1, InvariantHolds, PTL

\* Whatever workers are lost and jobs handed out twice, a session that can still
\* get its unsigned PSBT has a creation job.
THEOREM PendingIsDriven == Spec => []PendingHasJob
<1>1. IInv => PendingHasJob
  BY DEF IInv, JobsSound
<1>2. QED
  BY <1>1, InvariantHolds, PTL

\* A recorded quorum always has a finalization job no execution of which works on a
\* copy from before the quorum.
THEOREM QuorumIsDriven == Spec => []QuorumHasJob
<1>1. IInv => QuorumHasJob
  BY DEF IInv, JobsSound
<1>2. QED
  BY <1>1, InvariantHolds, PTL

\* With a quorum under the script's keys on every input the job never ends in
\* CannotFinalize: its blobs are there, their signatures satisfy the script and the
\* aggregate takes its answer.
THEOREM QuorumFinalizable == Spec => []UsableQuorumFinalizes
<1>1. ASSUME IInv PROVE UsableQuorumFinalizes
  <2> SUFFICES ASSUME log # <<>>, Session!Status(log) = "Collecting",
                      UsableQuorum(Len(Recorded(log)))
               PROVE  Assemblable(log) /\ Session!AcceptsFinalization(log, SigsUsed(log))
    BY DEF UsableQuorumFinalizes
  <2> DEFINE N == Cardinality(SignedAt(log))
             t == S!Policy(log).threshold
  <2>1. /\ LogSound /\ log \in Seq(LogEvent) /\ t \in Nat \ {0}
        /\ S!Has(log, "PsbtCreated") /\ ~S!Has(log, "Finalized")
        /\ S!Status(log) = "Collecting"
    BY <1>1, SameFolds, LogFacts DEF IInv, LogSound, Loads
  <2>2. SignaturesSound(log)
    BY <1>1, <2>1, LogSignatures DEF IInv
  <2>3. Len(Recorded(log)) = N /\ QuorumOf(Recorded(log), N, t)
    <3>1. Len(Recorded(log)) = N
      BY <2>1, <2>2, QuorumFinalizes
    <3>2. QED
      BY <3>1, SameFolds DEF UsableQuorum, UsableSigners, QuorumOf, SignersOf
  <2>4. Prefixes(log) # {}
    BY <2>1, <2>2, <2>3, QuorumFinalizes
  <2>5. ASSUME NEW i \in DOMAIN Recorded(log)
        PROVE  Recorded(log)[i].hash \in blobs
    <3>1. Nth(log, i) \in SignedAt(log) /\ Recorded(log)[i] = log[Nth(log, i)]
      BY <2>1, <2>5, RecordedInOrder
    <3>2. Nth(log, i) \in DOMAIN log /\ log[Nth(log, i)].type = "SignatureAdded"
      BY <3>1, SameFolds DEF SignedAt, S!Indices
    <3>3. log[Nth(log, i)] \in LogEvent
      BY <2>1, <3>2
    <3>4. "hash" \in DOMAIN log[Nth(log, i)]
      BY <3>2, <3>3 DEF LogEvent
    <3>5. QED
      BY <1>1, <3>1, <3>2, <3>4 DEF IInv, DocumentsSound, ReferencedBlobsStored
  <2>6. Assemblable(log)
    BY <1>1, <2>1, <2>4, <2>5 DEF Assemblable, BlobsPresent, IInv, DocumentsSound
  <2>7. S!AcceptsFinalization(log, SigsUsed(log))
    <3>1. ~S!AlreadyApplied(log, "Finalized", {})
      BY <2>1 DEF S!AlreadyApplied, S!Has
    <3>2. /\ Len(SigsUsed(log)) >= t /\ S!IsInjective(SigsUsed(log))
          /\ \A i \in DOMAIN SigsUsed(log) : S!Signed(log, SigsUsed(log)[i])
      BY <2>1, <2>2, <2>4, FinalizationFits
    <3>3. QED
      BY <2>1, <3>1, <3>2 DEF S!AcceptsFinalization
  <2>8. QED
    BY <2>6, <2>7, SameGuards
<1>2. QED
  BY <1>1, InvariantHolds, PTL

\* The recorded authority is the shortest recorded prefix with a quorum for each
\* input, and the stored transaction is signed on each input by as many keystores as
\* the script asks for, all of them among its usable signers.
THEOREM AuthorityExact == Spec => []AuthorityIsExact
<1>1. IInv => AuthorityIsExact
  BY DEF IInv
<1>2. QED
  BY <1>1, InvariantHolds, PTL

\* What a client was told was recorded is in the stream, whoever wrote to it since.
THEOREM AcknowledgedStays == Spec => []AcknowledgedIsRecorded
<1>1. IInv => AcknowledgedIsRecorded
  BY SameFolds DEF IInv, CallSound, AcknowledgedIsRecorded
<1>2. QED
  BY <1>1, InvariantHolds, PTL

\* What an event of a type holds.
LEMMA EventShape ==
  ASSUME NEW e \in S!Event
  PROVE  /\ e.type = "SignatureAdded" =>
               /\ e.fingerprint \in Keystores
               /\ e = [type |-> "SignatureAdded", fingerprint |-> e.fingerprint]
         /\ e.type = "Finalized" =>
               /\ e.txid = Tx
               /\ e = [type |-> "Finalized", txid |-> e.txid, used |-> e.used]
         /\ e.type \in {"BroadcastSeen", "Confirmed"} =>
               e.txid = Tx /\ e = [type |-> e.type, txid |-> e.txid]
         /\ e.type \in {"PsbtCreated", "Invalidated", "Cancelled"} => e = [type |-> e.type]
  BY DEF S!Event

\* A recorded event is a step of the aggregate.
LEMMA AddsIsStep ==
  ASSUME IInv, IInv', NEW e, Adds(e)
  PROVE  Session!Next
<1> DEFINE es == Bare(log)
           f == Plain(e)
<1>1. /\ log # <<>> /\ LogSound /\ Loads(log) /\ log \in Seq(LogEvent)
      /\ e \in LogEvent /\ log' = Append(log, e) /\ S!Allows(es, f)
  BY DEF Adds, IInv, LogSound, Loads
<1>2. f \in S!Event /\ es # <<>> /\ Bare(log)' = Append(es, f) /\ f.type = e.type
  BY <1>1, StreamAfter, BareEvent, BareStream DEF Bare
<1>3. /\ es = [i \in DOMAIN log |-> Plain(log[i])]
      /\ Append(es, f) = [i \in DOMAIN log |-> Plain(log[i])]'
  BY <1>2 DEF Bare
<1> HIDE DEF es, f
<1>4. CASE f.type = "PsbtCreated" /\ S!RecordsPsbt(es)
  <2>1. Session!RecordPsbtCreated
    BY <1>2, <1>3, <1>4, SameGuards, EventShape DEF Session!RecordPsbtCreated, Session!Push
  <2>2. QED
    BY <2>1 DEF Session!Next
<1>5. CASE f.type = "SignatureAdded" /\ S!AcceptsSignature(es, f.fingerprint)
  <2>1. f.fingerprint \in Keystores
    BY <1>2, <1>5, EventShape
  <2>2. Session!AddSignature(f.fingerprint)
    BY <1>2, <1>3, <1>5, SameGuards, EventShape DEF Session!AddSignature, Session!Push
  <2>3. QED
    BY <2>1, <2>2 DEF Session!Next
<1>6. CASE f.type = "Finalized" /\ \E list \in SigLists : /\ S!AcceptsFinalization(es, list)
                                                         /\ f.used = S!Used(list)
  <2>1. PICK list \in SigLists : S!AcceptsFinalization(es, list) /\ f.used = S!Used(list)
    BY <1>6
  <2>2. Session!AcceptsFinalization(es, list) /\ f.used = Session!Used(list)
    BY <2>1, SameGuards
  <2>3. f = [type |-> "Finalized", txid |-> Tx, used |-> Session!Used(list)]
    BY <1>2, <1>6, <2>2, EventShape
  <2>4. Session!Finalize(Tx, list)
    BY <1>2, <1>3, <2>2, <2>3 DEF Session!Finalize, Session!Push
  <2>5. QED
    BY <2>4 DEF Session!Next
<1>7. CASE f.type = "BroadcastSeen" /\ S!RecordsBroadcast(es, f.txid)
  <2>1. f.txid = Tx
    BY <1>2, <1>7, EventShape
  <2>2. Session!MarkBroadcastSeen(Tx)
    BY <1>2, <1>3, <1>7, <2>1, SameGuards, EventShape DEF Session!MarkBroadcastSeen, Session!Push
  <2>3. QED
    BY <2>2 DEF Session!Next
<1>8. CASE f.type = "Confirmed" /\ S!RecordsConfirmation(es, f.txid)
  <2>1. f.txid = Tx
    BY <1>2, <1>8, EventShape
  <2>2. Session!Confirm(Tx)
    BY <1>2, <1>3, <1>8, <2>1, SameGuards, EventShape DEF Session!Confirm, Session!Push
  <2>3. QED
    BY <2>2 DEF Session!Next
<1>9. CASE f.type = "Invalidated" /\ S!RecordsInvalidation(es)
  <2>1. Session!Cardinality(Session!Indices(es, {"Invalidated"})) < Cardinality(Calls)
    <3> DEFINE A == S!Indices(log, {"Invalidated"})
               B == S!Indices(log', {"Invalidated"})
               C == {c \in Calls : call'[c].step = "done" /\ call'[c].kind = "Invalidated"}
    <3>1. B = A \cup {Len(log) + 1}
      BY <1>1, <1>2, <1>9, StreamAfter
    <3>2. A \in SUBSET (1..Len(log)) /\ IsFiniteSet(A) /\ Cardinality(A) \in Nat
      BY <1>1, IndicesCount
    <3>3. Len(log) + 1 \notin A
      BY <1>1, <3>2
    <3>4. Cardinality(C) <= Cardinality(Calls) /\ Cardinality(C) \in Nat
             /\ Cardinality(Calls) \in Nat
      BY CallAssumption, FS_Subset, FS_CardinalityType
    <3>5. Cardinality(B) <= Cardinality(C)
      BY DEF IInv, ReversalsCounted
    <3> HIDE DEF A, B, C
    <3>6. Cardinality(B) = Cardinality(A) + 1
      BY <3>1, <3>2, <3>3, FS_AddElement
    <3>7. Cardinality(A) < Cardinality(Calls)
      BY <3>2, <3>4, <3>5, <3>6
    <3>8. Session!Indices(es, {"Invalidated"}) = A
      BY <1>1, SameFolds, BareFolds DEF es, A
    <3>9. QED
      BY <3>7, <3>8, SameLibrary
  <2>2. Session!Invalidate
    BY <1>2, <1>3, <1>9, <2>1, SameGuards, SameLibrary, EventShape
       DEF Session!Invalidate, Session!Push
  <2>3. QED
    BY <2>2 DEF Session!Next
<1>10. CASE f.type = "Cancelled" /\ S!AcceptsCancel(es)
  <2>1. Session!Cancel
    BY <1>2, <1>3, <1>10, SameGuards, EventShape DEF Session!Cancel, Session!Push
  <2>2. QED
    BY <2>1 DEF Session!Next
<1>11. QED
  BY <1>1, <1>4, <1>5, <1>6, <1>7, <1>8, <1>9, <1>10 DEF S!Allows

\* Concurrent calls and jobs, working on copies that go stale and losing to each
\* other, record only what the aggregate's commands record one after the other.
THEOREM CoordinationImplementsSession == Spec => ImplementsSession
<1>1. Init => Session!Init
  <2> SUFFICES ASSUME Init PROVE Session!Init
    OBVIOUS
  <2>1. log = <<>> /\ log \in Seq(LogEvent)
    BY DEF Init
  <2>2. Bare(log) = <<>>
    BY <2>1, BareStream
  <2>3. QED
    BY <2>2 DEF Session!Init, Bare
<1>2. ASSUME IInv, [Next]_vars PROVE [Session!Next]_(Session!vars)
  <2>1. CASE log' = log
    BY <2>1 DEF Session!vars
  <2>2. CASE \E p \in Policies, outcome \in Outcomes : Propose(p, outcome)
    <3>1. PICK p \in Policies, outcome \in Outcomes : Propose(p, outcome)
      BY <2>2
    <3> DEFINE e == [type |-> "Initialized", policy |-> p]
    <3>2. log = <<>> /\ log \in Seq(LogEvent) /\ log' = Append(log, e)
      BY <3>1 DEF Propose
    <3>3. e \in LogEvent /\ Plain(e) = e
      BY DEF LogEvent, Plain
    <3> HIDE DEF e
    <3>4. Bare(log) = <<>> /\ Bare(log') = Append(Bare(log), e)
      <4>1. Bare(Append(log, e)) = Append(Bare(log), Plain(e))
        BY <3>2, <3>3, BareOfAppend
      <4>2. QED
        BY <3>2, <3>3, <4>1, BareStream
    <3>5. Session!Propose(p)
      BY <3>4 DEF Session!Propose, Session!Push, Bare, e
    <3>6. QED
      BY <3>5 DEF Session!Next
  <2>3. CASE \E e \in LogEvent : Adds(e)
    <3>1. IInv'
      BY <1>2, NextStep, StutterKeeps
    <3>2. QED
      BY <1>2, <2>3, <3>1, AddsIsStep
  <2>4. QED
    BY <1>2, <2>1, <2>2, <2>3, NextStep DEF Onward, vars
<1>3. QED
  BY <1>1, <1>2, InvariantHolds, PTL DEF Spec, ImplementsSession, Session!Spec
=============================================================================
