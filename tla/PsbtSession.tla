---------------------------- MODULE PsbtSession ----------------------------
(***************************************************************************)
(* The PsbtSession aggregate: an append-only event stream.  Every command  *)
(* scans the stream for its idempotency guard, derives what it needs by    *)
(* folding the stream, and pushes at most one event.  The commands are     *)
(* given as predicates on a stream, because callers run them on a copy     *)
(* they loaded earlier.  The blob hashes the events carry are opaque to    *)
(* the aggregate and left to Coordination.                                 *)
(***************************************************************************)
EXTENDS Integers, Sequences, FiniteSets, Functions

CONSTANTS Keystores,        \* key fingerprints
          Policies,         \* [threshold, keystores] snapshots of active wallets
          Txids,            \* transaction ids
          SigLists,         \* the sigs_used lists a caller may pass to finalize
          MaxInvalidations, \* bound: chain reversals recorded in one stream
          None              \* no value yet (used by the refinement mapping)

ASSUME PolicyAssumption ==
    \A p \in Policies : /\ p \in [threshold : Nat \ {0}, keystores : SUBSET Keystores]
                        /\ IsFiniteSet(p.keystores)
                        /\ p.threshold <= Cardinality(p.keystores)
ASSUME SigListAssumption == SigLists \subseteq Seq(Keystores)
ASSUME NoneAssumption == None \notin Txids
ASSUME BoundAssumption == MaxInvalidations \in Nat

VARIABLE events             \* the persisted stream; <<>> before the proposal

vars == <<events>>
-----------------------------------------------------------------------------
(* Events, and the folds over a stream es that hydrate the entity.         *)

Event == [type : {"Initialized"}, policy : Policies]
         \cup [type : {"SignatureAdded"}, fingerprint : Keystores]
         \cup [type : {"Finalized"}, txid : Txids, used : SUBSET Keystores]
         \cup [type : {"BroadcastSeen", "Confirmed"}, txid : Txids]
         \cup [type : {"PsbtCreated", "Invalidated", "Cancelled"}]

\* What each lifecycle event makes the session report.
Shows == [PsbtCreated |-> "Collecting", Finalized   |-> "Finalized",
          BroadcastSeen |-> "Broadcast", Confirmed  |-> "Confirmed",
          Invalidated |-> "Invalidated", Cancelled  |-> "Cancelled"]

Indices(es, types) == {i \in DOMAIN es : es[i].type \in types}

Has(es, type) == Indices(es, {type}) # {}

Newest(es, types) == CHOOSE i \in Indices(es, types) :
                        \A j \in Indices(es, types) : j <= i

\* status(): the newest lifecycle event decides; none of them yet is Pending.
Status(es) == IF Indices(es, DOMAIN Shows) = {} THEN "Pending"
              ELSE Shows[es[Newest(es, DOMAIN Shows)].type]

Policy(es) == es[1].policy

Signed(es, k) == \E i \in Indices(es, {"SignatureAdded"}) : es[i].fingerprint = k

Signers(es) == {es[i].fingerprint : i \in Indices(es, {"SignatureAdded"})}

ThresholdMet(es) ==
    Cardinality(Indices(es, {"SignatureAdded"})) >= Policy(es).threshold

Finalization(es) == es[Newest(es, {"Finalized"})]

\* idempotency_guard!: scanning from the newest event, a matching event means
\* "already applied" unless a resetting event is met first.
AlreadyApplied(es, type, resets) ==
    \E i \in Indices(es, {type}) : \A j \in (i + 1)..Len(es) : es[j].type \notin resets
-----------------------------------------------------------------------------
(* When a command run on stream es pushes its event.  Otherwise it answers *)
(* AlreadyApplied or an error and leaves the stream alone.                 *)

RecordsPsbt(es) == /\ ~AlreadyApplied(es, "PsbtCreated", {})
                   /\ Status(es) = "Pending"

\* Variant with a bug: signatures are taken in any state.
AcceptsSignatureAnytime(es, k) == ~Signed(es, k) /\ k \in Policy(es).keystores

AcceptsSignature(es, k) == /\ ~Signed(es, k)
                           /\ Status(es) = "Collecting"
                           /\ k \in Policy(es).keystores

\* Variant with a bug: positions are recorded in place of fingerprints.
UsedPositions(list) == DOMAIN list

Used(list) == Range(list)

\* Variant with a bug: a signer listed twice counts twice.
AcceptsRepeatedSigner(es, list) == /\ ~AlreadyApplied(es, "Finalized", {})
                                   /\ Status(es) = "Collecting"
                                   /\ Len(list) >= Policy(es).threshold
                                   /\ \A i \in DOMAIN list : Signed(es, list[i])

AcceptsFinalization(es, list) == /\ ~AlreadyApplied(es, "Finalized", {})
                                 /\ Status(es) = "Collecting"
                                 /\ Len(list) >= Policy(es).threshold
                                 /\ IsInjective(list)
                                 /\ \A i \in DOMAIN list : Signed(es, list[i])

\* Chain events must name the finalized transaction.
Names(es, tx) == Has(es, "Finalized") /\ Finalization(es).txid = tx

\* Variant with a bug: a late mempool sighting hides the confirmation.
RecordsLateBroadcast(es, tx) == Names(es, tx) /\ ~AlreadyApplied(es, "BroadcastSeen", {})

RecordsBroadcast(es, tx) == /\ Names(es, tx)
                            /\ ~AlreadyApplied(es, "BroadcastSeen", {})
                            /\ Status(es) # "Confirmed"

\* Variants with a bug: no idempotency guard, and one that no reversal resets.
RecordsEveryConfirmation(es, tx) == Names(es, tx)
RecordsFirstConfirmation(es, tx) == Names(es, tx) /\ ~AlreadyApplied(es, "Confirmed", {})

RecordsConfirmation(es, tx) == /\ Names(es, tx)
                               /\ ~AlreadyApplied(es, "Confirmed", {"Invalidated"})

RecordsInvalidation(es) == /\ ~AlreadyApplied(es, "Invalidated", {"Confirmed"})
                           /\ Status(es) \in {"Broadcast", "Confirmed"}

\* Variant with a bug: everything short of Confirmed can be cancelled.
AcceptsLateCancel(es) == ~AlreadyApplied(es, "Cancelled", {}) /\ Status(es) # "Confirmed"

AcceptsCancel(es) == /\ ~AlreadyApplied(es, "Cancelled", {})
                     /\ Status(es) \in {"Pending", "Collecting", "Finalized"}
-----------------------------------------------------------------------------
Init == events = <<>>

Push(event) == events' = Append(events, event)

\* A valid proposal against an active wallet snapshots the wallet's policy.
Propose(p) == events = <<>> /\ Push([type |-> "Initialized", policy |-> p])

RecordPsbtCreated == /\ events # <<>>
                     /\ RecordsPsbt(events)
                     /\ Push([type |-> "PsbtCreated"])

AddSignature(k) == /\ events # <<>>
                   /\ AcceptsSignature(events, k)
                   /\ Push([type |-> "SignatureAdded", fingerprint |-> k])

Finalize(tx, list) ==
    /\ events # <<>>
    /\ AcceptsFinalization(events, list)
    /\ Push([type |-> "Finalized", txid |-> tx, used |-> Used(list)])

MarkBroadcastSeen(tx) == /\ events # <<>>
                         /\ RecordsBroadcast(events, tx)
                         /\ Push([type |-> "BroadcastSeen", txid |-> tx])

Confirm(tx) == /\ events # <<>>
               /\ RecordsConfirmation(events, tx)
               /\ Push([type |-> "Confirmed", txid |-> tx])

Invalidate == /\ events # <<>>
              /\ Cardinality(Indices(events, {"Invalidated"})) < MaxInvalidations
              /\ RecordsInvalidation(events)
              /\ Push([type |-> "Invalidated"])

Cancel == /\ events # <<>>
          /\ AcceptsCancel(events)
          /\ Push([type |-> "Cancelled"])

Next == \/ \E p \in Policies : Propose(p)
        \/ RecordPsbtCreated
        \/ \E k \in Keystores : AddSignature(k)
        \/ \E tx \in Txids, list \in SigLists : Finalize(tx, list)
        \/ \E tx \in Txids : MarkBroadcastSeen(tx)
        \/ \E tx \in Txids : Confirm(tx)
        \/ Invalidate
        \/ Cancel

Spec == Init /\ [][Next]_vars
-----------------------------------------------------------------------------
(* Properties.                                                             *)

\* The stream holds well-formed events.
TypeOK == events \in Seq(Event)

\* No command can persist a stream that verify_hydrated_invariants refuses at
\* the next load: that session would be unreadable for ever.
HydrationAccepts ==
    events # <<>> =>
      LET policy     == Policy(events)
          signatures == Indices(events, {"SignatureAdded"})
      IN  /\ policy.threshold \in 1..Cardinality(policy.keystores)
          /\ \A i \in signatures : events[i].fingerprint \in policy.keystores
          /\ \A i, j \in signatures :
                events[i].fingerprint = events[j].fingerprint => i = j
          /\ Has(events, "Finalized") =>
                /\ Cardinality(Finalization(events).used) >= policy.threshold
                /\ Finalization(events).used \subseteq Signers(events)

\* The audit trail is in causal order: signatures were recorded after the
\* unsigned PSBT they sign and before the decision that closed collection, and
\* everything in sigs_used was collected before the finalization that names it.
AuditOrder ==
    \A i, j \in DOMAIN events : i < j =>
      /\ events[i].type = "SignatureAdded" => events[j].type # "PsbtCreated"
      /\ events[i].type \in {"Finalized", "Cancelled"} =>
            events[j].type \notin {"PsbtCreated", "SignatureAdded", "Finalized"}
      /\ events[j].type \in {"SignatureAdded", "Finalized"} =>
            \E m \in 1..(j - 1) : events[m].type = "PsbtCreated"

\* A cancellation is never recorded after the chain has shown the transaction,
\* and a session cancelled before it was finalized records nothing more.
CancelIsFinalBeforeChain ==
    \A i \in Indices(events, {"Cancelled"}) :
      /\ \A j \in 1..(i - 1) :
            events[j].type \notin {"BroadcastSeen", "Confirmed", "Invalidated"}
      /\ Has(events, "Finalized") \/ i = Len(events)

\* Confirmations and invalidations alternate: a redelivered observation never
\* records a second confirmation of one epoch, nor a second reversal of it, and
\* every chain event names the transaction the quorum authorised.
ChainEventsAlternate ==
    /\ \A i, j \in DOMAIN events :
         /\ i < j
         /\ events[i].type = events[j].type
         /\ events[i].type \in {"Confirmed", "Invalidated"}
         => \E m \in (i + 1)..(j - 1) :
              events[m].type \in {"Confirmed", "Invalidated"} \ {events[i].type}
    /\ \A i \in Indices(events, {"BroadcastSeen", "Confirmed"}) :
         \E j \in 1..(i - 1) : /\ events[j].type = "Finalized"
                               /\ events[j].txid = events[i].txid

\* The stream, folded by status() and the accessors, behaves as the session's
\* promise: the backward scans and guards implement the state machine.
Lifecycle == INSTANCE SpendLifecycle WITH
    status    <- IF events = <<>> THEN "Unproposed" ELSE Status(events),
    policy    <- IF events = <<>> THEN None ELSE Policy(events),
    signers   <- Signers(events),
    authority <- IF Has(events, "Finalized") THEN Finalization(events).used ELSE {},
    spend     <- IF Has(events, "Finalized") THEN Finalization(events).txid ELSE None

ImplementsLifecycle == Lifecycle!Spec
=============================================================================
