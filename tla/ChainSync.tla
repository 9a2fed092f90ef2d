----------------------------- MODULE ChainSync -----------------------------
(***************************************************************************)
(* A finalized session following its transaction on the chain.  The chain  *)
(* moves the transaction between mempool, blocks and oblivion and publishes *)
(* one observation per move; a consumer feeds them, in order, to           *)
(* apply_chain_observation.  Delivery is at least once: the consumer may   *)
(* be sent back to any earlier observation (a restart, a catch-up sync)    *)
(* and then replays everything from there.                                 *)
(*                                                                         *)
(* The chain and the consumer are not part of the repository; they are     *)
(* modelled from the observations the code accepts and what it says of     *)
(* their delivery.                                                         *)
(***************************************************************************)
EXTENDS Integers, Sequences, FiniteSets

CONSTANTS Keystore,        \* the one keystore of the session's policy
          Tx,              \* its finalized transaction
          MaxObservations, \* bound: observations the chain publishes
          MaxRewinds,      \* bound: times the consumer is sent back
          None

ASSUME BoundAssumption == MaxObservations \in Nat /\ MaxRewinds \in Nat
ASSUME NoneAssumption == None # Tx

VARIABLES events,          \* the session's event stream
          chain,           \* where the transaction is
          feed,            \* observations published so far, in order
          cursor,          \* observations handled since the last rewind
          delivered,       \* observations handled at least once
          rewinds          \* times the consumer was sent back

vars == <<events, chain, feed, cursor, delivered, rewinds>>

Session == INSTANCE PsbtSession WITH
    Keystores <- {Keystore}, Txids <- {Tx}, SigLists <- {<<Keystore>>},
    Policies <- {[threshold |-> 1, keystores |-> {Keystore}]},
    MaxInvalidations <- MaxObservations

Observations == {"BroadcastSeen", "Confirmed", "Invalidated"}

\* A session in status Finalized: the transaction has a txid to look for.
FinalizedStream ==
    <<[type |-> "Initialized", policy |-> [threshold |-> 1, keystores |-> {Keystore}]],
      [type |-> "PsbtCreated"],
      [type |-> "SignatureAdded", fingerprint |-> Keystore],
      [type |-> "Finalized", txid |-> Tx, used |-> {Keystore}]>>

Init == /\ events = FinalizedStream
        /\ chain = "absent"
        /\ feed = <<>>
        /\ cursor = 0
        /\ delivered = 0
        /\ rewinds = 0
-----------------------------------------------------------------------------
(* The chain.                                                              *)

Publish(from, to, observation) ==
    /\ chain \in from
    /\ Len(feed) < MaxObservations
    /\ chain' = to
    /\ feed' = Append(feed, observation)
    /\ UNCHANGED <<events, cursor, delivered, rewinds>>

Relay == Publish({"absent"}, "mempool", "BroadcastSeen")

\* A block may hold a transaction that was never seen in the mempool.
Mine == Publish({"absent", "mempool"}, "block", "Confirmed")

\* Reorg, fee-bump replacement or mempool eviction: it may come back.
Drop == Publish({"block", "mempool"}, "absent", "Invalidated")

\* The inputs are spent by another transaction: it never comes back.
Conflict == Publish({"absent", "mempool"}, "dead", "Invalidated")
-----------------------------------------------------------------------------
(* The consumer.                                                           *)

\* Variant with a bug: whatever is observed is recorded as it is.
ApplyUnchecked(es, observation) == Append(es, [type |-> observation])

\* apply_chain_observation: the event to push, if the command accepts it; an
\* AlreadyApplied answer or an error leaves the stream as it is.
Apply(es, observation) ==
    CASE observation = "BroadcastSeen" /\ Session!RecordsBroadcast(es, Tx) ->
            Append(es, [type |-> "BroadcastSeen", txid |-> Tx])
      [] observation = "Confirmed" /\ Session!RecordsConfirmation(es, Tx) ->
            Append(es, [type |-> "Confirmed", txid |-> Tx])
      [] observation = "Invalidated" /\ Session!RecordsInvalidation(es) ->
            Append(es, [type |-> "Invalidated"])
      [] OTHER -> es

\* Variant with a bug: an observation that changes nothing is not acknowledged.
DeliverUntilRecorded == /\ cursor < Len(feed)
                        /\ events' = Apply(events, feed[cursor + 1])
                        /\ events' # events
                        /\ cursor' = cursor + 1
                        /\ delivered' = IF cursor = delivered THEN delivered + 1 ELSE delivered
                        /\ UNCHANGED <<chain, feed, rewinds>>

Deliver == /\ cursor < Len(feed)
           /\ events' = Apply(events, feed[cursor + 1])
           /\ cursor' = cursor + 1
           /\ delivered' = IF cursor = delivered THEN delivered + 1 ELSE delivered
           /\ UNCHANGED <<chain, feed, rewinds>>

\* The consumer restarts before it saved its position, or catches up from an
\* older one.
Rewind == /\ rewinds < MaxRewinds
          /\ rewinds' = rewinds + 1
          /\ \E position \in 0..(cursor - 1) : cursor' = position
          /\ UNCHANGED <<events, chain, feed, delivered>>

\* A user abandons the session; allowed while the chain has shown nothing.
Cancel == /\ Session!AcceptsCancel(events)
          /\ events' = Append(events, [type |-> "Cancelled"])
          /\ UNCHANGED <<chain, feed, cursor, delivered, rewinds>>

Next == Relay \/ Mine \/ Drop \/ Conflict \/ Deliver \/ Rewind \/ Cancel

Spec == Init /\ [][Next]_vars

\* The consumer keeps consuming; neither the chain nor the user owes anything.
FairSpec == Spec /\ WF_vars(Deliver)
-----------------------------------------------------------------------------
(* Properties.                                                             *)

CaughtUp == cursor = Len(feed)

TypeOK == /\ Session!TypeOK
          /\ chain \in {"absent", "mempool", "block", "dead"}
          /\ feed \in Seq(Observations)
          /\ delivered \in 0..Len(feed)
          /\ cursor \in 0..delivered
          /\ rewinds \in 0..MaxRewinds

\* A caught-up session reports Confirmed exactly when the transaction is in a
\* block, whatever was replayed on the way and whoever cancelled.
ConfirmedIsExact == CaughtUp => (Session!Status(events) = "Confirmed" <=> chain = "block")

\* Once the chain has recorded anything, only the chain moves the session, and
\* it never again reports Finalized or Cancelled.
ChainHasLastWord ==
    [][Session!Status(events) \in {"Broadcast", "Confirmed", "Invalidated"} =>
         Session!Status(events') \in {"Broadcast", "Confirmed", "Invalidated"}]_events

\* A transaction that settles in a block is eventually reported Confirmed for
\* good, however often the consumer was sent back before.
SettledGetsConfirmed ==
    <>[](chain = "block") => <>[](Session!Status(events) = "Confirmed")

\* "redelivery during catch-up sync is a no-op": handling an observation again
\* leaves the stream unchanged.
RedeliveryIsNoOp == [][Deliver /\ cursor < delivered => UNCHANGED events]_vars

\* "All entity transitions are idempotent (and reorg-safe via `resets_on`)": a
\* caught-up session reports Broadcast exactly when the transaction waits in the
\* mempool, also when it came back there or left it a second time.
MempoolIsReported == CaughtUp => (Session!Status(events) = "Broadcast" <=> chain = "mempool")
=============================================================================
