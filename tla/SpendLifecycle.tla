--------------------------- MODULE SpendLifecycle ---------------------------
(***************************************************************************)
(* What a signing session promises, without its event stream: a spend is   *)
(* proposed under a t-of-n policy, signed by members of the policy,        *)
(* authorised once by a quorum of the collected signatures, abandoned only *)
(* while the chain has not shown it, and from then on moved by the chain   *)
(* alone.  PsbtSession is shown to implement this module.                  *)
(***************************************************************************)
EXTENDS Integers, FiniteSets

CONSTANTS Keystores,   \* key fingerprints
          Policies,    \* signing policies [threshold, keystores] of the wallets
          Txids,       \* transaction ids
          None         \* no policy yet, no transaction yet

VARIABLES status,      \* what PsbtSession::status() reports
          policy,      \* the policy snapshot taken by the proposal
          signers,     \* keystores whose signature was collected
          authority,   \* the signatures that authorised the spend
          spend        \* the txid of the authorised transaction

vars == <<status, policy, signers, authority, spend>>

-----------------------------------------------------------------------------
Init == /\ status = "Unproposed"
        /\ policy = None
        /\ signers = {}
        /\ authority = {}
        /\ spend = None

Propose(p) == /\ status = "Unproposed"
              /\ status' = "Pending"
              /\ policy' = p
              /\ UNCHANGED <<signers, authority, spend>>

AttachPsbt == /\ status = "Pending"
              /\ status' = "Collecting"
              /\ UNCHANGED <<policy, signers, authority, spend>>

Sign(k) == /\ status = "Collecting"
           /\ k \in policy.keystores \ signers
           /\ signers' = signers \cup {k}
           /\ UNCHANGED <<status, policy, authority, spend>>

Authorize(tx, quorum) == /\ status = "Collecting"
                         /\ quorum \subseteq signers
                         /\ Cardinality(quorum) >= policy.threshold
                         /\ status' = "Finalized"
                         /\ authority' = quorum
                         /\ spend' = tx
                         /\ UNCHANGED <<policy, signers>>

Abandon == /\ status \in {"Pending", "Collecting", "Finalized"}
           /\ status' = "Cancelled"
           /\ UNCHANGED <<policy, signers, authority, spend>>

\* A chain event names the authorised transaction: there is none to name
\* before a quorum authorised it.
SeeInMempool == /\ spend # None
                /\ status \in {"Finalized", "Cancelled", "Invalidated"}
                /\ status' = "Broadcast"
                /\ UNCHANGED <<policy, signers, authority, spend>>

SeeInBlock == /\ spend # None
              /\ status \in {"Finalized", "Cancelled", "Broadcast", "Invalidated"}
              /\ status' = "Confirmed"
              /\ UNCHANGED <<policy, signers, authority, spend>>

SeeReversal == /\ status \in {"Broadcast", "Confirmed"}
               /\ status' = "Invalidated"
               /\ UNCHANGED <<policy, signers, authority, spend>>

Next == \/ \E p \in Policies : Propose(p)
        \/ AttachPsbt
        \/ \E k \in Keystores : Sign(k)
        \/ \E tx \in Txids, quorum \in SUBSET Keystores : Authorize(tx, quorum)
        \/ Abandon
        \/ SeeInMempool
        \/ SeeInBlock
        \/ SeeReversal

Spec == Init /\ [][Next]_vars
=============================================================================
