---------------------------- MODULE WalletImport ----------------------------
(***************************************************************************)
(* Several wallets as the service drives them: calls that load a wallet,   *)
(* run a command on their copy and commit, against each other and against  *)
(* the UNIQUE index on descriptor fingerprints; the lookup that turns a    *)
(* failed activation into the answer "this wallet already exists"; and     *)
(* spend proposals, which copy a wallet's signing policy.                  *)
(*                                                                         *)
(* All wallets are on the service's network, so a descriptor and its       *)
(* fingerprint identify each other.                                        *)
(***************************************************************************)
EXTENDS Integers, Sequences, FiniteSets, Functions

CONSTANTS Wallets,         \* wallet ids
          \* see Wallet:
          Users, Keys, FingerprintOf, KeyOrder, Registrations, MaxMultisigKeys,
          MaxRemovals,     \* bound: keystores withdrawn and wallets cancelled
          Calls,           \* concurrent API calls
          CallKinds,       \* bound: the kinds of call clients make
          None

ASSUME WalletAssumption ==
    /\ IsFiniteSet(Wallets)
    /\ DOMAIN FingerprintOf = Keys
    /\ KeyOrder \in [Keys -> Nat] /\ IsInjective(KeyOrder)
    /\ \A r \in Registrations : r \in [threshold : Nat, participants : Seq(Users)]
    /\ MaxMultisigKeys \in Nat /\ MaxRemovals \in Nat
ASSUME KindAssumption == CallKinds \subseteq {"submit", "remove", "cancel", "propose"}

VARIABLES log,        \* the persisted event stream of each wallet
          call,       \* the API calls in flight
          sessions    \* the policy snapshots of the proposed spends: spends do not interact,
                      \* so one is followed

vars == <<log, call, sessions>>

W(w) == INSTANCE Wallet WITH events <- log[w]

Idle == [step |-> "idle", kind |-> None, wallet |-> None, user |-> None, key |-> None,
         seen |-> 0]
-----------------------------------------------------------------------------
(* The database.                                                           *)

\* The copy of its wallet that call c loaded.
Copy(c) == SubSeq(log[call[c].wallet], 1, call[c].seen)

\* Optimistic append: UNIQUE (id, sequence) on events.
Fresh(c) == Len(log[call[c].wallet]) = call[c].seen

ActiveWallets == {w \in Wallets : log[w] # <<>> /\ W(w)!Has(log[w], "Activated")}

\* Variant with a bug: the fingerprint leaves the threshold out.
HoldersOfKeys(d) == {w \in ActiveWallets : W(w)!Active(log[w]).keys = d.keys}

\* The rows whose descriptor_fingerprint is that of d.
Holders(d) == {w \in ActiveWallets : W(w)!Active(log[w]) = d}

\* update writes the index row and then the events: an activation whose fingerprint
\* another wallet has, or a copy that is out of date, violates a UNIQUE constraint.
UpdateFails(c, es) ==
    LET w == call[c].wallet
    IN  \/ W(w)!Has(es, "Activated") /\ Holders(W(w)!Active(es)) \ {w} # {}
        \/ ~Fresh(c)

\* Variant with a bug: the new events are appended to whatever is there now.
RecordUnchecked(c, es) ==
    /\ log' = [log EXCEPT ![call[c].wallet] = @ \o SubSeq(es, call[c].seen + 1, Len(es))]
    /\ call' = [call EXCEPT ![c] = Idle]

Record(c, es) == /\ ~UpdateFails(c, es)
                 /\ log' = [log EXCEPT ![call[c].wallet] = es]
                 /\ call' = [call EXCEPT ![c] = Idle]
-----------------------------------------------------------------------------
Init == /\ log = [w \in Wallets |-> <<>>]
        /\ call = [c \in Calls |-> Idle]
        /\ sessions = {}

\* register_wallet.
Register(w, r) == /\ log[w] = <<>>
                  /\ W(w)!ValidRegistration(r)
                  /\ log' = [log EXCEPT ![w] = <<W(w)!Registered(r)>>]
                  /\ UNCHANGED <<call, sessions>>

\* Variant with a bug: a wallet whose keystores suffice to sign may spend.
SpendableEarly(w, es) == Cardinality(W(w)!Submissions(es)) >= W(w)!Policy(es).threshold

Spendable(w, es) == W(w)!Status(es) = "Active"

\* MaxRemovals bounds removals and cancellations, of all wallets together.
Withdrawn(w) == {i \in DOMAIN log[w] : log[w][i].type \in {"KeystoreRemoved", "Cancelled"}}
WithdrawalsLeft == Cardinality(UNION {{w} \X Withdrawn(w) : w \in Wallets}) < MaxRemovals

\* The command runs on a copy of its wallet, es, and has something to record.
Executes(kind, w, es, u, k) ==
    \/ kind = "submit" /\ ~W(w)!AlreadySubmitted(es, k, u) /\ W(w)!AcceptsKeystore(es, k, u)
    \/ kind = "remove" /\ WithdrawalsLeft /\ W(w)!AcceptsRemoval(es, u)
    \/ kind = "cancel" /\ WithdrawalsLeft /\ W(w)!AcceptsCancel(es)
    \/ kind = "propose" /\ Spendable(w, es) /\ sessions = {}

\* A call up to its update: find_by_id, then the command on that copy.  A command
\* that is refused or already applied changes nothing: such a call is no step.
Load(c, kind, w, u, k) ==
    /\ call[c].step \in {"idle", "answered"}
    /\ kind \in CallKinds
    /\ log[w] # <<>>
    /\ Executes(kind, w, log[w], u, k)
    /\ call' = [call EXCEPT ![c] = [step |-> "loaded", kind |-> kind, wallet |-> w,
                                      user |-> u, key |-> k, seen |-> Len(log[w])]]
    /\ UNCHANGED <<log, sessions>>

Runs(c, kind) == call[c].step = "loaded" /\ call[c].kind = kind

\* The copy after add_keystore.
Submitted(c) == W(call[c].wallet)!WithKeystore(Copy(c), call[c].key, call[c].user)

\* submit_keystore's update.  It may fail for other reasons as well (UpdateFails says
\* when it must); the copy keeps the events it could not persist, and
\* resolve_fingerprint_collision sees them whatever the error was.
SubmitKeystore(c) == /\ Runs(c, "submit")
                     /\ \/ Record(c, Submitted(c))
                        \/ /\ call' = [call EXCEPT ![c].step = "failed"]
                           /\ UNCHANGED log
                     /\ UNCHANGED sessions

\* resolve_fingerprint_collision: the wallet that holds the fingerprint of the
\* copy's descriptor, if it is another wallet.
ResolveCollision(c) ==
    /\ call[c].step = "failed"
    /\ W(call[c].wallet)!Has(Submitted(c), "Activated")
    /\ \E existing \in Holders(W(call[c].wallet)!Active(Submitted(c))) \ {call[c].wallet} :
          call' = [call EXCEPT ![c] = [Idle EXCEPT !.step = "answered", !.wallet = existing]]
    /\ UNCHANGED <<log, sessions>>

RemoveKeystore(c) == /\ Runs(c, "remove")
                     /\ Record(c, Append(Copy(c), W(call[c].wallet)!Removal(Copy(c), call[c].user)))
                     /\ UNCHANGED sessions

CancelWallet(c) == /\ Runs(c, "cancel")
                   /\ Record(c, Append(Copy(c), [type |-> "Cancelled"]))
                   /\ UNCHANGED sessions

\* Variant with a bug: the snapshot lists keys, not fingerprints.
SnapshotOfKeys(w, es) == [wallet |-> w, threshold |-> W(w)!Policy(es).threshold,
                          keystores |-> {<<k>> : k \in W(w)!Keystores(es)}]

\* try_new's snapshot of the signing policy.
Snapshot(w, es) == [wallet |-> w, threshold |-> W(w)!Policy(es).threshold,
                    keystores |-> {FingerprintOf[k] : k \in W(w)!Keystores(es)}]

\* propose_spend: the session commits on its own; the wallet is not looked at
\* again.
ProposeSpend(c) == /\ Runs(c, "propose")
                   /\ sessions' = {Snapshot(call[c].wallet, Copy(c))}
                   /\ call' = [call EXCEPT ![c] = Idle]
                   /\ UNCHANGED log

\* The call answers an error, or its server dies.
EndCall(c) == /\ call[c].step \in {"loaded", "failed"}
              /\ call' = [call EXCEPT ![c] = Idle]
              /\ UNCHANGED <<log, sessions>>

Next == \/ \E w \in Wallets, r \in Registrations : Register(w, r)
        \/ \E c \in Calls, w \in Wallets, u \in Users, k \in Keys : Load(c, "submit", w, u, k)
        \/ \E c \in Calls, w \in Wallets, u \in Users : Load(c, "remove", w, u, None)
        \/ \E c \in Calls, w \in Wallets, kind \in {"cancel", "propose"} :
              Load(c, kind, w, None, None)
        \/ \E c \in Calls : SubmitKeystore(c)
        \/ \E c \in Calls : ResolveCollision(c)
        \/ \E c \in Calls : RemoveKeystore(c)
        \/ \E c \in Calls : CancelWallet(c)
        \/ \E c \in Calls : ProposeSpend(c)
        \/ \E c \in Calls : EndCall(c)

Spec == Init /\ [][Next]_vars
-----------------------------------------------------------------------------
(* Properties.                                                             *)

Snapshots == [wallet : Wallets, threshold : Nat, keystores : SUBSET {FingerprintOf[k] : k \in Keys}]

TypeOK == /\ DOMAIN log = Wallets /\ \A w \in Wallets : W(w)!TypeOK
          /\ call \in [Calls -> [step : {"idle", "loaded", "failed", "answered"},
                                 kind : CallKinds \cup {None}, wallet : Wallets \cup {None},
                                 user : Users \cup {None}, key : Keys \cup {None}, seen : Nat]]
          /\ sessions \subseteq Snapshots

\* However calls on one wallet interleave, its stream is one that commands run one
\* after the other produce: a submission on a copy that misses a removal, a
\* cancellation or another submission records nothing.
ImplementsWallets ==
    /\ \A w \in Wallets : W(w)!Init
    /\ [][\A w \in Wallets : W(w)!Next \/ UNCHANGED log[w]]_vars

\* "Importing the same wallet twice is an idempotent find": a threshold over a set of
\* keys belongs to one wallet, in whatever order they are submitted and however many
\* wallets collect them at the same time.
OneWalletPerPolicy ==
    \A v, w \in ActiveWallets :
      LET script == W(v)!Active(log[v])
          other  == W(w)!Active(log[w])
      IN  script.threshold = other.threshold /\ Range(script.keys) = Range(other.keys)
            => v = w

\* A submission answered with another wallet is answered with the wallet its own
\* would have become: active, the same threshold, and the keys of the copy and the
\* submitted one.  resolve_fingerprint_collision does not look at the update's error,
\* so this must hold after a stale copy as well, of a wallet that changed since.
AnswerMatchesImport ==
    [][\A c \in Calls : call[c].step = "failed" /\ call'[c].step = "answered" =>
          LET w == call[c].wallet
              existing == call'[c].wallet
          IN  /\ existing \in ActiveWallets \ {w}
              /\ W(existing)!Active(log[existing]).threshold = W(w)!Policy(Copy(c)).threshold
              /\ Range(W(existing)!Active(log[existing]).keys)
                    = W(w)!Keystores(Copy(c)) \cup {call[c].key}]_vars

\* A spend is proposed on a policy that stays that of its wallet's script: the
\* creation job always finds a descriptor ("a session should never exist for an
\* inactive wallet"), with the threshold and the fingerprints of the session, and
\* every participant is bound to one of them, a different one each.
ProposalsFitTheirWallet ==
    \A s \in sessions :
      LET es == log[s.wallet]
          script == W(s.wallet)!Active(es)
          people == W(s.wallet)!Policy(es).participants
      IN  /\ s.wallet \in ActiveWallets
          /\ W(s.wallet)!Submitters(es) = people
          /\ s.threshold = script.threshold
          /\ s.keystores = {FingerprintOf[k] : k \in Range(script.keys)}
          /\ s.keystores = {FingerprintOf[W(s.wallet)!KeystoreOf(es, u)] : u \in people}
          /\ Cardinality(s.keystores) = Cardinality(people)
=============================================================================
