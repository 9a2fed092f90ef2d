--------------------------- MODULE WalletImportProofs ---------------------------
(***************************************************************************)
(* Machine-checked proofs about WalletImport, for every set of wallets,    *)
(* calls, users and keystores: each wallet's stream is a behaviour of      *)
(* Wallet however the calls interleave, a policy belongs to one wallet,    *)
(* and a proposed spend fits its wallet's script.                          *)
(***************************************************************************)
EXTENDS WalletImport, TLAPS, FiniteSetTheorems, SequenceTheorems

\* The lemmas about streams.  Those cited do not mention the variable.
P == INSTANCE WalletProofs WITH events <- <<>>

-----------------------------------------------------------------------------
(* W(w), for any w, and P fold a stream alike.                             *)

\* Each instance has library operators of its own, which agree.
LEMMA SameLibrary ==
  ASSUME NEW w, NEW S
  PROVE  /\ W(w)!Cardinality(S) = Cardinality(S) /\ P!Cardinality(S) = Cardinality(S)
         /\ W(w)!IsFiniteSet(S) <=> IsFiniteSet(S)
         /\ P!IsFiniteSet(S) <=> IsFiniteSet(S)
         /\ W(w)!Range(S) = Range(S) /\ P!Range(S) = Range(S)
<1>1. W(w)!Cardinality(S) = Cardinality(S)
  BY DEF Cardinality, W!Cardinality
<1>2. P!Cardinality(S) = Cardinality(S)
  BY DEF Cardinality, P!Cardinality
<1>3. W(w)!IsFiniteSet(S) <=> IsFiniteSet(S)
  BY DEF IsFiniteSet, W!IsFiniteSet
<1>4. P!IsFiniteSet(S) <=> IsFiniteSet(S)
  BY DEF IsFiniteSet, P!IsFiniteSet
<1>5. W(w)!Range(S) = Range(S) /\ P!Range(S) = Range(S)
  BY DEF Range, P!Range, W!Range
<1>6. QED
  BY <1>1, <1>2, <1>3, <1>4, <1>5

\* What P assumes of the constants holds of WalletImport's.
LEMMA PAssumes ==
  /\ DOMAIN FingerprintOf = Keys
  /\ KeyOrder \in [Keys -> Nat] /\ P!IsInjective(KeyOrder)
  /\ \A r \in Registrations : r \in [threshold : Nat, participants : Seq(Users)]
  /\ MaxMultisigKeys \in Nat /\ MaxRemovals \in Nat
  BY WalletAssumption DEF IsInjective, P!IsInjective

\* The types of a stream, and the folds over it.
LEMMA SameFolds ==
  ASSUME NEW w, NEW es
  PROVE  /\ W(w)!Event = P!Event
         /\ W(w)!Policy(es) = P!Policy(es)
         /\ \A type : W(w)!Has(es, type) <=> P!Has(es, type)
         /\ W(w)!Status(es) = P!Status(es)
         /\ W(w)!Submissions(es) = P!Submissions(es)
         /\ W(w)!Submitters(es) = P!Submitters(es)
         /\ W(w)!Keystores(es) = P!Keystores(es)
         /\ W(w)!DescriptorOf(es) = P!DescriptorOf(es)
         /\ W(w)!Active(es) = P!Active(es)
<1>1. W(w)!Policies = P!Policies
  BY DEF W!Policies, P!Policies, W!ValidRegistration, P!ValidRegistration,
         W!IsInjective, P!IsInjective, W!Range, P!Range
<1>2. W(w)!Event = P!Event
  BY <1>1 DEF W!Event, P!Event, W!Descriptors, P!Descriptors
<1>3. /\ W(w)!Policy(es) = P!Policy(es)
      /\ \A type : W(w)!Has(es, type) <=> P!Has(es, type)
      /\ W(w)!Status(es) = P!Status(es)
      /\ W(w)!Active(es) = P!Active(es)
  BY DEF W!Policy, P!Policy, W!Has, P!Has, W!Status, P!Status, W!Active, P!Active
<1>4. W(w)!Submissions(es) = P!Submissions(es)
  BY DEF W!Submissions, P!Submissions
<1>5. /\ W(w)!Submitters(es) = P!Submitters(es)
      /\ W(w)!Keystores(es) = P!Keystores(es)
  BY <1>4 DEF W!Submitters, P!Submitters, W!Keystores, P!Keystores
<1>6. ASSUME NEW keys
      PROVE  W(w)!Sorted(keys) = P!Sorted(keys)
  <2>1. \A k : W(w)!Cardinality(W(w)!Preceding(keys, k)) = P!Cardinality(P!Preceding(keys, k))
    BY SameLibrary DEF W!Preceding, P!Preceding
  <2>2. W(w)!Cardinality(keys) = P!Cardinality(keys)
    BY SameLibrary
  <2>3. ASSUME NEW n
        PROVE  (CHOOSE k \in keys : W(w)!Cardinality(W(w)!Preceding(keys, k)) = n - 1)
                  = (CHOOSE k \in keys : P!Cardinality(P!Preceding(keys, k)) = n - 1)
    BY <2>1
  <2>4. QED
    BY <2>2, <2>3 DEF W!Sorted, P!Sorted
<1>7. W(w)!DescriptorOf(es) = P!DescriptorOf(es)
  BY <1>3, <1>5, <1>6 DEF W!DescriptorOf, P!DescriptorOf
<1>8. QED
  BY <1>2, <1>3, <1>4, <1>5, <1>7

\* The commands.
LEMMA SameCommands ==
  ASSUME NEW w, NEW es, NEW k, NEW u, NEW r
  PROVE  /\ W(w)!ValidRegistration(r) <=> P!ValidRegistration(r)
         /\ W(w)!Registered(r) = P!Registered(r)
         /\ W(w)!KeystoreOf(es, u) = P!KeystoreOf(es, u)
         /\ W(w)!AcceptsKeystore(es, k, u) <=> P!AcceptsKeystore(es, k, u)
         /\ W(w)!WithKeystore(es, k, u) = P!WithKeystore(es, k, u)
         /\ W(w)!AcceptsRemoval(es, u) <=> P!AcceptsRemoval(es, u)
         /\ W(w)!Removal(es, u) = P!Removal(es, u)
         /\ W(w)!AcceptsCancel(es) <=> P!AcceptsCancel(es)
<1>1. /\ W(w)!ValidRegistration(r) <=> P!ValidRegistration(r)
      /\ W(w)!Registered(r) = P!Registered(r)
  BY DEF W!ValidRegistration, P!ValidRegistration, W!Registered, P!Registered,
         W!IsInjective, P!IsInjective, W!Range, P!Range
<1>2. W(w)!KeystoreOf(es, u) = P!KeystoreOf(es, u)
  BY SameFolds DEF W!KeystoreOf, P!KeystoreOf
<1>3. W(w)!Completes(es) <=> P!Completes(es)
  BY SameFolds, SameLibrary DEF W!Completes, P!Completes
<1>4. W(w)!AcceptsKeystore(es, k, u) <=> P!AcceptsKeystore(es, k, u)
  BY <1>3, SameFolds, SameLibrary DEF W!AcceptsKeystore, P!AcceptsKeystore
<1>5. W(w)!WithKeystore(es, k, u) = P!WithKeystore(es, k, u)
  BY <1>3, SameFolds DEF W!WithKeystore, P!WithKeystore
<1>6. /\ W(w)!AcceptsRemoval(es, u) <=> P!AcceptsRemoval(es, u)
      /\ W(w)!Removal(es, u) = P!Removal(es, u)
      /\ W(w)!AcceptsCancel(es) <=> P!AcceptsCancel(es)
  BY <1>2, SameFolds DEF W!AcceptsRemoval, P!AcceptsRemoval, W!Removal, P!Removal,
                         W!AcceptsCancel, P!AcceptsCancel
<1>7. QED
  BY <1>1, <1>2, <1>4, <1>5, <1>6
-----------------------------------------------------------------------------
(* Streams only grow, and copies are prefixes of them.                     *)

\* new is es with more events at the end.
Extends(new, es) == /\ new \in Seq(P!Event) /\ es \in Seq(P!Event)
                    /\ Len(es) <= Len(new)
                    /\ \A i \in 1..Len(es) : new[i] = es[i]

\* The first n events of a stream are a stream, and stay the same when it grows.
LEMMA PrefixStays ==
  ASSUME NEW es, NEW new, Extends(new, es), NEW n \in 1..Len(es)
  PROVE  /\ SubSeq(es, 1, n) \in Seq(P!Event) /\ SubSeq(es, 1, n) # <<>>
         /\ Extends(es, SubSeq(es, 1, n))
         /\ SubSeq(new, 1, n) = SubSeq(es, 1, n)
<1>1. /\ es \in Seq(P!Event) /\ new \in Seq(P!Event)
      /\ Len(es) \in Nat /\ Len(new) \in Nat /\ n \in 1..Len(new)
      /\ \A i \in 1..Len(es) : es[i] \in P!Event
  BY DEF Extends
<1>2. /\ SubSeq(es, 1, n) = [i \in 1..n |-> es[i]]
      /\ SubSeq(new, 1, n) = [i \in 1..n |-> new[i]]
  BY <1>1
<1>3. \A i \in 1..n : new[i] = es[i] /\ es[i] \in P!Event
  BY <1>1 DEF Extends
<1>4. SubSeq(es, 1, n) \in Seq(P!Event) /\ Len(SubSeq(es, 1, n)) = n /\ SubSeq(es, 1, n) # <<>>
  BY <1>1
<1>5. QED
  BY <1>1, <1>2, <1>3, <1>4 DEF Extends

\* Every command extends its copy.
LEMMA CommandsExtend ==
  ASSUME NEW es \in Seq(P!Event)
  PROVE  /\ \A e \in P!Event : Extends(Append(es, e), es)
         /\ \A d, e \in P!Event : Extends(Append(Append(es, d), e), es)
  BY DEF Extends

\* An activation or a cancellation can only be the last event of a sound stream.
LEMMA FinalIsLast ==
  ASSUME NEW es, NEW new, P!Sound(new), P!Sound(es), es # <<>>, Extends(new, es),
         P!Has(es, "Activated")
  PROVE  new = es
<1>1. es \in Seq(P!Event) /\ new \in Seq(P!Event) /\ P!StreamShape(new)
      /\ DOMAIN es = 1..Len(es) /\ DOMAIN new = 1..Len(new)
      /\ Len(es) \in Nat /\ Len(new) \in Nat
      /\ Len(es) <= Len(new) /\ \A i \in 1..Len(es) : new[i] = es[i]
  BY DEF P!Sound, Extends
<1>2. PICK i \in 1..Len(es) : es[i].type = "Activated"
  BY <1>1 DEF P!Has
<1>3. i \in DOMAIN new /\ new[i].type = "Activated"
  BY <1>1, <1>2
<1>4. i = Len(new)
  BY <1>1, <1>3 DEF P!StreamShape, P!FinalTypes
<1>5. Len(es) \in Nat /\ Len(new) \in Nat /\ Len(es) <= Len(new) /\ i \in 1..Len(es)
  BY <1>1, <1>2
<1>6. Len(new) = Len(es)
  BY <1>4, <1>5
<1>7. QED
  BY <1>1, <1>6
-----------------------------------------------------------------------------
(* The inductive invariant.                                                *)

\* What a call in flight knows: its copy is a prefix of its wallet's stream that
\* commands produced, and its command was accepted on it.
CallSound(c) ==
    call[c].step \in {"loaded", "failed"} =>
      /\ call[c].wallet \in Wallets
      /\ call[c].seen \in 1..Len(log[call[c].wallet])
      /\ P!Sound(Copy(c))
      /\ call[c].kind \in {"submit", "remove", "cancel", "propose"}
      /\ call[c].step = "failed" => call[c].kind = "submit"
      /\ call[c].kind = "submit" =>
            /\ call[c].key \in Keys /\ call[c].user \in Users
            /\ P!AcceptsKeystore(Copy(c), call[c].key, call[c].user)
      /\ call[c].kind = "remove" =>
            /\ call[c].user \in Users
            /\ P!AcceptsRemoval(Copy(c), call[c].user) /\ P!RemovalsLeft(Copy(c))
      /\ call[c].kind = "cancel" => P!AcceptsCancel(Copy(c))
      /\ call[c].kind = "propose" => P!Status(Copy(c)) = "Active"

\* try_new's snapshot, by the stream alone.
SnapshotOf(w, es) == [wallet |-> w, threshold |-> P!Policy(es).threshold,
                      keystores |-> {FingerprintOf[k] : k \in P!Keystores(es)}]

\* A proposed spend is the snapshot of a wallet that is active for good.
SessionSound(s) ==
    /\ s.wallet \in Wallets
    /\ log[s.wallet] # <<>> /\ P!Has(log[s.wallet], "Activated")
    /\ s = SnapshotOf(s.wallet, log[s.wallet])

CallType == [step : {"idle", "loaded", "failed", "answered"},
             kind : CallKinds \cup {None}, wallet : Wallets \cup {None},
             user : Users \cup {None}, key : Keys \cup {None}, seen : Nat]

IInv ==
    /\ log \in [Wallets -> Seq(P!Event)]
    /\ call \in [Calls -> CallType]
    /\ \A w \in Wallets : P!Sound(log[w])
    /\ \A c \in Calls : CallSound(c)
    /\ \A s \in sessions : SessionSound(s)
    /\ \A v, w \in ActiveWallets : P!Active(log[v]) = P!Active(log[w]) => v = w

\* The active wallets, by the streams alone.
LEMMA ActiveWallet ==
  ASSUME NEW w
  PROVE  w \in ActiveWallets <=> w \in Wallets /\ log[w] # <<>> /\ P!Has(log[w], "Activated")
  BY SameFolds DEF ActiveWallets

\* A copy no event was recorded after is the wallet's stream.
LEMMA FreshCopy ==
  ASSUME IInv, NEW c \in Calls, call[c].step \in {"loaded", "failed"}
  PROVE  /\ Copy(c) # <<>>
         /\ Extends(log[call[c].wallet], Copy(c))
         /\ Fresh(c) => Copy(c) = log[call[c].wallet]
<1>1. /\ call[c].wallet \in Wallets /\ call[c].seen \in 1..Len(log[call[c].wallet])
      /\ log[call[c].wallet] \in Seq(P!Event)
  BY DEF IInv, CallSound
<1>2. Extends(log[call[c].wallet], log[call[c].wallet])
  BY <1>1 DEF Extends
<1>3. Copy(c) # <<>> /\ Extends(log[call[c].wallet], Copy(c))
  BY <1>1, <1>2, PrefixStays DEF Copy
<1>4. Fresh(c) => Copy(c) = log[call[c].wallet]
  BY <1>1 DEF Fresh, Copy
<1>5. QED
  BY <1>3, <1>4
-----------------------------------------------------------------------------
(* The steps.                                                              *)

\* A call sees no event recorded after its copy was loaded.
LEMMA CallKeeps ==
  ASSUME NEW c \in Calls, CallSound(c),
         call[c].step \in {"loaded", "failed"} =>
            Extends(log'[call[c].wallet], log[call[c].wallet]),
         call'[c] = call[c]
  PROVE  CallSound(c)'
<1> SUFFICES ASSUME call[c].step \in {"loaded", "failed"} PROVE CallSound(c)'
  BY DEF CallSound
<1>1. call[c].seen \in 1..Len(log[call[c].wallet]) /\ call[c].wallet \in Wallets
  BY DEF CallSound
<1>2. SubSeq(log'[call[c].wallet], 1, call[c].seen) = SubSeq(log[call[c].wallet], 1, call[c].seen)
  BY <1>1, PrefixStays
<1>3. Copy(c)' = Copy(c)
  BY <1>2 DEF Copy
<1>4. call[c].seen \in 1..Len(log'[call[c].wallet])
  BY <1>1 DEF Extends
<1>5. QED
  BY <1>1, <1>3, <1>4 DEF CallSound

\* An update on a copy nothing was recorded after keeps every wallet, call and
\* proposed spend sound.
LEMMA RecordStep ==
  ASSUME IInv, NEW c \in Calls, call[c].step = "loaded", NEW new, Record(c, new),
         UNCHANGED sessions, P!Sound(new), new # <<>>, Extends(new, Copy(c)),
         ~P!Has(Copy(c), "Activated")
  PROVE  IInv'
<1> DEFINE w == call[c].wallet
<1>1. /\ w \in Wallets /\ Copy(c) = log[w] /\ Copy(c) # <<>>
      /\ log' = [log EXCEPT ![w] = new]
      /\ call' = [call EXCEPT ![c] = Idle]
      /\ ~(W(w)!Has(new, "Activated") /\ Holders(W(w)!Active(new)) \ {w} # {})
  BY FreshCopy DEF Record, UpdateFails, IInv, CallSound
<1>2. /\ log'[w] = new /\ \A v \in Wallets \ {w} : log'[v] = log[v]
      /\ log' \in [Wallets -> Seq(P!Event)]
  BY <1>1 DEF IInv, P!Sound
<1>3. \A v \in Wallets : P!Sound(log'[v])
  BY <1>2 DEF IInv
<1>4. call' \in [Calls -> CallType]
  BY <1>1 DEF IInv, Idle, CallType
<1>5. \A d \in Calls : CallSound(d)'
  <2> TAKE d \in Calls
  <2>1. CASE d = c
    BY <1>1, <2>1 DEF CallSound, Idle, IInv
  <2>2. CASE d # c
    <3>1. call'[d] = call[d] /\ CallSound(d)
      BY <1>1, <2>2 DEF IInv
    <3>2. ASSUME call[d].step \in {"loaded", "failed"}
          PROVE  Extends(log'[call[d].wallet], log[call[d].wallet])
      <4>1. call[d].wallet \in Wallets
        BY <3>1, <3>2 DEF CallSound
      <4>2. Extends(log[call[d].wallet], log[call[d].wallet])
        BY <4>1 DEF IInv, Extends
      <4>3. QED
        BY <1>1, <1>2, <4>1, <4>2
    <3>3. QED
      BY <3>1, <3>2, CallKeeps
  <2>3. QED
    BY <2>1, <2>2
<1>6. \A s \in sessions' : SessionSound(s)'
  <2> SUFFICES ASSUME NEW s \in sessions PROVE SessionSound(s)'
    OBVIOUS
  <2>1. SessionSound(s)
    BY DEF IInv
  <2>2. s.wallet # w /\ s.wallet \in Wallets
    BY <1>1, <2>1 DEF SessionSound
  <2>3. QED
    BY <1>2, <2>1, <2>2 DEF SessionSound
<1>7. ASSUME NEW v \in ActiveWallets', NEW u \in ActiveWallets', P!Active(log'[v]) = P!Active(log'[u])
      PROVE  v = u
  <2>1. /\ v \in Wallets /\ log'[v] # <<>> /\ P!Has(log'[v], "Activated")
        /\ u \in Wallets /\ log'[u] # <<>> /\ P!Has(log'[u], "Activated")
    BY <1>7, SameFolds DEF ActiveWallets
  <2>2. \A x \in Wallets \ {w} : P!Has(new, "Activated") /\ log[x] # <<>> /\ P!Has(log[x], "Activated")
                                   => P!Active(log[x]) # P!Active(new)
    BY <1>1, SameFolds, ActiveWallet DEF Holders
  <2>3. CASE v = w /\ u # w
    BY <1>2, <1>7, <2>1, <2>2, <2>3
  <2>4. CASE v # w /\ u = w
    BY <1>2, <1>7, <2>1, <2>2, <2>4
  <2>5. CASE v # w /\ u # w
    BY <1>2, <1>7, <2>1, <2>5, ActiveWallet DEF IInv
  <2>6. QED
    BY <2>3, <2>4, <2>5
<1>8. QED
  BY <1>2, <1>3, <1>4, <1>5, <1>6, <1>7 DEF IInv

\* A step that records nothing keeps the invariant if the calls stay sound.
LEMMA NoRecordStep ==
  ASSUME IInv, UNCHANGED <<log, sessions>>, call' \in [Calls -> CallType],
         \A c \in Calls : call'[c] # call[c] => CallSound(c)'
  PROVE  IInv'
<1>1. \A c \in Calls : CallSound(c)'
  <2> TAKE c \in Calls
  <2>1. CASE call'[c] = call[c]
    <3>1. CallSound(c)
      BY DEF IInv
    <3>2. ASSUME call[c].step \in {"loaded", "failed"}
          PROVE  Extends(log'[call[c].wallet], log[call[c].wallet])
      <4>1. call[c].wallet \in Wallets
        BY <3>1, <3>2 DEF CallSound
      <4>2. QED
        BY <4>1 DEF IInv, Extends
    <3>3. QED
      BY <2>1, <3>1, <3>2, CallKeeps
  <2>2. QED
    BY <2>1
<1>2. ActiveWallets' = ActiveWallets
  BY SameFolds DEF ActiveWallets
<1>3. QED
  BY <1>1, <1>2 DEF IInv, SessionSound

\* The bound on withdrawals of all wallets together bounds those of each.
LEMMA RemovalsOfOne ==
  ASSUME IInv, WithdrawalsLeft, NEW w \in Wallets
  PROVE  P!RemovalsLeft(log[w])
<1> DEFINE D == {i \in DOMAIN log[w] : log[w][i].type = "KeystoreRemoved"}
           Pairs == [v \in Wallets |-> {v} \X Withdrawn(v)]
           All == UNION {{v} \X Withdrawn(v) : v \in Wallets}
           f == [i \in D |-> <<w, i>>]
<1>1. \A v \in Wallets : IsFiniteSet({v} \X Withdrawn(v))
  <2> TAKE v \in Wallets
  <2>1. Withdrawn(v) \in SUBSET (1..Len(log[v])) /\ Len(log[v]) \in Nat
    BY DEF IInv, Withdrawn
  <2>2. IsFiniteSet(1..Len(log[v]))
    BY <2>1, FS_Interval
  <2>3. IsFiniteSet(Withdrawn(v))
    BY <2>1, <2>2, FS_Subset
  <2>4. QED
    BY <2>3, FS_Singleton, FS_Product
<1>2. IsFiniteSet({{v} \X Withdrawn(v) : v \in Wallets})
  <2>1. Pairs \in Surjection(Wallets, {{v} \X Withdrawn(v) : v \in Wallets})
    BY DEF Surjection
  <2>2. QED
    BY <2>1, WalletAssumption, FS_Surjection
<1>3. IsFiniteSet(All)
  BY <1>1, <1>2, FS_UNION
<1>4. f \in Injection(D, All)
  <2>1. \A i \in D : i \in Withdrawn(w)
    BY DEF Withdrawn
  <2>2. \A i \in D : <<w, i>> \in {w} \X Withdrawn(w)
    BY <2>1
  <2>3. \A i \in D : <<w, i>> \in All
    BY <2>2
  <2>4. f \in [D -> All]
    BY <2>3
  <2>5. QED
    BY <2>4 DEF Injection, IsInjective
<1>5. IsFiniteSet(D) /\ Cardinality(D) <= Cardinality(All)
  BY <1>3, <1>4, FS_Injection
<1>6. Cardinality(D) \in Nat /\ Cardinality(All) \in Nat
  BY <1>3, <1>5, FS_CardinalityType
<1>7. Cardinality(All) < MaxRemovals
  BY DEF WithdrawalsLeft
<1>8. Cardinality(D) < MaxRemovals
  BY <1>5, <1>6, <1>7, WalletAssumption
<1>9. QED
  BY <1>8, SameLibrary DEF P!RemovalsLeft

\* register_wallet opens the stream of a wallet that no call has loaded.
LEMMA RegisterStep ==
  ASSUME IInv, NEW w \in Wallets, NEW r \in Registrations, Register(w, r)
  PROVE  IInv'
<1> DEFINE new == <<P!Registered(r)>>
<1>1. /\ log[w] = <<>> /\ log' = [log EXCEPT ![w] = new]
      /\ call' = call /\ sessions' = sessions /\ P!ValidRegistration(r)
  BY SameCommands DEF Register
<1>2. P!Sound(new) /\ new # <<>> /\ ~P!Has(new, "Activated")
  BY <1>1, PAssumes, P!RegistrationIsSound
<1> HIDE DEF new
<1>3. /\ log'[w] = new /\ \A v \in Wallets \ {w} : log'[v] = log[v]
      /\ log' \in [Wallets -> Seq(P!Event)]
  BY <1>1, <1>2 DEF IInv, P!Sound
<1>4. \A v \in Wallets : P!Sound(log'[v])
  BY <1>2, <1>3 DEF IInv
<1>5. \A c \in Calls : CallSound(c)'
  <2> TAKE c \in Calls
  <2>1. CallSound(c) /\ call'[c] = call[c]
    BY <1>1 DEF IInv
  <2>2. ASSUME call[c].step \in {"loaded", "failed"}
        PROVE  Extends(log'[call[c].wallet], log[call[c].wallet])
    <3>1. call[c].wallet \in Wallets \ {w}
      BY <1>1, <2>1, <2>2 DEF CallSound
    <3>2. QED
      BY <1>3, <3>1 DEF IInv, Extends
  <2>3. QED
    BY <2>1, <2>2, CallKeeps
<1>6. \A s \in sessions' : SessionSound(s)'
  <2> SUFFICES ASSUME NEW s \in sessions PROVE SessionSound(s)'
    BY <1>1
  <2>1. SessionSound(s)
    BY DEF IInv
  <2>2. s.wallet \in Wallets \ {w}
    BY <1>1, <2>1 DEF SessionSound
  <2>3. QED
    BY <1>3, <2>1, <2>2 DEF SessionSound
<1>7. ActiveWallets' \subseteq ActiveWallets \ {w}
  <2> SUFFICES ASSUME NEW v \in ActiveWallets' PROVE v \in ActiveWallets \ {w}
    OBVIOUS
  <2>1. v \in Wallets /\ log'[v] # <<>> /\ P!Has(log'[v], "Activated")
    BY SameFolds DEF ActiveWallets
  <2>2. QED
    BY <1>2, <1>3, <2>1, ActiveWallet
<1>8. \A v \in ActiveWallets \ {w} : log'[v] = log[v]
  BY <1>3, ActiveWallet
<1>9. QED
  BY <1>1, <1>3, <1>4, <1>5, <1>6, <1>7, <1>8 DEF IInv

\* A call loads its wallet and runs a command that its stream allows.
LEMMA LoadStep ==
  ASSUME IInv, NEW c \in Calls, NEW kind \in {"submit", "remove", "cancel", "propose"},
         NEW w \in Wallets,
         NEW u \in Users \cup {None}, NEW k \in Keys \cup {None},
         kind = "submit" => u \in Users /\ k \in Keys,
         kind = "remove" => u \in Users,
         Load(c, kind, w, u, k)
  PROVE  IInv'
<1> DEFINE new == [step |-> "loaded", kind |-> kind, wallet |-> w, user |-> u, key |-> k,
                   seen |-> Len(log[w])]
<1>1. /\ kind \in CallKinds /\ log[w] # <<>> /\ Executes(kind, w, log[w], u, k)
      /\ call' = [call EXCEPT ![c] = new]
      /\ log' = log /\ sessions' = sessions
  BY DEF Load
<1>2. log[w] \in Seq(P!Event) /\ P!Sound(log[w]) /\ Len(log[w]) \in 1..Len(log[w])
  BY <1>1 DEF IInv
<1>3. /\ new.step = "loaded" /\ new.kind = kind /\ new.wallet = w
      /\ new.user = u /\ new.key = k /\ new.seen = Len(log[w]) /\ new \in CallType
  BY <1>1, <1>2 DEF CallType
<1> HIDE DEF new
<1>4. call' \in [Calls -> CallType] /\ call'[c] = new /\ \A d \in Calls \ {c} : call'[d] = call[d]
  BY <1>1, <1>3 DEF IInv
<1>5. Copy(c)' = log[w]
  BY <1>1, <1>2, <1>3, <1>4 DEF Copy
<1>6. /\ kind = "submit" => P!AcceptsKeystore(log[w], k, u)
      /\ kind = "remove" => P!AcceptsRemoval(log[w], u) /\ P!RemovalsLeft(log[w])
      /\ kind = "cancel" => P!AcceptsCancel(log[w])
      /\ kind = "propose" => P!Status(log[w]) = "Active"
  BY <1>1, SameCommands, SameFolds, RemovalsOfOne DEF Executes, Spendable
<1>7. CallSound(c)'
  BY <1>1, <1>2, <1>3, <1>4, <1>5, <1>6 DEF CallSound
<1>8. QED
  BY <1>1, <1>4, <1>7, NoRecordStep

\* What add_keystore makes of a call's copy.
LEMMA SubmittedCopy ==
  ASSUME IInv, NEW c \in Calls, call[c].step \in {"loaded", "failed"}, call[c].kind = "submit"
  PROVE  /\ Submitted(c) = P!WithKeystore(Copy(c), call[c].key, call[c].user)
         /\ P!Sound(Submitted(c)) /\ Submitted(c) # <<>>
         /\ P!Policy(Submitted(c)) = P!Policy(Copy(c))
         /\ P!Keystores(Submitted(c)) = P!Keystores(Copy(c)) \cup {call[c].key}
         /\ Extends(Submitted(c), Copy(c))
         /\ P!Status(Copy(c)) = "CollectingKeystores"
         /\ ~P!Has(Copy(c), "Activated")
<1> DEFINE es == Copy(c)
           k == call[c].key
           u == call[c].user
           new == P!WithKeystore(es, k, u)
<1>1. /\ P!Sound(es) /\ es # <<>> /\ k \in Keys /\ u \in Users
      /\ P!AcceptsKeystore(es, k, u)
  BY FreshCopy DEF IInv, CallSound
<1>2. Submitted(c) = new
  BY SameCommands DEF Submitted
<1> HIDE DEF es, k, u
<1>3. /\ P!Sound(new) /\ new # <<>> /\ P!Policy(new) = P!Policy(es)
      /\ P!Keystores(new) = P!Keystores(es) \cup {k}
  BY <1>1, PAssumes, P!AdditionIsSound
<1>4. P!Status(es) = "CollectingKeystores"
  BY <1>1 DEF P!AcceptsKeystore
<1>5. ~P!Has(es, "Activated") /\ es \in Seq(P!Event)
  BY <1>1, <1>4, PAssumes, P!CollectingStream
<1>6. Extends(new, es)
  <2> DEFINE d == [type |-> "KeystoreAdded", keystore |-> k, submittedBy |-> u]
             e == [type |-> "Activated", descriptor |-> P!DescriptorOf(Append(es, d))]
  <2>1. d \in P!Event
    BY <1>1 DEF P!Event
  <2>2. CASE ~P!Completes(es)
    <3>1. new = Append(es, d)
      BY <2>2 DEF P!WithKeystore
    <3>2. QED
      BY <1>5, <2>1, <3>1, CommandsExtend
  <2>3. CASE P!Completes(es)
    <3>1. new = Append(Append(es, d), e)
      BY <2>3 DEF P!WithKeystore
    <3>2. new \in Seq(P!Event)
      BY <1>3 DEF P!Sound
    <3>3. QED
      BY <1>5, <2>1, <3>1, <3>2 DEF Extends
  <2>4. QED
    BY <2>2, <2>3
<1>7. QED
  BY <1>2, <1>3, <1>4, <1>5, <1>6 DEF es, k, u

\* submit_keystore records the submission on the wallet's stream, or fails.
LEMMA SubmitStep ==
  ASSUME IInv, NEW c \in Calls, SubmitKeystore(c)
  PROVE  IInv'
<1>1. call[c].step = "loaded" /\ call[c].kind = "submit" /\ UNCHANGED sessions
  BY DEF SubmitKeystore, Runs
<1>2. CASE Record(c, Submitted(c))
  BY <1>1, <1>2, SubmittedCopy, RecordStep
<1>3. CASE call' = [call EXCEPT ![c].step = "failed"] /\ UNCHANGED log
  <2> DEFINE failed == [call[c] EXCEPT !.step = "failed"]
  <2>a. call \in [Calls -> CallType] /\ call' = [call EXCEPT ![c] = failed]
    BY <1>3 DEF IInv
  <2>b. failed \in CallType
    BY <2>a DEF CallType
  <2>1. call' \in [Calls -> CallType]
    <3> HIDE DEF failed
    <3>1. QED
      BY <2>a, <2>b, Zenon
  <2>2. /\ call'[c].step = "failed" /\ call'[c].kind = call[c].kind
        /\ call'[c].wallet = call[c].wallet /\ call'[c].seen = call[c].seen
        /\ call'[c].key = call[c].key /\ call'[c].user = call[c].user
        /\ \A d \in Calls : call'[d] # call[d] => d = c
    BY <1>3 DEF IInv, CallType
  <2>3. Copy(c)' = Copy(c) /\ log' = log
    BY <1>3, <2>2 DEF Copy
  <2>4. CallSound(c)
    BY DEF IInv
  <2>5. CallSound(c)'
    BY <1>1, <2>2, <2>3, <2>4 DEF CallSound
  <2>6. QED
    BY <1>1, <1>3, <2>1, <2>2, <2>5, NoRecordStep
<1>4. QED
  BY <1>2, <1>3 DEF SubmitKeystore

\* remove_keystore and cancel record their event on the wallet's stream.
LEMMA WithdrawStep ==
  ASSUME IInv, NEW c \in Calls, RemoveKeystore(c) \/ CancelWallet(c)
  PROVE  IInv'
<1> DEFINE es == Copy(c)
<1>1. call[c].step = "loaded" /\ UNCHANGED sessions
  BY DEF RemoveKeystore, CancelWallet, Runs
<1>2. CallSound(c) /\ P!Sound(es) /\ es # <<>>
  BY <1>1, FreshCopy DEF IInv, CallSound
<1>3. CASE RemoveKeystore(c)
  <2> DEFINE new == Append(es, P!Removal(es, call[c].user))
  <2>1. Record(c, new) /\ P!AcceptsRemoval(es, call[c].user)
    BY <1>2, <1>3, SameCommands DEF RemoveKeystore, Runs, CallSound
  <2>2. P!Sound(new) /\ new # <<>>
    BY <1>2, <2>1, PAssumes, P!RemovalIsSound
  <2>3. P!Status(es) = "CollectingKeystores"
    BY <2>1 DEF P!AcceptsRemoval
  <2>4. ~P!Has(es, "Activated") /\ es \in Seq(P!Event)
    BY <1>2, <2>3, PAssumes, P!CollectingStream
  <2>5. Extends(new, es)
    <3>1. new \in Seq(P!Event)
      BY <2>2 DEF P!Sound
    <3>2. QED
      BY <2>4, <3>1 DEF Extends
  <2>6. QED
    BY <1>1, <2>1, <2>2, <2>4, <2>5, RecordStep
<1>4. CASE CancelWallet(c)
  <2> DEFINE new == Append(es, [type |-> "Cancelled"])
  <2>1. Record(c, new) /\ P!AcceptsCancel(es)
    BY <1>2, <1>4 DEF CancelWallet, Runs, CallSound
  <2>2. P!Sound(new) /\ new # <<>>
    BY <1>2, <2>1, PAssumes, P!CancellationIsSound
  <2>3. P!Status(es) = "CollectingKeystores"
    BY <2>1 DEF P!AcceptsCancel
  <2>4. ~P!Has(es, "Activated") /\ es \in Seq(P!Event)
    BY <1>2, <2>3, PAssumes, P!CollectingStream
  <2>5. Extends(new, es)
    <3>1. new \in Seq(P!Event)
      BY <2>2 DEF P!Sound
    <3>2. QED
      BY <2>4, <3>1 DEF Extends
  <2>6. QED
    BY <1>1, <2>1, <2>2, <2>4, <2>5, RecordStep
<1>5. QED
  BY <1>3, <1>4

\* A call that ends, or is answered, leaves nothing behind.
LEMMA EndStep ==
  ASSUME IInv, NEW c \in Calls, EndCall(c) \/ ResolveCollision(c)
  PROVE  IInv'
<1>1. /\ UNCHANGED <<log, sessions>>
      /\ \/ call' = [call EXCEPT ![c] = Idle]
         \/ \E existing \in Wallets :
               call' = [call EXCEPT ![c] = [Idle EXCEPT !.step = "answered", !.wallet = existing]]
  BY DEF EndCall, ResolveCollision, Holders, ActiveWallets
<1>2. Idle \in CallType /\ Idle.step = "idle"
  BY DEF Idle, CallType
<1>3. \A existing \in Wallets :
         LET answer == [Idle EXCEPT !.step = "answered", !.wallet = existing]
         IN  answer \in CallType /\ answer.step = "answered"
  BY DEF Idle, CallType
<1>4. /\ call' \in [Calls -> CallType]
      /\ call'[c].step \in {"idle", "answered"}
      /\ \A d \in Calls : call'[d] # call[d] => d = c
  BY <1>1, <1>2, <1>3 DEF IInv
<1>5. CallSound(c)'
  BY <1>4 DEF CallSound
<1>6. QED
  BY <1>1, <1>4, <1>5, NoRecordStep

\* propose_spend snapshots an active wallet, whose stream is at its end.
LEMMA ProposeStep ==
  ASSUME IInv, NEW c \in Calls, ProposeSpend(c)
  PROVE  IInv'
<1> DEFINE w == call[c].wallet
<1>1. /\ call[c].step = "loaded" /\ call[c].kind = "propose"
      /\ sessions' = {SnapshotOf(w, Copy(c))}
      /\ call' = [call EXCEPT ![c] = Idle] /\ log' = log
  BY SameFolds DEF ProposeSpend, Runs, Snapshot, SnapshotOf
<1>2. /\ w \in Wallets /\ P!Sound(Copy(c)) /\ P!Status(Copy(c)) = "Active"
      /\ Copy(c) # <<>> /\ Extends(log[w], Copy(c)) /\ P!Sound(log[w])
  BY <1>1, FreshCopy DEF IInv, CallSound
<1>3. P!Has(Copy(c), "Activated")
  BY <1>2, PAssumes, P!StatusIsLast DEF P!Sound, P!FinalTypes
<1>4. log[w] = Copy(c)
  BY <1>2, <1>3, FinalIsLast
<1>5. \A s \in sessions' : SessionSound(s)'
  BY <1>1, <1>2, <1>3, <1>4 DEF SessionSound, SnapshotOf
<1>6. /\ call' \in [Calls -> CallType] /\ call'[c].step = "idle"
      /\ \A d \in Calls : call'[d] # call[d] => d = c
  BY <1>1 DEF IInv, Idle, CallType
<1>7. \A d \in Calls : CallSound(d)'
  <2> TAKE d \in Calls
  <2>1. CASE d = c
    BY <1>6, <2>1 DEF CallSound
  <2>2. CASE d # c
    <3>1. call'[d] = call[d] /\ CallSound(d)
      BY <1>6, <2>2 DEF IInv
    <3>2. ASSUME call[d].step \in {"loaded", "failed"}
          PROVE  Extends(log'[call[d].wallet], log[call[d].wallet])
      <4>1. call[d].wallet \in Wallets
        BY <3>1, <3>2 DEF CallSound
      <4>2. QED
        BY <1>1, <4>1 DEF IInv, Extends
    <3>3. QED
      BY <3>1, <3>2, CallKeeps
  <2>3. QED
    BY <2>1, <2>2
<1>8. ActiveWallets' = ActiveWallets
  BY <1>1, SameFolds DEF ActiveWallets
<1>9. QED
  BY <1>1, <1>5, <1>6, <1>7, <1>8 DEF IInv

\* Every action keeps the invariant.
LEMMA NextKeeps ==
  ASSUME IInv, Next
  PROVE  IInv'
<1>1. ASSUME NEW w \in Wallets, NEW r \in Registrations, Register(w, r) PROVE IInv'
  BY <1>1, RegisterStep
<1>2. ASSUME NEW c \in Calls, NEW w \in Wallets, NEW u \in Users, NEW k \in Keys,
             Load(c, "submit", w, u, k)
      PROVE  IInv'
  BY <1>2, LoadStep
<1>3. ASSUME NEW c \in Calls, NEW w \in Wallets, NEW u \in Users, Load(c, "remove", w, u, None)
      PROVE  IInv'
  BY <1>3, LoadStep
<1>4. ASSUME NEW c \in Calls, NEW w \in Wallets, NEW kind \in {"cancel", "propose"},
             Load(c, kind, w, None, None)
      PROVE  IInv'
  BY <1>4, LoadStep
<1>5. ASSUME NEW c \in Calls, SubmitKeystore(c) PROVE IInv'
  BY <1>5, SubmitStep
<1>6. ASSUME NEW c \in Calls, RemoveKeystore(c) \/ CancelWallet(c) PROVE IInv'
  BY <1>6, WithdrawStep
<1>7. ASSUME NEW c \in Calls, EndCall(c) \/ ResolveCollision(c) PROVE IInv'
  BY <1>7, EndStep
<1>8. ASSUME NEW c \in Calls, ProposeSpend(c) PROVE IInv'
  BY <1>8, ProposeStep
<1>9. QED
  BY <1>1, <1>2, <1>3, <1>4, <1>5, <1>6, <1>7, <1>8 DEF Next

\* The invariant holds of every state of every behaviour.
THEOREM Invariance == Spec => []IInv
<1>1. Init => IInv
  <2> SUFFICES ASSUME Init PROVE IInv
    OBVIOUS
  <2>1. P!Sound(<<>>)
    BY DEF P!Sound, P!StreamShape, P!PairedUp, P!Has
  <2>2. Idle \in CallType /\ Idle.step = "idle"
    BY DEF Idle, CallType
  <2>3. ActiveWallets = {}
    BY DEF Init, ActiveWallets
  <2>4. QED
    BY <2>1, <2>2, <2>3 DEF Init, IInv, CallSound
<1>2. IInv /\ [Next]_vars => IInv'
  <2> SUFFICES ASSUME IInv, [Next]_vars PROVE IInv'
    OBVIOUS
  <2>1. CASE Next
    BY <2>1, NextKeeps
  <2>2. CASE UNCHANGED vars
    BY <2>2, NoRecordStep DEF vars, IInv
  <2>3. QED
    BY <2>1, <2>2
<1>3. QED
  BY <1>1, <1>2, PTL DEF Spec
-----------------------------------------------------------------------------
(* The properties.                                                         *)

\* Streams, calls and snapshots are well-formed, however the calls interleave.
THEOREM TypeCorrect == Spec => []TypeOK
<1>1. IInv => TypeOK
  <2> SUFFICES ASSUME IInv PROVE TypeOK
    OBVIOUS
  <2>1. \A w \in Wallets : W(w)!TypeOK
    BY SameFolds DEF IInv, W!TypeOK
  <2>2. sessions \subseteq Snapshots
    <3> SUFFICES ASSUME NEW s \in sessions PROVE s \in Snapshots
      OBVIOUS
    <3> DEFINE es == log[s.wallet]
    <3>1. /\ s.wallet \in Wallets /\ es # <<>> /\ P!Sound(es)
          /\ s = SnapshotOf(s.wallet, es)
      BY DEF IInv, SessionSound
    <3>2. P!Policy(es).threshold \in Nat
      <4>1. P!Policy(es) \in P!Policies
        BY <3>1, PAssumes, P!PolicyIsRegistered DEF P!Sound
      <4>2. QED
        BY <4>1, PAssumes, P!PolicyIsSatisfiable
    <3>3. P!Keystores(es) \subseteq Keys
      BY <3>1, PAssumes, P!SubmissionIsRecorded DEF P!Sound, P!Keystores
    <3> HIDE DEF es
    <3>4. QED
      BY <3>1, <3>2, <3>3 DEF SnapshotOf, Snapshots
  <2>3. QED
    BY <2>1, <2>2 DEF IInv, TypeOK, CallType
<1>2. QED
  BY <1>1, Invariance, PTL

\* The descriptor of an active wallet is that of its submissions.
LEMMA ActiveScript ==
  ASSUME NEW es, P!Sound(es), es # <<>>, P!Has(es, "Activated")
  PROVE  /\ P!Active(es) = P!DescriptorOf(es)
         /\ P!Active(es).threshold = P!Policy(es).threshold
         /\ P!Active(es).keys = P!Sorted(P!Keystores(es))
         /\ Range(P!Active(es).keys) = P!Keystores(es)
<1>1. P!Active(es) = P!DescriptorOf(es) /\ es \in Seq(P!Event) /\ P!HeldApart(es)
  BY DEF P!Sound, P!DescriptorFits, P!HeldSoundly
<1>2. P!IsFiniteSet(P!Keystores(es)) /\ P!Keystores(es) \in SUBSET Keys
  BY <1>1, PAssumes, P!HeldApartCounts
<1>3. P!Range(P!Sorted(P!Keystores(es))) = P!Keystores(es)
  BY <1>2, PAssumes, P!SortedListsAll
<1>4. QED
  BY <1>1, <1>3, SameLibrary DEF P!DescriptorOf

\* A threshold over a set of keys belongs to one wallet: the UNIQUE index on the
\* descriptor decides it, because sorting gives equal sets equal descriptors.
THEOREM PolicyBelongsToOne == Spec => []OneWalletPerPolicy
<1>1. IInv => OneWalletPerPolicy
  <2> SUFFICES ASSUME IInv, NEW v \in ActiveWallets, NEW w \in ActiveWallets,
                      P!Active(log[v]).threshold = P!Active(log[w]).threshold,
                      Range(P!Active(log[v]).keys) = Range(P!Active(log[w]).keys)
               PROVE  v = w
    BY SameFolds DEF OneWalletPerPolicy
  <2>1. /\ P!Sound(log[v]) /\ log[v] # <<>> /\ P!Has(log[v], "Activated")
        /\ P!Sound(log[w]) /\ log[w] # <<>> /\ P!Has(log[w], "Activated")
    BY ActiveWallet DEF IInv
  <2>2. P!Keystores(log[v]) = P!Keystores(log[w])
    BY <2>1, ActiveScript
  <2>3. P!Policy(log[v]).threshold = P!Policy(log[w]).threshold
    BY <2>1, ActiveScript
  <2>4. P!DescriptorOf(log[v]) = P!DescriptorOf(log[w])
    BY <2>2, <2>3 DEF P!DescriptorOf
  <2>5. P!Active(log[v]) = P!Active(log[w])
    BY <2>1, <2>4, ActiveScript
  <2>6. QED
    BY <2>5 DEF IInv
<1>2. QED
  BY <1>1, Invariance, PTL

\* A proposed spend has the threshold and the devices of its wallet's script, one
\* device per participant, for good.
THEOREM ProposalsAlwaysFit == Spec => []ProposalsFitTheirWallet
<1>1. IInv => ProposalsFitTheirWallet
  <2> SUFFICES ASSUME IInv, NEW s \in sessions
               PROVE  LET es == log[s.wallet]
                          script == W(s.wallet)!Active(es)
                          people == W(s.wallet)!Policy(es).participants
                      IN  /\ s.wallet \in ActiveWallets
                          /\ W(s.wallet)!Submitters(es) = people
                          /\ s.threshold = script.threshold
                          /\ s.keystores = {FingerprintOf[k] : k \in Range(script.keys)}
                          /\ s.keystores = {FingerprintOf[W(s.wallet)!KeystoreOf(es, u)] : u \in people}
                          /\ Cardinality(s.keystores) = Cardinality(people)
    BY DEF ProposalsFitTheirWallet
  <2> DEFINE es == log[s.wallet]
             people == P!Policy(es).participants
  <2>1. /\ s.wallet \in Wallets /\ es # <<>> /\ P!Sound(es) /\ P!Has(es, "Activated")
        /\ s = SnapshotOf(s.wallet, es)
    BY DEF IInv, SessionSound
  <2>2. s.wallet \in ActiveWallets
    BY <2>1, ActiveWallet
  <2>3. /\ s.threshold = P!Policy(es).threshold
        /\ s.keystores = {FingerprintOf[k] : k \in P!Keystores(es)}
    BY <2>1 DEF SnapshotOf
  <2> HIDE DEF es
  <2>4. es \in Seq(P!Event) /\ P!StreamShape(es) /\ P!HeldApart(es)
    BY <2>1 DEF P!Sound, P!HeldSoundly
  <2>5. P!Status(es) = "Active"
    BY <2>1, <2>4, PAssumes, P!StatusIsLast DEF P!FinalTypes
  <2>6. P!Submitters(es) = people
    BY <2>1, <2>5 DEF P!Sound
  <2>7. P!Keystores(es) = {P!KeystoreOf(es, u) : u \in people}
    BY <2>4, <2>6, PAssumes, P!KeystoresAreHeld
  <2>8. {FingerprintOf[k] : k \in P!Keystores(es)} = {FingerprintOf[P!KeystoreOf(es, u)] : u \in people}
    BY <2>7
  <2>9. Cardinality({FingerprintOf[k] : k \in P!Keystores(es)}) = Cardinality(people)
    <3>1. /\ P!Cardinality(P!Submitters(es)) = P!Cardinality(P!Submissions(es))
          /\ P!Cardinality({FingerprintOf[k] : k \in P!Keystores(es)})
                = P!Cardinality(P!Submissions(es))
      BY <2>4, PAssumes, P!HeldApartCounts
    <3>2. QED
      BY <2>6, <3>1, SameLibrary
  <2>10. {FingerprintOf[P!KeystoreOf(es, u)] : u \in people}
            = {FingerprintOf[W(s.wallet)!KeystoreOf(es, u)] : u \in people}
    <3>1. \A u : W(s.wallet)!KeystoreOf(es, u) = P!KeystoreOf(es, u)
      BY SameCommands
    <3>2. QED
      BY <3>1
  <2>11. /\ W(s.wallet)!Active(es) = P!Active(es)
         /\ W(s.wallet)!Policy(es) = P!Policy(es)
         /\ W(s.wallet)!Submitters(es) = P!Submitters(es)
    BY SameFolds
  <2>12. /\ s.threshold = P!Active(es).threshold
         /\ s.keystores = {FingerprintOf[k] : k \in Range(P!Active(es).keys)}
    BY <2>1, <2>3, ActiveScript
  <2>13. QED
    BY <2>2, <2>3, <2>6, <2>8, <2>9, <2>10, <2>11, <2>12 DEF es
<1>2. QED
  BY <1>1, Invariance, PTL

\* resolve_fingerprint_collision answers with a wallet of the submitted script,
\* whether the update failed on the index or on a stale copy.
THEOREM AnswersMatchImports == Spec => AnswerMatchesImport
<1> DEFINE Answer(c) ==
        call[c].step = "failed" /\ call'[c].step = "answered" =>
          LET w == call[c].wallet
              existing == call'[c].wallet
          IN  /\ existing \in ActiveWallets \ {w}
              /\ W(existing)!Active(log[existing]).threshold = W(w)!Policy(Copy(c)).threshold
              /\ Range(W(existing)!Active(log[existing]).keys)
                    = W(w)!Keystores(Copy(c)) \cup {call[c].key}
<1>1. ASSUME IInv, NEW c \in Calls, ResolveCollision(c) PROVE Answer(c)
  <2>1. call[c].step = "failed" /\ call[c].kind = "submit"
    BY <1>1 DEF ResolveCollision, IInv, CallSound
  <2>2. PICK existing \in Holders(W(call[c].wallet)!Active(Submitted(c))) \ {call[c].wallet} :
           call' = [call EXCEPT ![c] = [Idle EXCEPT !.step = "answered", !.wallet = existing]]
    BY <1>1 DEF ResolveCollision
  <2>3. call'[c].wallet = existing
    BY <1>1, <2>2 DEF IInv, Idle
  <2>4. /\ existing \in ActiveWallets \ {call[c].wallet}
        /\ P!Active(log[existing]) = P!Active(Submitted(c))
    BY <2>2, SameFolds DEF Holders
  <2>5. /\ P!Sound(Submitted(c)) /\ Submitted(c) # <<>>
        /\ P!Policy(Submitted(c)) = P!Policy(Copy(c))
        /\ P!Keystores(Submitted(c)) = P!Keystores(Copy(c)) \cup {call[c].key}
    BY <1>1, <2>1, SubmittedCopy
  <2>6. P!Has(Submitted(c), "Activated")
    BY <1>1, SameFolds DEF ResolveCollision
  <2>7. QED
    BY <2>3, <2>4, <2>5, <2>6, ActiveScript, SameFolds
<1>2. ASSUME NEW c \in Calls, call'[c] = call[c] \/ call'[c].step # "answered"
      PROVE  Answer(c)
  BY <1>2
<1>3. ASSUME IInv, NEW c \in Calls, NEW d \in Calls, ResolveCollision(d) PROVE Answer(c)
  <2>1. CASE d = c
    BY <1>1, <1>3, <2>1
  <2>2. CASE d # c
    BY <1>3, <2>2 DEF IInv, ResolveCollision
  <2>3. QED
    BY <2>1, <2>2
<1>4. ASSUME IInv, NEW c \in Calls, NEW d \in Calls, NEW kind, NEW w, NEW u, NEW k,
             Load(d, kind, w, u, k)
      PROVE  call'[c] = call[c] \/ call'[c].step # "answered"
  BY <1>4 DEF Load, IInv
<1>5. ASSUME IInv, NEW c \in Calls, NEW d \in Calls,
             SubmitKeystore(d) \/ RemoveKeystore(d) \/ CancelWallet(d) \/ ProposeSpend(d) \/ EndCall(d)
      PROVE  call'[c] = call[c] \/ call'[c].step # "answered"
  <2>1. CASE call' = [call EXCEPT ![d] = Idle]
    BY <2>1 DEF Idle, IInv
  <2>2. CASE call' = [call EXCEPT ![d].step = "failed"]
    BY <2>2 DEF IInv, CallType
  <2>3. QED
    BY <1>5, <2>1, <2>2 DEF SubmitKeystore, RemoveKeystore, CancelWallet, ProposeSpend, EndCall, Record
<1>6. IInv /\ [Next]_vars => \A c \in Calls : Answer(c)
  <2> SUFFICES ASSUME IInv, [Next]_vars, NEW c \in Calls PROVE Answer(c)
    OBVIOUS
  <2> HIDE DEF Answer
  <2>1. CASE UNCHANGED call
    BY <1>2, <2>1
  <2>2. CASE \E d \in Calls : ResolveCollision(d)
    BY <1>3, <2>2
  <2>3. CASE ~(\E d \in Calls : ResolveCollision(d)) /\ ~(UNCHANGED call)
    <3>1. call'[c] = call[c] \/ call'[c].step # "answered"
      BY <1>4, <1>5, <2>3 DEF Next, vars, Register
    <3>2. QED
      BY <1>2, <3>1
  <2>4. QED
    BY <2>1, <2>2, <2>3
<1>7. QED
  BY <1>6, Invariance, PTL DEF Spec, AnswerMatchesImport
-----------------------------------------------------------------------------
(* Every wallet's stream is a behaviour of Wallet.                         *)

\* What an update does to the streams.
LEMMA RecordShows ==
  ASSUME IInv, NEW c \in Calls, call[c].step = "loaded", NEW new, Record(c, new)
  PROVE  /\ call[c].wallet \in Wallets /\ CallSound(c)
         /\ Copy(c) = log[call[c].wallet] /\ log[call[c].wallet] # <<>>
         /\ log'[call[c].wallet] = new
         /\ \A v \in Wallets \ {call[c].wallet} : log'[v] = log[v]
<1>1. call[c].wallet \in Wallets /\ CallSound(c)
  BY DEF IInv, CallSound
<1>2. Copy(c) = log[call[c].wallet] /\ log[call[c].wallet] # <<>>
  BY FreshCopy DEF Record, UpdateFails
<1>3. log' = [log EXCEPT ![call[c].wallet] = new]
  BY DEF Record
<1>4. QED
  BY <1>1, <1>2, <1>3 DEF IInv

\* An update of a submission is add_keystore on the wallet's stream.
LEMMA SubmitShows ==
  ASSUME IInv, NEW c \in Calls, SubmitKeystore(c), NEW w \in Wallets
  PROVE  W(w)!Next \/ UNCHANGED log[w]
<1>1. call[c].step = "loaded" /\ call[c].kind = "submit"
  BY DEF SubmitKeystore, Runs
<1>2. CASE UNCHANGED log
  BY <1>2
<1>3. CASE Record(c, Submitted(c))
  <2> DEFINE k == call[c].key
             u == call[c].user
  <2>1. CASE w # call[c].wallet
    BY <1>1, <1>3, <2>1, RecordShows
  <2>2. CASE w = call[c].wallet
    <3>1. /\ k \in Keys /\ u \in Users /\ log[w] # <<>>
          /\ P!AcceptsKeystore(log[w], k, u)
          /\ log'[w] = P!WithKeystore(log[w], k, u)
      BY <1>1, <1>3, <2>2, RecordShows, SubmittedCopy DEF CallSound
    <3>2. W(w)!AcceptsKeystore(log[w], k, u) /\ log'[w] = W(w)!WithKeystore(log[w], k, u)
      BY <3>1, SameCommands
    <3>3. ~W(w)!AlreadySubmitted(log[w], k, u)
      BY <3>2 DEF W!AlreadySubmitted, W!AcceptsKeystore
    <3>4. W(w)!AddKeystore(k, u)
      BY <3>1, <3>2, <3>3 DEF W!AddKeystore
    <3>5. QED
      BY <3>1, <3>4 DEF W!Next
  <2>3. QED
    BY <2>1, <2>2
<1>4. QED
  BY <1>2, <1>3 DEF SubmitKeystore

\* Removals and cancellations are the wallet's own.
LEMMA WithdrawShows ==
  ASSUME IInv, NEW c \in Calls, RemoveKeystore(c) \/ CancelWallet(c), NEW w \in Wallets
  PROVE  W(w)!Next \/ UNCHANGED log[w]
<1>1. CASE RemoveKeystore(c)
  <2> DEFINE u == call[c].user
             new == Append(Copy(c), W(call[c].wallet)!Removal(Copy(c), u))
  <2>1. call[c].step = "loaded" /\ call[c].kind = "remove" /\ Record(c, new)
    BY <1>1 DEF RemoveKeystore, Runs
  <2>2. CASE w # call[c].wallet
    BY <2>1, <2>2, RecordShows
  <2>3. CASE w = call[c].wallet
    <3>1. /\ log[w] # <<>> /\ u \in Users /\ Copy(c) = log[w]
          /\ P!AcceptsRemoval(log[w], u) /\ P!RemovalsLeft(log[w])
          /\ log'[w] = new
      BY <2>1, <2>3, RecordShows DEF CallSound
    <3>2. W(w)!AcceptsRemoval(log[w], u)
      BY <3>1, SameCommands
    <3>3. W(w)!RemovalsLeft(log[w])
      BY <3>1, SameLibrary DEF W!RemovalsLeft, P!RemovalsLeft
    <3>4. log'[w] = Append(log[w], W(w)!Removal(log[w], u))
      BY <2>3, <3>1
    <3>5. W(w)!RemoveKeystore(u)
      BY <3>1, <3>2, <3>3, <3>4 DEF W!RemoveKeystore
    <3>6. QED
      BY <3>1, <3>5 DEF W!Next
  <2>4. QED
    BY <2>2, <2>3
<1>2. CASE CancelWallet(c)
  <2> DEFINE new == Append(Copy(c), [type |-> "Cancelled"])
  <2>1. call[c].step = "loaded" /\ call[c].kind = "cancel" /\ Record(c, new)
    BY <1>2 DEF CancelWallet, Runs
  <2>2. CASE w # call[c].wallet
    BY <2>1, <2>2, RecordShows
  <2>3. CASE w = call[c].wallet
    <3>1. /\ log[w] # <<>> /\ Copy(c) = log[w] /\ P!AcceptsCancel(log[w]) /\ log'[w] = new
      BY <2>1, <2>3, RecordShows DEF CallSound
    <3>2. W(w)!AcceptsCancel(log[w])
      BY <3>1, SameCommands
    <3>3. W(w)!Cancel
      BY <3>1, <3>2 DEF W!Cancel
    <3>4. QED
      BY <3>3 DEF W!Next
  <2>4. QED
    BY <2>2, <2>3
<1>3. QED
  BY <1>1, <1>2

\* However calls on one wallet interleave, its stream is one that commands run
\* one after the other produce.
THEOREM ImportImplementsWallets == Spec => ImplementsWallets
<1>1. Init => \A w \in Wallets : W(w)!Init
  BY DEF Init, W!Init
<1>2. IInv /\ [Next]_vars => [\A w \in Wallets : W(w)!Next \/ UNCHANGED log[w]]_vars
  <2> SUFFICES ASSUME IInv, Next, NEW w \in Wallets PROVE W(w)!Next \/ UNCHANGED log[w]
    OBVIOUS
  <2>1. ASSUME NEW v \in Wallets, NEW r \in Registrations, Register(v, r)
        PROVE  W(w)!Next \/ UNCHANGED log[w]
    <3>1. CASE v # w
      BY <2>1, <3>1 DEF Register, IInv
    <3>2. CASE v = w
      <4>1. log[w] = <<>> /\ W(w)!ValidRegistration(r) /\ log'[w] = <<W(w)!Registered(r)>>
        BY <2>1, <3>2 DEF Register, IInv
      <4>2. W(w)!Register(r)
        BY <4>1 DEF W!Register
      <4>3. QED
        BY <4>2 DEF W!Next
    <3>3. QED
      BY <3>1, <3>2
  <2>2. ASSUME NEW c \in Calls, SubmitKeystore(c) PROVE W(w)!Next \/ UNCHANGED log[w]
    BY <2>2, SubmitShows
  <2>3. ASSUME NEW c \in Calls, RemoveKeystore(c) \/ CancelWallet(c)
        PROVE  W(w)!Next \/ UNCHANGED log[w]
    BY <2>3, WithdrawShows
  <2>4. CASE UNCHANGED log
    BY <2>4
  <2>5. QED
    BY <2>1, <2>2, <2>3, <2>4 DEF Next, Load, ResolveCollision, ProposeSpend, EndCall
<1>3. QED
  BY <1>1, <1>2, Invariance, PTL DEF Spec, ImplementsWallets
=============================================================================
