---------------------------- MODULE Coordination ----------------------------
(***************************************************************************)
(* One signing session as the running system drives it: API calls that     *)
(* load the session, store a blob and then commit against the copy they    *)
(* loaded; the two background jobs that build the unsigned PSBT and        *)
(* assemble the final transaction; the job table that hands jobs to        *)
(* workers at least once; and the content-addressed blob store, which is   *)
(* not part of any database transaction.                                   *)
(*                                                                         *)
(* Calls and workers may die between any two steps, a job may be handed to *)
(* a second worker while the first still runs, and every commit is checked *)
(* against the stream's current length (UNIQUE (id, sequence) on events).  *)
(***************************************************************************)
EXTENDS Integers, Sequences, FiniteSets

CONSTANTS Keystores,   \* key fingerprints
          Policies,    \* policies of the active wallets a spend may be proposed on
          SigLists,    \* see PsbtSession
          Calls,       \* API calls; a call that was committed is not reused
          CallKinds,   \* bound: the kinds of call clients and chain sync make
          Workers,     \* job executors
          Creation,    \* the id of the PSBT-creation job
          Tx,          \* the txid of the spend (witnesses do not change it)
          Inputs,      \* inputs of the unsigned transaction
          Nonces,      \* bound: the signatures of one key on one input
          MaxFaults,   \* bound: workers lost, or jobs handed out twice
          None

\* The builder's outcomes, as the creation job tells them apart (see SpendBuild).
Outcomes == {"built", "given up", "retried"}

Observations == {"BroadcastSeen", "Confirmed", "Invalidated"}

ASSUME CallAssumption == /\ IsFiniteSet(Calls)
                         /\ Creation \notin Calls
                         /\ None \notin {Tx, Creation} \cup Calls \cup CallKinds
                         /\ CallKinds \subseteq {"upload", "cancel"} \cup Observations
ASSUME FaultAssumption == MaxFaults \in Nat
ASSUME InputAssumption == Inputs # {}
\* What PsbtSession assumes of the constants; SigLists has every list of different
\* keystores of one policy, so each the finalization job can pass.
ASSUME SessionAssumption ==
    /\ \A p \in Policies : /\ p \in [threshold : Nat \ {0}, keystores : SUBSET Keystores]
                           /\ IsFiniteSet(p.keystores)
                           /\ p.threshold <= Cardinality(p.keystores)
    /\ SigLists \subseteq Seq(Keystores)
    /\ \A p \in Policies : \A n \in 1..Cardinality(p.keystores) :
          \A list \in [1..n -> p.keystores] :
             (\A i, j \in 1..n : list[i] = list[j] => i = j) => list \in SigLists

VARIABLES log,         \* the persisted event stream of the session
          blobs,       \* content-addressed store: the documents it holds
          build,       \* what building the recorded spend spec ends in, once funded
          funded,      \* the chain backend knows the inputs' funding outputs
          call,        \* the API calls in flight
          jobs,        \* the job table
          worker,      \* the job executions in flight
          faults       \* worker faults so far

vars == <<log, blobs, build, funded, call, jobs, worker, faults>>

(* A signature that can count is by a keystore, on an input, under the form *)
(* of the keystore's public key that is in the script; signing again may    *)
(* give another one (Nonces).  A stored document is identified with these.  *)
(* An upload may also carry signatures under the key's other form           *)
(* (SubmissionValidation has both): they are accepted, stored and of no use.*)
Unsigned == [kind |-> "unsigned", sigs |-> {}]
Merged(usable, nonce) == [kind |-> "signed", sigs |-> usable \X {nonce}]
FinalTx(sigs) == [kind |-> "tx", sigs |-> sigs]

Hashes == {Unsigned}
          \cup [kind : {"signed", "tx"}, sigs : SUBSET ((Keystores \X Inputs) \X Nonces)]

SignersOn(sigs, i) == {sig[1][1] : sig \in {s \in sigs : s[1][2] = i}}

\* The aggregate, which does not look at the hashes its events carry.
Plain(e) == IF "hash" \in DOMAIN e THEN [f \in DOMAIN e \ {"hash"} |-> e[f]] ELSE e

Session == INSTANCE PsbtSession WITH
    events <- [i \in DOMAIN log |-> Plain(log[i])],
    Txids <- {Tx}, MaxInvalidations <- Cardinality(Calls)

JobIds == {Creation} \cup Calls

View(seen) == SubSeq(log, 1, seen)

\* sessions.update: append to the stream unless another commit extended it
\* since it was loaded (UNIQUE (id, sequence)); then nothing is committed.
Fresh(seen) == Len(log) = seen

\* Variants with a bug: the event is appended to whatever is there now, and a
\* lost race is reported as success.
CommitUnchecked(seen, event) == log' = Append(log, event)
CommitOrForget(seen, event) == log' = IF Fresh(seen) THEN Append(log, event) ELSE log

Commit(seen, event) == Fresh(seen) /\ log' = Append(log, event)

\* Variant with a bug: the job row is not written.
SpawnNothing(j) == UNCHANGED jobs

\* Variant with a bug: one finalization job at a time is thought to be enough.
SpawnUnlessRunning(j) ==
    IF j \in Calls /\ \E c \in Calls : jobs[c] \in {"queued", "running"}
    THEN UNCHANGED jobs
    ELSE jobs' = [jobs EXCEPT ![j] = "queued"]

Spawn(j) == jobs' = [jobs EXCEPT ![j] = "queued"]

\* Variant with a bug: the event is recorded for a blob nobody stored.
PutNothing(hash) == UNCHANGED blobs

Put(hash) == blobs' = blobs \cup {hash}

Idle == [step |-> "idle", kind |-> None, key |-> None, seen |-> 0, hash |-> None]

\* find_by_id: a call or a job starts from a copy of the session as it now is.
Loaded(kind, key) == [step |-> "loaded", kind |-> kind, key |-> key,
                      seen |-> Len(log), hash |-> None]

\* It has stored its document, and goes on to commit against its copy.
Stored(x, hash) == [x EXCEPT !.step = "stored", !.hash = hash]

\* An execution has returned Ok; its row is still there.
Ended(x) == [x EXCEPT !.step = "ended", !.hash = None]
-----------------------------------------------------------------------------
Init == /\ log = <<>>
        /\ blobs = {}
        /\ build = "built"
        /\ funded = FALSE
        /\ call = [c \in Calls |-> Idle]
        /\ jobs = [j \in JobIds |-> "none"]
        /\ worker = [w \in Workers |-> Idle]
        /\ faults = 0

\* propose_spend: the session's first event and the PSBT-creation job row commit
\* in one transaction.  The spec may pass validation and still be unbuildable.
Propose(p, outcome) ==
    /\ log = <<>>
    /\ log' = <<[type |-> "Initialized", policy |-> p]>>
    /\ Spawn(Creation)
    /\ build' = outcome
    /\ UNCHANGED <<blobs, funded, call, worker, faults>>

\* The chain backend catches up with the funding transactions.
FundingArrives == /\ ~funded
                  /\ funded' = TRUE
                  /\ UNCHANGED <<log, blobs, build, call, jobs, worker, faults>>
-----------------------------------------------------------------------------
(* API calls: load, (store,) commit.                                       *)

\* apply_chain_observation: fold one observation of the finalized transaction.
Records(view, observation) ==
    CASE observation = "BroadcastSeen" -> Session!RecordsBroadcast(view, Tx)
      [] observation = "Confirmed"     -> Session!RecordsConfirmation(view, Tx)
      [] observation = "Invalidated"   -> Session!RecordsInvalidation(view)

\* On this copy the call does not end in an error: an uploader is resolved to a
\* keystore of the wallet and the unsigned PSBT is there, a command is accepted.
Acts(kind, k, view) ==
    CASE kind = "upload" -> /\ k \in Session!Policy(view).keystores
                            /\ Session!Has(view, "PsbtCreated")
      [] kind = "cancel" -> Session!AlreadyApplied(view, "Cancelled", {})
                              \/ Session!AcceptsCancel(view)
      [] kind \in Observations -> Records(view, kind)

\* Every call loads the session first.  Uploads also bring the caller's keystore,
\* resolved from the wallet's submissions.  A call that ends in an error on its
\* copy changes nothing, and is no step.
LoadCall(c, kind, k) ==
    /\ log # <<>>
    /\ kind \in CallKinds
    /\ call[c].step = "idle"
    /\ Acts(kind, k, log)
    /\ call' = [call EXCEPT ![c] = Loaded(kind, k)]
    /\ UNCHANGED <<log, blobs, build, funded, jobs, worker, faults>>

\* The call answers an error, or its server dies: nothing was committed, and the
\* client may try again.
AbandonCall(c) == /\ call[c].step \in {"loaded", "stored"}
                  /\ call' = [call EXCEPT ![c] = Idle]
                  /\ UNCHANGED <<log, blobs, build, funded, jobs, worker, faults>>

\* Variant with a bug: signatures are not bound to the uploader.
ValidUnboundSubmission(k, signed) == \E signer \in Keystores : signed = {signer} \X Inputs

\* validate_signed_submission: the upload adds signatures, in whatever form of the
\* key, of exactly the keystore bound to the caller, and on every input.
ValidSubmission(k, signed) == signed = {k} \X Inputs

\* submit_signed_psbt up to blobs.put: check the upload against the stored unsigned
\* PSBT, store original + extracted signatures.
\* The upload brings signatures of any keystores on any inputs; those in usable are
\* under the script's form of the key.
StoreSignature(c, signed, usable, nonce) ==
    LET k == call[c].key
        merged == Merged(usable, nonce)
    IN  /\ call[c].step = "loaded" /\ call[c].kind = "upload"
        /\ Unsigned \in blobs
        /\ ValidSubmission(k, signed)
        /\ Put(merged)
        /\ call' = [call EXCEPT ![c] = Stored(@, merged)]
        /\ UNCHANGED <<log, build, funded, jobs, worker, faults>>

Done(c) == call' = [call EXCEPT ![c] = [@ EXCEPT !.step = "done", !.seen = 0, !.hash = None]]

\* submit_signed_psbt's transaction: the signature event, when there is one to
\* record, and the finalization job row commit together or not at all.
CommitSignature(c) ==
    LET k == call[c].key
        view == View(call[c].seen)
    IN  /\ call[c].step = "stored"
        /\ \/ /\ Session!Signed(view, k)
              /\ UNCHANGED log
           \/ /\ Session!AcceptsSignature(view, k)
              /\ Commit(call[c].seen, [type |-> "SignatureAdded", fingerprint |-> k,
                                       hash |-> call[c].hash])
        /\ Spawn(c)
        /\ Done(c)
        /\ UNCHANGED <<blobs, build, funded, worker, faults>>

\* PsbtSession::cancel, which the service does not offer yet, called the way
\* cancel_wallet calls Wallet::cancel: load, command, update.
CommitCancel(c) ==
    LET view == View(call[c].seen)
    IN  /\ call[c].step = "loaded" /\ call[c].kind = "cancel"
        /\ \/ /\ Session!AlreadyApplied(view, "Cancelled", {})
              /\ UNCHANGED log
           \/ /\ Session!AcceptsCancel(view)
              /\ Commit(call[c].seen, [type |-> "Cancelled"])
        /\ Done(c)
        /\ UNCHANGED <<blobs, build, funded, jobs, worker, faults>>

ChainEvent(observation) == IF observation = "Invalidated" THEN [type |-> "Invalidated"]
                           ELSE [type |-> observation, txid |-> Tx]

CommitObservation(c) ==
    /\ call[c].step = "loaded" /\ call[c].kind \in Observations
    /\ Records(View(call[c].seen), call[c].kind)
    /\ Commit(call[c].seen, ChainEvent(call[c].kind))
    /\ Done(c)
    /\ UNCHANGED <<blobs, build, funded, jobs, worker, faults>>
-----------------------------------------------------------------------------
(* Job executions.                                                         *)

Complete(w) == /\ jobs' = [jobs EXCEPT ![worker[w].key] = "gone"]
               /\ worker' = [worker EXCEPT ![w] = Idle]

\* An Err result reschedules the row, unless another execution completed it.
Reschedule(w) == /\ jobs' = [jobs EXCEPT ![worker[w].key] =
                                IF @ = "gone" THEN "gone" ELSE "queued"]
                 /\ worker' = [worker EXCEPT ![w] = Idle]

\* Variant with a bug: the quorum is asked for one signature too many.
NothingToDoYet(j, view) ==
    IF j = Creation
    THEN Session!Has(view, "PsbtCreated") \/ Session!Status(view) # "Pending"
    ELSE \/ Session!Has(view, "Finalized")
         \/ Session!Status(view) # "Collecting"
         \/ Cardinality(Session!Signers(view)) <= Session!Policy(view).threshold

\* Nothing (more) to do: the early returns of the two jobs that end as Complete.
NothingToDo(j, view) ==
    IF j = Creation
    THEN Session!Has(view, "PsbtCreated") \/ Session!Status(view) # "Pending"
    ELSE \/ Session!Has(view, "Finalized")
         \/ Session!Status(view) # "Collecting"
         \/ ~Session!ThresholdMet(view)

\* A worker claims a queued job and loads the session.  With nothing to do on that
\* copy the execution is over; the row is deleted later, whatever commits meanwhile.
StartJob(w, j) ==
    /\ worker[w].step = "idle"
    /\ jobs[j] = "queued"
    /\ jobs' = [jobs EXCEPT ![j] = "running"]
    /\ worker' = [worker EXCEPT ![w] = IF NothingToDo(j, log) THEN Ended(Loaded(None, j))
                                      ELSE Loaded(None, j)]
    /\ UNCHANGED <<log, blobs, build, funded, call, faults>>

\* run_psbt_creation up to blobs.put.  Missing funding is retried, and so is every
\* error that is not final; after a final one the session stays Pending.
BuildPsbt(w) ==
    /\ worker[w].step = "loaded" /\ worker[w].key = Creation
    /\ \/ /\ ~funded \/ build = "retried"
          /\ Reschedule(w)
          /\ UNCHANGED blobs
       \/ /\ funded /\ build = "given up"
          /\ worker' = [worker EXCEPT ![w] = Ended(@)]
          /\ UNCHANGED <<blobs, jobs>>
       \/ /\ funded /\ build = "built"
          /\ Put(Unsigned)
          /\ worker' = [worker EXCEPT ![w] = Stored(@, Unsigned)]
          /\ UNCHANGED jobs
    /\ UNCHANGED <<log, build, funded, call, faults>>

\* signatures(), in the order they were recorded, and what the first n of their
\* blobs add up to.
SignedAt(view) == Session!Indices(view, {"SignatureAdded"})
SignedUpTo(view, i) == {j \in SignedAt(view) : j <= i}
Nth(view, n) == CHOOSE i \in SignedAt(view) : Cardinality(SignedUpTo(view, i)) = n
Recorded(view) == [n \in 1..Cardinality(SignedAt(view)) |-> view[Nth(view, n)]]
Gathered(view, n) == UNION {Recorded(view)[i].hash.sigs : i \in 1..n}

\* The multisig scripts are satisfied once enough of their keys signed every input.
Satisfies(view, n) ==
    \A i \in Inputs :
       Cardinality(SignersOn(Gathered(view, n), i)) >= Session!Policy(view).threshold

Prefixes(view) == {n \in 1..Len(Recorded(view)) : Satisfies(view, n)}
Minimal(view) == CHOOSE n \in Prefixes(view) : \A m \in Prefixes(view) : n <= m

\* Variant with a bug: everyone who signed is said to have authorised the spend.
SigsUsedAll(view) == [i \in DOMAIN Recorded(view) |-> Recorded(view)[i].fingerprint]

\* sigs_used: the signers of the minimal recorded prefix that finalizes.
SigsUsed(view) == [i \in 1..Minimal(view) |-> Recorded(view)[i].fingerprint]

BlobsPresent(view) == /\ Unsigned \in blobs
                      /\ \A i \in DOMAIN Recorded(view) : Recorded(view)[i].hash \in blobs

Assemblable(view) == BlobsPresent(view) /\ Prefixes(view) # {}

\* What finalize takes from the merged signatures: on every input as many as the
\* script asks for, of different keys.
Witnesses(view) ==
    {sigs \in SUBSET Gathered(view, Minimal(view)) :
        \A i \in Inputs : Cardinality(SignersOn(sigs, i)) = Session!Policy(view).threshold}

\* run_finalization up to blobs.put: merge recorded signatures until the
\* transaction finalizes; a missing blob or an unsatisfied script is an error.
AssembleTx(w) ==
    LET view == View(worker[w].seen)
    IN  /\ worker[w].step = "loaded" /\ worker[w].key \in Calls
        /\ \/ /\ Assemblable(view)
              /\ \E sigs \in Witnesses(view) :
                    /\ Put(FinalTx(sigs))
                    /\ worker' = [worker EXCEPT ![w] = Stored(@, FinalTx(sigs))]
              /\ UNCHANGED jobs
           \/ /\ ~Assemblable(view)
              /\ Reschedule(w)
              /\ UNCHANGED blobs
        /\ UNCHANGED <<log, build, funded, call, faults>>

\* The job's update of the session: it loses against any commit since the load.
RecordResult(w) ==
    LET view == View(worker[w].seen)
        hash == worker[w].hash
        finalized == [type |-> "Finalized", txid |-> Tx, hash |-> hash,
                      used |-> Session!Used(SigsUsed(view))]
    IN  /\ worker[w].step = "stored"
        /\ \/ /\ worker[w].key = Creation
              /\ Session!RecordsPsbt(view)
              /\ Commit(worker[w].seen, [type |-> "PsbtCreated", hash |-> hash])
              /\ UNCHANGED jobs
              /\ worker' = [worker EXCEPT ![w] = Ended(@)]
           \/ /\ worker[w].key \in Calls
              /\ Session!AcceptsFinalization(view, SigsUsed(view))
              /\ Commit(worker[w].seen, finalized)
              /\ UNCHANGED jobs
              /\ worker' = [worker EXCEPT ![w] = Ended(@)]
           \/ /\ ~Fresh(worker[w].seen)
              /\ Reschedule(w)
              /\ UNCHANGED log
           \/ /\ worker[w].key \in Calls
              /\ ~Session!AcceptsFinalization(view, SigsUsed(view))
              /\ Reschedule(w)
              /\ UNCHANGED log
        /\ UNCHANGED <<blobs, build, funded, call, faults>>

\* The executor deletes the row, in a transaction of its own.
FinishJob(w) == /\ worker[w].step = "ended"
                /\ Complete(w)
                /\ UNCHANGED <<log, blobs, build, funded, call, faults>>

\* A worker dies; its row stays claimed until its keep-alive expires.
LoseWorker(w) == /\ worker[w].step # "idle"
                 /\ faults < MaxFaults
                 /\ faults' = faults + 1
                 /\ worker' = [worker EXCEPT ![w] = Idle]
                 /\ UNCHANGED <<log, blobs, build, funded, call, jobs>>

Orphaned(j) == jobs[j] = "running" /\ \A w \in Workers : worker[w].key # j

\* The executor hands a lost job out again.
RescheduleLost(j) == /\ Orphaned(j)
                     /\ jobs' = [jobs EXCEPT ![j] = "queued"]
                     /\ UNCHANGED <<log, blobs, build, funded, call, worker, faults>>

\* A slow worker misses its keep-alive: the job is handed out again while the
\* first execution still runs.
RescheduleSlow(j) == /\ jobs[j] = "running" /\ ~Orphaned(j)
                     /\ faults < MaxFaults
                     /\ faults' = faults + 1
                     /\ jobs' = [jobs EXCEPT ![j] = "queued"]
                     /\ UNCHANGED <<log, blobs, build, funded, call, worker>>
-----------------------------------------------------------------------------
Next ==
    \/ \E p \in Policies, outcome \in Outcomes : Propose(p, outcome)
    \/ FundingArrives
    \/ \E c \in Calls, k \in Keystores : LoadCall(c, "upload", k)
    \/ \E c \in Calls, kind \in CallKinds \ {"upload"} : LoadCall(c, kind, None)
    \/ \E c \in Calls : AbandonCall(c)
    \/ \E c \in Calls, signed \in SUBSET (Keystores \X Inputs) :
          \E usable \in SUBSET signed, nonce \in Nonces :
             StoreSignature(c, signed, usable, nonce)
    \/ \E c \in Calls : CommitSignature(c)
    \/ \E c \in Calls : CommitCancel(c)
    \/ \E c \in Calls : CommitObservation(c)
    \/ \E w \in Workers, j \in JobIds : StartJob(w, j)
    \/ \E w \in Workers : BuildPsbt(w)
    \/ \E w \in Workers : AssembleTx(w)
    \/ \E w \in Workers : RecordResult(w)
    \/ \E w \in Workers : FinishJob(w)
    \/ \E w \in Workers : LoseWorker(w)
    \/ \E j \in JobIds : RescheduleLost(j)
    \/ \E j \in JobIds : RescheduleSlow(j)

Spec == Init /\ [][Next]_vars

\* Workers keep polling and running, the executor reschedules lost jobs, and
\* the chain backend catches up.  Clients promise nothing.
Fairness ==
    /\ WF_vars(FundingArrives)
    /\ \A w \in Workers : /\ WF_vars(\E j \in JobIds : StartJob(w, j))
                          /\ WF_vars(BuildPsbt(w))
                          /\ WF_vars(AssembleTx(w))
                          /\ WF_vars(RecordResult(w))
                          /\ WF_vars(FinishJob(w))
    /\ \A j \in JobIds : WF_vars(RescheduleLost(j))

FairSpec == Spec /\ Fairness
-----------------------------------------------------------------------------
(* Properties.                                                             *)

Steps == [step : {"idle", "loaded", "stored", "ended", "done"},
          kind : {"upload", "cancel", None} \cup Observations,
          key  : Keystores \cup JobIds \cup {None},
          seen : Nat,
          hash : Hashes \cup {None}]

TypeOK == /\ Session!TypeOK
          /\ \A i \in DOMAIN log : /\ log[i].type \in {"PsbtCreated", "SignatureAdded", "Finalized"}
                                       <=> "hash" \in DOMAIN log[i]
                                  /\ "hash" \in DOMAIN log[i] => log[i].hash \in Hashes
          /\ blobs \subseteq Hashes
          /\ build \in Outcomes /\ funded \in BOOLEAN
          /\ call \in [Calls -> Steps]
          /\ jobs \in [JobIds -> {"none", "queued", "running", "gone"}]
          /\ worker \in [Workers -> Steps]
          /\ faults \in 0..MaxFaults

\* Whatever calls, jobs and crashes interleave, the persisted stream is one the
\* aggregate's commands produce one after the other: no lost update, no command
\* accepted on a stale copy.
ImplementsSession == Session!Spec

\* A crash between the blob upload and the commit leaves at most an orphan blob:
\* every hash an event refers to is in the store.
ReferencedBlobsStored ==
    \A i \in DOMAIN log : "hash" \in DOMAIN log[i] => log[i].hash \in blobs

\* A session that can still get its unsigned PSBT has a creation job to build it;
\* only a final build failure leaves a pending session without one.
PendingHasJob ==
    log # <<>> /\ Session!Status(log) = "Pending" /\ build # "given up"
        => jobs[Creation] \in {"queued", "running"}

\* A session whose quorum is met has a finalization job that sees the quorum: no
\* execution of it, if there is one, works on a copy from before.
QuorumHasJob ==
    log # <<>> /\ Session!Status(log) = "Collecting" /\ Session!ThresholdMet(log)
        => \E c \in Calls :
              /\ jobs[c] \in {"queued", "running"}
              /\ \A w \in Workers : worker[w].key = c => Session!ThresholdMet(View(worker[w].seen))

\* The first n recorded signers whose upload signed input i under the script's key.
UsableSigners(n, i) ==
    {Recorded(log)[m].fingerprint :
        m \in {l \in 1..n : SignersOn(Recorded(log)[l].hash.sigs, i) # {}}}

\* Among the first n recorded signers there is a quorum for each input.
UsableQuorum(n) ==
    \A i \in Inputs : Cardinality(UsableSigners(n, i)) >= Session!Policy(log).threshold

\* Once every input has a quorum of recorded signers under the script's keys, the
\* finalization job cannot end in CannotFinalize, a missing blob or a rejected
\* sigs_used, whatever else was recorded before or in between.
UsableQuorumFinalizes ==
    log # <<>> /\ Session!Status(log) = "Collecting" /\ UsableQuorum(Len(Recorded(log)))
        => Assemblable(log) /\ Session!AcceptsFinalization(log, SigsUsed(log))

\* sigs_used is "the minimal recorded prefix that authorized the spend": the first
\* signers up to the one that gave each input its quorum.  The stored transaction
\* carries on each input as many signatures as the script asks for, all of them by
\* keystores that sigs_used names.
AuthorityIsExact ==
    Session!Has(log, "Finalized") =>
      LET final == Session!Finalization(log)
          n == Cardinality(final.used)
      IN  /\ n \in DOMAIN Recorded(log)
          /\ final.used = {Recorded(log)[m].fingerprint : m \in 1..n}
          /\ UsableQuorum(n) /\ \A m \in 1..(n - 1) : ~UsableQuorum(m)
          /\ \A i \in Inputs :
                /\ SignersOn(final.hash.sigs, i) \subseteq UsableSigners(n, i)
                /\ Cardinality(SignersOn(final.hash.sigs, i)) = Session!Policy(log).threshold

\* An acknowledged upload or cancellation is in the stream and stays there.
AcknowledgedIsRecorded ==
    \A c \in Calls : call[c].step = "done" =>
      /\ call[c].kind = "upload" => Session!Signed(log, call[c].key)
      /\ call[c].kind = "cancel" => Session!Has(log, "Cancelled")

\* A buildable proposal gets its PSBT, unless it is cancelled first.
PsbtGetsBuilt ==
    (log # <<>> /\ Session!Status(log) = "Pending" /\ build = "built")
        ~> Session!Status(log) # "Pending"

\* Once every input has a quorum of recorded signers under the script's keys the
\* session is finalized, unless it is cancelled first, whatever workers are lost on
\* the way and whatever jobs ended below the threshold.
QuorumGetsFinalized ==
    (log # <<>> /\ Session!Status(log) = "Collecting" /\ UsableQuorum(Len(Recorded(log))))
        ~> Session!Status(log) # "Collecting"
=============================================================================
