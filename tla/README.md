# Kota: a verification project for the coordination core

Kota coordinates multi-signature Bitcoin spends. Participants register a t-of-n
policy and submit one keystore each; the keystore that completes the policy
activates the wallet. Anyone may then propose a spend; a background job builds
the unsigned PSBT, participants upload signed copies, a second job assembles the
final transaction once enough signatures are recorded, and observations of the
chain move the session from there. The platform never holds a private key.

These TLA+ modules model the state-changing core of `core/coordination`,
`kota/app/src/lib.rs` and the two migrations. TLC checks them on small instances
and TLAPS proves for every instance what the runs show of safety: each invariant,
each action property and each refinement.

To check a run: `tlc -config Coordination.cfg MCCoordination.tla` (see the table
of runs). To check the proofs of a component: `tlapm CoordinationProofs.tla`, and
likewise the other modules named `...Proofs` (section 4); `CoordinationProofs` takes
some minutes, the others less.

## 1. Inventory

Paths are relative to `core/coordination/src/` unless they start with `kota/`.

| Component | State | Operations | What must hold |
|---|---|---|---|
| PSBT session aggregate, `psbt_session/entity.rs` | one append-only event stream; status, signatures and finalization are folds of it | propose, `record_psbt_created`, `add_signature`, `finalize`, `mark_broadcast_seen`, `confirm`, `invalidate`, `cancel` | the stream always loads again; signatures lie between PSBT and decision; the authority is a quorum of distinct collected signers; the chain has the last word; epochs alternate |
| Wallet aggregate, `wallet/entity.rs` | one append-only event stream | register, `add_keystore` (activates when complete), `remove_keystore`, `cancel` | one key per participant and per device; a collecting wallet is never complete; the descriptor is that of the keystores the stream folds to; terminal means terminal; one wallet per threshold and set of keys |
| Use-case layer, `kota/app/src/lib.rs` | none of its own; each call loads a copy, may store a blob, and commits in one database transaction | `register_wallet`, `submit_keystore`, `remove_keystore`, `cancel_wallet`, `propose_spend`, `submit_signed_psbt` | no command takes effect on a copy that is out of date; an event and the job it needs commit together; an acknowledged call is recorded |
| Background jobs, `jobs/*.rs` | the job table (external `job` crate) | `run_psbt_creation`, `run_finalization`, retry on `Err` | a pending session has a job that builds it; a met quorum has a job that sees it, and one the scripts can use is finalized; running twice is harmless |
| Chain observations, `jobs/mod.rs` `apply_chain_observation` | the consumer's position (external) | fold one observation into the session | a caught-up session agrees with the chain; replay is harmless |
| Blob store, `storage.rs` | content-addressed documents outside the database transaction | `put`, verified fetch | every hash an event refers to is stored |
| PSBT validation, `psbt.rs` | none | `validate_signed_submission`, `merge_partial_sigs`, `verify_merged_blob` | an accepted upload is the original plus complete signatures of exactly the caller's keystore, under whichever form of its key; no lost or corrupt blob reaches a final transaction |
| Spend building, `wallet.rs`, `NewPsbtSession::try_new` | none | amount, dust, fee, network checks; PSBT construction | what is built is balanced and sound in exact arithmetic; what is given up was hopeless; what can be built is |
| Repositories, migrations | tables, `UNIQUE (id, sequence)`, `UNIQUE` descriptor fingerprint | optimistic append | a commit extends exactly the stream that was loaded |
| Configuration, start-up, errors | none | wiring | not modelled |

How they interact. The use-case layer calls the aggregates on loaded copies and
persists new events through the repositories; `propose_spend` and
`submit_signed_psbt` spawn the jobs in the same transaction; the jobs load, build
and store in the same way, on their own copies; chain observations enter through
`apply_chain_observation`. The only shared state is the database and the blob
store; the only mutual exclusion is the uniqueness of `(id, sequence)`.

What is hard here: copies that are stale when they are used; blobs stored outside
the transaction that refers to them; jobs executed more than once, or by two
workers at a time; observations replayed from before a reversal; guards that scan
the stream backwards and stop at a resetting event; public keys that are compared
by their point in one place and by their exact form in another. `PROJECT.json` lists every
hazard with its line and the properties that cover it.

## 2. Modules

| Module | Models | State |
|---|---|---|
| `SpendLifecycle` | abstract: what a signing session promises | status, policy, signers, authority, spend |
| `PsbtSession` | the session aggregate: its events, the folds, one predicate per command's guards, one action per command | `events` |
| `Coordination` | one session as the running system drives it: calls, jobs, job table, blob store, crashes; instantiates `PsbtSession` | `log`, `blobs`, `build`, `funded`, `call`, `jobs`, `worker`, `faults` |
| `ChainSync` | a finalized session, a chain, and an at-least-once consumer; instantiates `PsbtSession` | `events`, `chain`, `feed`, `cursor`, `delivered`, `rewinds` |
| `KeystoreCollection` | abstract: what a wallet promises | phase, registration, held, descriptor |
| `Wallet` | the wallet aggregate | `events` |
| `WalletImport` | several wallets as the service drives them: concurrent calls on loaded copies, the UNIQUE descriptor fingerprint, `resolve_fingerprint_collision`, a proposal's policy snapshot; instantiates `Wallet` once per wallet | `log`, `call`, `sessions` |
| `SpendBuild` | a spend from proposal to unsigned transaction: the checks of `try_new`, `build_unsigned_psbt` with its errors in order, the creation job's choice between giving up and retrying | `coins`, `known`, `spec`, `tx`, `job` |
| `SubmissionValidation` | the documents of one session: validation of uploads, merging, verified fetch, re-verification and assembly, with a store that loses or corrupts blobs | `threshold`, `store`, `upload`, `recorded`, `final`, `faults` |
| `PsbtSessionProofs`, `CoordinationProofs`, `ChainSyncProofs`, `WalletProofs`, `WalletImportProofs`, `SpendBuildProofs`, `SubmissionValidationProofs` | theorems about the module each is named after | |
| `MC...` | constants of the small instances | |

Correspondence. An event is a record whose `type` is the enum variant. The
aggregates recompute everything by folding the stream, and so do the modules:
`Status(es)` finds the newest lifecycle event, as `status()` does with
`iter_all().rev()`; `AlreadyApplied(es, type, resets)` is `idempotency_guard!`:
some matching event with no resetting event after it. A command that answers
`AlreadyApplied` or an error pushes nothing, so it is no step. Guards are
predicates on a stream rather than on the variable, because `Coordination` runs
them on a prefix of the log: the copy a call or a job loaded (`View(seen)`).

In `Coordination` a call takes two or three steps: `LoadCall` (`find_by_id` and
the resolution of the caller's keystore), `StoreSignature` (validation and
`blobs.put`), and `CommitSignature` (the transaction holding the event and the
job row). `CommitCancel` and `CommitObservation` need no store. Job executions go
`StartJob` (claim, `find_by_id` and the early returns on that copy), `BuildPsbt` or
`AssembleTx`, `RecordResult`, `FinishJob` (the executor deletes the row); an `Err`
result is `Reschedule`. An execution with nothing to do goes straight to its end
(`Ended`), and everything else may happen before its row is deleted: in particular
the upload that completes the quorum its copy did not have. `Commit(seen, event)` is the optimistic append: enabled
only while the log has the length it had at the load. `AbandonCall` stands for an
error answer, a lost race and a dying server alike; `LoseWorker`,
`RescheduleLost` and `RescheduleSlow` are the ways the job crate executes a job
more than once. A blob is identified with its content, the signatures it carries
that a script can use, since its key is the hash of its content.

The upload's signatures are not assumed right: `StoreSignature` offers signatures
of any keystores on any inputs, any part of them under the script's form of the key
(`usable`), and `ValidSubmission` states what `validate_signed_submission` lets
through: signatures of the caller's keystore on every input, in whatever form. A
recorded upload may therefore be of use on all inputs, on some or on none.
`SigsUsed` is then computed as `run_finalization` does it, merging recorded blobs
until the scripts are satisfied, and the final transaction carries what miniscript
puts into its witnesses: on each input as many signatures as the threshold
(`Witnesses`; which of them, where more would do, is left open).

In `WalletImport` a call takes two steps, `Load` (`find_by_id` and the command
on that copy) and the update; a `submit_keystore` whose update failed takes a
third, `ResolveCollision`, which works on the copy with the events it could not
persist. `UpdateFails` says when the database must refuse: another wallet's row has
the fingerprint, or `(id, sequence)` is taken. The update may also fail for any other
reason, and `ResolveCollision` runs after every error, as in the code. A command that is refused or already
applied on its copy writes nothing and is no step.

In `SpendBuild` the builder is an operator: `Build(spec, found)` is its first
error, in the order of the code, or "ok", where `found` is what the funding
provider returned to this execution. Additions keep the width of `u64`
(`MaxAmount`), and the properties are stated in exact arithmetic. `Final` is the
list of errors on which the job completes instead of being retried.

In `SubmissionValidation` a document consists of the parts the validation
compares (transaction, global map, output maps, other fields of each input), each
"original" or "altered", and the signature map of each input. A signature is an
attribute: valid with SIGHASH_ALL, valid with another sighash type, or invalid. It is
filed under a `PublicKey`, `Key(k, i, form)`: the key of a keystore for an input, in
its compressed or uncompressed form. The validation looks key sources up and
verifies by the key (`KeySource` ignores the form), the maps of signatures
(`Extended`, `Combined`) tell the forms apart, and `finalize` looks for the scripts'
keys, which are compressed (`Usable`). A blob's key is its content; corruption puts another document under the key. The assembly
keeps the first signature under each public key, as `run_finalization` does with
`or_insert`: `Combined` says so layer by layer, without recursion.

The three levels fit together. `Coordination` follows one session through
interleavings and crashes and abstracts what the other two examine: `build` is
the outcome of `Build` once the funding is known, decided once because
`Build` reads only the recorded spec and coins that do not change (`SpendBuild`
has all three outcomes: built, given up, retried for ever); `ValidSubmission` is
the equivalence `ValidatesExactly` of `SubmissionValidation`, where `usable` are the
inputs whose form choice has the compressed one; both modules state the quorum the
scripts can use by the same name, `UsableQuorum`. The policies a
session may be proposed on (`PsbtSession`, `Coordination`) are the snapshots that
`ProposalsFitTheirWallet` describes.

Abstractions. Outside `SpendBuild`, amounts, scripts, addresses and free text are
left out. Whether a signature verifies is what `psbt.rs` asks of `miniscript`. A
descriptor is a threshold and the sequence of keys in the order of their string
forms (`KeyOrder`), as `sortedmulti_wsh_descriptor` sorts them; on one network a
descriptor and its fingerprint identify each other. Master fingerprints are a
function of the key; two keys may share one. `WalletImport` follows one proposed
spend: spends do not interact before they reach the chain.

Two entry points have no caller in the application yet: `PsbtSession::cancel`,
which the service does not offer as a call, and `apply_chain_observation`, which
waits for the chain-sync consumer. Both are part of the core and the jobs already
provide for them (they return early on a session that left `Pending` or
`Collecting`), so `Coordination` lets a client cancel the way `cancel_wallet` does
(load, command, update), and observations arrive the way `apply_chain_observation`
loads and updates. The `uploads` run is the system without either.

External behaviour, modelled from how the code uses it: `es-entity` appends under
`UNIQUE (id, sequence)` and rolls the whole transaction back on conflict; the
`job` crate hands a row out again when its execution is lost or returns `Err`,
and deletes it on `Complete`, in a transaction of its own; the blob store keeps
what it was given; the chain feed is ordered and at least once. The number of
attempts the job crate allows is taken not to be exhausted.

## 3. Runs

| Run | Module, cfg | Question |
|---|---|---|
| `session` | `MCPsbtSession`, `PsbtSession.cfg` | do the commands, in every order, keep the stream loadable, audited in causal order, and an implementation of `SpendLifecycle`? |
| `uploads` | `MCCoordination`, `Coordination.cfg` | with concurrent uploads, two workers and a worker fault: are blobs, jobs and quorums never stranded, is the authority exact, is the log still one the aggregate produces? |
| `observations` | `CoordinationChain.cfg` | do chain observations, cancellations, uploads and jobs on stale copies keep the log one the aggregate produces, and is what a caller was told recorded? |
| `progress` | `CoordinationLive.cfg` | do proposals get their PSBT and quorums their finalization? |
| `chain` | `ChainSync`, `ChainSync.cfg` | does a session follow its transaction through reorgs, replacements and replay? |
| `chain_redelivery`, `chain_mempool` | `ChainSyncRedelivery.cfg`, `ChainSyncMempool.cfg` | two statements of the docs that the code does not keep (section 6) |
| `wallet` | `MCWallet`, `Wallet.cfg` | do the wallet commands implement `KeystoreCollection`, with a current descriptor and an audit trail that pairs up? |
| `wallet_imports` | `MCWalletImport`, `WalletImport.cfg` | when calls on two wallets of the same participants race, does each stream stay one the aggregate produces, does a policy have one wallet, is a collision answered with the right one, and does a proposal fit its wallet? |
| `spend_build` | `MCSpendBuild`, `SpendBuild.cfg` | whatever is proposed and however late its funding is known, is what is built sound, what is given up hopeless, and what can be built built? |
| `submissions` | `MCSubmissionValidation`, `SubmissionValidation.cfg` | does validation let exactly the right documents through, does a quorum the scripts can use finalize, and does no lost or corrupt blob reach a final transaction? |
| `submissions_quorum` | `SubmissionQuorum.cfg` | a third such statement: can every met quorum of intact uploads be finalized? (section 6) |

Bounds, each named in its cfg, and why they are enough:

- `session`: three keystores, so that t < n, t = n and keys outside the policy
  all occur; two txids, so that chain events may name a foreign transaction;
  lists of up to three entries with repetitions; `MaxInvalidations = 2`, the
  only event that can otherwise repeat without limit (with it, the
  confirmations).
- `uploads`: two keystores and three calls, one more than a quorum needs: an
  upload that arrives over the threshold, and a keystore that uploads twice;
  two workers and one fault, the least with which two executions of a job
  overlap. One input, signed under the script's form of the key or not, is enough to
  tell recorded from usable signatures; inputs that differ are in `submissions` and
  in the proofs. `CallKinds = {"upload"}`, one signature per key and input (`Nonces`)
  and the symmetry of keystores, calls and workers keep it within minutes.
- `observations`: one keystore and four calls of every kind: upload, broadcast,
  confirmation or reversal, and one call racing them, or a cancellation racing an
  upload. No worker fault (`uploads` has them). A committed call is not reused, so
  `Calls` bounds the commands of one session.
- `progress`: no symmetry (unsound for liveness here), two calls, one fault, and
  policies over both keystores (`MCWalletPolicies`): another's upload ends at its load.
- `chain`: seven observations and two rewinds; a reversal and return needs three
  of them, and a replay across two reversals six.
- `wallet`: policies of one to three participants, registrations the constructor
  refuses, two keys of one device, two removals, and `MaxMultisigKeys = 2`, so
  that a policy of three meets the descriptor limit that `sortedmulti` imposes.
- `wallet_imports`: two wallets, two participants, two keys and two calls of
  every kind, thresholds 1 and 2: the same keys in either order, by the same or
  exchanged participants, under the same or another threshold. `MaxRemovals = 1`
  bounds removals and cancellations of both wallets together: one is enough for a
  copy to go stale, or for the holder of a fingerprint to differ from the copy.
  Two calls race; a third would only add another loser.
- `spend_build`: amounts of three bits, so that each addition of the builder can
  overflow with two summands; every list of up to two inputs, with a repetition,
  an input nobody funded and one list that is too long; outputs below, at and
  above their dust bound and on the wrong network; a fee above the cap; changes
  below dust and at an index no key can be derived at; coins of the wallet, of
  another script, and of an underivable index. The supply fits the width, as
  Bitcoin's fits 64 bits; proposers' amounts need not.
- `submissions`, `submissions_quorum`: two inputs (so that "all inputs" and "some
  input" differ, also in the form of the key), two keystores and a stranger,
  thresholds 1 and 2. Uploads: both forms of a signer's keys in every mixture over
  the inputs; any signatures under two keys on one input, one of them the other form
  of the key, another keystore's, a stranger's or the other input's; one altered part
  at a time. `MaxBlobs = 3` lets both keystores' uploads be stored beside the
  original, and one fault follows or precedes them; corrupt blobs are as well formed
  as the right one, because anything else fails to parse.

The theorems of section 4 remove these bounds for every safety property and every
refinement: there keystores, policies, amounts, documents, calls, workers and feeds
are any that satisfy the assumptions, and streams have any length. What the bounds
decide is left to two kinds of property, liveness and the three of section 6.

Fairness. `Coordination!Fairness` asks of the environment what the deployment
provides: pollers keep polling and executions that started take their next step
(`WF` of each worker's steps), the executor hands lost jobs out again, and the
chain backend eventually knows a confirmed funding output. Clients and the chain
are never fair: nobody has to upload, cancel or confirm. The number of faults and
of committed calls is finite, so a job cannot lose the commit race for ever; with
clients that extend one session's log forever it could, but the aggregate allows
only finitely many events before the finalization. `ChainSync!FairSpec` only
makes the consumer consume. `SpendBuild!FairSpec` makes the funding provider learn
of every coin that exists, and the executor run the queued job; nobody is made to
propose.

Deadlock checking is off where the system may rest: a cancelled session, a
session whose clients went away, an active wallet.

Every property has a mutant: a definition of the model changed as a bug in the
code would change it, marked "Variant with a bug" next to the original, under
which TLC finds the property violated.

## 4. Proofs

Every safety invariant, action property and refinement that a passing run checks
is a theorem of its module's specification. Streams have any length, and the
constants are any that satisfy the assumptions below.

| Module | Theorem | Says |
|---|---|---|
| `PsbtSessionProofs` | `TypeCorrect`, `AlwaysLoads` | `verify_hydrated_invariants` never refuses a stream the commands produced |
| | `AuditTrailOrdered` | the audit trail is in causal order |
| | `CancelFinal` | cancellation never follows a chain event, and closes an unfinalized session |
| | `EpochsAlternate` | confirmations and invalidations alternate and name the authorised transaction |
| | `SessionImplementsLifecycle` | `Spec => Lifecycle!Spec` under the refinement mapping |
| `WalletProofs` | `TypeCorrect`, `CollectionAlwaysSound` | the keystores held are of different participants and devices; active exactly when complete |
| | `DescriptorAlwaysCurrent` | an active wallet's descriptor is that of the keystores the stream folds to |
| | `RemovalsAlwaysPairUp` | each removal names the submission that was held |
| | `WalletImplementsCollection` | `Spec => Collection!Spec` |
| `WalletImportProofs` | `TypeCorrect`, `PolicyBelongsToOne` | no two active wallets of one threshold over one set of keys |
| | `ProposalsAlwaysFit` | a proposal's snapshot fits its wallet's script for good |
| | `AnswersMatchImports` | a collision is answered with the wallet the import meant |
| | `ImportImplementsWallets` | each wallet's stream is a behaviour of `Wallet` |
| `CoordinationProofs` | `TypeCorrect`, `BlobsOutliveCrashes` | no event refers to a blob that is not stored |
| | `PendingIsDriven`, `QuorumIsDriven` | pending work always has a job, and a quorum one that does not work on a copy from before it |
| | `QuorumFinalizable` | the finalization of a quorum the scripts can use cannot be refused |
| | `AuthorityExact` | `sigs_used` is the shortest recorded prefix with a quorum on every input; the transaction carries signatures of keystores it names |
| | `AcknowledgedStays` | what a caller was told is recorded for good |
| | `CoordinationImplementsSession` | the persisted stream is a behaviour of `PsbtSession` |
| `ChainSyncProofs` | `TypeCorrect`, `ConfirmedExact` | a caught-up session is Confirmed exactly when its transaction is in a block |
| | `ChainKeepsLastWord` | after a chain event only the chain moves the session |
| `SpendBuildProofs` | `TypeCorrect`, `TransactionsAreSound` | what is built balances in exact arithmetic and spends own coins |
| | `GivenUpHopeless` | what is given up, no coin still to come makes buildable |
| `SubmissionValidationProofs` | `TypeCorrect`, `ValidationIsExact` | the validation accepts the original with the signer's signatures on every input, under either form of the key or both, and nothing else |
| | `RecordedAlone` | every recorded blob verifies by itself and holds its signer's signatures only |
| | `QuorumFinalizes` | intact blobs of a quorum the scripts can use are enough |
| | `FinalizedAuthorised` | lost and corrupt blobs never reach a final transaction; its signers are among `sigs_used`, the shortest prefix that suffices |

Since `Coordination` implements `PsbtSession` and that implements `SpendLifecycle`,
and `WalletImport` implements `Wallet` and that `KeystoreCollection`, what the
abstract specifications promise holds of the streams that concurrent calls, jobs
and crashes leave in the database.

Assumptions, each an `ASSUME` of the module that declares the constants, which TLC
evaluates on every run:

- A policy has a threshold between 1 and the number of its keystores: what
  `NewPsbtSession::try_new` receives from an active wallet
  (`ProposalsFitTheirWallet`). For wallets nothing of the kind is assumed: a
  registration may have any threshold, and `ValidRegistration` decides.
- Keystores of a wallet (`SubmissionValidation`), `Wallets` and `Calls` are finite.
  The first is what `participants` is; the others because `MaxRemovals` and
  `MaxInvalidations` bound steps of all of them together.
- `KeyOrder` is injective: different keys have different string forms.
- The transaction has an input (`Inputs # {}`, as `try_new` checks and `NumInputs`
  states for `SubmissionValidation`).
- In `Coordination`, `SigLists` has every list the finalization job can pass, so
  that no step of the job is cut off by the constant.
- In `SpendBuild`, an address has one dust bound, also when a proposer names the
  change address, and amounts are naturals up to `MaxAmount`.
- `None`, `Stranger` and `Creation` are none of the values they are told from.

Each module has one inductive invariant, `IInv`, which TLC checked on small
instances before it was proved, one lemma per action that the action keeps it, and
lemmas about the folds under `Append`.

**PsbtSession.** The checked properties are not inductive: whether a cancellation
may be accepted depends on `status()`, which says something of one event only, the
newest. `IInv` adds three facts: the stream starts with its policy; the backward
scans find a newest event (`FoldsHaveNewest`); and chain events follow a
finalization (`ChainFollowsFinalization`). With them, `Status(events)` tells what
is in the stream: Pending, that no lifecycle event was recorded; Collecting, by
`AuditOrder`, that the PSBT was and no decision was (`CollectingIsOpen`); and so
on. `StepsPush` reduces every command to "the guard allows event e and e is
appended". `AlwaysLoads` also needs that a list without repetition has as many
distinct entries as its length (`DistinctEntriesCount`); that is where `finalize`'s
threshold test on the list and the hydration check on the set meet.

**Wallet.** `Sound(es)` adds to the checked invariants the shape of a stream: it
starts with its registration, and a final event is the last one. So `status()`,
which scans backwards, is told by the last event (`StatusIsLast`). The fold over
submissions and removals is described by what each append adds to it or takes
away (`AdditionIsHeld`, `RemovalIsTakenBack`). That the activation's descriptor
lists every key once is `SortedListsAll`: among sequences of a finite set of keys
there is one in key order.

**WalletImport.** A copy is a prefix of its stream on which the command was
accepted (`CallSound`). The length test of `UpdateFails` makes the copy equal to
the stream (`FreshCopy`), so every update is a command of `Wallet` on the stream
itself, and `Sound` carries over. `PolicyBelongsToOne` follows from the test on
`Holders`, because equal sets of keys in the key order give equal descriptors
(`ActiveScript`). An activation ends its stream, which is why a snapshot never
goes stale.

**Coordination.** `IInv` says: the stream is one the aggregate can have recorded
(`LogSound`, which is the `IInv` of `PsbtSessionProofs` for the stream without its
hashes); recorded blobs are stored and carry no other keystore's signatures than the
one's their event names (`DocumentsSound`); what a call or an execution holds between
its steps (`CallSound`, `CreationSound`, `FinalizationSound`); and that jobs exist
where they must (`JobsSound`). Two cases are delicate. An execution that found its
copy below the threshold may delete its row after the quorum was recorded; the quorum
is then driven by the job of the upload that completed it, whose row did not exist
before, so that no execution of it can have an older copy (`CallSound`: the row of a
call is "none" until it is answered; `FinalizationSound`: an execution goes on only
with a quorum on its copy, and ends with one only when collection is closed). And a
finalization may hold the row of a job which is gone: its job was completed by
another execution, so collection was closed. Every action leaves the stream as it is
or appends one event the aggregate allows (`Onward`, from the length test of
`Commit`); `OnwardFacts` says once what stays true of copies then, and each action's
lemma has only its own changes left to treat. `ReversalsCounted` relates the reversals
to the calls that recorded them, and so bounds them as `PsbtSession` does. With it,
`Onward` gives the refinement. `QuorumFinalizes` says what the loop of
`run_finalization` finds: some prefix satisfies the scripts, the first one exists
(`LeastOfSet`), and it is at least as long as the threshold (`GatheredSigners`),
which is what `finalize` asks of `sigs_used`.

**ChainSync.** The invariant behind `ConfirmedIsExact` is `SessionFollows`: the
session agrees with everything that was ever handled, unless a confirmation or a
reversal must be handled once more, that is, unless the consumer was sent back
before one. Replay breaks the agreement (section 6), and the last confirmation or
reversal of the replay restores it.

**SpendBuild.** The sums are recursive functions, and the library's induction
theorems take an operator as parameter, which the installed provers cannot
instantiate. The module therefore proves its own induction principle about sets of
numbers (`LeastElement`, `SetInduction`) and from it that the sums exist, are unique
and satisfy their equations (`SumsExist`, `SumsAreUnique`, `SumIsLast`).
`TotalIsCapped` then says of the builder's checked additions, for every width, that
they answer the exact sum or that this sum does not fit. `BuildAnswers` reads
`Build` as the code does, first error first: "ok" exactly for funded, balanced
spends of own coins, and a final error only when a spend cannot be built whatever
is funded later.

**SubmissionValidation.** Two lemmas are the heart: the validation's tests let through
every document of a signer's own (`AcceptsOwnDocument`) and no other
(`AcceptsOnlyOwn`), a signer's own being the original with their valid signatures on
every input under one form of the key or both (`SignedWith`). A stored blob is
therefore known, up to its forms, from the event that names it (`RecordedSound`).
What the loop merges is known from the recorded signers (`CombinedOfSigners`), and
what it can use of that from those who signed under the script's keys
(`UsableOfSigners`, `SatisfiedByUsable`). So the loop ends at the first prefix with a
quorum on every input (`MinimalQuorum`), which is at least as long as the threshold
(`QuorumIsLong`).

Lemmas about streams are proved once. `CoordinationProofs` and `ChainSyncProofs`
instantiate `PsbtSessionProofs` (`S!...`), `WalletImportProofs` instantiates
`WalletProofs` (`P!...`); the lemmas named `Same...` show that the instances of a
library operator, and of the folds, agree.

Only model-checked: the liveness properties `PsbtGetsBuilt`, `QuorumGetsFinalized`,
`SettledGetsConfirmed` and `BuildableGetsBuilt`, and with them all fairness (`ENABLED`
is out of the prover's reach). `QuorumFinalizable`, `PendingIsDriven` and
`QuorumIsDriven` are the safety half of the first two: what has to be done has a job,
and the job cannot be refused.

## 5. Not modelled, and why

- Descriptor strings, hashing, address derivation, PSBT parsing and signature
  verification: library calls, represented by their outcomes.
- `descriptor_fingerprints` and `BlobStore::delete`: no caller.
- Queries (`find_*`, listings, downloads of the unsigned or final document): they
  change nothing.
- Configuration, errors, wiring, the database's column mappings.
- Authentication: the service takes the caller's id as given, and so do the
  modules. In particular a proposer need not be a participant.
- The job crate's limit on attempts: taken not to be exhausted.
- The fee-rate limit `extract_tx` applies when the final transaction is taken from
  the PSBT: with the fee cap of a proposal (`MAX_FEE_SATS`, 0.01 BTC) the smallest
  spend stays well below it.

## 6. Findings

Three runs show a statement of the documentation that the code does not keep.

- `RedeliveryIsNoOp`: `apply_chain_observation` promises that "redelivery during
  catch-up sync is a no-op". `confirm` looks for an earlier `Confirmed` only back
  to the newest `Invalidated`, so a replay that starts before a reversal records
  the old confirmation again, and the replayed reversal once more. The session is
  right again when the replay ends: `ConfirmedIsExact` and `SettledGetsConfirmed`
  hold.
- `MempoolIsReported`: the transitions are "reorg-safe via `resets_on`", but
  `mark_broadcast_seen` has none: a transaction that returns to the mempool after a
  reversal stays `Invalidated`, which is what the run finds first. The equivalence
  fails the other way round as well: `invalidate` resets on `Confirmed` only, so a
  reversal after confirmed, invalidated and a first mempool sighting is taken for the
  old one, and the session stays `Broadcast`.
- `QuorumIsFinalizable`: `jobs/mod.rs:114` says that `CannotFinalize` "should be
  impossible after upload-time validation and indicates blob corruption or
  tampering", and `psbt.rs:156` that verification keeps a signer from poisoning
  their own slot. `psbt.rs:241` accepts the signer's signature under the uncompressed
  form of the key, which the scripts do not have: the upload counts towards the
  session's threshold, is final, and does not count for `finalize`. With intact blobs
  and a quorum of such uploads the job fails and is retried until enough other
  signers have uploaded. What does hold, and is proved, is `UsableQuorumFinalizes`:
  recorded signers who signed every input under the scripts' keys are finalized as
  soon as each input has its quorum of them.

Four smaller differences between a comment and the code were met while modelling;
none of them affects a checked property, and they have no run of their own.

- `psbt_session/primitives.rs:98` says that `sigs_used` "records exactly which
  signatures ended up in the final transaction". It lists the recorded prefix up to
  the signer who completed the scripts; a signer in between whose signatures are of
  no use, or of use on an input that had its quorum, is listed too. `AuthorityIsExact`
  and `FinalizedIsAuthorised` therefore state what `finalization.rs:28` says, "the
  minimal recorded prefix that authorized the spend", and that the transaction's
  signers are among it.
- `kota/app/src/lib.rs:336` says of `resolve_fingerprint_collision` that "any other
  outcome propagates the original error". It looks only at whether another wallet
  holds the copy's fingerprint, not at the error: a completing submission that
  lost an ordinary race (its copy was stale), or whose update failed for any other
  reason, is answered with the other wallet too. `AnswerMatchesImport` shows that this
  is the wallet the import meant all the same, and `ImplementsWallets` that nothing
  was recorded.
- `jobs/psbt_creation.rs:180` says that proposal validation rejects "unbalanced
  specs up front". `try_new` checks counts, duplicates, networks, dust and the fee
  cap, but no balance: it does not see the funding amounts. The job gives such a
  spend up and the session stays `Pending`; `TransactionIsSound` and
  `GivenUpIsHopeless` show that this is all that happens.
- `jobs/psbt_creation.rs:177` and 183 distinguish deterministic failures, given up,
  from `MissingFunding`, retried. `AmountOverflow`, an underivable index and a coin
  of another script are deterministic as well, and are retried.

## 7. Plan

Done: `SpendLifecycle`, `PsbtSession`, `Coordination`, `ChainSync`,
`KeystoreCollection`, `Wallet`, `WalletImport`, `SpendBuild`, `SubmissionValidation`,
their runs, and the proofs of every safety property and refinement.

Next, in this order:

1. Promises of `SpendLifecycle` and `KeystoreCollection` themselves as theorems (an
   authority never changes, a terminal phase is terminal), which the refinements
   carry to the streams.
2. The two places where the levels meet by argument only: that `ValidSubmission` of
   `Coordination` is what `ValidatesExactly` says, and that `Outcomes` are those of
   `SpendBuild`.
3. Shorter proofs where the same facts about `Append` are used in two modules.
