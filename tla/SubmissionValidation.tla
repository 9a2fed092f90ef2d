------------------------ MODULE SubmissionValidation ------------------------
(***************************************************************************)
(* What happens to the documents signers upload: validation against the    *)
(* stored original, the rebuilt document that is stored instead, and the   *)
(* finalization that fetches and re-verifies what was recorded, from a     *)
(* store that may lose or corrupt blobs.                                   *)
(*                                                                         *)
(* A blob's key is the hash of its content: here, the content itself.  One *)
(* upload is worked on at a time, and nothing else happens meanwhile: how  *)
(* calls and executions interleave is Coordination's subject.              *)
(*                                                                         *)
(* A signature in a PSBT is filed under a PublicKey, which is a key in one *)
(* of two forms.  Validation looks at the key; merging, combining and the  *)
(* script tell the forms apart.                                            *)
(***************************************************************************)
EXTENDS Integers, Sequences, FiniteSets, Functions

CONSTANTS Keystores,     \* keystores of the wallet, by fingerprint
          Stranger,      \* a signer whose keys are not in the wallet's scripts
          NumInputs,     \* inputs of the unsigned transaction
          Thresholds,    \* thresholds of the sessions
          Uploads,       \* bound: the documents signers upload
          Corruptions,   \* bound: what a corrupt blob may turn into
          MaxBlobs,      \* bound: documents in the store when an upload comes
          MaxFaults,     \* bound: blobs lost or corrupted
          None

Inputs == 1..NumInputs

\* PublicKey's compressed flag, which the serialized key of a partial signature
\* carries: both forms are of the same point.
Forms == {"compressed", "uncompressed"}

\* Every keystore signs an input with the key derived for that input.
Key(k, i, form) == <<k, i, form>>
PubKeys == {Key(k, i, form) : k \in Keystores \cup {Stranger}, i \in Inputs, form \in Forms}

\* The keys in an input's script: every keystore's, compressed.
ScriptKeys(i) == {Key(k, i, "compressed") : k \in Keystores}

\* A signature by a key, over one input of the unsigned transaction: valid and
\* SIGHASH_ALL, valid under another sighash type, or not valid.
Signatures == {"all", "other", "invalid"}

\* partial_sigs of one input: the signature under a key, if there is one.
SignatureMaps == [PubKeys -> Signatures \cup {None}]
Present(sigs) == {pk \in PubKeys : sigs[pk] # None}
Valid(pks) == [pk \in PubKeys |-> IF pk \in pks THEN "all" ELSE None]

\* f's signatures, and what g adds to them.
Extended(f, g) == [pk \in PubKeys |-> IF f[pk] # None THEN f[pk] ELSE g[pk]]

\* A PSBT: the unsigned transaction, the global and output maps, and per input
\* the partial signatures and all other fields; each part as in the original or not.
Parts == {"original", "altered"}
Documents == [tx : Parts, globals : Parts, outputs : Parts,
              inputs : Seq([fields : Parts, sigs : SignatureMaps])]

Frame(inputs) == [tx |-> "original", globals |-> "original", outputs |-> "original",
                  inputs |-> inputs]

\* What the creation job stored: no signatures yet.
Original == Frame([i \in Inputs |-> [fields |-> "original", sigs |-> Valid({})]])

ASSUME SizeAssumption == NumInputs \in Nat \ {0} /\ MaxBlobs \in Nat /\ MaxFaults \in Nat
ASSUME KeystoreAssumption == /\ IsFiniteSet(Keystores) /\ Stranger \notin Keystores
                             /\ Thresholds \subseteq 1..Cardinality(Keystores)
ASSUME DocumentAssumption == Uploads \cup Corruptions \subseteq Documents
ASSUME NoneAssumption == None \notin Keystores \cup Signatures /\ None \notin Documents

VARIABLES threshold,   \* signatures the session's script needs
          store,       \* the blob store: a document under each key it holds
          upload,      \* the upload in work: by whom, the document, the verdict
          recorded,    \* the session's SignatureAdded events
          final,       \* the assembled transaction and sigs_used, once finalized
          faults

vars == <<threshold, store, upload, recorded, final, faults>>
-----------------------------------------------------------------------------
(* validate_signed_submission, merge_partial_sigs, verify_merged_blob.     *)

\* The key sources of the original: bip32_derivation of input i.  It is looked up
\* by the point (pk.inner), which either form has.
KeySource(i, pk) == IF pk[1] \in Keystores /\ pk[2] = i THEN pk[1] ELSE None

Added(doc, i) == Present(doc.inputs[i].sigs) \ Present(Original.inputs[i].sigs)

\* Variant with a bug: the sighash type is not looked at.
VerifiesAnyType(sig) == sig # "invalid"

Verifies(sig) == sig = "all"

\* The loop's body: earlier signatures kept, all other fields untouched, and each
\* new signature from the signer's key for this input, in any form, and valid.
InputAccepted(doc, i, k) ==
    LET sigs == doc.inputs[i].sigs
        orig == Original.inputs[i].sigs
    IN  /\ \A pk \in Present(orig) : sigs[pk] = orig[pk]
        /\ doc.inputs[i].fields = "original"
        /\ \A pk \in Added(doc, i) : KeySource(i, pk) = k /\ Verifies(sigs[pk])

Complete(doc) == \A i \in Inputs : Added(doc, i) # {}

Accepts(doc, k) ==
    /\ doc.tx = "original"
    /\ Len(doc.inputs) = NumInputs
    /\ doc.globals = "original"
    /\ doc.outputs = "original"
    /\ \A i \in Inputs : InputAccepted(doc, i, k)
    /\ Complete(doc)

\* Variant with a bug: the signatures are collected but for the last input.
MergeButLast(doc) ==
    [Original EXCEPT !.inputs = [i \in Inputs |->
        [fields |-> Original.inputs[i].fields,
         sigs |-> IF i = NumInputs THEN Original.inputs[i].sigs
                  ELSE Extended(Original.inputs[i].sigs, doc.inputs[i].sigs)]]]

\* The original with the upload's new signatures inserted.
Merge(doc) ==
    [Original EXCEPT !.inputs = [i \in Inputs |->
        [fields |-> Original.inputs[i].fields,
         sigs |-> Extended(Original.inputs[i].sigs, doc.inputs[i].sigs)]]]

\* verify_merged_blob.
Verified(doc) == /\ doc.tx = "original"
                 /\ Len(doc.inputs) = NumInputs
                 /\ \A i \in Inputs : \A pk \in Added(doc, i) : Verifies(doc.inputs[i].sigs[pk])
-----------------------------------------------------------------------------
(* The blob store.                                                         *)

\* Variant with a bug: whatever is stored under the key is taken.
FetchUnchecked(hash) == IF hash \in DOMAIN store THEN store[hash] ELSE None

\* fetch_verified: nothing when the blob is missing or its digest differs.
Fetch(hash) == IF hash \in DOMAIN store /\ store[hash] = hash THEN hash ELSE None

Put(doc) == store' = [hash \in DOMAIN store \cup {doc} |-> IF hash = doc THEN doc ELSE store[hash]]

Intact(hash) == hash \in DOMAIN store /\ store[hash] = hash
-----------------------------------------------------------------------------
(* run_finalization.                                                       *)

Blob(n) == Fetch(recorded[n].hash)

\* The signatures an input carries in the original (m = 0) or in the m-th blob.
Layer(i, m) == IF m = 0 THEN Original.inputs[i].sigs ELSE Blob(m).inputs[i].sigs

Holding(i, n, pk) == {m \in 0..n : pk \in Present(Layer(i, m))}
FirstHolding(i, n, pk) == CHOOSE m \in Holding(i, n, pk) :
                             \A l \in Holding(i, n, pk) : m <= l

\* An input's signatures from the first n recorded blobs: the first one under each
\* PublicKey counts.
Combined(i, n) == [pk \in PubKeys |-> IF Holding(i, n, pk) = {} THEN None
                                      ELSE Layer(i, FirstHolding(i, n, pk))[pk]]

\* miniscript's finalize looks for signatures under the script's keys, enough of
\* them; it verifies nothing.
Usable(i, n) == Present(Combined(i, n)) \cap ScriptKeys(i)
Satisfied(i, n) == Cardinality(Usable(i, n)) >= threshold

Assembles(n) == /\ \A m \in 1..n : Blob(m) # None /\ Verified(Blob(m))
                /\ \A i \in Inputs : Satisfied(i, n)

\* Variant with a bug: the loop ends where the signature quorum is met.
AssembledAtThreshold == {n \in DOMAIN recorded : n = threshold /\ Assembles(n)}

Assembled == {n \in DOMAIN recorded : Assembles(n)}
Minimal == CHOOSE n \in Assembled : \A m \in Assembled : n <= m

\* The witness it builds: on each input as many signatures as the script asks for.
Quorums(keys) == {quorum \in SUBSET keys : Cardinality(quorum) = threshold}
Witnesses == {w \in [Inputs -> UNION {Quorums(Usable(i, Minimal)) : i \in Inputs}] :
                 \A i \in Inputs : w[i] \in Quorums(Usable(i, Minimal))}
Witnessed(w) == [i \in Inputs |-> [pk \in PubKeys |-> IF pk \in w[i] THEN Combined(i, Minimal)[pk]
                                                    ELSE None]]

\* Variant with a bug: sigs_used lists the blobs.
AssemblyOfBlobs(w) == [used |-> [n \in 1..Minimal |-> recorded[n].hash],
                       sigs |-> Witnessed(w)]

Assembly(w) == [used |-> [n \in 1..Minimal |-> recorded[n].fingerprint],
                sigs |-> Witnessed(w)]

\* The signature quorum is met, the loop reaches a transaction, and the session
\* accepts sigs_used.
Finalizable == /\ Len(recorded) >= threshold
               /\ Fetch(Original) # None
               /\ Assembled # {}
               /\ Minimal >= threshold
-----------------------------------------------------------------------------
Init == /\ threshold \in Thresholds
        /\ store = [hash \in {Original} |-> Original]
        /\ upload = None
        /\ recorded = <<>>
        /\ final = None
        /\ faults = 0

\* submit_signed_psbt up to the verdict on the caller's document.
Upload(k, doc) ==
    /\ upload = None
    /\ Cardinality(DOMAIN store) < MaxBlobs
    /\ Fetch(Original) # None
    /\ upload' = [by |-> k, doc |-> doc, accepted |-> Accepts(doc, k)]
    /\ UNCHANGED <<threshold, store, recorded, final, faults>>

Signed(k) == \E n \in DOMAIN recorded : recorded[n].fingerprint = k

\* The merged document is stored; the session records it unless this signer's first
\* upload is in, or collecting is over.
Accept == /\ upload # None /\ upload.accepted
          /\ Put(Merge(upload.doc))
          /\ recorded' = IF Signed(upload.by) \/ final # None THEN recorded
                         ELSE Append(recorded, [fingerprint |-> upload.by,
                                                hash |-> Merge(upload.doc)])
          /\ upload' = None
          /\ UNCHANGED <<threshold, final, faults>>

Refuse == /\ upload # None /\ ~upload.accepted
          /\ upload' = None
          /\ UNCHANGED <<threshold, store, recorded, final, faults>>

\* An execution that cannot finalize answers an error and is retried.
Finalize == /\ upload = None /\ final = None
            /\ Finalizable
            /\ \E w \in Witnesses : final' = Assembly(w)
            /\ UNCHANGED <<threshold, store, upload, recorded, faults>>

\* The storage backend returns other bytes, or none, for a key.
Corrupt(hash, doc) == /\ upload = None /\ faults < MaxFaults
                      /\ store' = [store EXCEPT ![hash] = doc]
                      /\ faults' = faults + 1
                      /\ UNCHANGED <<threshold, upload, recorded, final>>

Lose(hash) == /\ upload = None /\ faults < MaxFaults
              /\ store' = Restrict(store, DOMAIN store \ {hash})
              /\ faults' = faults + 1
              /\ UNCHANGED <<threshold, upload, recorded, final>>

Next == \/ \E k \in Keystores, doc \in Uploads : Upload(k, doc)
        \/ Accept
        \/ Refuse
        \/ Finalize
        \/ \E hash \in DOMAIN store, doc \in Corruptions : Corrupt(hash, doc)
        \/ \E hash \in DOMAIN store : Lose(hash)

Spec == Init /\ [][Next]_vars
-----------------------------------------------------------------------------
(* Properties.                                                             *)

TypeOK == /\ threshold \in Thresholds
          /\ DOMAIN store \subseteq Documents /\ Range(store) \subseteq Documents
          /\ upload # None => upload \in [by : Keystores, doc : Uploads, accepted : BOOLEAN]
          /\ recorded \in Seq([fingerprint : Keystores, hash : Documents])
          /\ final # None => /\ final.used \in Seq(Keystores)
                             /\ final.sigs \in [Inputs -> SignatureMaps]
          /\ faults \in 0..MaxFaults

\* The forms of its key a signer signed each input with.
FormChoices == [Inputs -> (SUBSET Forms) \ {{}}]

\* The original plus k's valid SIGHASH_ALL signatures, on every input, nothing else.
SignedWith(k, forms) ==
    Frame([i \in Inputs |-> [fields |-> "original",
                             sigs |-> Valid({Key(k, i, form) : form \in forms[i]})]])

\* "original plus only additive partial signatures from the claimed signer ...
\* complete": the validation's many early returns together let through the original
\* with this signer's signatures on every input, and that always.
ValidatesExactly ==
    upload # None =>
       (upload.accepted <=> \E forms \in FormChoices : upload.doc = SignedWith(upload.by, forms))

\* A recorded blob stands alone: it passes verify_merged_blob ("upload-time
\* validation should make this redundant") and holds its signer's signatures only,
\* on every input, so that no other signer's slot depends on it.
RecordedStandAlone ==
    /\ \A r \in Range(recorded) :
          Verified(r.hash) /\ \E forms \in FormChoices : r.hash = SignedWith(r.fingerprint, forms)
    /\ IsInjective([n \in DOMAIN recorded |-> recorded[n].fingerprint])

RecordedIntact == \A hash \in {Original} \cup {r.hash : r \in Range(recorded)} : Intact(hash)

\* What the jobs' error type says of CannotFinalize: that it "should be impossible
\* after upload-time validation and indicates blob corruption or tampering".  It is
\* not: a signature under the uncompressed form of a key is recorded and unusable.
QuorumIsFinalizable == Len(recorded) >= threshold /\ RecordedIntact => Finalizable

\* The first n recorded signers whose blob has input i signed under the script's key.
UsableSigners(n, i) ==
    {recorded[m].fingerprint : m \in {l \in 1..n :
        Key(recorded[l].fingerprint, i, "compressed") \in Present(recorded[l].hash.inputs[i].sigs)}}

UsableQuorum(n) == \A i \in Inputs : Cardinality(UsableSigners(n, i)) >= threshold

\* What does hold: once every input has a quorum of recorded signers under the
\* script's keys and the blobs are intact, finalization succeeds, however many
\* recorded signatures are of no use to the script.
UsableQuorumFinalizes == UsableQuorum(Len(recorded)) /\ RecordedIntact => Finalizable

\* Whatever the store did to the blobs: sigs_used is "the minimal recorded prefix
\* that authorized the spend", the first signers up to the one who gave every input
\* its quorum; and each input carries as many valid signatures as the script asks
\* for, by keystores that sigs_used names and that signed this input.
FinalizedIsAuthorised ==
    final # None =>
      LET n == Len(final.used)
      IN  /\ n \in DOMAIN recorded
          /\ final.used = [m \in 1..n |-> recorded[m].fingerprint]
          /\ UsableQuorum(n) /\ \A m \in 1..(n - 1) : ~UsableQuorum(m)
          /\ \A i \in Inputs : \E signers \in Quorums(UsableSigners(n, i)) :
                final.sigs[i] = Valid({Key(k, i, "compressed") : k \in signers})
=============================================================================
