--------------------- MODULE SubmissionValidationProofs ---------------------
(***************************************************************************)
(* Machine-checked proofs about SubmissionValidation, for every wallet,    *)
(* every number of inputs and every document: the validation lets through  *)
(* exactly the original with the signer's own signatures on every input, a *)
(* quorum of usable signatures finalizes, and sigs_used is the minimal     *)
(* recorded prefix that gives every input its quorum.                      *)
(***************************************************************************)
EXTENDS SubmissionValidation, TLAPS, FiniteSetTheorems, SequenceTheorems, WellFoundedInduction

\* The parts of a document.
InputMaps == [fields : Parts, sigs : SignatureMaps]

\* The forms of its key for an input under which a keystore signed.
KeysOf(k, i, fs) == {Key(k, i, form) : form \in fs}

-----------------------------------------------------------------------------
(* Documents.                                                              *)

LEMMA InputsAreFinite == NumInputs \in Nat \ {0} /\ Inputs = 1..NumInputs
  BY SizeAssumption DEF Inputs

\* A set of naturals has a least element.
LEMMA LeastOfSet ==
  ASSUME NEW S, S \subseteq Nat, S # {}
  PROVE  \E m \in S : \A n \in S : m <= n
<1>1. PICK top \in S : top \in Nat
  OBVIOUS
<1> DEFINE below == {n \in S : n <= top}
           initial == {1..n : n \in below}
<1>2. initial \subseteq FiniteSubsetsOf(1..top) /\ initial # {}
  <2>1. \A n \in below : n \in Nat /\ 1..n \subseteq 1..top /\ IsFiniteSet(1..n)
    BY <1>1, FS_Interval
  <2>2. top \in below
    BY <1>1
  <2>3. QED
    BY <2>1, <2>2 DEF FiniteSubsetsOf
<1>3. PICK first \in initial : \A s \in initial : <<s, first>> \notin StrictSubsetOrdering(1..top)
  BY <1>2, FS_StrictSubsetOrderingWellFounded, WFMin, Zenon
<1>4. PICK m \in below : first = 1..m
  OBVIOUS
<1>5. ASSUME NEW n \in S, n < m
      PROVE  FALSE
  <2>1. n \in below /\ n \in Nat /\ m \in Nat
    BY <1>1, <1>4, <1>5
  <2>2. 1..n \subseteq 1..m /\ m \in 1..m /\ m \notin 1..n
    BY <1>5, <2>1
  <2>3. <<1..n, first>> \in StrictSubsetOrdering(1..top)
    BY <1>2, <1>4, <2>1, <2>2 DEF StrictSubsetOrdering, FiniteSubsetsOf
  <2>4. QED
    BY <1>3, <2>1, <2>3
<1>6. QED
  BY <1>4, <1>5

\* Signatures that are all valid are given by their keys.
LEMMA ValidMaps ==
  ASSUME NEW pks \in SUBSET PubKeys
  PROVE  /\ Valid(pks) \in SignatureMaps
         /\ Present(Valid(pks)) = pks
         /\ \A pk \in pks : Valid(pks)[pk] = "all"
         /\ \A pk \in PubKeys \ pks : Valid(pks)[pk] = None
  BY NoneAssumption DEF Valid, Present, SignatureMaps, Signatures

LEMMA MapIsValid ==
  ASSUME NEW sigs \in SignatureMaps, \A pk \in Present(sigs) : sigs[pk] = "all"
  PROVE  sigs = Valid(Present(sigs))
<1>1. sigs \in [PubKeys -> Signatures \cup {None}]
  BY DEF SignatureMaps
<1>2. \A pk \in PubKeys : sigs[pk] = IF pk \in Present(sigs) THEN "all" ELSE None
  BY DEF Present
<1>3. QED
  BY <1>1, <1>2 DEF Valid

\* The original carries no signature.
LEMMA OriginalInput ==
  ASSUME NEW i \in Inputs
  PROVE  /\ Original.inputs[i].fields = "original"
         /\ Original.inputs[i].sigs = Valid({})
         /\ Present(Original.inputs[i].sigs) = {}
<1>1. Original.inputs[i] = [fields |-> "original", sigs |-> Valid({})]
  BY DEF Original, Frame
<1>2. QED
  BY <1>1, ValidMaps

\* The key sources bind both forms of a signer's key for an input, and nothing else.
LEMMA KeyOfSigner ==
  ASSUME NEW k \in Keystores, NEW i \in Inputs
  PROVE  /\ \A form \in Forms : Key(k, i, form) \in PubKeys /\ KeySource(i, Key(k, i, form)) = k
         /\ \A pk \in PubKeys : KeySource(i, pk) = k => \E form \in Forms : pk = Key(k, i, form)
<1>1. ASSUME NEW form \in Forms
      PROVE  Key(k, i, form) \in PubKeys /\ KeySource(i, Key(k, i, form)) = k
  BY DEF PubKeys, KeySource, Key
<1>2. ASSUME NEW pk \in PubKeys, KeySource(i, pk) = k
      PROVE  \E form \in Forms : pk = Key(k, i, form)
  <2>1. PICK l \in Keystores \cup {Stranger}, j \in Inputs, form \in Forms : pk = <<l, j, form>>
    BY <1>2 DEF PubKeys, Key
  <2>2. l = k /\ j = i
    BY <1>2, <2>1, NoneAssumption DEF KeySource
  <2>3. QED
    BY <2>1, <2>2 DEF Key
<1>3. QED
  BY <1>1, <1>2

LEMMA OriginalIsDocument == Original \in Documents
<1>1. Valid({}) \in SignatureMaps
  BY ValidMaps
<1>2. [i \in Inputs |-> [fields |-> "original", sigs |-> Valid({})]] \in [Inputs -> InputMaps]
  BY <1>1 DEF InputMaps, Parts
<1>3. [Inputs -> InputMaps] \subseteq Seq(InputMaps)
  BY InputsAreFinite
<1>4. QED
  BY <1>2, <1>3 DEF Original, Frame, Documents, Parts, InputMaps

\* The signatures a signer's document carries on an input.
LEMMA SignedInput ==
  ASSUME NEW k \in Keystores, NEW forms \in FormChoices, NEW i \in Inputs
  PROVE  /\ KeysOf(k, i, forms[i]) \in SUBSET PubKeys
         /\ KeysOf(k, i, forms[i]) # {}
         /\ SignedWith(k, forms).inputs[i]
               = [fields |-> "original", sigs |-> Valid(KeysOf(k, i, forms[i]))]
         /\ Present(SignedWith(k, forms).inputs[i].sigs) = KeysOf(k, i, forms[i])
<1>1. forms[i] \in SUBSET Forms /\ forms[i] # {}
  BY DEF FormChoices
<1>2. KeysOf(k, i, forms[i]) \in SUBSET PubKeys /\ KeysOf(k, i, forms[i]) # {}
  BY <1>1, KeyOfSigner DEF KeysOf
<1>3. SignedWith(k, forms).inputs[i]
        = [fields |-> "original", sigs |-> Valid(KeysOf(k, i, forms[i]))]
  BY DEF SignedWith, Frame, KeysOf
<1>4. QED
  BY <1>2, <1>3, ValidMaps

LEMMA SignedIsDocument ==
  ASSUME NEW k \in Keystores, NEW forms \in FormChoices
  PROVE  SignedWith(k, forms) \in Documents
<1> DEFINE sigs(i) == Valid(KeysOf(k, i, forms[i]))
<1>1. \A i \in Inputs : sigs(i) \in SignatureMaps
  BY SignedInput, ValidMaps
<1>2. \A i \in Inputs : [fields |-> "original", sigs |-> sigs(i)] \in InputMaps
  BY <1>1 DEF InputMaps, Parts
<1>3. SignedWith(k, forms) = Frame([i \in Inputs |-> [fields |-> "original", sigs |-> sigs(i)]])
  BY DEF SignedWith, KeysOf
<1> HIDE DEF sigs
<1>4. [i \in Inputs |-> [fields |-> "original", sigs |-> sigs(i)]] \in Seq(InputMaps)
  BY <1>2, InputsAreFinite
<1>5. QED
  BY <1>3, <1>4 DEF Frame, Documents, Parts, InputMaps

\* A document is one the signer k may have made.
MadeBy(doc, k) == \E forms \in FormChoices : doc = SignedWith(k, forms)

\* Such a document passes.
LEMMA AcceptsOwnDocument ==
  ASSUME NEW k \in Keystores, NEW forms \in FormChoices
  PROVE  Accepts(SignedWith(k, forms), k)
<1> DEFINE doc == SignedWith(k, forms)
           keys(i) == KeysOf(k, i, forms[i])
<1>1. doc.tx = "original" /\ doc.globals = "original" /\ doc.outputs = "original"
  BY DEF SignedWith, Frame
<1>2. Len(doc.inputs) = NumInputs
  BY InputsAreFinite DEF SignedWith, Frame
<1>3. \A i \in Inputs : /\ Added(doc, i) = keys(i) /\ keys(i) # {} /\ keys(i) \in SUBSET PubKeys
                        /\ doc.inputs[i].fields = "original"
                        /\ doc.inputs[i].sigs = Valid(keys(i))
  <2> TAKE i \in Inputs
  <2> HIDE DEF doc, keys
  <2>1. /\ keys(i) # {} /\ keys(i) \in SUBSET PubKeys
        /\ doc.inputs[i] = [fields |-> "original", sigs |-> Valid(keys(i))]
        /\ Present(doc.inputs[i].sigs) = keys(i)
    BY SignedInput DEF doc, keys
  <2>2. QED
    BY <2>1, OriginalInput DEF Added
<1>4. \A i \in Inputs : \A pk \in keys(i) : KeySource(i, pk) = k
  BY KeyOfSigner DEF KeysOf, FormChoices
<1>5. \A i \in Inputs : InputAccepted(doc, i, k)
  <2> TAKE i \in Inputs
  <2> HIDE DEF doc, keys
  <2>1. \A pk \in Added(doc, i) : KeySource(i, pk) = k /\ doc.inputs[i].sigs[pk] = "all"
    BY <1>3, <1>4, ValidMaps
  <2>2. QED
    BY <1>3, <2>1, OriginalInput DEF InputAccepted, Verifies
<1> HIDE DEF doc, keys
<1>6. Accepts(doc, k)
  BY <1>1, <1>2, <1>3, <1>5 DEF Accepts, Complete
<1>7. QED
  BY <1>6 DEF doc

\* Nothing else passes.
LEMMA AcceptsOnlyOwn ==
  ASSUME NEW k \in Keystores, NEW doc \in Documents, Accepts(doc, k)
  PROVE  MadeBy(doc, k)
<1> DEFINE forms == [i \in Inputs |-> {form \in Forms : Key(k, i, form) \in Added(doc, i)}]
           keys(i) == KeysOf(k, i, forms[i])
<1>1. /\ doc \in [tx : Parts, globals : Parts, outputs : Parts, inputs : Seq(InputMaps)]
      /\ doc.tx = "original" /\ doc.globals = "original" /\ doc.outputs = "original"
      /\ doc.inputs \in [Inputs -> InputMaps]
  <2>1. doc \in [tx : Parts, globals : Parts, outputs : Parts, inputs : Seq(InputMaps)]
    BY DEF Documents, InputMaps
  <2>2. /\ doc.tx = "original" /\ doc.globals = "original" /\ doc.outputs = "original"
        /\ Len(doc.inputs) = NumInputs
    BY DEF Accepts
  <2>3. doc.inputs \in Seq(InputMaps)
    BY <2>1
  <2>4. doc.inputs \in [Inputs -> InputMaps]
    BY <2>2, <2>3, InputsAreFinite
  <2>5. QED
    BY <2>1, <2>2, <2>4
<1>2. \A i \in Inputs : /\ doc.inputs[i] = [fields |-> "original", sigs |-> Valid(keys(i))]
                        /\ keys(i) # {}
  <2> TAKE i \in Inputs
  <2> DEFINE sigs == doc.inputs[i].sigs
  <2>1. /\ doc.inputs[i] \in InputMaps /\ doc.inputs[i].fields = "original"
        /\ sigs \in SignatureMaps
    BY <1>1 DEF Accepts, InputAccepted, InputMaps
  <2>2. Added(doc, i) = Present(sigs) /\ Present(sigs) \subseteq PubKeys
    BY OriginalInput DEF Added, Present
  <2>3. \A pk \in Present(sigs) : KeySource(i, pk) = k /\ sigs[pk] = "all"
    BY <2>2 DEF Accepts, InputAccepted, Verifies
  <2>4. Present(sigs) = keys(i)
    <3>1. \A pk \in Present(sigs) : \E form \in Forms : pk = Key(k, i, form)
      BY <2>2, <2>3, KeyOfSigner
    <3>2. forms[i] = {form \in Forms : Key(k, i, form) \in Present(sigs)}
      BY <2>2
    <3>3. QED
      BY <3>1, <3>2 DEF KeysOf
  <2>5. Present(sigs) # {}
    BY <2>2 DEF Accepts, Complete
  <2>6. sigs = Valid(keys(i))
    BY <2>1, <2>3, <2>4, MapIsValid
  <2>7. QED
    BY <2>1, <2>4, <2>5, <2>6 DEF InputMaps
<1>3. forms \in FormChoices
  BY <1>2 DEF FormChoices, KeysOf
<1> HIDE DEF forms
<1>4. doc.inputs = [i \in Inputs |-> [fields |-> "original", sigs |-> Valid(keys(i))]]
  BY <1>1, <1>2
<1>5. doc = SignedWith(k, forms)
  BY <1>1, <1>4 DEF SignedWith, Frame, KeysOf
<1>6. QED
  BY <1>3, <1>5 DEF MadeBy

\* The rebuilt document that is stored is the one that was uploaded.
LEMMA MergeOfSigned ==
  ASSUME NEW k \in Keystores, NEW forms \in FormChoices
  PROVE  Merge(SignedWith(k, forms)) = SignedWith(k, forms)
<1> DEFINE keys(i) == KeysOf(k, i, forms[i])
           inputs == [i \in Inputs |-> [fields |-> "original", sigs |-> Valid(keys(i))]]
<1>1. \A i \in Inputs : Extended(Original.inputs[i].sigs, SignedWith(k, forms).inputs[i].sigs)
                          = Valid(keys(i))
  <2> TAKE i \in Inputs
  <2> DEFINE added == Valid(keys(i))
  <2>1. SignedWith(k, forms).inputs[i].sigs = added
    <3>1. SignedWith(k, forms).inputs[i]
            = [fields |-> "original", sigs |-> Valid(KeysOf(k, i, forms[i]))]
      BY SignedInput
    <3>2. QED
      BY <3>1
  <2>2. added \in [PubKeys -> Signatures \cup {None}]
    BY SignedInput, ValidMaps DEF SignatureMaps
  <2>3. \A pk \in PubKeys : Original.inputs[i].sigs[pk] = None
    BY OriginalInput, ValidMaps
  <2> HIDE DEF added
  <2>4. Extended(Original.inputs[i].sigs, added) = added
    BY <2>2, <2>3 DEF Extended
  <2>5. QED
    BY <2>1, <2>4 DEF added
<1> HIDE DEF keys
<1>2. [i \in Inputs |-> [fields |-> Original.inputs[i].fields,
                         sigs |-> Extended(Original.inputs[i].sigs,
                                           SignedWith(k, forms).inputs[i].sigs)]] = inputs
  BY <1>1, OriginalInput
<1>3. SignedWith(k, forms) = Frame(inputs)
  BY DEF SignedWith, keys, KeysOf
<1> HIDE DEF inputs
<1>4. SignedWith(k, forms) = [Original EXCEPT !.inputs = inputs]
  BY <1>3 DEF Original, Frame
<1>5. QED
  BY <1>2, <1>4 DEF Merge

\* It passes verify_merged_blob.
LEMMA SignedVerifies ==
  ASSUME NEW k \in Keystores, NEW forms \in FormChoices
  PROVE  Verified(SignedWith(k, forms))
  BY AcceptsOwnDocument DEF Accepts, InputAccepted, Verified
-----------------------------------------------------------------------------
(* The inductive invariant.                                                *)

StateTypes == /\ threshold \in Thresholds
              /\ DOMAIN store \subseteq Documents
              /\ \A hash \in DOMAIN store : store[hash] \in Documents
              /\ recorded \in Seq([fingerprint : Keystores, hash : Documents])
              /\ final # None => final.sigs = [i \in Inputs |-> final.sigs[i]]
              /\ faults \in 0..MaxFaults

\* The verdict on the upload in work is the right one.
UploadSound == upload # None =>
                  /\ upload \in [by : Keystores, doc : Uploads, accepted : BOOLEAN]
                  /\ upload.accepted <=> MadeBy(upload.doc, upload.by)

\* What is recorded is a document of its signer's making, once for each signer.
RecordedSound ==
    /\ \A n \in DOMAIN recorded : MadeBy(recorded[n].hash, recorded[n].fingerprint)
    /\ \A m, n \in DOMAIN recorded :
          recorded[m].fingerprint = recorded[n].fingerprint => m = n

IInv == StateTypes /\ UploadSound /\ RecordedSound /\ FinalizedIsAuthorised

\* A threshold is a number of signatures, at least one.
LEMMA ThresholdIsPositive == Thresholds \subseteq Nat \ {0}
<1>1. Cardinality(Keystores) \in Nat
  BY FS_CardinalityType, KeystoreAssumption
<1>2. QED
  BY <1>1, KeystoreAssumption
-----------------------------------------------------------------------------
(* The assembly.                                                           *)

\* The first n recorded blobs were fetched.
Fetched(n) == \A m \in 1..n : Blob(m) # None

LEMMA RecordedTypes ==
  ASSUME StateTypes
  PROVE  /\ Len(recorded) \in Nat /\ DOMAIN recorded = 1..Len(recorded)
         /\ \A n \in DOMAIN recorded : /\ recorded[n].fingerprint \in Keystores
                                       /\ recorded[n].hash \in Documents
<1> DEFINE Records == [fingerprint : Keystores, hash : Documents]
<1>1. recorded \in Seq(Records)
  BY DEF StateTypes
<1> HIDE DEF Records
<1>2. DOMAIN recorded = 1..Len(recorded) /\ Len(recorded) \in Nat
  BY <1>1
<1>3. \A n \in 1..Len(recorded) : recorded[n] \in Records
  BY <1>1, ElementOfSeq
<1>4. QED
  BY <1>2, <1>3 DEF Records

\* The signatures in a recorded blob: its signer's, all valid.
KeysIn(n, i) == Present(recorded[n].hash.inputs[i].sigs)

LEMMA RecordedKeys ==
  ASSUME StateTypes, RecordedSound, NEW n \in DOMAIN recorded, NEW i \in Inputs
  PROVE  /\ KeysIn(n, i) \subseteq KeysOf(recorded[n].fingerprint, i, Forms)
         /\ recorded[n].hash.inputs[i].sigs = Valid(KeysIn(n, i))
         /\ KeysIn(n, i) \in SUBSET PubKeys
         /\ Verified(recorded[n].hash)
<1> DEFINE k == recorded[n].fingerprint
<1>1. k \in Keystores
  BY RecordedTypes
<1>2. PICK forms \in FormChoices : recorded[n].hash = SignedWith(k, forms)
  BY DEF RecordedSound, MadeBy
<1> HIDE DEF k
<1>3. /\ recorded[n].hash.inputs[i] = [fields |-> "original", sigs |-> Valid(KeysOf(k, i, forms[i]))]
      /\ KeysIn(n, i) = KeysOf(k, i, forms[i]) /\ KeysOf(k, i, forms[i]) \in SUBSET PubKeys
  BY <1>1, <1>2, SignedInput DEF KeysIn
<1>4. KeysOf(k, i, forms[i]) \subseteq KeysOf(k, i, Forms)
  BY DEF KeysOf, FormChoices
<1>5. Verified(recorded[n].hash)
  BY <1>1, <1>2, SignedVerifies
<1>6. QED
  BY <1>3, <1>4, <1>5 DEF k

\* A blob that was fetched is the one that was recorded.
LEMMA BlobOfSigner ==
  ASSUME StateTypes, NEW n \in DOMAIN recorded, Blob(n) # None
  PROVE  Blob(n) = recorded[n].hash
  BY DEF Blob, Fetch

\* Combining the blobs gives the keys that are in any of them, and valid signatures.
LEMMA CombinedOfSigners ==
  ASSUME StateTypes, RecordedSound, NEW i \in Inputs, NEW n \in DOMAIN recorded, Fetched(n)
  PROVE  Combined(i, n) = Valid({pk \in PubKeys : \E m \in 1..n : pk \in KeysIn(m, i)})
<1> DEFINE keys == {pk \in PubKeys : \E m \in 1..n : pk \in KeysIn(m, i)}
<1>1. n \in Nat /\ 1..n \subseteq DOMAIN recorded
  BY DEF StateTypes
<1>2. ASSUME NEW m \in 1..n
      PROVE  Layer(i, m) = Valid(KeysIn(m, i)) /\ KeysIn(m, i) \in SUBSET PubKeys
  <2>1. m # 0 /\ Blob(m) = recorded[m].hash
    BY <1>1, BlobOfSigner DEF Fetched
  <2>2. QED
    BY <1>1, <2>1, RecordedKeys DEF Layer
<1>3. Present(Layer(i, 0)) = {}
  BY OriginalInput DEF Layer
<1>4. ASSUME NEW pk \in PubKeys, NEW m \in Holding(i, n, pk)
      PROVE  m \in 1..n /\ pk \in KeysIn(m, i) /\ Layer(i, m)[pk] = "all"
  <2>1. m \in 1..n /\ pk \in Present(Layer(i, m))
    BY <1>1, <1>3, <1>4 DEF Holding
  <2>2. QED
    BY <1>2, <2>1, ValidMaps
<1>5. ASSUME NEW pk \in keys
      PROVE  Combined(i, n)[pk] = "all"
  <2>1. PICK m \in 1..n : pk \in KeysIn(m, i)
    OBVIOUS
  <2>2. m \in Holding(i, n, pk)
    <3>1. m \in 0..n
      BY <1>1
    <3>2. pk \in Present(Layer(i, m))
      BY <1>2, <2>1, ValidMaps
    <3>3. QED
      BY <3>1, <3>2 DEF Holding
  <2>3. Holding(i, n, pk) \subseteq Nat
    BY <1>1 DEF Holding
  <2>4. \E l \in Holding(i, n, pk) : \A h \in Holding(i, n, pk) : l <= h
    BY <2>2, <2>3, LeastOfSet
  <2>5. FirstHolding(i, n, pk) \in Holding(i, n, pk)
    BY <2>4 DEF FirstHolding
  <2>6. pk \in PubKeys
    OBVIOUS
  <2>7. Layer(i, FirstHolding(i, n, pk))[pk] = "all"
    BY <1>4, <2>5, <2>6
  <2>8. QED
    BY <2>2, <2>6, <2>7 DEF Combined
<1>6. ASSUME NEW pk \in PubKeys, pk \notin keys
      PROVE  Combined(i, n)[pk] = None
  <2>1. Holding(i, n, pk) = {}
    BY <1>4, <1>6
  <2>2. QED
    BY <2>1, <1>6 DEF Combined
<1>7. \A pk \in PubKeys : Combined(i, n)[pk] = IF pk \in keys THEN "all" ELSE None
  BY <1>5, <1>6
<1> HIDE DEF keys
<1>8. Combined(i, n) = [pk \in PubKeys |-> Combined(i, n)[pk]]
  BY DEF Combined
<1>9. Combined(i, n) = Valid(keys)
  BY <1>7, <1>8 DEF Valid
<1>10. QED
  BY <1>9 DEF keys

\* The script's key of a keystore.
ScriptKey(k, i) == Key(k, i, "compressed")

LEMMA SignersAreKeystores ==
  ASSUME StateTypes, NEW i, NEW n \in Nat, n <= Len(recorded)
  PROVE  /\ UsableSigners(n, i) \subseteq Keystores
         /\ IsFiniteSet(UsableSigners(n, i))
         /\ Cardinality(UsableSigners(n, i)) \in Nat
<1>1. UsableSigners(n, i) \subseteq Keystores
  BY RecordedTypes DEF UsableSigners
<1>2. QED
  BY <1>1, KeystoreAssumption, FS_Subset, FS_CardinalityType

\* What finalize finds are the script's keys of the signers that used them.
LEMMA UsableOfSigners ==
  ASSUME StateTypes, RecordedSound, NEW i \in Inputs, NEW n \in DOMAIN recorded, Fetched(n)
  PROVE  Usable(i, n) = {ScriptKey(k, i) : k \in UsableSigners(n, i)}
<1> DEFINE keys == {pk \in PubKeys : \E m \in 1..n : pk \in KeysIn(m, i)}
<1>1. n \in Nat /\ 1..n \subseteq DOMAIN recorded /\ n <= Len(recorded)
  BY RecordedTypes
<1>2. Present(Combined(i, n)) = keys
  BY CombinedOfSigners, ValidMaps
<1>3. ASSUME NEW pk \in Usable(i, n)
      PROVE  pk \in {ScriptKey(k, i) : k \in UsableSigners(n, i)}
  <2>1. PICK k \in Keystores : pk = ScriptKey(k, i)
    BY DEF Usable, ScriptKeys, ScriptKey
  <2>2. PICK m \in 1..n : pk \in KeysIn(m, i)
    BY <1>2 DEF Usable
  <2>3. pk \in KeysOf(recorded[m].fingerprint, i, Forms)
    BY <1>1, <2>2, RecordedKeys
  <2>4. recorded[m].fingerprint = k
    BY <2>1, <2>3 DEF KeysOf, Key, ScriptKey
  <2>5. k \in UsableSigners(n, i)
    BY <2>1, <2>2, <2>4 DEF UsableSigners, KeysIn, ScriptKey
  <2>6. QED
    BY <2>1, <2>5
<1>4. ASSUME NEW k \in UsableSigners(n, i)
      PROVE  ScriptKey(k, i) \in Usable(i, n)
  <2>1. PICK m \in 1..n : ScriptKey(k, i) \in KeysIn(m, i) /\ recorded[m].fingerprint = k
    BY DEF UsableSigners, KeysIn, ScriptKey
  <2>2. k \in Keystores /\ ScriptKey(k, i) \in PubKeys
    BY <1>1, SignersAreKeystores, KeyOfSigner DEF ScriptKey, Forms
  <2>3. QED
    BY <1>2, <2>1, <2>2 DEF Usable, ScriptKeys, ScriptKey
<1>5. QED
  BY <1>3, <1>4

\* Sets of keystores and of their script keys are as large as each other.
LEMMA ScriptKeysCount ==
  ASSUME NEW i, NEW ks, IsFiniteSet(ks)
  PROVE  /\ IsFiniteSet({ScriptKey(k, i) : k \in ks})
         /\ Cardinality({ScriptKey(k, i) : k \in ks}) = Cardinality(ks)
<1> DEFINE f == [k \in ks |-> ScriptKey(k, i)]
<1>1. \A k, l \in ks : f[k] = f[l] => k = l
  BY DEF ScriptKey, Key
<1>2. f \in Bijection(ks, {ScriptKey(k, i) : k \in ks})
  BY <1>1 DEF Bijection, Injection, Surjection, IsInjective
<1>3. ExistsBijection(ks, {ScriptKey(k, i) : k \in ks})
  BY <1>2 DEF ExistsBijection
<1>4. QED
  BY <1>3, FS_Bijection

\* With its blobs fetched, the script is satisfied once enough signers are usable.
LEMMA SatisfiedByUsable ==
  ASSUME StateTypes, RecordedSound, NEW i \in Inputs, NEW n \in DOMAIN recorded, Fetched(n)
  PROVE  Satisfied(i, n) <=> Cardinality(UsableSigners(n, i)) >= threshold
<1>1. n \in Nat /\ n <= Len(recorded)
  BY RecordedTypes
<1>2. IsFiniteSet(UsableSigners(n, i))
  BY <1>1, SignersAreKeystores
<1>3. Cardinality(Usable(i, n)) = Cardinality(UsableSigners(n, i))
  BY <1>2, UsableOfSigners, ScriptKeysCount
<1>4. QED
  BY <1>3 DEF Satisfied

LEMMA AssemblesFromQuorum ==
  ASSUME StateTypes, RecordedSound, NEW n \in DOMAIN recorded
  PROVE  Assembles(n) <=> Fetched(n) /\ UsableQuorum(n)
<1>1. n \in Nat /\ 1..n \subseteq DOMAIN recorded
  BY DEF StateTypes
<1>2. ASSUME Fetched(n)
      PROVE  \A m \in 1..n : Blob(m) # None /\ Verified(Blob(m))
  <2> TAKE m \in 1..n
  <2>1. Blob(m) # None /\ Blob(m) = recorded[m].hash
    BY <1>1, <1>2, BlobOfSigner DEF Fetched
  <2>2. 1 \in Inputs
    BY InputsAreFinite
  <2>3. QED
    BY <1>1, <2>1, <2>2, RecordedKeys
<1>3. Fetched(n) => ((\A i \in Inputs : Satisfied(i, n)) <=> UsableQuorum(n))
  BY SatisfiedByUsable DEF UsableQuorum
<1>4. Assembles(n) => Fetched(n)
  BY DEF Assembles, Fetched
<1>5. QED
  BY <1>2, <1>3, <1>4 DEF Assembles

\* A quorum takes as many recorded signers.
LEMMA QuorumIsLong ==
  ASSUME StateTypes, NEW n \in Nat, n <= Len(recorded), UsableQuorum(n)
  PROVE  n >= threshold
<1> DEFINE signers == {recorded[m].fingerprint : m \in 1..n}
           f == [m \in 1..n |-> recorded[m].fingerprint]
<1>1. 1 \in Inputs
  BY InputsAreFinite
<1>2. f \in Surjection(1..n, signers)
  BY DEF Surjection
<1>3. IsFiniteSet(1..n) /\ Cardinality(1..n) = n
  BY FS_Interval
<1>4. IsFiniteSet(signers) /\ Cardinality(signers) <= n
  BY <1>2, <1>3, FS_Surjection
<1>5. UsableSigners(n, 1) \subseteq signers
  BY DEF UsableSigners
<1>6. /\ Cardinality(UsableSigners(n, 1)) <= Cardinality(signers)
      /\ Cardinality(UsableSigners(n, 1)) \in Nat /\ Cardinality(signers) \in Nat
  BY <1>4, <1>5, FS_Subset, FS_CardinalityType
<1>7. Cardinality(UsableSigners(n, 1)) >= threshold /\ threshold \in Nat
  BY <1>1, ThresholdIsPositive DEF UsableQuorum, StateTypes
<1>8. QED
  BY <1>4, <1>6, <1>7

\* The loop ends at the first prefix that assembles.
LEMMA MinimalIsFirst ==
  ASSUME StateTypes, Assembled # {}
  PROVE  Minimal \in Assembled /\ \A m \in Assembled : Minimal <= m
<1>1. Assembled \subseteq Nat
  BY DEF Assembled, StateTypes
<1>2. \E n \in Assembled : \A m \in Assembled : n <= m
  BY <1>1, LeastOfSet
<1>3. QED
  BY <1>2 DEF Minimal

\* No shorter prefix has a quorum, fetched or not: its blobs are fetched as well.
LEMMA MinimalQuorum ==
  ASSUME StateTypes, RecordedSound, Assembled # {}
  PROVE  /\ Minimal \in DOMAIN recorded /\ Fetched(Minimal) /\ UsableQuorum(Minimal)
         /\ \A m \in 1..(Minimal - 1) : ~UsableQuorum(m)
<1>1. /\ Minimal \in DOMAIN recorded /\ Fetched(Minimal) /\ UsableQuorum(Minimal)
      /\ \A m \in Assembled : Minimal <= m
  BY MinimalIsFirst, AssemblesFromQuorum DEF Assembled
<1>2. Minimal \in Nat /\ DOMAIN recorded = 1..Len(recorded)
  BY <1>1, RecordedTypes
<1>3. ASSUME NEW m \in 1..(Minimal - 1), UsableQuorum(m)
      PROVE  FALSE
  <2>1. m \in DOMAIN recorded /\ m < Minimal /\ 1..m \subseteq 1..Minimal
    BY <1>1, <1>2
  <2>2. Fetched(m)
    BY <1>1, <2>1 DEF Fetched
  <2>3. m \in Assembled
    BY <1>3, <2>1, <2>2, AssemblesFromQuorum DEF Assembled
  <2>4. QED
    BY <1>1, <1>2, <2>1, <2>3
<1>4. QED
  BY <1>1, <1>3

\* What the witness takes on an input are script keys of usable signers.
LEMMA WitnessOfSigners ==
  ASSUME StateTypes, RecordedSound, Assembled # {}, NEW w \in Witnesses, NEW i \in Inputs
  PROVE  \E signers \in Quorums(UsableSigners(Minimal, i)) :
            Witnessed(w)[i] = Valid({ScriptKey(k, i) : k \in signers})
<1> DEFINE signers == {k \in UsableSigners(Minimal, i) : ScriptKey(k, i) \in w[i]}
           keys == {ScriptKey(k, i) : k \in signers}
<1>1. Minimal \in DOMAIN recorded /\ Fetched(Minimal) /\ Minimal \in Nat /\ Minimal <= Len(recorded)
  BY MinimalQuorum, RecordedTypes
<1>2. w[i] \subseteq Usable(i, Minimal) /\ Cardinality(w[i]) = threshold
  BY DEF Witnesses, Quorums
<1>3. w[i] = keys
  BY <1>1, <1>2, UsableOfSigners
<1>4. IsFiniteSet(signers)
  BY <1>1, SignersAreKeystores, FS_Subset
<1>5. Cardinality(signers) = threshold
  BY <1>2, <1>3, <1>4, ScriptKeysCount
<1>6. signers \in Quorums(UsableSigners(Minimal, i))
  BY <1>5 DEF Quorums
<1>7. ASSUME NEW pk \in w[i]
      PROVE  Combined(i, Minimal)[pk] = "all"
  <2>1. pk \in Present(Combined(i, Minimal))
    BY <1>2 DEF Usable
  <2> DEFINE valid == {key \in PubKeys : \E m \in 1..Minimal : key \in KeysIn(m, i)}
  <2>2. Combined(i, Minimal) = Valid(valid) /\ valid \in SUBSET PubKeys
    BY <1>1, CombinedOfSigners
  <2> HIDE DEF valid
  <2>3. QED
    BY <2>1, <2>2, ValidMaps
<1> HIDE DEF signers, keys
<1>8. Witnessed(w)[i] = Valid(w[i])
  BY <1>7 DEF Witnessed, Valid
<1>9. QED
  BY <1>3, <1>6, <1>8 DEF keys

\* What a finalized transaction has to be, given the recorded events and a threshold.
Authorised(tx, events, t) ==
    LET n == Len(tx.used)
        usable(m, i) == {events[l].fingerprint : l \in {h \in 1..m :
            Key(events[h].fingerprint, i, "compressed") \in Present(events[h].hash.inputs[i].sigs)}}
        quorum(m) == \A i \in Inputs : Cardinality(usable(m, i)) >= t
    IN  /\ n \in DOMAIN events
        /\ tx.used = [m \in 1..n |-> events[m].fingerprint]
        /\ quorum(n) /\ \A m \in 1..(n - 1) : ~quorum(m)
        /\ \A i \in Inputs : \E signers \in {q \in SUBSET usable(n, i) : Cardinality(q) = t} :
              tx.sigs[i] = Valid({Key(k, i, "compressed") : k \in signers})

LEMMA AuthorityIs ==
  /\ FinalizedIsAuthorised <=> (final # None => Authorised(final, recorded, threshold))
  /\ FinalizedIsAuthorised' <=> (final' # None => Authorised(final', recorded', threshold'))
  BY DEF FinalizedIsAuthorised, Authorised, UsableQuorum, UsableSigners, Quorums

LEMMA AssemblyIsAuthorised ==
  ASSUME StateTypes, RecordedSound, Finalizable, NEW w \in Witnesses
  PROVE  Authorised(Assembly(w), recorded, threshold)
<1> DEFINE tx == Assembly(w)
<1>1. /\ Minimal \in DOMAIN recorded /\ UsableQuorum(Minimal)
      /\ \A m \in 1..(Minimal - 1) : ~UsableQuorum(m)
  BY MinimalQuorum DEF Finalizable
<1>2. Minimal \in Nat
  BY <1>1, RecordedTypes
<1>3. /\ tx.used = [m \in 1..Minimal |-> recorded[m].fingerprint]
      /\ tx.sigs = Witnessed(w)
  BY DEF Assembly
<1>4. \A i \in Inputs : \E signers \in Quorums(UsableSigners(Minimal, i)) :
         tx.sigs[i] = Valid({Key(k, i, "compressed") : k \in signers})
  BY <1>3, WitnessOfSigners DEF Finalizable, ScriptKey
<1> HIDE DEF tx
<1>5. Len(tx.used) = Minimal
  BY <1>2, <1>3
<1>6. Authorised(tx, recorded, threshold)
  BY <1>1, <1>3, <1>4, <1>5 DEF Authorised, UsableQuorum, UsableSigners, Quorums
<1>7. QED
  BY <1>6 DEF tx

-----------------------------------------------------------------------------
(* Every step keeps the invariant.                                         *)

LEMMA InitIsSound == Init => IInv
<1> SUFFICES ASSUME Init PROVE IInv
  OBVIOUS
<1>1. StateTypes
  <2>1. DOMAIN store = {Original} /\ store[Original] = Original
    BY DEF Init
  <2>2. /\ threshold \in Thresholds /\ recorded = <<>> /\ final = None
        /\ faults \in 0..MaxFaults
    BY SizeAssumption DEF Init
  <2>3. QED
    BY <2>1, <2>2, OriginalIsDocument DEF StateTypes
<1>2. UploadSound /\ FinalizedIsAuthorised
  BY DEF Init, UploadSound, FinalizedIsAuthorised
<1>3. RecordedSound
  BY DEF Init, RecordedSound
<1>4. QED
  BY <1>1, <1>2, <1>3 DEF IInv

\* Steps that leave the recorded and the final signatures alone.
LEMMA AuthorityKept ==
  ASSUME FinalizedIsAuthorised, UNCHANGED <<threshold, recorded, final>>
  PROVE  FinalizedIsAuthorised'
  BY AuthorityIs

LEMMA UploadKeeps ==
  ASSUME IInv, NEW k \in Keystores, NEW doc \in Uploads, Upload(k, doc)
  PROVE  IInv'
<1> DEFINE verdict == Accepts(doc, k)
<1>1. /\ upload' = [by |-> k, doc |-> doc, accepted |-> verdict]
      /\ UNCHANGED <<threshold, store, recorded, final, faults>>
  BY DEF Upload
<1>2. verdict \in BOOLEAN
  BY DEF Accepts
<1>3. verdict <=> MadeBy(doc, k)
  BY AcceptsOnlyOwn, AcceptsOwnDocument, DocumentAssumption DEF MadeBy
<1> HIDE DEF verdict
<1>4. UploadSound'
  BY <1>1, <1>2, <1>3 DEF UploadSound
<1>5. FinalizedIsAuthorised'
  BY <1>1, AuthorityKept DEF IInv
<1>6. QED
  BY <1>1, <1>4, <1>5 DEF IInv, StateTypes, RecordedSound

LEMMA AcceptKeeps ==
  ASSUME IInv, Accept
  PROVE  IInv'
<1> DEFINE k == upload.by
           doc == upload.doc
           r == [fingerprint |-> k, hash |-> doc]
<1>1. k \in Keystores /\ MadeBy(doc, k)
  BY DEF IInv, UploadSound, Accept
<1>2. Merge(doc) = doc /\ doc \in Documents
  BY <1>1, MergeOfSigned, SignedIsDocument DEF MadeBy
<1>3. /\ store' = [hash \in DOMAIN store \cup {doc} |-> IF hash = doc THEN doc ELSE store[hash]]
      /\ recorded' = IF Signed(k) \/ final # None THEN recorded ELSE Append(recorded, r)
      /\ upload' = None
      /\ UNCHANGED <<threshold, final, faults>>
  BY <1>2 DEF Accept, Put
<1> HIDE DEF k, doc
<1>4. /\ DOMAIN store' \subseteq Documents
      /\ \A hash \in DOMAIN store' : store'[hash] \in Documents
  BY <1>2, <1>3 DEF IInv, StateTypes
<1> DEFINE Records == [fingerprint : Keystores, hash : Documents]
<1>5. r \in Records
  BY <1>1, <1>2
<1>6. recorded \in Seq(Records)
  BY DEF IInv, StateTypes
<1>7. r.fingerprint = k /\ r.hash = doc
  OBVIOUS
<1> HIDE DEF Records, r
<1>8. recorded' \in Seq(Records)
  BY <1>3, <1>5, <1>6
<1>9. StateTypes'
  BY <1>3, <1>4, <1>8 DEF IInv, StateTypes, Records
<1>10. UploadSound'
  BY <1>3 DEF UploadSound
<1>11. CASE recorded' = recorded
  <2>1. RecordedSound'
    BY <1>11 DEF IInv, RecordedSound
  <2>2. FinalizedIsAuthorised'
    BY <1>3, <1>11, AuthorityKept DEF IInv
  <2>3. QED
    BY <1>9, <1>10, <2>1, <2>2 DEF IInv
<1>12. CASE recorded' # recorded
  <2>1. ~Signed(k) /\ final = None /\ recorded' = Append(recorded, r)
    BY <1>3, <1>12
  <2>2. /\ Len(recorded) \in Nat /\ DOMAIN recorded = 1..Len(recorded)
        /\ DOMAIN recorded' = 1..(Len(recorded) + 1)
        /\ \A n \in 1..Len(recorded) : recorded'[n] = recorded[n]
        /\ recorded'[Len(recorded) + 1] = r
    BY <1>5, <1>6, <2>1
  <2>3. \A n \in DOMAIN recorded' : n \in DOMAIN recorded \/ n = Len(recorded) + 1
    BY <2>2
  <2>4. \A n \in DOMAIN recorded : recorded[n].fingerprint # k
    BY <2>1 DEF Signed
  <2>5. \A n \in DOMAIN recorded' : MadeBy(recorded'[n].hash, recorded'[n].fingerprint)
    BY <1>1, <1>7, <2>2, <2>3 DEF IInv, RecordedSound
  <2>6. RecordedSound'
    BY <1>7, <2>2, <2>3, <2>4, <2>5 DEF IInv, RecordedSound, MadeBy
  <2>7. FinalizedIsAuthorised'
    BY <1>3, <2>1 DEF FinalizedIsAuthorised
  <2>8. QED
    BY <1>9, <1>10, <2>6, <2>7 DEF IInv
<1>13. QED
  BY <1>11, <1>12

LEMMA FinalizeKeeps ==
  ASSUME IInv, Finalize
  PROVE  IInv'
<1>1. PICK w \in Witnesses : final' = Assembly(w)
  BY DEF Finalize
<1>2. UNCHANGED <<threshold, store, upload, recorded, faults>> /\ Finalizable
  BY DEF Finalize
<1> DEFINE tx == Assembly(w)
<1>3. Authorised(tx, recorded, threshold) /\ final' = tx
  BY <1>1, <1>2, AssemblyIsAuthorised DEF IInv
<1> HIDE DEF tx
<1>4. tx.sigs = [i \in Inputs |-> tx.sigs[i]]
  BY DEF tx, Assembly, Witnessed
<1>5. FinalizedIsAuthorised'
  BY <1>2, <1>3, AuthorityIs
<1>6. StateTypes'
  BY <1>2, <1>3, <1>4 DEF IInv, StateTypes
<1>7. QED
  BY <1>2, <1>5, <1>6 DEF IInv, UploadSound, RecordedSound

\* What happens to the blobs changes nothing of what was decided.
LEMMA FaultsKeep ==
  ASSUME IInv,
         \/ \E hash \in DOMAIN store, doc \in Corruptions : Corrupt(hash, doc)
         \/ \E hash \in DOMAIN store : Lose(hash)
  PROVE  IInv'
<1>1. /\ faults' = faults + 1 /\ faults < MaxFaults
      /\ UNCHANGED <<threshold, upload, recorded, final>>
  BY DEF Corrupt, Lose
<1>2. faults' \in 0..MaxFaults
  BY <1>1, SizeAssumption DEF IInv, StateTypes
<1>3. /\ DOMAIN store' \subseteq DOMAIN store
      /\ \A hash \in DOMAIN store' : store'[hash] \in Documents
  <2>1. CASE \E hash \in DOMAIN store, doc \in Corruptions : Corrupt(hash, doc)
    BY <2>1, DocumentAssumption DEF Corrupt, IInv, StateTypes
  <2>2. CASE \E hash \in DOMAIN store : Lose(hash)
    BY <2>2 DEF Lose, Restrict, IInv, StateTypes
  <2>3. QED
    BY <2>1, <2>2
<1>4. StateTypes'
  BY <1>1, <1>2, <1>3 DEF IInv, StateTypes
<1>5. FinalizedIsAuthorised'
  BY <1>1, AuthorityKept DEF IInv
<1>6. QED
  BY <1>1, <1>4, <1>5 DEF IInv, UploadSound, RecordedSound

LEMMA StepsKeepSoundness == IInv /\ [Next]_vars => IInv'
<1> SUFFICES ASSUME IInv, [Next]_vars PROVE IInv'
  OBVIOUS
<1>1. CASE \E k \in Keystores, doc \in Uploads : Upload(k, doc)
  BY <1>1, UploadKeeps
<1>2. CASE Accept
  BY <1>2, AcceptKeeps
<1>3. CASE Refuse
  BY <1>3, AuthorityKept DEF Refuse, IInv, StateTypes, UploadSound, RecordedSound
<1>4. CASE Finalize
  BY <1>4, FinalizeKeeps
<1>5. CASE \/ \E hash \in DOMAIN store, doc \in Corruptions : Corrupt(hash, doc)
           \/ \E hash \in DOMAIN store : Lose(hash)
  BY <1>5, FaultsKeep
<1>6. CASE UNCHANGED vars
  BY <1>6, AuthorityKept DEF vars, IInv, StateTypes, UploadSound, RecordedSound
<1>7. QED
  BY <1>1, <1>2, <1>3, <1>4, <1>5, <1>6 DEF Next
-----------------------------------------------------------------------------
(* The theorems.                                                           *)

\* The names and the signatures of a finalized transaction are of the right kind.
LEMMA FinalTypes ==
  ASSUME IInv, final # None
  PROVE  final.used \in Seq(Keystores) /\ \A i \in Inputs : final.sigs[i] \in SignatureMaps
<1> DEFINE n == Len(final.used)
<1>1. /\ n \in DOMAIN recorded /\ final.used = [m \in 1..n |-> recorded[m].fingerprint]
      /\ \A i \in Inputs : \E signers \in Quorums(UsableSigners(n, i)) :
            final.sigs[i] = Valid({Key(k, i, "compressed") : k \in signers})
  BY DEF IInv, FinalizedIsAuthorised
<1> HIDE DEF n
<1>2. n \in Nat /\ n <= Len(recorded) /\ 1..n \subseteq DOMAIN recorded
  BY <1>1, RecordedTypes DEF IInv
<1>3. final.used \in Seq(Keystores)
  BY <1>1, <1>2, RecordedTypes DEF IInv
<1>4. ASSUME NEW i \in Inputs
      PROVE  final.sigs[i] \in SignatureMaps
  <2>1. PICK signers \in Quorums(UsableSigners(n, i)) :
           final.sigs[i] = Valid({Key(k, i, "compressed") : k \in signers})
    BY <1>1
  <2>2. signers \subseteq Keystores
    BY <1>2, SignersAreKeystores DEF Quorums, IInv
  <2>3. {Key(k, i, "compressed") : k \in signers} \in SUBSET PubKeys
    BY <2>2, KeyOfSigner DEF Forms
  <2>4. QED
    BY <2>1, <2>3, ValidMaps
<1>5. QED
  BY <1>3, <1>4

\* The store holds documents, the session fingerprints and hashes of them, and a
\* finalized transaction signatures under public keys.
THEOREM TypeCorrect == Spec => []TypeOK
<1>1. IInv => TypeOK
  <2> SUFFICES ASSUME IInv PROVE TypeOK
    OBVIOUS
  <2>1. Range(store) \subseteq Documents
    BY DEF IInv, StateTypes, Range
  <2>2. final # None => final.used \in Seq(Keystores) /\ final.sigs \in [Inputs -> SignatureMaps]
    BY FinalTypes DEF IInv, StateTypes
  <2>3. QED
    BY <2>1, <2>2 DEF TypeOK, IInv, StateTypes, UploadSound
<1>2. QED
  BY <1>1, InitIsSound, StepsKeepSoundness, PTL DEF Spec

\* validate_signed_submission's early returns together let through, of whatever is
\* uploaded, exactly the original with valid signatures of the signer's own key, in
\* either or both of its forms, on every input.
THEOREM ValidationIsExact == Spec => []ValidatesExactly
<1>1. IInv => ValidatesExactly
  BY DEF IInv, UploadSound, MadeBy, ValidatesExactly
<1>2. QED
  BY <1>1, InitIsSound, StepsKeepSoundness, PTL DEF Spec

\* Every recorded blob passes verify_merged_blob and holds its signer's signatures
\* only, on every input; no signer has two.
THEOREM RecordedAlone == Spec => []RecordedStandAlone
<1>1. IInv => RecordedStandAlone
  <2> SUFFICES ASSUME IInv PROVE RecordedStandAlone
    OBVIOUS
  <2>1. \A n \in DOMAIN recorded : /\ MadeBy(recorded[n].hash, recorded[n].fingerprint)
                                   /\ Verified(recorded[n].hash)
    BY RecordedKeys, InputsAreFinite DEF IInv, RecordedSound
  <2>2. IsInjective([n \in DOMAIN recorded |-> recorded[n].fingerprint])
    BY DEF IInv, RecordedSound, IsInjective
  <2>3. QED
    BY <2>1, <2>2 DEF RecordedStandAlone, Range, MadeBy
<1>2. QED
  BY <1>1, InitIsSound, StepsKeepSoundness, PTL DEF Spec

\* With the original and the recorded blobs intact, run_finalization reaches a
\* transaction once every input has a quorum of recorded signers under the script's
\* keys: signatures under the other form of a key, before or in between, do no harm.
THEOREM QuorumFinalizes == Spec => []UsableQuorumFinalizes
<1>1. IInv => UsableQuorumFinalizes
  <2> SUFFICES ASSUME IInv, UsableQuorum(Len(recorded)), RecordedIntact
               PROVE  Finalizable
    BY DEF UsableQuorumFinalizes
  <2> DEFINE n == Len(recorded)
  <2>1. n \in Nat /\ DOMAIN recorded = 1..n /\ threshold \in Nat \ {0}
    BY ThresholdIsPositive, RecordedTypes DEF IInv, StateTypes
  <2>2. n >= threshold
    BY <2>1, QuorumIsLong DEF IInv
  <2>3. Fetch(Original) # None
    BY OriginalIsDocument, NoneAssumption DEF RecordedIntact, Intact, Fetch
  <2>4. \A m \in DOMAIN recorded : Blob(m) # None
    BY RecordedTypes, NoneAssumption DEF IInv, Range, RecordedIntact, Intact, Fetch, Blob
  <2>5. Fetched(n)
    BY <2>1, <2>4 DEF Fetched
  <2>6. n \in DOMAIN recorded
    BY <2>1, <2>2
  <2>7. n \in Assembled
    BY <2>5, <2>6, AssemblesFromQuorum DEF IInv, Assembled
  <2>8. Minimal \in 1..n /\ UsableQuorum(Minimal)
    BY <2>1, <2>7, MinimalQuorum DEF IInv
  <2>9. Minimal >= threshold
    BY <2>1, <2>8, QuorumIsLong DEF IInv
  <2>10. QED
    BY <2>2, <2>3, <2>7, <2>9 DEF Finalizable
<1>2. QED
  BY <1>1, InitIsSound, StepsKeepSoundness, PTL DEF Spec

\* Whatever the store did to the blobs, sigs_used of a finalized transaction is the
\* shortest list of first signers that gives every input its quorum, and each input
\* carries as many valid signatures as the script needs, by signers in that list.
THEOREM FinalizedAuthorised == Spec => []FinalizedIsAuthorised
<1>1. IInv => FinalizedIsAuthorised
  BY DEF IInv
<1>2. QED
  BY <1>1, InitIsSound, StepsKeepSoundness, PTL DEF Spec
=============================================================================
