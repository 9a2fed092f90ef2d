----------------------- MODULE MCSubmissionValidation -----------------------
(* A small instance of SubmissionValidation: two inputs; uploads with the   *)
(* forms of two wallet keystores' keys mixed over the inputs, uploads with  *)
(* any signatures under two keys on one input, a stranger's key and the     *)
(* other input's key included, and uploads with one other part altered or   *)
(* an input map missing.                                                    *)
EXTENDS SubmissionValidation

CONSTANTS k1, k2

MCKeystores == {k1, k2}

Doc(s1, s2) == Frame(<<[fields |-> "original", sigs |-> s1], [fields |-> "original", sigs |-> s2]>>)

SignedOnce(k, form1, form2) == Doc(Valid({Key(k, 1, form1)}), Valid({Key(k, 2, form2)}))

MCBase == SignedOnce(k1, "compressed", "compressed")

\* k1's key for input i, and another key that may have signed there as well.
OtherKeys(i) == {Key(k1, i, "uncompressed"), Key(k2, i, "compressed"),
                 Key(Stranger, i, "compressed"), Key(k1, 3 - i, "compressed")}
AnyOn(i) ==
    {[pk \in PubKeys |-> CASE pk = Key(k1, i, "compressed") -> s
                            [] pk = other                   -> o
                            [] OTHER                        -> None] :
        s, o \in Signatures \cup {None}, other \in OtherKeys(i)}

MCUploads ==
    {SignedOnce(k, form1, form2) : k \in MCKeystores, form1, form2 \in Forms}
    \cup {[MCBase EXCEPT !.inputs[1].sigs = s] : s \in AnyOn(1)}
    \cup {[MCBase EXCEPT !.inputs[2].sigs = s] : s \in AnyOn(2)}
    \cup {[MCBase EXCEPT ![part] = "altered"] : part \in {"tx", "globals", "outputs"}}
    \cup {[MCBase EXCEPT !.inputs[i].fields = "altered"] : i \in Inputs}
    \cup {[MCBase EXCEPT !.inputs = <<MCBase.inputs[1]>>]}

\* Blobs that are as well-formed as the right one: a signer's, one with signatures
\* of another sighash type, one for nobody.
MCCorruptions ==
    {MCBase, Original,
     Frame([i \in Inputs |-> [fields |-> "original",
                              sigs |-> [pk \in PubKeys |-> IF pk \in ScriptKeys(i) THEN "other"
                                                     ELSE None]]])}
=============================================================================
