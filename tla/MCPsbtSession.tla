--------------------------- MODULE MCPsbtSession ---------------------------
(* A small instance of PsbtSession: every t-of-n policy over three keys,    *)
(* every sigs_used list of at most three entries, repetitions included.     *)
EXTENDS PsbtSession, TLC

MCPolicies == {p \in [threshold : 1..3, keystores : SUBSET Keystores] :
                  p.threshold <= Cardinality(p.keystores)}

MCSigLists == UNION {[1..n -> Keystores] : n \in 0..3}
=============================================================================
