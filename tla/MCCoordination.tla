--------------------------- MODULE MCCoordination ---------------------------
(* A small instance of Coordination.                                        *)
EXTENDS Coordination, Functions, TLC

\* Every policy over the keystores: thresholds that collect exactly what they
\* need, thresholds that can over-collect, and keystores outside the wallet.
MCPolicies == {p \in [threshold : 1..2, keystores : SUBSET Keystores] :
                  p.threshold <= Cardinality(p.keystores)}

\* Both keystores are the wallet's: those outside it never get past the load.
MCWalletPolicies == {p \in MCPolicies : p.keystores = Keystores}

\* The lists the finalization job can pass: the signers of distinct events.
MCSigLists == UNION {{l \in [1..n -> Keystores] : IsInjective(l)} :
                        n \in 1..Cardinality(Keystores)}

MCSymmetry == Permutations(Keystores) \cup Permutations(Calls) \cup Permutations(Workers)
=============================================================================
