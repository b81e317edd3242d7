------------------------- MODULE MCVerifierHandler -------------------------
(* A finite instance of VerifierHandler.                                    *)
EXTENDS VerifierHandler, TLC

CONSTANTS good, bad,  \* digests
          v1, v2, a1  \* processes and the platform

MCReferenceSets == <<good>>

\* Every process asks the one platform, and uses the TPM of the one host.
MCDestination == [v \in Verifiers |-> a1]
MCTpmOf == [v \in Verifiers |-> "tpm"]

\* With GiveUpMs = 2, a process makes two passes.
MCTimes == {1}

\* Bound: the quotes made and the processes that get an error response.
FewMessages == Cardinality(quotes) + Cardinality(errors) <= 2

\* Nonces differ in nothing but their names, and neither do the processes: they
\* ask the same platform and use the same TPM.
Symmetry == Permutations(Nonces) \cup Permutations(Verifiers)

=============================================================================
