------------------------- MODULE MCAttesterHandler -------------------------
(* Finite instances of AttesterHandler.                                     *)
EXTENDS AttesterHandler, TLC

CONSTANTS good, bad,  \* digests
          v1, v2, a1  \* processes and the platform

MCReferenceSets == <<good>>

\* Every process asks the one platform.
MCDestination == [v \in Verifiers |-> a1]

MCTimes == {0, 1}

=============================================================================
