--------------------------- MODULE MCAttestation ---------------------------
(* Finite instances of Attestation.                                         *)
EXTENDS Attestation, TLC

CONSTANTS good, bad,      \* digests
          v1, v2, a1, a2, \* processes and platforms
          n1, n2          \* nonces

\* The reference file of the runs with two processes: one set.
MCReferenceSets == <<good>>

\* A file with two sets; the second is the one a stale index still reaches.
MCTwoSets == <<bad, good>>

MCOneDestination == v1 :> a1

\* One process asks the trusted platform, the other one asks a2 by mistake.
MCDestination == v1 :> a1 @@ v2 :> a2

\* Nonces are interchangeable in Attestation and in what is checked of it.
MCSymmetry == Permutations(Nonces)

\* A stand-in clock for the runs about messages: a pass costs nothing or the
\* whole time there is.
MCShortTimes == {0, 1}

\* The real clock: a full 2000 ms slice, a response that arrives at once, and
\* a response whose handler (TPM start-up included) takes 1 s.
MCRealTimes == {0, 1000, 2000}

\* Full slices and immediate events only.
MCSlices == {0, 2000}

=============================================================================
