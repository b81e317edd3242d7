\* Two verifier processes, the trusted platform and another one.
SPECIFICATION Spec
CONSTANTS
    v1 = v1
    v2 = v2
    a1 = a1
    a2 = a2
    n1 = n1
    n2 = n2
    good = good
    bad = bad
    Verifiers = {v1, v2}
    Attesters = {a1, a2}
    Trusted = a1
    Destination <- MCDestination
    Nonces = {n1, n2}
    Digests = {good, bad}
    ReferenceSets <- MCReferenceSets
    NoNonce = NoNonce
    TimeoutMs = 1
    IoTimes <- MCShortTimes
    WaitModulus = 4
    GiveUpMs = 1
SYMMETRY MCSymmetry
INVARIANTS TypeOK WitnessInv PositiveIsWitnessed
PROPERTY KeepsPromise
