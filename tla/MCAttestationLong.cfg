\* A --timeout of 66 seconds, the first that a 16-bit sum of ms cannot reach.
SPECIFICATION FairSpec
CONSTANTS
    v1 = v1
    v2 = v2
    a1 = a1
    a2 = a2
    n1 = n1
    n2 = n2
    good = good
    bad = bad
    Verifiers = {v1}
    Attesters = {a1}
    Trusted = a1
    Destination <- MCOneDestination
    Nonces = {n1}
    Digests = {good, bad}
    ReferenceSets <- MCReferenceSets
    NoNonce = NoNonce
    TimeoutMs = 66000
    IoTimes <- MCSlices
    WaitModulus = 65536
    GiveUpMs = 2046000
INVARIANT NoEarlyTimeout
PROPERTY Termination
