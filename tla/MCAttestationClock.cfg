\* The default --timeout 30 with the real slice length and counter width.
SPECIFICATION FairSpec
CONSTANTS
    v1 = v1
    v2 = v2
    a1 = a1
    a2 = a2
    n1 = n1
    n2 = n2
    good = good
    bad = bad
    Verifiers = {v1}
    Attesters = {a1}
    Trusted = a1
    Destination <- MCOneDestination
    Nonces = {n1}
    Digests = {good, bad}
    ReferenceSets <- MCTwoSets
    NoNonce = NoNonce
    TimeoutMs = 30000
    IoTimes <- MCRealTimes
    WaitModulus = 65536
    GiveUpMs = 930000
INVARIANTS DeadlineHonoured NoEarlyTimeout
PROPERTY Termination
