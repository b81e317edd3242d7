\* The same attester against the comment on its clean-up.
SPECIFICATION HandlerSpec
CONSTANTS
    v1 = v1
    v2 = v2
    a1 = a1
    good = good
    bad = bad
    Verifiers = {v1}
    Attesters = {a1}
    Trusted = a1
    Destination <- MCDestination
    Nonces = {n1, n2}
    Digests = {good, bad}
    ReferenceSets <- MCReferenceSets
    NoNonce = NoNonce
    TimeoutMs = 1
    IoTimes <- MCTimes
    WaitModulus = 4
    GiveUpMs = 1
    KeyFormat = "file"
    TpmSlots = 2
    Nothing = Nothing
INVARIANT FreesHeapObjects
