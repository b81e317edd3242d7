\* Two processes with a TPM in common that has room for one key.
SPECIFICATION HandlerSpec
CONSTANTS
    v1 = v1
    v2 = v2
    a1 = a1
    good = good
    bad = bad
    Verifiers = {v1, v2}
    Attesters = {a1}
    Trusted = a1
    Destination <- MCDestination
    Nonces = {n1, n2}
    Digests = {good, bad}
    ReferenceSets <- MCReferenceSets
    NoNonce = NoNonce
    TimeoutMs = 3
    IoTimes <- MCTimes
    WaitModulus = 4
    GiveUpMs = 2
    Tpms = {"tpm"}
    TpmOf <- MCTpmOf
    TpmSlots = 1
    Nothing = Nothing
INVARIANTS HandlerTypeOK KeysAccounted NoEarlySuccess DiesBeforeTpm
PROPERTY ImplementsAttestation
CONSTRAINT FewMessages
SYMMETRY Symmetry
