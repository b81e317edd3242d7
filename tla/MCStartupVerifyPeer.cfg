\* Command lines of up to three options, among them --rpk-verify-peer.
SPECIFICATION Spec
CONSTANTS
    p0 = p0
    p1 = p1
    k1 = k1
    k2 = k2
    Paths = {p0, p1}
    DefaultPath = p0
    Keys = {k1, k2}
    Absent = Absent
    Timeouts <- MCTimeouts
    DefaultTimeout = 6
    TimeoutModulus <- MCTimeoutModulus
    Handles <- MCHandles
    HandleModulus <- MCHandleModulus
    Formats = {"ima", "tcg-boot"}
    SUPPORTED_PCR_LOGS_COUNT = 2
    MaxOptions = 3
INVARIANT VerifyPeerEnablesRpk
CHECK_DEADLOCK FALSE
