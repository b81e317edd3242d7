\* Two processes with a command line each, one attester, values 0 and 1.
SPECIFICATION Spec
CONSTANTS
    v1 = v1
    v2 = v2
    Verifiers = {v1, v2}
    Arguments <- MCArguments
    LogRequests <- MCLogRequests
    Versions <- MCVersions
    AllPcrs = AllPcrs
    Unreadable = Unreadable
    DefaultPcrs <- MCDefaultPcrs
    ReferenceSets <- MCReferenceSets
    MaxPcrs = 3
    SelectBits = 2
    ImaPcr = 1
    Nothing = Nothing
    MaxEvents = 1
    MaxResponses = 1
INVARIANTS TypeOK PositiveMeansReference PositiveIsWitnessed
           ReferenceIsAccepted LogCoversQuote LogsNamed
PROPERTY AppraisesAsProtocol
