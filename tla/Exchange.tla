----------------------------- MODULE Exchange -----------------------------
(***************************************************************************)
(* What one attestation is about: the PCRs and logs that are named on a    *)
(* verifier's command line, on their way through the request, the quote,   *)
(* the log files and the response to the verdict.  Attestation has the     *)
(* protocol and the clock, AttesterHandler and VerifierHandler have the    *)
(* resources; here are the data.                                           *)
(*                                                                         *)
(* The value of a PCR is the number of events extended into it since the   *)
(* platform was started.  A composite digest is the sequence of the values *)
(* that are hashed, so two digests are the same only if these are.  The    *)
(* kernel's measurement list (the IMA log) gets an event before ImaPcr.    *)
(***************************************************************************)
EXTENDS TapCbor, ReferenceCheck, PcrSelectionOption, CharraError

CONSTANTS
    Verifiers,       \* verifier processes; each is also its own nonce
    Arguments,       \* per verifier, what may be given to --pcr-selection
    LogRequests,     \* what pcr_logs may be, per verifier, from the options
    Versions,        \* per verifier, the tap_spec_version it may speak
    DefaultPcrs,     \* the static selection of the sha256 bank
    ReferenceSets,   \* the reference file: per set, PCR values by index
    SelectBits,      \* 8 * sizeofSelect = TPM2_MAX_PCRS - 8: 24
    ImaPcr,          \* the PCR the IMA log belongs to: 10
    Nothing,         \* no option, no message, no log content
    MaxEvents,       \* bound: events per PCR
    MaxResponses     \* bound: responses ever sent

Pcrs == 0 .. SelectBits - 1   \* the PCRs a TPM has
ASSUME ExchangeAssumption ==
    /\ SelectBits \in Nat /\ SelectBits < MaxPcrs
    /\ ImaPcr \in Pcrs
    /\ MaxEvents \in Nat /\ MaxResponses \in Nat

\* The static selection is in order, as the option's are.
ASSUME SelectionsAssumption ==
    /\ DefaultPcrs \in Seq(Pcrs) /\ IsAscending(DefaultPcrs)
    /\ \A v \in Verifiers : Arguments[v] \subseteq ArgumentType

\* Sets are read one after the other.
ASSUME ReferenceSetsAssumption ==
    Len(ReferenceSets) \in Nat /\ DOMAIN ReferenceSets = 1 .. Len(ReferenceSets)

\* Nothing is none of the values whose place it takes.
ASSUME NothingAssumption ==
    /\ Nothing \notin Int /\ \A v \in Verifiers : Nothing \notin Arguments[v]
    /\ Nothing \notin [pcrs : [Pcrs -> Nat], from : Nat]

\* What the start-up leaves for the logs (Startup's LogsAsAsked: no log twice,
\* and no more than there is room for).
ASSUME LogRequestsAssumption ==
    /\ LogRequests \subseteq
          [Verifiers -> Seq([identifier : STRING, start : Nat, count : Nat])]
    /\ \A logs \in LogRequests, v \in Verifiers :
          Len(logs[v]) <= SUPPORTED_PCR_LOGS_COUNT

VARIABLES
    \* the verifier processes
    stage,                \* "options", "waiting" or "refused"
    asked,                \* history: the last --pcr-selection option
    tpm_pcr_selection,    \* per bank, the first tpm_pcr_selection_len PCRs
    pcr_logs,             \* the logs asked for
    attestation_rc,
    pcr_selection_index,  \* the RIM manager's static index
    judged,               \* history: its own quote, if compared last, and how
    \* the network
    requests, responses,
    \* the attester
    step, req, quote, contents,
    \* its platform
    pcr,                  \* PCR values
    ima_log,              \* events in the IMA log
    witnessed             \* history: the processes that a reference state was
                          \* there for, at some moment since their request

verifierVars == <<stage, asked, tpm_pcr_selection, pcr_logs, attestation_rc,
                  pcr_selection_index, judged>>
networkVars == <<requests, responses>>
attesterVars == <<step, req, quote, contents>>
platformVars == <<pcr, ima_log, witnessed>>
vars == <<verifierVars, networkVars, attesterVars, platformVars>>

Init ==
    /\ stage = [v \in Verifiers |-> "options"]
    /\ asked = [v \in Verifiers |-> Nothing]
    /\ tpm_pcr_selection =
          [v \in Verifiers |-> [b \in Banks |->
              IF b = "sha256" THEN DefaultPcrs ELSE <<>>]]
    /\ pcr_logs \in LogRequests
    /\ attestation_rc = [v \in Verifiers |-> "ERROR"]
    /\ pcr_selection_index = [v \in Verifiers |-> 0]
    /\ judged = [v \in Verifiers |-> Nothing]
    /\ requests = {} /\ responses = {}
    /\ step = "idle" /\ req = Nothing /\ quote = Nothing /\ contents = <<>>
    /\ pcr = [p \in Pcrs |-> 0] /\ ima_log = 0 /\ witnessed = {}

-----------------------------------------------------------------------------
(* --pcr-selection.                                                         *)

PcrSelection(v) ==
    /\ stage[v] = "options"
    /\ \E argument \in Arguments[v] :
         \/ /\ Readable(argument)
            /\ asked' = [asked EXCEPT ![v] = argument]
            /\ tpm_pcr_selection' =
                  [tpm_pcr_selection EXCEPT ![v] = Parsed(argument)]
            /\ UNCHANGED stage
         \/ /\ ~Readable(argument)
            /\ stage' = [stage EXCEPT ![v] = "refused"]
            /\ UNCHANGED <<asked, tpm_pcr_selection>>
    /\ UNCHANGED <<pcr_logs, attestation_rc, pcr_selection_index, judged,
                   networkVars, attesterVars, platformVars>>

-----------------------------------------------------------------------------
(* What an attestation is about.                                            *)

\* What the command line names for the sha256 bank: the last option counts;
\* without one, the default.
Named(v) == IF asked[v] = Nothing THEN Elements(DefaultPcrs)
            ELSE NamedIn(asked[v], "sha256")

\* The PCRs in P have the values of reference set i.
Satisfies(values, i, P) ==
    \A p \in P : /\ p \in DOMAIN values /\ p \in DOMAIN ReferenceSets[i]
                 /\ values[p] = ReferenceSets[i][p]
IsReference(values, P) ==
    \E i \in DOMAIN ReferenceSets : Satisfies(values, i, P)

\* The processes of P for which the values are a reference state.
AttestedBy(values, P) == {v \in P : IsReference(values, Named(v))}
Waiting == {v \in Verifiers : stage[v] = "waiting"}

-----------------------------------------------------------------------------
(* The request.                                                             *)

\* create_attestation_request: no bank but sha256.
RequestOf(v, version) ==
    [tap_spec_version |-> version, hello |-> FALSE,
     sig_key_id |-> "PK.RSA.default", nonce |-> v,
     pcr_selections |-> <<[tcg_hash_alg_id |-> TPM2_ALG_SHA256,
                           pcrs |-> tpm_pcr_selection[v]["sha256"]]>>,
     pcr_logs |-> pcr_logs[v]]

Send(v) ==
    /\ stage[v] = "options"
    /\ stage' = [stage EXCEPT ![v] = "waiting"]
    /\ \E version \in Versions[v] :
         requests' = requests \cup {EncodeRequest(RequestOf(v, version))}
    /\ witnessed' = witnessed \cup AttestedBy(pcr, {v})
    /\ UNCHANGED <<asked, tpm_pcr_selection, pcr_logs, attestation_rc,
                   pcr_selection_index, judged, responses,
                   attesterVars, pcr, ima_log>>

-----------------------------------------------------------------------------
(* The attester.                                                            *)

\* Broken form: bits counted from one.
BitFromOne(p) == p + 1

\* The bit that is set for PCR p, counted from the start of pcrSelect.
Bit(p) == p

\* charra_tpm2_pcr_selection_to_bitmap: a list that is too long is refused, a
\* PCR that is too big is not; the TPM reads the first sizeofSelect bytes.
Convertible(selection) == Len(selection.pcrs) <= SelectBits
Bitmap(selection) == {Bit(p) : p \in Elements(selection.pcrs)} \cap Pcrs

\* Broken form: the logs are read before the quote is made.
LogsFirst == [request |-> "logs", logs |-> "quote", quote |-> "reply"]

\* The order of the handler's steps.
After == [request |-> "quote", quote |-> "logs", logs |-> "reply"]

\* A request that is not accepted changes nothing here (but see AnswerError).
ReceiveRequest ==
    /\ step = "idle"
    /\ \E m \in requests :
         /\ RequestAccepted(m)
         /\ \A k \in DOMAIN DecodeRequest(m).pcr_selections :
               Convertible(DecodeRequest(m).pcr_selections[k])
         /\ req' = DecodeRequest(m)
    /\ step' = After.request
    /\ UNCHANGED <<verifierVars, networkVars, quote, contents, platformVars>>

\* The composite digest: bank by bank, in ascending order.
ValuesOf(selection) == Each(LAMBDA p : pcr[p], Ascending(Bitmap(selection)))
Composite(selections) == FlattenSeq(Each(ValuesOf, selections))

\* tpm2_quote.  pcrs keeps what the platform was like at that moment.
TakeQuote ==
    /\ step = "quote"
    /\ quote' = [nonce |-> req.nonce, digest |-> Composite(req.pcr_selections),
                 pcrs |-> pcr]
    /\ step' = After.quote
    /\ UNCHANGED <<verifierVars, networkVars, req, contents, platformVars>>

\* What is read for the next log asked for.  No file, start = 0, or an error:
\* nothing; a file that cannot be closed is a matter of AttesterHandler.  The
\* boot log is complete when the attester is started.
LogContents(l) ==
    IF l.start = 0 THEN {Nothing}
    ELSE IF l.identifier = "ima" THEN {Nothing, ima_log}
    ELSE IF l.identifier = "tcg-boot" THEN {Nothing, 0}
    ELSE {Nothing}

ReadLog ==
    /\ step = "logs" /\ Len(contents) < Len(req.pcr_logs)
    /\ \E c \in LogContents(req.pcr_logs[Len(contents) + 1]) :
         contents' = Append(contents, c)
    /\ UNCHANGED <<verifierVars, networkVars, step, req, quote, platformVars>>

LogsDone ==
    /\ step = "logs" /\ Len(contents) = Len(req.pcr_logs)
    /\ step' = After.logs
    /\ UNCHANGED <<verifierVars, networkVars, req, quote, contents,
                   platformVars>>

\* The whole log is said to be sent, whatever part of it was asked for.
LogResponse(k) ==
    [identifier |-> req.pcr_logs[k].identifier,
     start |-> IF req.pcr_logs[k].identifier \in {"ima", "tcg-boot"} THEN 1
               ELSE 0,
     count |-> 0, content |-> contents[k]]

Idle ==
    step' = "idle" /\ req' = Nothing /\ quote' = Nothing /\ contents' = <<>>

Reply ==
    /\ step = "reply"
    /\ Cardinality(responses) < MaxResponses
    /\ responses' = responses \cup
         {EncodeResponse([attestation_data |-> quote,
                          tpm2_signature |-> "signature",
                          pcr_logs |-> [k \in DOMAIN contents |->
                                           LogResponse(k)]])}
    /\ Idle
    /\ UNCHANGED <<verifierVars, requests, platformVars>>

\* The call fails at some step, or the response is lost at once.
Fail ==
    /\ step # "idle" /\ Idle
    /\ UNCHANGED <<verifierVars, networkVars, platformVars>>

\* libcoap answers with an error whose payload is text.
AnswerError ==
    /\ requests # {} /\ Cardinality(responses) < MaxResponses
    /\ responses' = responses \cup {Text("diagnostic", FALSE)}
    /\ UNCHANGED <<verifierVars, requests, attesterVars, platformVars>>

-----------------------------------------------------------------------------
(* The platform.                                                            *)

\* The kernel measures a file: the list gets an entry, then ImaPcr an event.
Measure ==
    /\ ima_log < MaxEvents
    /\ ima_log' = ima_log + 1
    /\ UNCHANGED <<verifierVars, networkVars, attesterVars, pcr, witnessed>>

Extend(p) ==
    /\ pcr[p] < (IF p = ImaPcr THEN ima_log ELSE MaxEvents)
    /\ pcr' = [pcr EXCEPT ![p] = @ + 1]
    /\ witnessed' = witnessed \cup AttestedBy(pcr', Waiting)
    /\ UNCHANGED <<verifierVars, networkVars, attesterVars, ima_log>>

\* The platform restarts, and the attester with it.
Reboot ==
    /\ pcr' = [p \in Pcrs |-> 0] /\ ima_log' = 0
    /\ witnessed' = witnessed \cup AttestedBy(pcr', Waiting)
    /\ Idle
    /\ UNCHANGED <<verifierVars, networkVars>>

-----------------------------------------------------------------------------
(* The response.                                                            *)

\* The RIM manager's answer; a selection that is too long is refused.
Accepted(s, from, digest) ==
    Len(s) < MaxPcrs /\ SomeSetMatches(ReferenceSets, s, from, digest)
IndexAfter(s, from, digest) ==
    IF Len(s) >= MaxPcrs THEN from
    ELSE IndexLeft(ReferenceSets, s, from, digest)

\* The handler ends before the checks.
CannotAppraise(v) ==
    /\ attestation_rc' = [attestation_rc EXCEPT ![v] = "ERROR"]
    /\ judged' = [judged EXCEPT ![v] = Nothing]
    /\ UNCHANGED pcr_selection_index

\* The reference file cannot be read to its end: a failed check, with the index
\* left anywhere.
ReferenceUnusable(v) ==
    /\ attestation_rc' = [attestation_rc EXCEPT ![v] = "VERIFICATION_FAILED"]
    /\ judged' = [judged EXCEPT ![v] = Nothing]
    /\ \E k \in 0 .. Len(tpm_pcr_selection[v]["sha256"]) :
         pcr_selection_index' = [pcr_selection_index EXCEPT ![v] = k]

\* Broken form: the nonce is not compared.
AnyNonce(v, q) == TRUE

\* The quoted nonce is the one of last_request.
OwnNonce(v, q) == q.nonce = v

\* The end of the handler, for quote q.  The quote says which PCRs it is over
\* (pcrSelect); that is not looked at.
Appraise(v, q) ==
    LET s == tpm_pcr_selection[v]["sha256"]
        from == pcr_selection_index[v]
        good == OwnNonce(v, q) /\ Accepted(s, from, q.digest)
    IN  /\ attestation_rc' = [attestation_rc EXCEPT
                ![v] = IF good THEN "SUCCESS" ELSE "VERIFICATION_FAILED"]
        /\ pcr_selection_index' = [pcr_selection_index EXCEPT
                ![v] = IndexAfter(s, from, q.digest)]
        /\ judged' = [judged EXCEPT ![v] =
                IF OwnNonce(v, q) THEN [pcrs |-> q.pcrs, from |-> from]
                ELSE Nothing]

\* coap_attest_handler of the verifier, for any response that reaches it.  A
\* process whose wait is over just takes no more steps.
Receive(v) ==
    /\ stage[v] = "waiting"
    /\ \E m \in responses :
         \/ CannotAppraise(v)
         \/ ResponseAccepted(m) /\ ReferenceUnusable(v)
         \/ /\ ResponseAccepted(m)
            /\ Appraise(v, DecodeResponse(m).attestation_data)
    /\ UNCHANGED <<stage, asked, tpm_pcr_selection, pcr_logs, networkVars,
                   attesterVars, platformVars>>

-----------------------------------------------------------------------------

Next ==
    \/ \E v \in Verifiers : PcrSelection(v) \/ Send(v) \/ Receive(v)
    \/ ReceiveRequest \/ TakeQuote \/ ReadLog \/ LogsDone \/ Reply
    \/ Fail \/ AnswerError
    \/ Measure \/ Reboot
    \/ \E p \in Pcrs : Extend(p)

Spec == Init /\ [][Next]_vars

-----------------------------------------------------------------------------
(* Properties.                                                              *)

TypeOK ==
    /\ stage \in [Verifiers -> {"options", "waiting", "refused"}]
    /\ \A v \in Verifiers : asked[v] \in Arguments[v] \cup {Nothing}
    /\ tpm_pcr_selection \in [Verifiers -> [Banks -> Seq(0 .. MaxPcrs - 1)]]
    /\ \A v \in Verifiers, b \in Banks :
          Len(tpm_pcr_selection[v][b]) <= MaxPcrs
    /\ pcr_logs \in LogRequests
    /\ attestation_rc \in
          [Verifiers -> {"SUCCESS", "ERROR", "VERIFICATION_FAILED"}]
    /\ \A v \in Verifiers :
          pcr_selection_index[v] \in 0 .. Len(tpm_pcr_selection[v]["sha256"])
    /\ step \in {"idle", "quote", "logs", "reply"}
    /\ pcr \in [Pcrs -> 0 .. MaxEvents]
    /\ ima_log \in 0 .. MaxEvents
    /\ witnessed \subseteq Verifiers

\* A positive verdict is about what was named on the command line: when the
\* quote was made, each PCR named for sha256 had its value of one and the same
\* reference set.  A PCR the TPM was not asked for is not taken as matching, and
\* neither is one that another process has asked for.
PositiveMeansReference ==
    \A v \in Verifiers : attestation_rc[v] = "SUCCESS" =>
        judged[v] # Nothing /\ IsReference(judged[v].pcrs, Named(v))

\* And it is fresh: there was such a moment after the process had sent its
\* request, however old the quotes are that reach it, whatever other processes
\* have asked for before, and though the platform may have moved on or
\* restarted since.
PositiveIsWitnessed ==
    \A v \in Verifiers : attestation_rc[v] = "SUCCESS" => v \in witnessed

\* The other way round: in whatever order, how often and beside which other
\* banks the PCRs were typed, a platform in a reference state is found to be in
\* one, if the TPM has these PCRs, every set of the file has them, and no
\* earlier comparison has left the static index in the middle.
ReferenceIsAccepted ==
    \A v \in Verifiers :
        /\ judged[v] # Nothing /\ judged[v].from = 0
        /\ Named(v) \subseteq Pcrs
        /\ \A i \in DOMAIN ReferenceSets :
              Named(v) \subseteq DOMAIN ReferenceSets[i]
        /\ IsReference(judged[v].pcrs, Named(v))
        => attestation_rc[v] = "SUCCESS"

\* An IMA log that is sent along with a quote explains it: it holds every event
\* that the quoted ImaPcr stands for, also when files are measured and the
\* platform restarts between the two.
LogCoversQuote ==
    \A m \in responses : ResponseAccepted(m) =>
        LET res == DecodeResponse(m)
        IN  \A k \in DOMAIN res.pcr_logs :
              res.pcr_logs[k].identifier = "ima"
                /\ res.pcr_logs[k].content # Nothing
              => res.pcr_logs[k].content >= res.attestation_data.pcrs[ImaPcr]

\* The verifier names the logs in a response by its own pcr_logs, and indexes
\* that array by the length of the response's: a response that an attester of
\* this program has encoded never has more of them than there is room for,
\* whosever it is, and for the process it answers they are the logs asked for,
\* in that order.
LogsNamed ==
    \A m \in responses : ResponseAccepted(m) =>
        LET res == DecodeResponse(m)
            identifiers(logs) == Each(LAMBDA l : l.identifier, logs)
        IN  /\ Len(res.pcr_logs) <= SUPPORTED_PCR_LOGS_COUNT
            /\ identifiers(res.pcr_logs)
                 = identifiers(pcr_logs[res.attestation_data.nonce])


\* What the handler leaves of its process for the next call.
Left(v) == [rc |-> attestation_rc[v], stale |-> pcr_selection_index[v] # 0]

\* The digest of reference set i over selection s.
SetDigest(i, s) ==
    IF Elements(s) \subseteq DOMAIN ReferenceSets[i]
    THEN [k \in DOMAIN s |-> ReferenceSets[i][s[k]]]
    ELSE Nothing

\* Attestation's handler, with the digests over selection s.  What it decides
\* depends on last_request, stale and the constants; the other variables of
\* Attestation are given a value only because the instance needs one.
Protocol(s) == INSTANCE Attestation WITH
    Attesters <- {"attester"}, Trusted <- "attester",
    Destination <- [v \in Verifiers |-> "attester"],
    Nonces <- Verifiers, NoNonce <- Nothing,
    Digests <- Seq(Nat) \cup {Nothing},
    ReferenceSets <- [i \in DOMAIN ReferenceSets |-> SetDigest(i, s)],
    TimeoutMs <- 1, IoTimes <- {0}, WaitModulus <- 1, GiveUpMs <- 0,
    last_request <-
        [v \in Verifiers |-> IF stage[v] = "waiting" THEN v ELSE Nothing],
    stale <- [v \in Verifiers |-> pcr_selection_index[v] # 0],
    pc <- [v \in Verifiers |-> "waiting"],
    result <- [v \in Verifiers |-> "none"],
    response_wait_time <- [v \in Verifiers |-> 0],
    elapsed <- [v \in Verifiers |-> 0],
    requests <- {}, quotes <- {}, errors <- {},
    pcrs <- [a \in {"attester"} |-> Nothing],
    seen <- [v \in Verifiers |-> {}]

\* The quote in a response, as Attestation has it.
QuoteIn(m) ==
    LET q == DecodeResponse(m).attestation_data
    IN  [nonce |-> q.nonce, digest |-> q.digest, attester |-> "attester"]

\* What a step leaves of v is what it was, or what Attestation's handler can
\* leave: for any response if it ends before the checks, else for one that is
\* accepted.
AsProtocol(v) ==
    \/ Left(v)' = Left(v)
    \/ \A s \in {tpm_pcr_selection[v]["sha256"]} :
         \/ Left(v)' \in Protocol(s)!CannotAppraise(v)
         \/ \E m \in responses :
              /\ ResponseAccepted(m)
              /\ Left(v)' \in Protocol(s)!Outcomes(v, QuoteIn(m))

\* Attestation decides by comparing two digests as they are.  The verifier
\* compares the quoted one with those that it computes over its own selection,
\* set by set, from wherever an earlier call has left the index; what comes of
\* it, and whether the next call finds the index out of place, is always
\* something that Attestation reckons with.
AppraisesAsProtocol ==
    [][\A v \in Verifiers : AsProtocol(v)]_<<attestation_rc,
                                           pcr_selection_index>>

=============================================================================
