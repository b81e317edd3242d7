---------------------------- MODULE Attestation ----------------------------
(***************************************************************************)
(* One attestation from end to end: verifier processes (verifier.c), the   *)
(* CoAP traffic between them and the attesters, the attesters' handler     *)
(* (attester.c) and the TPMs' PCRs, which change at any time.              *)
(*                                                                         *)
(* A verifier process is single threaded and single shot: it sends one     *)
(* request, then calls coap_io_process in a loop; the response handler     *)
(* runs inside such a call.  One action is one pass of that loop.  A new   *)
(* process is a new element of Verifiers.  Messages stay in their set once *)
(* sent, so each is delivered never, once, several times, or late.         *)
(***************************************************************************)
EXTENDS Integers, Sequences, CharraError

CONSTANTS
    Verifiers,        \* verifier processes
    Attesters,        \* platforms with a TPM, each signing with its own key
    Trusted,          \* the platform whose public key the verifiers are given
    Destination,      \* the platform each process is told to ask (dst_host)
    Nonces,           \* what create_attestation_request draws from
    Digests,          \* PCR composite digests
    ReferenceSets,    \* the reference PCR file: the digest of each set
    NoNonce,          \* last_request before a request was created
    TimeoutMs,        \* attestation_response_timeout * 1000
    IoTimes,          \* what coap_io_process may return: ms, handler included
    WaitModulus,      \* response_wait_time is a uint16_t: 65536
    GiveUpMs          \* when libcoap stops retransmitting (external)

ASSUME TrustedAssumption == Trusted \in Attesters
ASSUME DestinationAssumption == Destination \in [Verifiers -> Attesters]
ASSUME NoNonceAssumption == NoNonce \notin Nonces
ASSUME ReferenceAssumption == ReferenceSets \in Seq(Digests)
ASSUME TimeAssumption == /\ TimeoutMs \in Nat \ {0}
                         /\ GiveUpMs \in Nat
                         /\ WaitModulus \in Nat \ {0}
                         /\ IoTimes \in SUBSET Nat

VARIABLES
    \* the verifier processes
    pc,                  \* "start", "waiting", "exited" or "crashed"
    result,              \* main's result once the process has ended
    attestation_rc,      \* what the response handler left for main
    last_request,        \* the nonce of the request sent
    response_wait_time,  \* the 16-bit sum of what coap_io_process returned
    stale,               \* the RIM manager's static index was not reset
    elapsed,             \* ms since the request was sent (libcoap's clock)
    \* the network
    requests, quotes, errors,
    \* the platforms
    pcrs,                \* the digest of each platform's selected PCRs
    seen                 \* history: what Trusted's PCRs were while v waited

verifierVars == <<pc, result, attestation_rc, last_request,
                  response_wait_time, stale, elapsed>>
networkVars == <<requests, quotes, errors>>
platformVars == <<pcrs, seen>>
vars == <<verifierVars, networkVars, platformVars>>

Request == [from: Verifiers, nonce: Nonces]
Quote == [to: Verifiers, attester: Attesters, nonce: Nonces, digest: Digests]

TypeOK ==
    /\ pc \in [Verifiers -> {"start", "waiting", "exited", "crashed"}]
    /\ result \in [Verifiers -> CHARRA_RC \cup {"none"}]
    /\ attestation_rc \in
          [Verifiers -> {"SUCCESS", "ERROR", "VERIFICATION_FAILED"}]
    /\ last_request \in [Verifiers -> Nonces \cup {NoNonce}]
    /\ response_wait_time \in [Verifiers -> 0 .. WaitModulus - 1]
    /\ stale \in [Verifiers -> BOOLEAN]
    /\ elapsed \in [Verifiers -> Nat]
    /\ requests \subseteq Request
    /\ quotes \subseteq Quote
    /\ errors \subseteq Verifiers
    /\ pcrs \in [Attesters -> Digests]
    /\ seen \in [Verifiers -> SUBSET Digests]

Init ==
    /\ pc = [v \in Verifiers |-> "start"]
    /\ result = [v \in Verifiers |-> "none"]
    /\ attestation_rc = [v \in Verifiers |-> "ERROR"]
    /\ last_request = [v \in Verifiers |-> NoNonce]
    /\ response_wait_time = [v \in Verifiers |-> 0]
    /\ stale = [v \in Verifiers |-> FALSE]
    /\ elapsed = [v \in Verifiers |-> 0]
    /\ requests = {} /\ quotes = {} /\ errors = {}
    /\ pcrs \in [Attesters -> Digests]
    /\ seen = [v \in Verifiers |-> {}]

-----------------------------------------------------------------------------
(* Setting up and sending the request (main up to coap_send_large).         *)

\* What main returns when it ends before the wait: command line, help,
\* DTLS set-up, context, session, content type option, random bytes.  Help,
\* and both "Aborting!" exits (PSK with RPK, DTLS unsupported), return the 0
\* that the command line parser left in result.  Here and below "ERROR" stands
\* for every failure code that is not named for its own sake.
SetupFailures == {"SUCCESS", "ERROR"}

\* The process ends before a request exists.
Abort(v) ==
    /\ pc[v] = "start"
    /\ pc' = [pc EXCEPT ![v] = "exited"]
    /\ \E rc \in SetupFailures : result' = [result EXCEPT ![v] = rc]
    /\ UNCHANGED <<attestation_rc, last_request, response_wait_time,
                   stale, elapsed, networkVars, platformVars>>

\* Broken form: a nonce may be drawn again.
DrawnNothing == {}

\* The nonces some process has drawn.  Two draws of 20 random bytes are taken
\* to be different.
Drawn == {last_request[v] : v \in Verifiers}

\* create_attestation_request: a fresh nonce, remembered in last_request.
\* Then the request is sent and the wait begins with response_wait_time = 0.
Send(v) ==
    /\ pc[v] = "start"
    /\ \E n \in Nonces \ Drawn :
         /\ last_request' = [last_request EXCEPT ![v] = n]
         /\ requests' = requests \cup {[from |-> v, nonce |-> n]}
    /\ pc' = [pc EXCEPT ![v] = "waiting"]
    /\ seen' = [seen EXCEPT ![v] = {pcrs[Trusted]}]
    /\ UNCHANGED <<result, attestation_rc, response_wait_time, stale,
                   elapsed, quotes, errors, pcrs>>

\* Marshalling, the options, the PDU or coap_send_large fails after
\* last_request was set.
SendFails(v) ==
    /\ pc[v] = "start"
    /\ \E n \in Nonces \ Drawn :
         last_request' = [last_request EXCEPT ![v] = n]
    /\ pc' = [pc EXCEPT ![v] = "exited"]
    /\ result' = [result EXCEPT ![v] = "ERROR"]
    /\ UNCHANGED <<attestation_rc, response_wait_time, stale, elapsed,
                   networkVars, platformVars>>

-----------------------------------------------------------------------------
(* The response handler: the codes it can leave in attestation_rc.          *)

\* The reference sets the RIM manager compares with: a static index that a
\* previous call left behind makes it skip the values of the first set.
FirstSet(isStale) == IF isStale THEN 2 ELSE 1
PcrsMatch(isStale, d) ==
    \E i \in FirstSet(isStale) .. Len(ReferenceSets) : ReferenceSets[i] = d

\* Broken forms, for the mutants: the PCR check, the nonce check forgotten.
VerdictWithoutPcrs(signature, nonce, digestOK) == signature /\ nonce
NonceUnchecked(v, m) == TRUE

\* The verdict needs the signature, the nonce and the PCRs.  The magic value
\* and the mbedTLS verification are computed and logged only.
Verdict(signature, nonce, digestOK) == signature /\ nonce /\ digestOK

\* Does the quoted nonce equal the one of last_request?
NonceMatches(v, m) == m.nonce = last_request[v]

\* The TPM checks the signature with the public key in the file.
SignedByTrusted(m) == m.attester = Trusted

\* Broken form: a failed check reported with the RIM manager's other code.
AppraiseNoMatch(v, m) ==
    IF Verdict(SignedByTrusted(m), NonceMatches(v, m),
               PcrsMatch(stale[v], m.digest))
    THEN "SUCCESS" ELSE "NO_MATCH"

\* The end of the handler.
Appraise(v, m) ==
    IF Verdict(SignedByTrusted(m), NonceMatches(v, m),
               PcrsMatch(stale[v], m.digest))
    THEN "SUCCESS" ELSE "VERIFICATION_FAILED"

\* The response, the TPM, the key file or mbedTLS fails before the checks.
CannotAppraise(v) == {[rc |-> "ERROR", stale |-> stale[v]]}

\* The reference file cannot be read or parsed, or hashing fails: reported as a
\* failed check, with the static index left anywhere.
ReferenceUnreadable == [rc: {"VERIFICATION_FAILED"}, stale: BOOLEAN]

\* A match leaves the index at the end of the selection, which is its start if
\* no PCR is selected.
StaleAfter(match) == {b \in BOOLEAN : b => match}

\* What a call of the handler for quote m can leave.
Outcomes(v, m) ==
    CannotAppraise(v) \cup ReferenceUnreadable
      \cup [rc: {Appraise(v, m)},
            stale: StaleAfter(PcrsMatch(stale[v], m.digest))]

-----------------------------------------------------------------------------
(* The wait loop.                                                           *)

\* Broken forms: the nominal slice added instead of the time returned; a limit
\* that must be exceeded; a limit that is cast to 16 bits too; no limit; a loop
\* that does not look at coap_io_pending.
AddNominalSlice(w, t) == (w + 2000) % WaitModulus
TimedOutLate(w) == w > TimeoutMs
TimedOutCast(w) == w >= TimeoutMs % WaitModulus
PassOnly(v, t, rc, pending) ==
    /\ response_wait_time' = response_wait_time
    /\ elapsed' = [elapsed EXCEPT ![v] = @ + t]
    /\ attestation_rc' = [attestation_rc EXCEPT ![v] = rc]
    /\ UNCHANGED <<pc, result>>

\* uint16_t += int.
AddWait(w, t) == (w + t) % WaitModulus

\* The comparison made after every pass; the product is an int.
TimedOut(w) == w >= TimeoutMs

\* The rest of a pass after coap_io_process returned t and left rc in
\* attestation_rc: add up, compare, and test coap_io_pending.
EndOfPass(v, t, rc, pending) ==
    LET w == AddWait(response_wait_time[v], t)
        done == TimedOut(w) \/ ~pending
    IN  /\ response_wait_time' = [response_wait_time EXCEPT ![v] = w]
        /\ elapsed' = [elapsed EXCEPT ![v] = @ + t]
        /\ attestation_rc' = [attestation_rc EXCEPT ![v] = rc]
        /\ pc' = [pc EXCEPT ![v] = IF done THEN "exited" ELSE "waiting"]
        /\ result' = [result EXCEPT ![v] = IF TimedOut(w) THEN "TIMEOUT"
                                           ELSE IF done THEN rc ELSE @]

\* A pass needs the loop's condition; the bound on elapsed is libcoap's:
\* its last retransmission timer falls due inside some pass.
InLoop(v) == pc[v] = "waiting" /\ elapsed[v] < GiveUpMs

\* A pass in which no response arrives: the slice ends, or an empty
\* acknowledgement or a block comes in.
Wait(v) ==
    /\ InLoop(v)
    /\ \E t \in IoTimes : EndOfPass(v, t, attestation_rc[v], TRUE)
    /\ UNCHANGED <<last_request, stale, networkVars, platformVars>>

\* libcoap ends the exchange unanswered: nothing is pending any more.
GiveUp(v) ==
    /\ pc[v] = "waiting" /\ elapsed[v] >= GiveUpMs
    /\ EndOfPass(v, 0, attestation_rc[v], FALSE)
    /\ UNCHANGED <<last_request, stale, networkVars, platformVars>>

\* coap_io_process returns -1.
IoError(v) ==
    /\ InLoop(v)
    /\ pc' = [pc EXCEPT ![v] = "exited"]
    /\ result' = [result EXCEPT ![v] = "COAP_ERROR"]
    /\ UNCHANGED <<attestation_rc, last_request, response_wait_time,
                   stale, elapsed, networkVars, platformVars>>

\* A message sent to u reaches v: its own, or one that is left over from a
\* process that has ended and used the same address.
Reaches(u, v) == u = v \/ pc[u] \in {"exited", "crashed"}

\* A pass in which quote m arrives and coap_attest_handler runs.  Whether
\* coap_io_pending is still true afterwards is libcoap's affair; nothing in
\* the loop ends it, processing_response being FALSE again.
Receive(v, m) ==
    /\ InLoop(v) /\ Reaches(m.to, v)
    /\ \E o \in Outcomes(v, m), t \in IoTimes, pending \in BOOLEAN :
         /\ EndOfPass(v, t, o.rc, pending)
         /\ stale' = [stale EXCEPT ![v] = o.stale]
    /\ UNCHANGED <<last_request, networkVars, platformVars>>

\* A CoAP error response arrives: no payload, or one that is no CBOR.
ReceiveError(v) ==
    /\ InLoop(v)
    /\ \E u \in errors : Reaches(u, v)
    /\ \E t \in IoTimes, pending \in BOOLEAN :
         EndOfPass(v, t, "ERROR", pending)
    /\ UNCHANGED <<last_request, stale, networkVars, platformVars>>

\* The handler dies inside the pass.
Dies(v) ==
    /\ pc' = [pc EXCEPT ![v] = "crashed"]
    /\ UNCHANGED <<result, attestation_rc, last_request, response_wait_time,
                   stale, elapsed, networkVars, platformVars>>

\* The first exits of the handler jump over the declarations of locals that
\* its clean-up reads.  ReceiveError and Receive are the cases in which that
\* does no harm; in the others the process dies, of an error response ...
ReceiveErrorCrash(v) ==
    /\ InLoop(v)
    /\ \E u \in errors : Reaches(u, v)
    /\ Dies(v)

\* ... or of a quote that cannot be unmarshalled or is too long, which one
\* can be whatever it says.
ReceiveCrash(v, m) == InLoop(v) /\ Reaches(m.to, v) /\ Dies(v)

-----------------------------------------------------------------------------
(* The attesters and their TPMs.                                            *)

\* coap_attest_handler of the attester succeeds: the TPM signs the request's
\* nonce and the PCRs as they are.  (Its failures send no quote.)
Answer(r) ==
    /\ quotes' = quotes \cup {[to |-> r.from, attester |-> Destination[r.from],
                               nonce |-> r.nonce,
                               digest |-> pcrs[Destination[r.from]]]}
    /\ UNCHANGED <<verifierVars, requests, errors, platformVars>>

\* libcoap answers with an error code, of itself or because the handler could
\* not hand the response over.
AnswerError(r) ==
    /\ errors' = errors \cup {r.from}
    /\ UNCHANGED <<verifierVars, requests, quotes, platformVars>>

\* A PCR of platform a is extended, or the platform reboots.
ChangePcrs(a, d) ==
    /\ pcrs' = [pcrs EXCEPT ![a] = d]
    /\ seen' = [v \in Verifiers |->
                   IF a = Trusted /\ pc[v] = "waiting" THEN seen[v] \cup {d}
                                                       ELSE seen[v]]
    /\ UNCHANGED <<verifierVars, networkVars>>

-----------------------------------------------------------------------------

Verifier(v) ==
    \/ Abort(v) \/ Send(v) \/ SendFails(v)
    \/ Wait(v) \/ GiveUp(v) \/ IoError(v)
    \/ \E m \in quotes : Receive(v, m) \/ ReceiveCrash(v, m)
    \/ ReceiveError(v) \/ ReceiveErrorCrash(v)

Next ==
    \/ \E v \in Verifiers : Verifier(v)
    \/ \E r \in requests : Answer(r) \/ AnswerError(r)
    \/ \E a \in Attesters, d \in Digests : ChangePcrs(a, d)

Spec == Init /\ [][Next]_vars

\* coap_io_process blocks for one slice at most and libcoap's timers run: a
\* waiting process keeps making passes, and not every one is cut short of a
\* millisecond by something that arrives.  Nothing else is assumed of the
\* network, the attesters, or whoever starts a process.
Fairness == \A v \in Verifiers : WF_vars(Wait(v)) /\ WF_vars(GiveUp(v))
FairSpec == Spec /\ Fairness

-----------------------------------------------------------------------------
(* Properties.                                                              *)

ReferenceDigests == {ReferenceSets[i] : i \in 1 .. Len(ReferenceSets)}
Ended(v) == pc[v] \in {"exited", "crashed"}

\* A process that sent a request and exits with 0 attests the trusted platform:
\* its PCRs were in a reference state at some moment between the request and
\* the exit.  Left-over, duplicated and foreign quotes, and a second response
\* that overwrites attestation_rc, cannot break this.
PositiveIsWitnessed ==
    \A v \in Verifiers :
        pc[v] = "exited" /\ last_request[v] # NoNonce /\ result[v] = "SUCCESS"
            => seen[v] \cap ReferenceDigests # {}

\* Why that is so: no two requests share a nonce, whoever relays a quote; a
\* quote carries the nonce of the process it was made for; while that process
\* waits, the trusted platform's quotes show only states seen since its
\* request; so attestation_rc, and then result, is SUCCESS only for a witness.
NoncesDiffer ==
    \A u, v \in Verifiers :
        last_request[u] = last_request[v] /\ last_request[u] # NoNonce => u = v
MessagesAreOwn ==
    /\ \A v \in Verifiers : pc[v] = "start" => last_request[v] = NoNonce
                                                /\ attestation_rc[v] = "ERROR"
    /\ \A r \in requests : r.nonce = last_request[r.from]
    /\ \A m \in quotes : m.nonce = last_request[m.to]
QuotesAreSeen ==
    /\ \A v \in Verifiers : pc[v] = "waiting" => pcrs[Trusted] \in seen[v]
    /\ \A m \in quotes :
          m.attester = Trusted /\ pc[m.to] = "waiting"
              => m.digest \in seen[m.to]
SuccessIsSeen ==
    /\ \A v \in Verifiers :
          attestation_rc[v] = "SUCCESS" => seen[v] \cap ReferenceDigests # {}
    /\ \A v \in Verifiers : pc[v] # "exited" => result[v] = "none"

WitnessInv ==
    /\ NoncesDiffer /\ MessagesAreOwn /\ QuotesAreSeen /\ SuccessIsSeen
    /\ PositiveIsWitnessed

\* --timeout, "Wait up to SECONDS for the attestation answer": a process is
\* never still in the loop when that time is over (the pass that crosses the
\* limit, with the handler it runs, is the last).
DeadlineHonoured ==
    \A v \in Verifiers : pc[v] = "waiting" => elapsed[v] < TimeoutMs

\* The 16-bit sum never cuts a wait short: a timeout is reported only when the
\* time really is over.
NoEarlyTimeout ==
    \A v \in Verifiers :
        result[v] = "TIMEOUT" => elapsed[v] >= TimeoutMs

\* A process that has sent its request ends, whatever the network does.
Termination ==
    \A v \in Verifiers : pc[v] = "waiting" ~> Ended(v)

\* The promise behind all this, and how the processes' state implements it.
Phase(v) == CASE pc[v] = "start" -> "idle"
              [] pc[v] = "waiting" -> "challenged"
              [] OTHER -> "ended"
Outcome(v) ==
    IF ~Ended(v) THEN "none"
    ELSE IF /\ pc[v] = "exited" /\ result[v] = "SUCCESS"
            /\ last_request[v] # NoNonce
         THEN "positive" ELSE "negative"

Promise == INSTANCE ChallengeResponse WITH
    PlatformStates <- Digests,
    GoodStates <- ReferenceDigests,
    phase <- [v \in Verifiers |-> Phase(v)],
    verdict <- [v \in Verifiers |-> Outcome(v)],
    platform <- pcrs[Trusted],
    witnessed <- seen

\* Every step of the processes, the network and the platforms is a step of
\* the promise or changes nothing it speaks of.
KeepsPromise == Promise!Spec

=============================================================================
