-------------------------- MODULE VerifierHandler --------------------------
(***************************************************************************)
(* Attestation with the verifier's response handler taken apart            *)
(* (verifier.c, coap_attest_handler).  A call is a sequence of steps that  *)
(* overwrite attestation_rc one after the other and jump to the clean-up   *)
(* when one of them fails.  A process is single threaded, but the PCRs,    *)
(* the network and the other processes go on between two steps.            *)
(*                                                                         *)
(* Processes may use one TPM for checking signatures (CHARRA_TCTI names it *)
(* for each).  A public key that was loaded into it stays until it is      *)
(* flushed, also when the process has gone.  Memory does not run out.      *)
(***************************************************************************)
EXTENDS Attestation, FiniteSets

CONSTANTS
    Tpms,      \* the TPMs of the verifiers' hosts
    TpmOf,     \* the TPM each process uses
    TpmSlots,  \* transient objects a TPM has room for
    Nothing    \* no response

ASSUME TpmAssumption == TpmOf \in [Verifiers -> Tpms] /\ TpmSlots \in Nat
ASSUME NothingAssumption == Nothing \notin Quote

VARIABLES
    step,      \* where the handler of each process is
    response,  \* the quote it was called with; Nothing for an error response
    local,     \* are res, esys_ctx and tcti_ctx initialized yet?
    key,       \* is sig_key_handle set?
    checks,    \* the attestation_result_* that are set
    before,    \* history: attestation_rc and stale when the call began
    loaded,    \* public keys in each TPM that are not flushed
    refused    \* history: those a TPM has refused to flush

handlerVars == <<step, response, local, key, checks, before, loaded, refused>>
allVars == <<vars, handlerVars>>

Locals == {"res", "esys", "tcti"}
Check == {"signature", "nonce", "pcrs"}

NoCall == [rc |-> "ERROR", stale |-> FALSE]

HandlerInit ==
    /\ Init
    /\ step = [v \in Verifiers |-> "idle"]
    /\ response = [v \in Verifiers |-> Nothing]
    /\ local = [v \in Verifiers |-> [x \in Locals |-> "indeterminate"]]
    /\ key = [v \in Verifiers |-> FALSE]
    /\ checks = [v \in Verifiers |-> {}]
    /\ before = [v \in Verifiers |-> NoCall]
    /\ loaded = [p \in Tpms |-> 0]
    /\ refused = [p \in Tpms |-> 0]

-----------------------------------------------------------------------------
(* The steps of the handler.                                                *)

With(l, X, value) == [x \in Locals |-> IF x \in X THEN value ELSE l[x]]
GoTo(v, s) == step' = [step EXCEPT ![v] = s]
Assign(v, l) == local' = [local EXCEPT ![v] = l]
Rc(v, rc) == attestation_rc' = [attestation_rc EXCEPT ![v] = rc]
Set(v, check, value) ==
    checks' = [checks EXCEPT ![v] = IF value THEN @ \cup {check} ELSE @]

\* Everything of Attestation but the verdict's two variables.
OtherVars == <<pc, result, last_request, response_wait_time, elapsed,
               networkVars, platformVars>>

\* The call begins: nothing on the stack is set but the key and validation.
Called(v, m) ==
    /\ step[v] = "idle" /\ InLoop(v)
    /\ response' = [response EXCEPT ![v] = m]
    /\ before' = [before EXCEPT ![v] = [rc |-> attestation_rc[v],
                                        stale |-> stale[v]]]
    /\ UNCHANGED <<OtherVars, stale, key, checks, loaded, refused>>

\* A quote is unmarshalled and short enough.
ReadQuote(v, m) ==
    /\ Called(v, m) /\ Reaches(m.to, v)
    /\ Assign(v, With(local[v], {"res"}, "initialized"))
    /\ Rc(v, "SUCCESS") /\ GoTo(v, "tpm")

\* Or it is not: a quote that cannot be unmarshalled leaves res zeroed, one that
\* is too long fills it.  Either way the handler ends before it has declared
\* the two contexts that the clean-up looks at.
QuoteUnreadable(v, m) ==
    /\ Called(v, m) /\ Reaches(m.to, v)
    /\ Assign(v, With(local[v], {"res"}, "initialized"))
    /\ Rc(v, "ERROR") /\ GoTo(v, "cleanup")

\* An error response has no data, or data that is no CBOR: then res is zeroed,
\* and stays so.  What the decoder has allocated is lost.
ReadError(v) ==
    /\ Called(v, Nothing)
    /\ \E u \in errors : Reaches(u, v)
    /\ Assign(v, local[v]) \/ Assign(v, With(local[v], {"res"}, "initialized"))
    /\ Rc(v, "ERROR") /\ GoTo(v, "cleanup")

\* Broken form: the two are not set to NULL where they are declared.
NotInitialized == "indeterminate"

\* What the two contexts are declared as.
Initialized == "initialized"

\* Tss2_TctiLdr_Initialize, then Esys_Initialize.
OpenTpm(v) ==
    /\ step[v] = "tpm"
    /\ LET declared == With(local[v], {"esys", "tcti"}, Initialized)
       IN  \/ /\ \/ Assign(v, declared)
                 \/ Assign(v, With(declared, {"tcti"}, "initialized"))
              /\ Rc(v, "ERROR") /\ GoTo(v, "cleanup")
           \/ /\ Assign(v, With(declared, {"esys", "tcti"}, "initialized"))
              /\ UNCHANGED attestation_rc /\ GoTo(v, "key")
    /\ UNCHANGED <<OtherVars, stale, response, key, checks, before, loaded,
                   refused>>

\* charra_load_external_public_key: the file is read again for every response;
\* the TPM needs room for the key.
LoadKey(v) ==
    /\ step[v] = "key"
    /\ \/ /\ loaded[TpmOf[v]] < TpmSlots
          /\ loaded' = [loaded EXCEPT ![TpmOf[v]] = @ + 1]
          /\ key' = [key EXCEPT ![v] = TRUE]
          /\ Rc(v, "SUCCESS") /\ GoTo(v, "signature")
       \/ /\ Rc(v, "ERROR") /\ GoTo(v, "cleanup")
          /\ UNCHANGED <<key, loaded>>
    /\ UNCHANGED <<OtherVars, stale, response, local, checks, before, refused>>

\* charra_verify_tpm2_quote_signature_with_tpm: not valid, or the TPM fails.
\* Either way the handler goes on.
VerifySignature(v) ==
    /\ step[v] = "signature" /\ GoTo(v, "convert")
    /\ \/ /\ SignedByTrusted(response[v])
          /\ Rc(v, "SUCCESS") /\ Set(v, "signature", TRUE)
       \/ Rc(v, "ERROR") /\ Set(v, "signature", FALSE)
    /\ UNCHANGED <<OtherVars, stale, response, local, key, before, loaded,
                   refused>>

\* Broken form: what the TPM has said is not overwritten.
KeepRc(v, rc) == UNCHANGED attestation_rc

\* The code of a failed step becomes the call's.
FailedRc(v, rc) == Rc(v, rc)

\* The public key for mbedTLS, which then looks at the signature, for the log.
\* It leaves its own code, right or wrong.
VerifyWithMbedtls(v) ==
    /\ step[v] = "convert"
    /\ \/ FailedRc(v, "ERROR") /\ GoTo(v, "cleanup")
       \/ \E rc \in {"SUCCESS", "ERROR"} : Rc(v, rc) /\ GoTo(v, "quote")
    /\ UNCHANGED <<OtherVars, stale, response, local, key, checks, before,
                   loaded, refused>>

\* charra_unmarshal_tpm2_quote.  The magic value is looked at, for the log.
UnmarshalQuote(v) ==
    /\ step[v] = "quote"
    /\ \/ FailedRc(v, "ERROR") /\ GoTo(v, "cleanup")
       \/ Rc(v, "SUCCESS") /\ GoTo(v, "nonce")
    /\ UNCHANGED <<OtherVars, stale, response, local, key, checks, before,
                   loaded, refused>>

\* charra_verify_tpm2_quote_qualifying_data.
CheckNonce(v) ==
    /\ step[v] = "nonce" /\ GoTo(v, "pcrs")
    /\ Set(v, "nonce", NonceMatches(v, response[v]))
    /\ UNCHANGED <<OtherVars, attestation_rc, stale, response, local, key,
                   before, loaded, refused>>

\* charra_check_pcr_digest_against_reference, in one step; if the reference
\* file cannot be read to its end, the index is left anywhere.
CheckPcrs(v) ==
    /\ step[v] = "pcrs" /\ GoTo(v, "verdict")
    /\ \/ LET match == PcrsMatch(stale[v], response[v].digest)
          IN  /\ Set(v, "pcrs", match)
              /\ \E b \in StaleAfter(match) : stale' = [stale EXCEPT ![v] = b]
       \/ /\ Set(v, "pcrs", FALSE)
          /\ \E b \in BOOLEAN : stale' = [stale EXCEPT ![v] = b]
    /\ UNCHANGED <<OtherVars, attestation_rc, response, local, key, before,
                   loaded, refused>>

\* The result of the call.
Conclude(v) ==
    /\ step[v] = "verdict" /\ GoTo(v, "cleanup")
    /\ Rc(v, IF Verdict("signature" \in checks[v], "nonce" \in checks[v],
                        "pcrs" \in checks[v])
             THEN "SUCCESS" ELSE "VERIFICATION_FAILED")
    /\ UNCHANGED <<OtherVars, stale, response, local, key, checks, before,
                   loaded, refused>>

\* Broken forms: a handle flushed that was never set; the key flushed at the
\* regular end of the handler only.
FlushedUnset(v) == TRUE
FlushedWhenConcluded(v) == key[v] /\ attestation_rc[v] # "ERROR"

\* sig_key_handle != ESYS_TR_NONE.
Flushed(v) == key[v]

\* The clean-up, the return from coap_io_process, and the rest of the pass.  If
\* the TPM refuses to flush, this is only logged.  A variable that is not
\* initialised does no harm here.
CleanUp(v) ==
    /\ step[v] = "cleanup"
    /\ \E t \in IoTimes, pending \in BOOLEAN :
         EndOfPass(v, t, attestation_rc[v], pending)
    /\ \/ /\ loaded' = [loaded EXCEPT
                           ![TpmOf[v]] = IF Flushed(v) THEN @ - 1 ELSE @]
          /\ UNCHANGED refused
       \/ /\ Flushed(v)
          /\ refused' = [refused EXCEPT ![TpmOf[v]] = @ + 1]
          /\ UNCHANGED loaded
    /\ GoTo(v, "idle")
    /\ response' = [response EXCEPT ![v] = Nothing]
    /\ Assign(v, [x \in Locals |-> "indeterminate"])
    /\ key' = [key EXCEPT ![v] = FALSE]
    /\ checks' = [checks EXCEPT ![v] = {}]
    /\ before' = [before EXCEPT ![v] = NoCall]
    /\ UNCHANGED <<last_request, stale, networkVars, platformVars>>

\* The clean-up frees or finalizes what was never set, and the process dies.
Crash(v) ==
    /\ step[v] = "cleanup"
    /\ \E x \in Locals : local[v][x] = "indeterminate"
    /\ Dies(v) /\ GoTo(v, "crashed")
    /\ UNCHANGED <<response, local, key, checks, before, loaded, refused>>

-----------------------------------------------------------------------------

Handler(v) ==
    \/ \E m \in quotes : ReadQuote(v, m) \/ QuoteUnreadable(v, m)
    \/ ReadError(v)
    \/ OpenTpm(v) \/ LoadKey(v)
    \/ VerifySignature(v) \/ VerifyWithMbedtls(v) \/ UnmarshalQuote(v)
    \/ CheckNonce(v) \/ CheckPcrs(v) \/ Conclude(v)
    \/ CleanUp(v) \/ Crash(v)

\* What a process does outside the handler.
Outside(v) ==
    /\ step[v] = "idle"
    /\ \/ Abort(v) \/ Send(v) \/ SendFails(v)
       \/ Wait(v) \/ GiveUp(v) \/ IoError(v)

Environment ==
    \/ \E r \in requests : Answer(r) \/ AnswerError(r)
    \/ \E a \in Attesters, d \in Digests : ChangePcrs(a, d)

HandlerNext ==
    \/ \E v \in Verifiers : Handler(v)
    \/ /\ Environment \/ \E v \in Verifiers : Outside(v)
       /\ UNCHANGED handlerVars

HandlerSpec == HandlerInit /\ [][HandlerNext]_allVars

-----------------------------------------------------------------------------
(* Properties.                                                              *)

HandlerTypeOK ==
    /\ TypeOK
    /\ step \in [Verifiers -> {"idle", "tpm", "key", "signature", "convert",
                               "quote", "nonce", "pcrs", "verdict", "cleanup",
                               "crashed"}]
    /\ response \in [Verifiers -> Quote \cup {Nothing}]
    /\ local \in [Verifiers -> [Locals -> {"indeterminate", "initialized"}]]
    /\ key \in [Verifiers -> BOOLEAN]
    /\ checks \in [Verifiers -> SUBSET Check]
    /\ before \in [Verifiers ->
           [rc: {"SUCCESS", "ERROR", "VERIFICATION_FAILED"}, stale: BOOLEAN]]
    /\ loaded \in [Tpms -> 0 .. TpmSlots]
    /\ refused \in [Tpms -> Nat]

\* Whichever step a call fails at, in whatever order the processes that share a
\* TPM make theirs, and also when one of them dies: the keys in a TPM are those
\* of the calls that are under way and those it has refused to flush.
KeysAccounted ==
    \A p \in Tpms :
        loaded[p] = refused[p] + Cardinality({v \in Verifiers :
                                                 key[v] /\ TpmOf[v] = p})

\* attestation_rc is SUCCESS several times on the way through a call.  When a
\* call gets to its end with SUCCESS, wherever it came from, then the trusted
\* platform has signed this process's nonce and PCRs that are in the file.
NoEarlySuccess ==
    \A v \in Verifiers :
        step[v] = "cleanup" /\ attestation_rc[v] = "SUCCESS" =>
            /\ response[v] # Nothing
            /\ SignedByTrusted(response[v]) /\ NonceMatches(v, response[v])
            /\ \E i \in 1 .. Len(ReferenceSets) :
                  ReferenceSets[i] = response[v].digest

\* A process may die of what it receives, but only of what it turns away before
\* it comes to its TPM: every error after that, whichever step it hits and also
\* when only one of the two contexts was opened, finds the clean-up's locals
\* set.  So the dead leave neither a key nor a connection behind in the TPM that
\* the others share.
DiesBeforeTpm ==
    \A v \in Verifiers :
        pc[v] = "crashed" =>
            ~key[v] /\ \A x \in {"esys", "tcti"} : local[v][x] = "indeterminate"

\* Taken apart like this, a verifier still is one that handles a response in one
\* go, at the end of the pass: what the call has made of attestation_rc and of
\* the static index till then is seen by nobody.
SeenOutside(v) ==
    IF step[v] = "idle" THEN [rc |-> attestation_rc[v], stale |-> stale[v]]
    ELSE before[v]
Atomic == INSTANCE Attestation WITH
    attestation_rc <- [v \in Verifiers |-> SeenOutside(v).rc],
    stale <- [v \in Verifiers |-> SeenOutside(v).stale]
ImplementsAttestation == Atomic!Spec

=============================================================================
