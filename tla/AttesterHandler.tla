-------------------------- MODULE AttesterHandler --------------------------
(***************************************************************************)
(* Attestation with the attester's request handler taken apart (attester.c *)
(* coap_attest_handler).  One call of the handler is a sequence of steps,  *)
(* between which PCRs change, verifiers go on and messages arrive; each    *)
(* step that can fail jumps to the clean-up at the end, which runs over    *)
(* the handler's local variables whatever has become of them by then.      *)
(*                                                                         *)
(* An attester process is single threaded: it handles one request at a     *)
(* time.  Its TPM holds a transient key until it is flushed; nothing else  *)
(* flushes it (CHARRA_TCTI names a TPM without a resource manager), so a   *)
(* key outlives a process that dies with it.                               *)
(***************************************************************************)
EXTENDS Attestation

CONSTANTS
    KeyFormat,  \* attestation_key_format: "file" or "handle"
    TpmSlots,   \* transient objects a TPM has room for
    Nothing     \* no request, no quote

ASSUME KeyFormatAssumption == KeyFormat \in {"file", "handle"}
ASSUME TpmSlotsAssumption == TpmSlots \in Nat
ASSUME NothingAssumption == Nothing \notin Request /\ Nothing \notin Quote

VARIABLES
    step,       \* where the handler of each attester is
    handling,   \* the request it was called with
    attest_buf, \* the quote the TPM has returned
    local,      \* its pointers
    key,        \* sig_key_handle: "none", "transient" or "persistent"
    failed,     \* history: a step of this call has failed
    transient,  \* keys in each TPM that are not flushed
    lost,       \* history: those nobody will flush any more
    made        \* history: every quote made, sent or not

handlerVars == <<step, handling, attest_buf, local, key, failed, transient,
                 lost, made>>
allVars == <<vars, handlerVars>>

\* The pointers the clean-up looks at: req.pcr_logs, signature, attest_buf,
\* pcr_log_responses, their contents, esys_ctx and tcti_ctx.
Locals == {"logs", "signature", "attest", "responses", "contents",
           "esys", "tcti"}
Pointer == {"indeterminate", "null", "live", "freed"}

HandlerInit ==
    /\ Init
    /\ step = [a \in Attesters |-> "idle"]
    /\ handling = [a \in Attesters |-> Nothing]
    /\ attest_buf = [a \in Attesters |-> Nothing]
    /\ local = [a \in Attesters |-> [p \in Locals |-> "null"]]
    /\ key = [a \in Attesters |-> "none"]
    /\ failed = [a \in Attesters |-> FALSE]
    /\ transient = [a \in Attesters |-> 0]
    /\ lost = [a \in Attesters |-> 0]
    /\ made = {}

-----------------------------------------------------------------------------
(* The steps of the handler.                                                *)

\* The locals with those in P set to x.
With(l, P, x) == [p \in Locals |-> IF p \in P THEN x ELSE l[p]]

GoTo(a, s) == step' = [step EXCEPT ![a] = s]
Assign(a, l) == local' = [local EXCEPT ![a] = l]
Ok(a) == UNCHANGED failed
Failed(a) == GoTo(a, "cleanup") /\ failed' = [failed EXCEPT ![a] = TRUE]

\* What charra_tap_unmarshal_attestation_request has made of req.pcr_logs when
\* it fails: it does not free the list it has allocated.
PcrLogsAfterFailure == {"null", "live"}

\* The handler is called: nothing but key is initialised.  No PDU data: goto
\* error over every initialiser.  The request cannot be parsed, or its nonce is
\* too long, or its selection cannot be converted: goto error with req there.
ReadRequest(a, r) ==
    /\ step[a] = "idle" /\ Destination[r.from] = a
    /\ handling' = [handling EXCEPT ![a] = r]
    /\ LET fresh == [p \in Locals |-> "indeterminate"]
       IN  \/ /\ Assign(a, fresh) /\ Failed(a)
           \/ \E x \in PcrLogsAfterFailure :
                Assign(a, With(fresh, {"logs"}, x)) /\ Failed(a)
           \/ /\ Assign(a, With(fresh, {"logs"}, "live"))
              /\ GoTo(a, "tpm") /\ failed' = [failed EXCEPT ![a] = FALSE]
    /\ UNCHANGED <<vars, attest_buf, key, transient, lost, made>>

\* Tss2_TctiLdr_Initialize, then Esys_Initialize.
OpenTpm(a) ==
    /\ step[a] = "tpm"
    /\ LET declared == With(local[a], {"esys", "tcti"}, "null")
       IN  \/ Assign(a, declared) /\ Failed(a)
           \/ Assign(a, With(declared, {"tcti"}, "live")) /\ Failed(a)
           \/ /\ Assign(a, With(declared, {"esys", "tcti"}, "live"))
              /\ GoTo(a, "key") /\ Ok(a)
    /\ UNCHANGED <<vars, handling, attest_buf, key, transient, lost, made>>

\* A context file is loaded: the TPM needs room for one more transient key.
LoadContext(a) ==
    /\ KeyFormat = "file" /\ transient[a] < TpmSlots
    /\ key' = [key EXCEPT ![a] = "transient"]
    /\ transient' = [transient EXCEPT ![a] = @ + 1]

\* A handle, or a file with a serialized ESYS_TR, names a key that is there.
FindKey(a) == key' = [key EXCEPT ![a] = "persistent"] /\ UNCHANGED transient

\* Some files that cannot be read leave the handle unset and report success.
LeaveUnset == KeyFormat = "file" /\ UNCHANGED <<key, transient>>

\* charra_load_tpm2_key.
LoadKey(a) ==
    /\ step[a] = "key"
    /\ \/ /\ LoadContext(a) \/ FindKey(a) \/ LeaveUnset
          /\ GoTo(a, "quote") /\ Ok(a)
       \/ Failed(a) /\ UNCHANGED <<key, transient>>
    /\ UNCHANGED <<vars, handling, attest_buf, local, lost, made>>

\* Broken form: the nonce is not copied into the qualifying data.
QuoteZeroNonce(a) ==
    [to |-> handling[a].from, attester |-> a,
     nonce |-> CHOOSE n \in Nonces : TRUE, digest |-> pcrs[a]]

\* What the TPM signs: the request's nonce and the PCRs as they are.
QuoteNow(a) ==
    [to |-> handling[a].from, attester |-> a,
     nonce |-> handling[a].nonce, digest |-> pcrs[a]]

\* tpm2_quote: the TPM reads its PCRs and signs.  It needs a key.
TakeQuote(a) ==
    /\ step[a] = "quote"
    /\ \/ /\ key[a] # "none"
          /\ attest_buf' = [attest_buf EXCEPT ![a] = QuoteNow(a)]
          /\ made' = made \cup {QuoteNow(a)}
          /\ Assign(a, With(local[a], {"signature", "attest"}, "live"))
          /\ GoTo(a, "logs") /\ Ok(a)
       \/ /\ Assign(a, With(local[a], {"signature", "attest"}, "null"))
          /\ Failed(a) /\ UNCHANGED <<attest_buf, made>>
    /\ UNCHANGED <<vars, handling, key, transient, lost>>

\* What parse_pcr_log_request makes of the contents: if the IMA log cannot be
\* closed again, what was read has been freed and is pointed to all the same.
LogsRead(a) ==
    Assign(a, With(local[a], {"responses", "contents"}, "live")) /\ Ok(a)
LogsDangle(a) ==
    /\ Assign(a, With(With(local[a], {"responses"}, "live"),
                      {"contents"}, "freed"))
    /\ failed' = [failed EXCEPT ![a] = TRUE]

\* The logs are read; what parse_pcr_log_request returns is not looked at.
ReadLogs(a) ==
    /\ step[a] = "logs"
    /\ GoTo(a, "reply")
    /\ LogsRead(a) \/ LogsDangle(a)
    /\ UNCHANGED <<vars, handling, attest_buf, key, transient, lost, made>>

\* Broken form: the two are freed, and the pointers left.
FreedOnly == "freed"

\* What charra_free_and_null leaves.
FreedAndNull == "null"

\* The response cannot be marshalled or handed to libcoap: no quote is sent.
\* (If libcoap answers with an error instead, that is AnswerError.)
NotSent(a) == Failed(a) /\ UNCHANGED quotes

\* The quote is copied into the response and freed; the response is marshalled
\* and handed to libcoap, which sends it when the handler has returned.
Reply(a) ==
    /\ step[a] = "reply"
    /\ Assign(a, With(local[a], {"signature", "attest"}, FreedAndNull))
    /\ \/ NotSent(a)
       \/ /\ quotes' = quotes \cup {attest_buf[a]}
          /\ GoTo(a, "cleanup") /\ Ok(a)
    /\ UNCHANGED <<verifierVars, requests, errors, platformVars,
                   handling, attest_buf, key, transient, lost, made>>

\* Broken forms: a handle flushed that was never set; the formats mixed up.
FlushedUnset(a) == KeyFormat = "file"
FlushedForHandle(a) == KeyFormat = "handle" /\ key[a] = "transient"

\* Esys_FlushContext for a key from a file, Esys_TR_Close for a handle; what
\* the TPM flushes is a transient key.
Flushed(a) == KeyFormat = "file" /\ key[a] = "transient"

\* The clean-up at error: to the end of the handler.  A pointer that is not
\* initialised does no harm here.
CleanUp(a) ==
    /\ step[a] = "cleanup"
    /\ GoTo(a, "idle") /\ Ok(a)
    /\ key' = [key EXCEPT ![a] = "none"]
    /\ handling' = [handling EXCEPT ![a] = Nothing]
    /\ attest_buf' = [attest_buf EXCEPT ![a] = Nothing]
    /\ Assign(a, [p \in Locals |-> "null"])
    /\ \/ /\ transient' = [transient EXCEPT
                              ![a] = IF Flushed(a) THEN @ - 1 ELSE @]
          /\ UNCHANGED lost
       \/ /\ key[a] = "transient"   \* the TPM refuses; this is only logged
          /\ lost' = [lost EXCEPT ![a] = @ + 1]
          /\ UNCHANGED transient
    /\ UNCHANGED <<vars, made>>

\* The clean-up frees what is no heap object, or what is one no longer, and the
\* process dies.  Heap objects come before the key.
Crash(a) ==
    /\ step[a] = "cleanup"
    /\ \E p \in Locals : local[a][p] \in {"indeterminate", "freed"}
    /\ GoTo(a, "crashed") /\ Ok(a)
    /\ key' = [key EXCEPT ![a] = "none"]
    /\ lost' = [lost EXCEPT ![a] = IF key[a] = "transient" THEN @ + 1 ELSE @]
    /\ UNCHANGED <<vars, handling, attest_buf, local, transient, made>>

\* The main loop ends: SIGINT, or coap_io_process fails.
Stop(a) ==
    /\ step[a] = "idle"
    /\ GoTo(a, "stopped")
    /\ UNCHANGED <<vars, handling, attest_buf, local, key, failed, transient,
                   lost, made>>

\* Somebody starts the attester again.
Restart(a) ==
    /\ step[a] \in {"crashed", "stopped"}
    /\ GoTo(a, "idle")
    /\ handling' = [handling EXCEPT ![a] = Nothing]
    /\ attest_buf' = [attest_buf EXCEPT ![a] = Nothing]
    /\ Assign(a, [p \in Locals |-> "null"])
    /\ failed' = [failed EXCEPT ![a] = FALSE]
    /\ UNCHANGED <<vars, key, transient, lost, made>>

-----------------------------------------------------------------------------

Handler(a) ==
    \/ \E r \in requests : ReadRequest(a, r)
    \/ OpenTpm(a) \/ LoadKey(a) \/ TakeQuote(a) \/ ReadLogs(a) \/ Reply(a)
    \/ CleanUp(a) \/ Crash(a) \/ Stop(a) \/ Restart(a)

Environment ==
    \/ \E v \in Verifiers : Verifier(v)
    \/ \E r \in requests : AnswerError(r)
    \/ \E a \in Attesters, d \in Digests : ChangePcrs(a, d)

HandlerNext ==
    \/ \E a \in Attesters : Handler(a)
    \/ Environment /\ UNCHANGED handlerVars

HandlerSpec == HandlerInit /\ [][HandlerNext]_allVars

-----------------------------------------------------------------------------
(* Properties.                                                              *)

HandlerTypeOK ==
    /\ TypeOK
    /\ step \in [Attesters -> {"idle", "tpm", "key", "quote", "logs", "reply",
                               "cleanup", "crashed", "stopped"}]
    /\ handling \in [Attesters -> Request \cup {Nothing}]
    /\ attest_buf \in [Attesters -> Quote \cup {Nothing}]
    /\ local \in [Attesters -> [Locals -> Pointer]]
    /\ key \in [Attesters -> {"none", "transient", "persistent"}]
    /\ failed \in [Attesters -> BOOLEAN]
    /\ transient \in [Attesters -> 0 .. TpmSlots]
    /\ lost \in [Attesters -> Nat]
    /\ made \subseteq Quote

\* Whichever step a call fails at, and whatever other calls and earlier lives
\* of the process did, the only keys left in a TPM are the one in use and those
\* that a crash or a refused flush has left there.
KeysAccounted ==
    \A a \in Attesters :
        transient[a] = lost[a] + (IF key[a] = "transient" THEN 1 ELSE 0)

\* A call in which every step succeeds does not bring the process down: what
\* the reply frees is not freed again by the clean-up, and the clean-up finds
\* every pointer initialised.
CrashOnlyAfterFailure ==
    \A a \in Attesters : step[a] = "crashed" => failed[a]

\* "free heap objects": the clean-up finds no pointer that was never set.
FreesHeapObjects ==
    \A a \in Attesters : step[a] = "cleanup" =>
        \A p \in Locals : local[a][p] # "indeterminate"

\* Taken apart like this, an attester still is one that answers in one go: the
\* moment of the answer is the moment its TPM makes the quote.  What is made
\* and never sent is a message that is lost.
Atomic == INSTANCE Attestation WITH quotes <- made
ImplementsAttestation == Atomic!Spec

=============================================================================
