----------------------- MODULE AttesterHandler_proof -----------------------
(***************************************************************************)
(* Proofs about AttesterHandler, for any number of processes, attesters,   *)
(* nonces and transient slots: the keys of a TPM are accounted for, a call *)
(* that does not fail does not crash, and the handler taken apart          *)
(* implements the handler in one step, so that what is proved of           *)
(* Attestation holds of it.                                                *)
(***************************************************************************)
EXTENDS AttesterHandler, TLAPS

-----------------------------------------------------------------------------
(* The handler by itself.                                                   *)

\* The types the next two theorems need; a transient key takes a slot; a call
\* that is under way and has not failed has initialised what the clean-up will
\* look at, step by step.
Initialised(l, P) == \A p \in P : l[p] \in {"null", "live"}
Steps == {"idle", "tpm", "key", "quote", "logs", "reply", "cleanup", "crashed",
          "stopped"}
NeededAt(s) ==
    CASE s = "tpm" -> {"logs"}
      [] s \in {"key", "quote"} -> {"logs", "esys", "tcti"}
      [] s = "logs" -> {"logs", "esys", "tcti", "signature", "attest"}
      [] s \in {"reply", "cleanup"} -> Locals
      [] OTHER -> {}
Mark(a, f) == failed' = [failed EXCEPT ![a] = f]
PathOK(s, l, f) == ~f => s # "crashed" /\ Initialised(l, NeededAt(s))

LocalsInv ==
    /\ step \in [Attesters -> Steps]
    /\ local \in [Attesters -> [Locals -> Pointer]]
    /\ failed \in [Attesters -> BOOLEAN]
    /\ \A a \in Attesters : PathOK(step[a], local[a], failed[a])

KeysInv ==
    /\ key \in [Attesters -> {"none", "transient", "persistent"}]
    /\ transient \in [Attesters -> Nat]
    /\ lost \in [Attesters -> Nat]
    /\ \A a \in Attesters :
         step[a] \in {"idle", "tpm", "key", "crashed", "stopped"}
            => key[a] = "none"
    /\ \A a \in Attesters : key[a] = "transient" => KeyFormat = "file"
    /\ step \in [Attesters -> Steps]
    /\ KeysAccounted

\* One step of the handler leaves the other attesters alone.
LEMMA OneStep ==
    ASSUME LocalsInv, NEW a \in Attesters, NEW s \in Steps,
           NEW l \in [Locals -> Pointer], NEW f \in BOOLEAN, PathOK(s, l, f),
           GoTo(a, s), Assign(a, l), Mark(a, f)
    PROVE  LocalsInv'
BY DEF LocalsInv, GoTo, Assign, Mark

\* Setting pointers keeps them pointers, and sets no other.
LEMMA WithType ==
    ASSUME NEW l \in [Locals -> Pointer], NEW P, NEW x \in Pointer
    PROVE  /\ With(l, P, x) \in [Locals -> Pointer]
           /\ \A p \in Locals : With(l, P, x)[p] = IF p \in P THEN x ELSE l[p]
BY DEF With

\* A failed step: the clean-up may find anything.
LEMMA FailedStep ==
    ASSUME LocalsInv, NEW a \in Attesters, NEW l \in [Locals -> Pointer],
           Assign(a, l), Failed(a)
    PROVE  LocalsInv'
<1>1. PathOK("cleanup", l, TRUE)
  BY DEF PathOK
<1>2. "cleanup" \in Steps
  BY DEF Steps
<1> QED BY <1>1, <1>2, OneStep DEF Failed, Mark

\* Every step keeps LocalsInv.
LEMMA LocalsStep == LocalsInv /\ [HandlerNext]_allVars => LocalsInv'
<1> SUFFICES ASSUME LocalsInv, [HandlerNext]_allVars PROVE LocalsInv'
  OBVIOUS
<1>0. /\ \A s \in {"idle", "tpm", "key", "quote", "logs", "reply", "cleanup",
                    "crashed", "stopped"} : s \in Steps
      /\ \A x \in {"indeterminate", "null", "live", "freed"} : x \in Pointer
      /\ [p \in Locals |-> "indeterminate"] \in [Locals -> Pointer]
      /\ [p \in Locals |-> "null"] \in [Locals -> Pointer]
  BY DEF Pointer, Steps
<1>a. ASSUME NEW a \in Attesters
      PROVE  /\ local[a] \in [Locals -> Pointer] /\ failed[a] \in BOOLEAN
             /\ step[a] \in Steps /\ PathOK(step[a], local[a], failed[a])
             /\ Ok(a) => Mark(a, failed[a])
             /\ UNCHANGED local => Assign(a, local[a])
  BY DEF LocalsInv, Ok, Mark, Assign
<1>1. ASSUME NEW a \in Attesters, NEW r \in requests, ReadRequest(a, r)
      PROVE  LocalsInv'
  <2> DEFINE fresh == [p \in Locals |-> "indeterminate"]
  <2>1. CASE Assign(a, fresh) /\ Failed(a)
    BY <2>1, <1>0, FailedStep
  <2>2. ASSUME NEW x \in {"null", "live"},
               Assign(a, With(fresh, {"logs"}, x)), Failed(a)
        PROVE  LocalsInv'
    BY <2>2, <1>0, WithType, FailedStep
  <2>3. CASE /\ Assign(a, With(fresh, {"logs"}, "live"))
             /\ GoTo(a, "tpm") /\ Mark(a, FALSE)
    <3>1. PathOK("tpm", With(fresh, {"logs"}, "live"), FALSE)
      BY <1>0, WithType DEF PathOK, NeededAt, Initialised, Locals
    <3>2. "tpm" \in Steps /\ FALSE \in BOOLEAN
          /\ With(fresh, {"logs"}, "live") \in [Locals -> Pointer]
      BY <1>0, WithType
    <3> QED BY <2>3, <3>1, <3>2, OneStep
  <2> QED BY <1>1, <2>1, <2>2, <2>3 DEF ReadRequest, PcrLogsAfterFailure, Mark
<1>2. ASSUME NEW a \in Attesters, OpenTpm(a) PROVE LocalsInv'
  <2> DEFINE declared == With(local[a], {"esys", "tcti"}, "null")
  <2>1. declared \in [Locals -> Pointer]
    BY <1>0, <1>a, WithType
  <2>2. CASE Failed(a)
    BY <1>2, <2>1, <2>2, <1>0, WithType, FailedStep DEF OpenTpm, GoTo, Ok
  <2>3. CASE ~Failed(a)
    <3> DEFINE l == With(declared, {"esys", "tcti"}, "live")
    <3>1. /\ Assign(a, l) /\ GoTo(a, "key") /\ Ok(a) /\ step[a] = "tpm"
      BY <1>2, <2>3 DEF OpenTpm
    <3>2. l \in [Locals -> Pointer]
      BY <2>1, <1>0, WithType
    <3>3. /\ l["logs"] = local[a]["logs"]
          /\ l["esys"] = "live" /\ l["tcti"] = "live"
      BY <2>1, <1>0, <1>a, WithType DEF Locals
    <3>4. PathOK("key", l, failed[a])
      BY <1>a, <3>1, <3>3 DEF PathOK, NeededAt, Initialised
    <3> HIDE DEF l
    <3> QED BY <3>1, <3>2, <3>4, <1>a, <1>0, OneStep
  <2> QED BY <2>2, <2>3
<1>3. ASSUME NEW a \in Attesters, LoadKey(a) PROVE LocalsInv'
  <2>1. UNCHANGED local
    BY <1>3 DEF LoadKey, LoadContext, FindKey, LeaveUnset
  <2>2. CASE Failed(a)
    BY <2>1, <2>2, <1>a, FailedStep
  <2>3. CASE ~Failed(a)
    <3>1. GoTo(a, "quote") /\ Ok(a) /\ step[a] = "key"
      BY <1>3, <2>3 DEF LoadKey, LoadContext, FindKey, LeaveUnset
    <3>2. PathOK("quote", local[a], failed[a])
      BY <3>1, <1>a DEF PathOK, NeededAt
    <3> QED BY <2>1, <3>1, <3>2, <1>a, <1>0, OneStep
  <2> QED BY <2>2, <2>3
<1>4. ASSUME NEW a \in Attesters, TakeQuote(a) PROVE LocalsInv'
  <2>1. CASE /\ Assign(a, With(local[a], {"signature", "attest"}, "null"))
             /\ Failed(a)
    BY <2>1, <1>0, <1>a, WithType, FailedStep
  <2>2. CASE /\ Assign(a, With(local[a], {"signature", "attest"}, "live"))
             /\ GoTo(a, "logs") /\ Ok(a)
    <3> DEFINE l == With(local[a], {"signature", "attest"}, "live")
    <3>1. /\ l \in [Locals -> Pointer]
          /\ \A p \in {"logs", "esys", "tcti"} : l[p] = local[a][p]
          /\ l["signature"] = "live" /\ l["attest"] = "live"
      BY <1>0, <1>a, WithType DEF Locals
    <3>2. step[a] = "quote"
      BY <1>4 DEF TakeQuote
    <3>3. PathOK("logs", l, failed[a])
      BY <1>a, <3>1, <3>2 DEF PathOK, NeededAt, Initialised
    <3>4. Assign(a, l) /\ GoTo(a, "logs") /\ Ok(a)
      BY <2>2
    <3> HIDE DEF l
    <3> QED BY <3>1, <3>3, <3>4, <1>a, <1>0, OneStep
  <2> QED BY <1>4, <2>1, <2>2 DEF TakeQuote
<1>5. ASSUME NEW a \in Attesters, ReadLogs(a) PROVE LocalsInv'
  <2> DEFINE l == With(local[a], {"responses", "contents"}, "live")
             m == With(With(local[a], {"responses"}, "live"), {"contents"}, "freed")
  <2>1. CASE Assign(a, l) /\ Ok(a)
    <3>1. /\ l \in [Locals -> Pointer]
          /\ \A p \in {"logs", "esys", "tcti", "signature", "attest"} :
                l[p] = local[a][p]
          /\ l["responses"] = "live" /\ l["contents"] = "live"
      BY <1>0, <1>a, WithType DEF Locals
    <3>2. step[a] = "logs" /\ GoTo(a, "reply")
      BY <1>5 DEF ReadLogs, LogsRead, LogsDangle
    <3>3. PathOK("reply", l, failed[a])
      BY <1>a, <3>1, <3>2 DEF PathOK, NeededAt, Initialised, Locals
    <3>4. Assign(a, l) /\ Ok(a)
      BY <2>1
    <3> HIDE DEF l
    <3> QED BY <3>1, <3>2, <3>3, <3>4, <1>a, <1>0, OneStep
  <2>2. CASE Assign(a, m) /\ Mark(a, TRUE)
    <3>1. m \in [Locals -> Pointer]
      BY <1>0, <1>a, WithType
    <3>2. PathOK("reply", m, TRUE)
      BY DEF PathOK
    <3> HIDE DEF m
    <3> QED BY <1>5, <2>2, <3>1, <3>2, <1>0, OneStep DEF ReadLogs, LogsRead, LogsDangle
  <2> QED BY <1>5, <2>1, <2>2 DEF ReadLogs, LogsRead, LogsDangle, Mark
<1>6. ASSUME NEW a \in Attesters, Reply(a) PROVE LocalsInv'
  <2> DEFINE l == With(local[a], {"signature", "attest"}, "null")
  <2>1. l \in [Locals -> Pointer]
    BY <1>0, <1>a, WithType
  <2>2. Assign(a, l) /\ step[a] = "reply"
    BY <1>6 DEF Reply, NotSent, FreedAndNull
  <2>3. CASE Failed(a)
    BY <2>1, <2>2, <2>3, FailedStep
  <2>4. CASE ~Failed(a)
    <3>1. GoTo(a, "cleanup") /\ Ok(a)
      BY <1>6, <2>4 DEF Reply, NotSent
    <3>2. \A p \in Locals : l[p] \in {"null", local[a][p]}
      BY <1>0, <1>a, WithType
    <3>3. PathOK("cleanup", l, failed[a])
      BY <1>a, <2>2, <3>2 DEF PathOK, NeededAt, Initialised
    <3> HIDE DEF l
    <3> QED BY <2>1, <2>2, <3>1, <3>3, <1>a, <1>0, OneStep
  <2> QED BY <2>3, <2>4
<1>7. ASSUME NEW a \in Attesters, CleanUp(a) PROVE LocalsInv'
  <2>1. PathOK("idle", [p \in Locals |-> "null"], failed[a])
    BY DEF PathOK, NeededAt, Initialised
  <2> QED BY <1>7, <2>1, <1>0, <1>a, OneStep DEF CleanUp
<1>8. ASSUME NEW a \in Attesters, Crash(a) PROVE LocalsInv'
  <2>1. failed[a]
    <3>1. step[a] = "cleanup" /\ \E p \in Locals : local[a][p] \in {"indeterminate", "freed"}
      BY <1>8 DEF Crash
    <3> QED BY <3>1, <1>a DEF PathOK, NeededAt, Initialised
  <2>2. PathOK("crashed", local[a], failed[a])
    BY <2>1 DEF PathOK
  <2>3. GoTo(a, "crashed") /\ Ok(a) /\ UNCHANGED local
    BY <1>8 DEF Crash
  <2> QED BY <2>2, <2>3, <1>a, <1>0, OneStep
<1>9. ASSUME NEW a \in Attesters, Stop(a) PROVE LocalsInv'
  <2>1. PathOK("stopped", local[a], failed[a])
    BY DEF PathOK, NeededAt, Initialised
  <2>2. GoTo(a, "stopped") /\ UNCHANGED <<local, failed>>
    BY <1>9 DEF Stop
  <2> QED BY <2>1, <2>2, <1>a, <1>0, OneStep DEF Ok
<1>10. ASSUME NEW a \in Attesters, Restart(a) PROVE LocalsInv'
  <2>1. PathOK("idle", [p \in Locals |-> "null"], FALSE)
    BY DEF PathOK, NeededAt, Initialised
  <2> QED BY <1>10, <2>1, <1>0, OneStep DEF Restart, Mark
<1>11. CASE UNCHANGED handlerVars
  BY <1>11 DEF handlerVars, LocalsInv
<1> QED
  BY <1>1, <1>2, <1>3, <1>4, <1>5, <1>6, <1>7, <1>8, <1>9, <1>10, <1>11
  DEF HandlerNext, Handler, allVars

\* A crash is the end of a call some step of which failed: no path on which
\* every step succeeds meets a pointer that was never set, or frees one twice.
THEOREM CrashNeedsFailure == HandlerSpec => []CrashOnlyAfterFailure
<1>1. HandlerInit => LocalsInv
  BY DEF HandlerInit, LocalsInv, PathOK, NeededAt, Initialised, Pointer, Steps
<1>2. LocalsInv => CrashOnlyAfterFailure
  BY DEF LocalsInv, PathOK, CrashOnlyAfterFailure
<1> QED BY <1>1, <1>2, LocalsStep, PTL DEF HandlerSpec

\* Every step keeps KeysInv.
LEMMA KeysStep == KeysInv /\ [HandlerNext]_allVars => KeysInv'
<1> SUFFICES ASSUME KeysInv, [HandlerNext]_allVars PROVE KeysInv'
  OBVIOUS
<1> USE DEF KeysInv, KeysAccounted, Steps, GoTo, Ok, Failed
<1>1. ASSUME NEW a \in Attesters, NEW r \in requests, ReadRequest(a, r)
      PROVE  KeysInv'
  BY <1>1 DEF ReadRequest, PcrLogsAfterFailure
<1>2. ASSUME NEW a \in Attesters, OpenTpm(a) PROVE KeysInv'
  BY <1>2 DEF OpenTpm
<1>3. ASSUME NEW a \in Attesters, LoadKey(a) PROVE KeysInv'
  BY <1>3 DEF LoadKey, LoadContext, FindKey, LeaveUnset
<1>4. ASSUME NEW a \in Attesters, TakeQuote(a) PROVE KeysInv'
  BY <1>4 DEF TakeQuote
<1>5. ASSUME NEW a \in Attesters, ReadLogs(a) PROVE KeysInv'
  BY <1>5 DEF ReadLogs, LogsRead, LogsDangle
<1>6. ASSUME NEW a \in Attesters, Reply(a) PROVE KeysInv'
  BY <1>6 DEF Reply, NotSent
<1>7. ASSUME NEW a \in Attesters, CleanUp(a) PROVE KeysInv'
  BY <1>7 DEF CleanUp, Flushed
<1>8. ASSUME NEW a \in Attesters, Crash(a) PROVE KeysInv'
  BY <1>8 DEF Crash
<1>9. ASSUME NEW a \in Attesters, Stop(a) \/ Restart(a) PROVE KeysInv'
  BY <1>9 DEF Stop, Restart
<1>10. CASE UNCHANGED handlerVars
  BY <1>10 DEF handlerVars
<1> QED
  BY <1>1, <1>2, <1>3, <1>4, <1>5, <1>6, <1>7, <1>8, <1>9, <1>10
  DEF HandlerNext, Handler, allVars

\* Every transient key that is left in a TPM is in use, or was lost by a crash
\* or by a flush that the TPM refused; no other path leaks one.
THEOREM KeysAccountedAlways == HandlerSpec => []KeysAccounted
<1>1. HandlerInit => KeysInv
  BY DEF HandlerInit, KeysInv, KeysAccounted, Steps
<1>2. KeysInv => KeysAccounted
  BY DEF KeysInv
<1> QED BY <1>1, <1>2, KeysStep, PTL DEF HandlerSpec

-----------------------------------------------------------------------------
(* The handler taken apart implements the handler in one step.              *)

\* What has been sent has been made; a call that is under way answers a request
\* that was sent to this attester, and what it will send has been made.
MadeInv ==
    /\ quotes \subseteq made
    /\ handling \in [Attesters -> requests \cup {Nothing}]
    /\ \A a \in Attesters : step[a] \in {"tpm", "key", "quote", "logs", "reply"}
         => handling[a] # Nothing /\ Destination[handling[a].from] = a
    /\ step \in [Attesters -> Steps]
    /\ attest_buf \in [Attesters -> made \cup {Nothing}]
    /\ \A a \in Attesters : step[a] \in {"logs", "reply"}
         => attest_buf[a] # Nothing
    /\ requests \subseteq Request /\ made \subseteq Quote
    /\ pcrs \in [Attesters -> Digests]

\* What the processes, the network and the platforms do on their own, they do
\* in the same way with a handler in one step.
LEMMA EnvironmentMaps ==
    ASSUME MadeInv, Environment, UNCHANGED handlerVars
    PROVE  Atomic!Next
<1>0. UNCHANGED made
  BY DEF handlerVars
<1> USE <1>0 DEF networkVars, Atomic!networkVars, platformVars,
        Atomic!platformVars, verifierVars, Atomic!verifierVars
<1>1. ASSUME NEW v \in Verifiers, Abort(v) PROVE Atomic!Verifier(v)
  <2>1. Atomic!Abort(v)
    BY <1>1 DEF Abort, Atomic!Abort, SetupFailures, Atomic!SetupFailures
  <2> QED BY <2>1 DEF Atomic!Verifier
<1>2. ASSUME NEW v \in Verifiers, Send(v) PROVE Atomic!Verifier(v)
  <2>1. Atomic!Send(v)
    BY <1>2 DEF Send, Atomic!Send, Drawn, Atomic!Drawn
  <2> QED BY <2>1 DEF Atomic!Verifier
<1>3. ASSUME NEW v \in Verifiers, SendFails(v) PROVE Atomic!Verifier(v)
  <2>1. Atomic!SendFails(v)
    BY <1>3 DEF SendFails, Atomic!SendFails, Drawn, Atomic!Drawn
  <2> QED BY <2>1 DEF Atomic!Verifier
<1>4. \A v \in Verifiers : InLoop(v) <=> Atomic!InLoop(v)
  BY DEF InLoop, Atomic!InLoop
<1>5. \A u, v \in Verifiers : Reaches(u, v) <=> Atomic!Reaches(u, v)
  BY DEF Reaches, Atomic!Reaches
<1>6. \A v, t, rc, p : EndOfPass(v, t, rc, p) <=> Atomic!EndOfPass(v, t, rc, p)
  BY DEF EndOfPass, Atomic!EndOfPass, AddWait, Atomic!AddWait, TimedOut,
         Atomic!TimedOut
<1>7. ASSUME NEW v \in Verifiers, Wait(v) PROVE Atomic!Verifier(v)
  <2>1. Atomic!Wait(v)
    BY <1>4, <1>6, <1>7 DEF Wait, Atomic!Wait
  <2> QED BY <2>1 DEF Atomic!Verifier
<1>8. ASSUME NEW v \in Verifiers, GiveUp(v) PROVE Atomic!Verifier(v)
  <2>1. Atomic!GiveUp(v)
    BY <1>6, <1>8 DEF GiveUp, Atomic!GiveUp
  <2> QED BY <2>1 DEF Atomic!Verifier
<1>9. ASSUME NEW v \in Verifiers, IoError(v) PROVE Atomic!Verifier(v)
  <2>1. Atomic!IoError(v)
    BY <1>4, <1>9 DEF IoError, Atomic!IoError
  <2> QED BY <2>1 DEF Atomic!Verifier
<1>10. ASSUME NEW v \in Verifiers, NEW m \in quotes, Receive(v, m)
       PROVE  Atomic!Verifier(v)
  <2>1. Outcomes(v, m) = Atomic!Outcomes(v, m)
    BY DEF Outcomes, Atomic!Outcomes, CannotAppraise, Atomic!CannotAppraise,
           ReferenceUnreadable, Atomic!ReferenceUnreadable, Appraise,
           Atomic!Appraise, SignedByTrusted, Atomic!SignedByTrusted, Verdict,
           Atomic!Verdict, NonceMatches, Atomic!NonceMatches, PcrsMatch,
           Atomic!PcrsMatch, FirstSet, Atomic!FirstSet, StaleAfter,
           Atomic!StaleAfter
  <2>2. m \in made
    BY DEF MadeInv
  <2>3. Reaches(m.to, v) <=> Atomic!Reaches(m.to, v)
    BY DEF Reaches, Atomic!Reaches
  <2>4. Atomic!Receive(v, m)
    BY <1>4, <1>6, <1>10, <2>1, <2>3 DEF Receive, Atomic!Receive
  <2> QED BY <2>2, <2>4 DEF Atomic!Verifier
<1>11. ASSUME NEW v \in Verifiers, ReceiveError(v) PROVE Atomic!Verifier(v)
  <2>1. Atomic!ReceiveError(v)
    BY <1>4, <1>6, <1>11
    DEF ReceiveError, Atomic!ReceiveError, Reaches, Atomic!Reaches
  <2> QED BY <2>1 DEF Atomic!Verifier
<1>12. ASSUME NEW v \in Verifiers,
              ReceiveErrorCrash(v) \/ \E m \in quotes : ReceiveCrash(v, m)
       PROVE  Atomic!Verifier(v)
  <2> USE <1>4 DEF Dies, Atomic!Dies, Reaches, Atomic!Reaches
  <2>1. CASE ReceiveErrorCrash(v)
    <3>1. Atomic!ReceiveErrorCrash(v)
      BY <2>1 DEF ReceiveErrorCrash, Atomic!ReceiveErrorCrash
    <3> QED BY <3>1 DEF Atomic!Verifier
  <2>2. CASE \E m \in quotes : ReceiveCrash(v, m)
    <3>1. \E m \in made : Atomic!ReceiveCrash(v, m)
      BY <2>2 DEF MadeInv, ReceiveCrash, Atomic!ReceiveCrash
    <3> QED BY <3>1 DEF Atomic!Verifier
  <2> QED BY <1>12, <2>1, <2>2
<1>13. ASSUME NEW r \in requests, AnswerError(r) PROVE Atomic!Next
  <2>1. Atomic!AnswerError(r)
    BY <1>13 DEF AnswerError, Atomic!AnswerError
  <2> QED BY <2>1 DEF Atomic!Next
<1>14. ASSUME NEW a \in Attesters, NEW d \in Digests, ChangePcrs(a, d)
       PROVE  Atomic!Next
  <2>1. Atomic!ChangePcrs(a, d)
    BY <1>14 DEF ChangePcrs, Atomic!ChangePcrs
  <2> QED BY <2>1 DEF Atomic!Next
<1>15. ASSUME NEW v \in Verifiers, Verifier(v) PROVE Atomic!Next
  <2>1. Atomic!Verifier(v)
    BY <1>1, <1>2, <1>3, <1>7, <1>8, <1>9, <1>10, <1>11, <1>12, <1>15
    DEF Verifier
  <2> QED BY <2>1 DEF Atomic!Next
<1> QED BY <1>13, <1>14, <1>15 DEF Environment

\* A step of the handler changes nothing, but for the step that takes the quote:
\* that is the answer.
LEMMA HandlerMaps ==
    ASSUME MadeInv, NEW a \in Attesters, Handler(a)
    PROVE  [Atomic!Next]_(Atomic!vars)
<1> USE DEF Atomic!vars, Atomic!networkVars, Atomic!platformVars,
        Atomic!verifierVars, networkVars, platformVars, verifierVars, vars
<1>1. CASE TakeQuote(a) /\ made' # made
  <2>1. /\ step[a] = "quote" /\ UNCHANGED vars
        /\ made' = made \cup {QuoteNow(a)}
    BY <1>1 DEF TakeQuote
  <2>2. handling[a] \in requests /\ Destination[handling[a].from] = a
    BY <2>1 DEF MadeInv
  <2>3. Atomic!Answer(handling[a])
    BY <2>1, <2>2 DEF Atomic!Answer, QuoteNow
  <2> QED BY <2>2, <2>3 DEF Atomic!Next
<1>2. CASE TakeQuote(a) /\ made' = made
  BY <1>2 DEF TakeQuote
<1>3. CASE Reply(a)
  BY <1>3 DEF Reply, NotSent
<1>4. CASE ~TakeQuote(a) /\ ~Reply(a)
  BY <1>4 DEF Handler, ReadRequest, PcrLogsAfterFailure, OpenTpm, LoadKey,
              LoadContext, FindKey, LeaveUnset, ReadLogs, LogsRead, LogsDangle,
              CleanUp, Crash, Stop, Restart
<1> QED BY <1>1, <1>2, <1>3, <1>4

\* The invariant behind that is kept by the environment ...
LEMMA MadeEnvironment ==
    ASSUME MadeInv, Environment, UNCHANGED handlerVars
    PROVE  MadeInv'
<1>1. UNCHANGED quotes
  BY DEF Environment, Verifier, Abort, Send, SendFails, Wait, GiveUp, IoError,
         Receive, ReceiveError, ReceiveErrorCrash, ReceiveCrash, Dies,
         AnswerError, ChangePcrs, networkVars
<1>2. requests \subseteq requests' /\ requests' \subseteq Request
  <2>1. ASSUME NEW v \in Verifiers, Send(v)
        PROVE  requests \subseteq requests' /\ requests' \subseteq Request
    BY <2>1 DEF Send, MadeInv, Request
  <2>2. CASE ~\E v \in Verifiers : Send(v)
    <3>1. UNCHANGED requests
      BY <2>2 DEF Environment, Verifier, Abort, SendFails, Wait, GiveUp,
                  IoError, Receive, ReceiveError, ReceiveErrorCrash,
                  ReceiveCrash, Dies, AnswerError, ChangePcrs, networkVars
    <3> QED BY <3>1 DEF MadeInv
  <2> QED BY <2>1, <2>2
<1>3. pcrs' \in [Attesters -> Digests]
  <2>1. ASSUME NEW a \in Attesters, NEW d \in Digests, ChangePcrs(a, d)
        PROVE  pcrs' \in [Attesters -> Digests]
    BY <2>1 DEF ChangePcrs, MadeInv
  <2>2. CASE ~\E a \in Attesters, d \in Digests : ChangePcrs(a, d)
    <3>1. UNCHANGED pcrs
      BY <2>2 DEF Environment, Verifier, Abort, Send, SendFails, Wait, GiveUp,
                  IoError, Receive, ReceiveError, ReceiveErrorCrash,
                  ReceiveCrash, Dies, AnswerError, platformVars
    <3> QED BY <3>1 DEF MadeInv
  <2> QED BY <2>1, <2>2
<1>4. handling \in [Attesters -> requests' \cup {Nothing}]
  BY <1>2 DEF MadeInv
<1> QED BY <1>1, <1>2, <1>3, <1>4 DEF MadeInv, handlerVars

\* ... and by the handler.
LEMMA MadeHandler ==
    ASSUME MadeInv, NEW a \in Attesters, Handler(a)
    PROVE  MadeInv'
<1> USE DEF MadeInv, Steps, GoTo, Failed, vars, networkVars, platformVars
<1>1. ASSUME NEW r \in requests, ReadRequest(a, r) PROVE MadeInv'
  <2>1. r # Nothing
    BY NothingAssumption
  <2> QED BY <1>1, <2>1 DEF ReadRequest, PcrLogsAfterFailure
<1>2. CASE OpenTpm(a)
  BY <1>2 DEF OpenTpm
<1>3. CASE LoadKey(a)
  BY <1>3 DEF LoadKey, LoadContext, FindKey, LeaveUnset
<1>4. CASE TakeQuote(a)
  <2>1. /\ handling[a] \in requests /\ handling[a] \in Request
        /\ Destination[handling[a].from] = a
    BY <1>4 DEF TakeQuote
  <2>2. QuoteNow(a) \in Quote /\ QuoteNow(a) # Nothing
    BY <2>1, NothingAssumption DEF QuoteNow, Request, Quote
  <2> HIDE DEF vars, networkVars, platformVars
  <2>3. UNCHANGED <<quotes, requests, pcrs, handling>>
    BY <1>4 DEF TakeQuote, vars, networkVars, platformVars
  <2>4. CASE /\ attest_buf' = [attest_buf EXCEPT ![a] = QuoteNow(a)]
             /\ made' = made \cup {QuoteNow(a)} /\ GoTo(a, "logs")
    BY <1>4, <2>2, <2>3, <2>4 DEF TakeQuote
  <2>5. CASE Failed(a) /\ UNCHANGED <<attest_buf, made>>
    BY <1>4, <2>3, <2>5
  <2> QED BY <1>4, <2>4, <2>5 DEF TakeQuote
<1>5. CASE ReadLogs(a)
  BY <1>5 DEF ReadLogs, LogsRead, LogsDangle
<1>6. CASE Reply(a)
  BY <1>6 DEF Reply, NotSent
<1>7. CASE CleanUp(a)
  BY <1>7 DEF CleanUp
<1>8. CASE Crash(a)
  BY <1>8 DEF Crash
<1>9. CASE Stop(a)
  BY <1>9 DEF Stop
<1>10. CASE Restart(a)
  BY <1>10 DEF Restart
<1> QED
  BY <1>1, <1>2, <1>3, <1>4, <1>5, <1>6, <1>7, <1>8, <1>9, <1>10 DEF Handler

\* An attester that answers in many steps, may fail at each of them, and is
\* started again after a crash, implements the attester of Attestation, which
\* answers in one: what is proved of Attestation holds of the two together.
THEOREM HandlerImplementsAttestation == HandlerSpec => ImplementsAttestation
<1>1. HandlerInit => MadeInv /\ Atomic!Init
  BY DEF HandlerInit, Init, Atomic!Init, MadeInv, Steps
<1>2. MadeInv /\ [HandlerNext]_allVars => MadeInv' /\ [Atomic!Next]_(Atomic!vars)
  <2> SUFFICES ASSUME MadeInv, [HandlerNext]_allVars
               PROVE  MadeInv' /\ [Atomic!Next]_(Atomic!vars)
    OBVIOUS
  <2>1. CASE UNCHANGED allVars
    BY <2>1 DEF allVars, vars, handlerVars, networkVars, platformVars,
                verifierVars, MadeInv, Atomic!vars, Atomic!networkVars,
                Atomic!platformVars, Atomic!verifierVars
  <2>2. ASSUME NEW a \in Attesters, Handler(a)
        PROVE  MadeInv' /\ [Atomic!Next]_(Atomic!vars)
    BY <2>2, MadeHandler, HandlerMaps
  <2>3. CASE Environment /\ UNCHANGED handlerVars
    BY <2>3, MadeEnvironment, EnvironmentMaps
  <2> QED BY <2>1, <2>2, <2>3 DEF HandlerNext
<1> QED BY <1>1, <1>2, PTL DEF HandlerSpec, ImplementsAttestation, Atomic!Spec

-----------------------------------------------------------------------------
(* What has been proved of Attestation holds of the handler taken apart.    *)

Proved == INSTANCE Attestation_proof WITH quotes <- made

\* The instance by which the handler is refined and the one the theorems come
\* with are the same.
LEMMA SameSpecification == Atomic!Spec => Proved!Spec
<1>1. Atomic!Init => Proved!Init
  BY DEF Atomic!Init, Proved!Init
<1>2. UNCHANGED Atomic!vars => UNCHANGED Proved!vars
  BY DEF Atomic!vars, Proved!vars, Atomic!verifierVars, Proved!verifierVars,
         Atomic!networkVars, Proved!networkVars, Atomic!platformVars,
         Proved!platformVars
<1>3. \A v, t, rc, p :
        Atomic!EndOfPass(v, t, rc, p) <=> Proved!EndOfPass(v, t, rc, p)
  BY DEF Atomic!EndOfPass, Proved!EndOfPass, Atomic!AddWait, Proved!AddWait,
         Atomic!TimedOut, Proved!TimedOut
<1>4. \A v \in Verifiers, m \in made : Atomic!Outcomes(v, m) = Proved!Outcomes(v, m)
  BY DEF Atomic!Outcomes, Proved!Outcomes, Atomic!CannotAppraise,
         Proved!CannotAppraise, Atomic!ReferenceUnreadable,
         Proved!ReferenceUnreadable, Atomic!Appraise, Proved!Appraise,
         Atomic!SignedByTrusted, Proved!SignedByTrusted, Atomic!Verdict,
         Proved!Verdict, Atomic!NonceMatches, Proved!NonceMatches,
         Atomic!PcrsMatch, Proved!PcrsMatch, Atomic!FirstSet, Proved!FirstSet,
         Atomic!StaleAfter, Proved!StaleAfter
<1>5. Atomic!Next => Proved!Next
  <2> USE <1>3, <1>4
      DEF Atomic!networkVars, Proved!networkVars, Atomic!platformVars,
          Proved!platformVars, Atomic!verifierVars, Proved!verifierVars,
          Atomic!InLoop, Proved!InLoop, Atomic!Reaches, Proved!Reaches
  <2>1. \A v \in Verifiers :
          /\ Atomic!Abort(v) => Proved!Abort(v)
          /\ Atomic!Send(v) => Proved!Send(v)
          /\ Atomic!SendFails(v) => Proved!SendFails(v)
    BY DEF Atomic!Abort, Proved!Abort, Atomic!SetupFailures,
           Proved!SetupFailures, Atomic!Send, Proved!Send, Atomic!SendFails,
           Proved!SendFails, Atomic!Drawn, Proved!Drawn
  <2>2. \A v \in Verifiers :
          /\ Atomic!Wait(v) => Proved!Wait(v)
          /\ Atomic!GiveUp(v) => Proved!GiveUp(v)
          /\ Atomic!IoError(v) => Proved!IoError(v)
    BY DEF Atomic!Wait, Proved!Wait, Atomic!GiveUp, Proved!GiveUp,
           Atomic!IoError, Proved!IoError
  <2>3. \A v \in Verifiers, m \in made :
          /\ Atomic!Receive(v, m) => Proved!Receive(v, m)
          /\ Atomic!ReceiveCrash(v, m) => Proved!ReceiveCrash(v, m)
    BY DEF Atomic!Receive, Proved!Receive, Atomic!ReceiveCrash,
           Proved!ReceiveCrash, Atomic!Dies, Proved!Dies
  <2>4. \A v \in Verifiers :
          /\ Atomic!ReceiveError(v) => Proved!ReceiveError(v)
          /\ Atomic!ReceiveErrorCrash(v) => Proved!ReceiveErrorCrash(v)
    BY DEF Atomic!ReceiveError, Proved!ReceiveError, Atomic!ReceiveErrorCrash,
           Proved!ReceiveErrorCrash, Atomic!Dies, Proved!Dies
  <2>5. \A v \in Verifiers : Atomic!Verifier(v) => Proved!Verifier(v)
    BY <2>1, <2>2, <2>3, <2>4 DEF Atomic!Verifier, Proved!Verifier
  <2> QED BY <2>5 DEF Atomic!Next, Proved!Next, Atomic!Answer, Proved!Answer,
                 Atomic!AnswerError, Proved!AnswerError, Atomic!ChangePcrs,
                 Proved!ChangePcrs
<1>6. [Atomic!Next]_(Atomic!vars) => [Proved!Next]_(Proved!vars)
  BY <1>2, <1>5
<1> QED BY <1>1, <1>6, PTL DEF Atomic!Spec, Proved!Spec

\* A positive verdict has its witness also when the attester's handler is
\* interrupted by other steps, fails half way, crashes and is started again.
THEOREM HandlerWitness == HandlerSpec => []PositiveIsWitnessed
<1>1. Proved!Spec => []Proved!PositiveIsWitnessed
  BY Proved!PositiveIsWitnessedAlways, TrustedAssumption,
     DestinationAssumption, NoNonceAssumption, ReferenceAssumption,
     TimeAssumption, PTL
<1>2. Proved!PositiveIsWitnessed => PositiveIsWitnessed
  BY DEF Proved!PositiveIsWitnessed, PositiveIsWitnessed,
         Proved!ReferenceDigests, ReferenceDigests
<1> QED BY <1>1, <1>2, SameSpecification, HandlerImplementsAttestation, PTL
        DEF ImplementsAttestation

\* The slots of a TPM are never overdrawn.
SlotsInv == transient \in [Attesters -> 0 .. TpmSlots]
LEMMA SlotsStep ==
    KeysInv /\ SlotsInv /\ [HandlerNext]_allVars => SlotsInv'
<1> SUFFICES ASSUME KeysInv, SlotsInv, [HandlerNext]_allVars PROVE SlotsInv'
  OBVIOUS
<1>1. ASSUME NEW a \in Attesters, LoadKey(a) PROVE SlotsInv'
  BY <1>1, TpmSlotsAssumption
  DEF LoadKey, LoadContext, FindKey, LeaveUnset, SlotsInv
<1>2. ASSUME NEW a \in Attesters, CleanUp(a) PROVE SlotsInv'
  <2>1. key[a] = "transient" => transient[a] >= 1
    BY DEF KeysInv, KeysAccounted
  <2> QED BY <1>2, <2>1, TpmSlotsAssumption DEF CleanUp, Flushed, SlotsInv
<1>3. CASE ~\E a \in Attesters : LoadKey(a) \/ CleanUp(a)
  <2>1. UNCHANGED transient
    BY <1>3 DEF HandlerNext, Handler, ReadRequest, PcrLogsAfterFailure, OpenTpm,
                TakeQuote, ReadLogs, LogsRead, LogsDangle, Reply, NotSent,
                Crash, Stop, Restart, allVars, handlerVars
  <2> QED BY <2>1 DEF SlotsInv
<1> QED BY <1>1, <1>2, <1>3

\* Every variable of the two programs keeps its type, through every failure of
\* the handler, every crash and restart: in particular no key is loaded into a
\* TPM that is full, and none is flushed twice.
THEOREM HandlerTypeCorrect == HandlerSpec => []HandlerTypeOK
<1>1. HandlerInit => LocalsInv /\ KeysInv /\ SlotsInv /\ MadeInv
  BY TpmSlotsAssumption
  DEF HandlerInit, Init, LocalsInv, PathOK, NeededAt, Initialised, Pointer,
      Steps, KeysInv, KeysAccounted, SlotsInv, MadeInv
<1>2. MadeInv /\ [HandlerNext]_allVars => MadeInv'
  <2> SUFFICES ASSUME MadeInv, [HandlerNext]_allVars PROVE MadeInv'
    OBVIOUS
  <2>1. CASE UNCHANGED allVars
    BY <2>1 DEF allVars, vars, handlerVars, networkVars, platformVars, MadeInv
  <2> QED BY <2>1, MadeHandler, MadeEnvironment DEF HandlerNext
<1>3. Proved!Spec => []Proved!TypeOK
  BY Proved!TypeCorrect, TrustedAssumption, DestinationAssumption,
     NoNonceAssumption, ReferenceAssumption, TimeAssumption, PTL
<1>4. LocalsInv /\ KeysInv /\ SlotsInv /\ MadeInv /\ Proved!TypeOK
         => HandlerTypeOK
  <2> SUFFICES ASSUME LocalsInv, KeysInv, SlotsInv, MadeInv, Proved!TypeOK
               PROVE  HandlerTypeOK
    OBVIOUS
  <2>1. TypeOK
    BY DEF Proved!TypeOK, TypeOK, MadeInv, Proved!Request, Request,
           Proved!Quote, Quote, Proved!CHARRA_RC, CHARRA_RC
  <2>2. /\ handling \in [Attesters -> Request \cup {Nothing}]
        /\ attest_buf \in [Attesters -> Quote \cup {Nothing}]
    BY DEF MadeInv
  <2> QED BY <2>1, <2>2
          DEF HandlerTypeOK, LocalsInv, KeysInv, SlotsInv, MadeInv, Steps
<1> QED BY <1>1, <1>2, <1>3, <1>4, LocalsStep, KeysStep, SlotsStep,
           SameSpecification, HandlerImplementsAttestation, PTL
        DEF HandlerSpec, ImplementsAttestation

=============================================================================
