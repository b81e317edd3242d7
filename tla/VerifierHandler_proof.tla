----------------------- MODULE VerifierHandler_proof -----------------------
(***************************************************************************)
(* Proofs about VerifierHandler, for any number of processes, TPMs, slots, *)
(* nonces, digests and reference sets: the handler taken apart implements  *)
(* the handler in one step, so that what is proved of Attestation holds of *)
(* it; a call ends with SUCCESS after all three checks only; a process     *)
(* that dies in a call does so before its TPM is opened; the keys in a TPM *)
(* are accounted for.                                                      *)
(***************************************************************************)
EXTENDS VerifierHandler, FiniteSetTheorems, TLAPS

Codes == {"SUCCESS", "ERROR", "VERIFICATION_FAILED"}
WithKey == {"signature", "convert", "quote", "nonce", "pcrs", "verdict",
            "cleanup"}
InCall == WithKey \cup {"tpm", "key"}
Steps == InCall \cup {"idle", "crashed"}

\* The types of the handler's variables and of the two it works on.
CallTypes ==
    /\ step \in [Verifiers -> Steps]
    /\ response \in [Verifiers -> Quote \cup {Nothing}]
    /\ local \in [Verifiers -> [Locals -> {"indeterminate", "initialized"}]]
    /\ key \in [Verifiers -> BOOLEAN]
    /\ checks \in [Verifiers -> SUBSET Check]
    /\ before \in [Verifiers -> [rc: Codes, stale: BOOLEAN]]
    /\ attestation_rc \in [Verifiers -> Codes]
    /\ stale \in [Verifiers -> BOOLEAN]

\* The two locals that are declared after the first exits.
ContextsUnset(v) ==
    \A x \in {"esys", "tcti"} : local[v][x] = "indeterminate"

\* A call that is under way: its process is still in the wait loop, and what it
\* handles is still there.
Underway(v) ==
    step[v] \in InCall =>
        /\ InLoop(v)
        /\ response[v] = Nothing =>
              /\ step[v] = "cleanup" /\ attestation_rc[v] = "ERROR"
              /\ stale[v] = before[v].stale /\ ContextsUnset(v)
              /\ \E u \in errors : Reaches(u, v)
        /\ response[v] # Nothing =>
              response[v] \in quotes /\ Reaches(response[v].to, v)

\* Nothing is left of a call that is over.
Over(v) ==
    /\ step[v] = "idle" => /\ checks[v] = {} /\ response[v] = Nothing
                           /\ ContextsUnset(v)
    /\ step[v] = "crashed" => ContextsUnset(v)
    /\ key[v] => step[v] \in WithKey /\ response[v] # Nothing
    /\ pc[v] = "crashed" => step[v] = "crashed"

\* The call was turned away before it came to the TPM.
TurnedAway(v) == step[v] = "cleanup" /\ ~key[v] /\ ContextsUnset(v)

\* What has been set on the way, and what the checks that are set stand for.
SetSoFar(v) ==
    step[v] \in InCall /\ response[v] # Nothing =>
        /\ local[v]["res"] # "indeterminate"
        /\ step[v] # "tpm" =>
              TurnedAway(v) \/ \A x \in Locals : local[v][x] # "indeterminate"
        /\ step[v] \notin {"verdict", "cleanup"} =>
              stale[v] = before[v].stale /\ "pcrs" \notin checks[v]
        /\ "signature" \in checks[v] => SignedByTrusted(response[v])
        /\ "nonce" \in checks[v] => NonceMatches(v, response[v])
        /\ "pcrs" \in checks[v] =>
              PcrsMatch(before[v].stale, response[v].digest)

\* What a call can have come to when it gets to the clean-up.
CanEndWith(v) ==
    step[v] = "cleanup" /\ response[v] # Nothing =>
        \/ attestation_rc[v] = "ERROR" /\ stale[v] = before[v].stale
        \/ attestation_rc[v] = "VERIFICATION_FAILED"
        \/ /\ attestation_rc[v] = "SUCCESS"
           /\ SignedByTrusted(response[v]) /\ NonceMatches(v, response[v])
           /\ PcrsMatch(before[v].stale, response[v].digest)

CallOK(v) == Underway(v) /\ Over(v) /\ SetSoFar(v) /\ CanEndWith(v)

\* The types of the rest, from Attestation with what is seen outside.
Proved == INSTANCE Attestation_proof WITH
    attestation_rc <- [v \in Verifiers |-> SeenOutside(v).rc],
    stale <- [v \in Verifiers |-> SeenOutside(v).stale]

HandlerInv ==
    CallTypes /\ Proved!TypeOK /\ \A v \in Verifiers : CallOK(v)

-----------------------------------------------------------------------------
(* What a step leaves alone.                                                *)

\* A step says nothing of process u ...
Untouched(u) ==
    /\ step'[u] = step[u] /\ response'[u] = response[u]
    /\ local'[u] = local[u] /\ key'[u] = key[u] /\ checks'[u] = checks[u]
    /\ before'[u] = before[u] /\ attestation_rc'[u] = attestation_rc[u]
    /\ stale'[u] = stale[u] /\ pc'[u] = pc[u] /\ elapsed'[u] = elapsed[u]
    /\ last_request'[u] = last_request[u]

\* ... and takes back no message and revives no process.
Grows ==
    /\ quotes \subseteq quotes' /\ errors \subseteq errors'
    /\ \A u \in Verifiers : pc[u] \in {"exited", "crashed"}
                              => pc'[u] \in {"exited", "crashed"}

LEMMA UntouchedOK ==
    ASSUME HandlerInv, NEW u \in Verifiers, Untouched(u), Grows
    PROVE  CallOK(u)'
<1>0. CallOK(u) /\ response[u] \in Quote \cup {Nothing}
      /\ errors \subseteq Verifiers
  BY DEF HandlerInv, CallTypes, Proved!TypeOK
<1>1. Underway(u)'
  <2>1. InLoop(u) => InLoop(u)'
    BY DEF InLoop, Untouched
  <2>2. \A w \in Verifiers : Reaches(w, u) => Reaches(w, u)'
    BY DEF Reaches, Grows
  <2>3. response[u] # Nothing => response[u].to \in Verifiers
    BY <1>0 DEF Quote
  <2> QED BY <1>0, <2>1, <2>2, <2>3
          DEF CallOK, Underway, ContextsUnset, Untouched, Grows
<1>2. Over(u)'
  BY <1>0 DEF CallOK, Over, ContextsUnset, Untouched
<1>3. SetSoFar(u)'
  BY <1>0 DEF CallOK, SetSoFar, TurnedAway, ContextsUnset, Untouched,
              SignedByTrusted, NonceMatches, PcrsMatch, FirstSet
<1>4. CanEndWith(u)'
  BY <1>0 DEF CallOK, CanEndWith, Untouched, SignedByTrusted, NonceMatches,
              PcrsMatch, FirstSet
<1> QED BY <1>1, <1>2, <1>3, <1>4 DEF CallOK

-----------------------------------------------------------------------------
(* The steps of the handler keep the invariant.                             *)

\* What a step of v's handler has to leave.
Keeps(v) ==
    /\ CallTypes' /\ CallOK(v)' /\ Grows
    /\ \A u \in Verifiers : u # v => Untouched(u)

\* A step that changes nothing but the variables of the handler.
LEMMA OthersSame ==
    ASSUME HandlerInv, UNCHANGED OtherVars
    PROVE  /\ Grows
           /\ UNCHANGED <<pc, result, last_request, elapsed, quotes, errors>>
BY DEF OtherVars, networkVars, Grows

\* Setting variables on the stack keeps their type.
LEMMA WithType ==
    ASSUME NEW l \in [Locals -> {"indeterminate", "initialized"}], NEW X,
           NEW x \in {"indeterminate", "initialized"}
    PROVE  /\ With(l, X, x) \in [Locals -> {"indeterminate", "initialized"}]
           /\ \A y \in Locals : With(l, X, x)[y] = IF y \in X THEN x ELSE l[y]
BY DEF With

LEMMA ReadQuoteKeeps ==
    ASSUME HandlerInv, NEW v \in Verifiers, NEW m \in quotes, ReadQuote(v, m)
    PROVE  Keeps(v)
<1> DEFINE l == With(local[v], {"res"}, "initialized")
<1>1. m \in Quote /\ m # Nothing
  BY NothingAssumption DEF HandlerInv, Proved!TypeOK, Proved!Quote, Quote
<1>2. /\ l \in [Locals -> {"indeterminate", "initialized"}]
      /\ l["res"] = "initialized"
  BY WithType DEF HandlerInv, CallTypes, Locals
<1> HIDE DEF l
<1>3. /\ step[v] = "idle" /\ InLoop(v) /\ Reaches(m.to, v)
      /\ response' = [response EXCEPT ![v] = m]
      /\ before' = [before EXCEPT ![v] = [rc |-> attestation_rc[v],
                                          stale |-> stale[v]]]
      /\ UNCHANGED <<OtherVars, stale, key, checks, loaded, refused>>
      /\ local' = [local EXCEPT ![v] = l]
      /\ attestation_rc' = [attestation_rc EXCEPT ![v] = "SUCCESS"]
      /\ step' = [step EXCEPT ![v] = "tpm"]
  BY DEF ReadQuote, Called, Assign, Rc, GoTo, l
<1>4. CallTypes'
  BY <1>1, <1>2, <1>3 DEF HandlerInv, CallTypes, Steps, InCall, Codes
<1>5. \A u \in Verifiers : u # v => Untouched(u)
  BY <1>3, OthersSame DEF HandlerInv, CallTypes, Untouched
<1>6. CallOK(v) /\ key[v] = FALSE
  BY <1>3 DEF HandlerInv, CallTypes, CallOK, Over, WithKey
<1>7. CallOK(v)'
  BY <1>1, <1>2, <1>3, <1>6, OthersSame
  DEF HandlerInv, CallTypes, CallOK, Underway, Over, SetSoFar, CanEndWith,
      InLoop, Reaches, WithKey
<1> QED BY <1>3, <1>4, <1>5, <1>7, OthersSame DEF Keeps

LEMMA QuoteUnreadableKeeps ==
    ASSUME HandlerInv, NEW v \in Verifiers, NEW m \in quotes,
           QuoteUnreadable(v, m)
    PROVE  Keeps(v)
<1> DEFINE l == With(local[v], {"res"}, "initialized")
<1>1. m \in Quote /\ m # Nothing
  BY NothingAssumption DEF HandlerInv, Proved!TypeOK, Proved!Quote, Quote
<1>2. /\ l \in [Locals -> {"indeterminate", "initialized"}]
      /\ l["res"] = "initialized"
      /\ \A x \in {"esys", "tcti"} : l[x] = local[v][x]
  BY WithType DEF HandlerInv, CallTypes, Locals
<1> HIDE DEF l
<1>3. /\ step[v] = "idle" /\ InLoop(v) /\ Reaches(m.to, v)
      /\ response' = [response EXCEPT ![v] = m]
      /\ before' = [before EXCEPT ![v] = [rc |-> attestation_rc[v],
                                          stale |-> stale[v]]]
      /\ UNCHANGED <<OtherVars, stale, key, checks, loaded, refused>>
      /\ local' = [local EXCEPT ![v] = l]
      /\ attestation_rc' = [attestation_rc EXCEPT ![v] = "ERROR"]
      /\ step' = [step EXCEPT ![v] = "cleanup"]
  BY DEF QuoteUnreadable, Called, Assign, Rc, GoTo, l
<1>4. CallTypes'
  BY <1>1, <1>2, <1>3
  DEF HandlerInv, CallTypes, Steps, InCall, WithKey, Codes
<1>5. \A u \in Verifiers : u # v => Untouched(u)
  BY <1>3, OthersSame DEF HandlerInv, CallTypes, Untouched
<1>6. CallOK(v) /\ key[v] = FALSE
  BY <1>3 DEF HandlerInv, CallTypes, CallOK, Over, WithKey
<1>7. TurnedAway(v)' /\ l["res"] # "indeterminate"
  BY <1>2, <1>3, <1>6
  DEF HandlerInv, CallTypes, CallOK, Over, TurnedAway, ContextsUnset
<1>8. CallOK(v)'
  BY <1>1, <1>3, <1>6, <1>7, OthersSame
  DEF HandlerInv, CallTypes, CallOK, Underway, Over, SetSoFar, CanEndWith,
      InLoop, Reaches, WithKey
<1> QED BY <1>3, <1>4, <1>5, <1>8, OthersSame DEF Keeps

LEMMA ReadErrorKeeps ==
    ASSUME HandlerInv, NEW v \in Verifiers, ReadError(v)
    PROVE  Keeps(v)
<1>1. PICK l \in [Locals -> {"indeterminate", "initialized"}] :
        Assign(v, l) /\ \A x \in {"esys", "tcti"} : l[x] = local[v][x]
  <2>1. local[v] \in [Locals -> {"indeterminate", "initialized"}]
    BY DEF HandlerInv, CallTypes
  <2> QED BY <2>1, WithType DEF ReadError, Locals
<1>2. /\ step[v] = "idle" /\ InLoop(v) /\ \E u \in errors : Reaches(u, v)
      /\ response' = [response EXCEPT ![v] = Nothing]
      /\ before' = [before EXCEPT ![v] = [rc |-> attestation_rc[v],
                                          stale |-> stale[v]]]
      /\ UNCHANGED <<OtherVars, stale, key, checks, loaded, refused>>
      /\ attestation_rc' = [attestation_rc EXCEPT ![v] = "ERROR"]
      /\ step' = [step EXCEPT ![v] = "cleanup"]
      /\ local' = [local EXCEPT ![v] = l]
  BY <1>1 DEF ReadError, Called, Rc, GoTo, Assign
<1>3. CallTypes'
  BY <1>2 DEF HandlerInv, CallTypes, Steps, InCall, WithKey, Codes
<1>4. \A u \in Verifiers : u # v => Untouched(u)
  BY <1>2, OthersSame DEF HandlerInv, CallTypes, Untouched
<1>5. CallOK(v) /\ key[v] = FALSE
  BY <1>2 DEF HandlerInv, CallTypes, CallOK, Over, WithKey
<1>6. ContextsUnset(v)'
  BY <1>1, <1>2, <1>5 DEF HandlerInv, CallTypes, CallOK, Over, ContextsUnset
<1>7. CallOK(v)'
  BY <1>2, <1>5, <1>6, OthersSame
  DEF HandlerInv, CallTypes, CallOK, Underway, Over, SetSoFar, CanEndWith,
      InLoop, Reaches
<1> QED BY <1>2, <1>3, <1>4, <1>7, OthersSame DEF Keeps

\* A step in the middle of a call: it handles a quote, and goes on with it.
LEMMA Midway ==
    ASSUME HandlerInv, NEW v \in Verifiers,
           step[v] \in InCall \ {"cleanup"}, step'[v] \in InCall,
           CallTypes', UNCHANGED <<OtherVars, response, before>>,
           key'[v] => step'[v] \in WithKey,
           SetSoFar(v)', CanEndWith(v)',
           \A u \in Verifiers : u # v =>
              /\ step'[u] = step[u] /\ local'[u] = local[u]
              /\ key'[u] = key[u] /\ checks'[u] = checks[u]
              /\ attestation_rc'[u] = attestation_rc[u]
              /\ stale'[u] = stale[u]
    PROVE  Keeps(v)
<1>1. CallOK(v)
  BY DEF HandlerInv
<1>2. response[v] # Nothing /\ pc[v] # "crashed"
  BY <1>1 DEF CallOK, Underway, InLoop
<1>3. Underway(v)' /\ Over(v)'
  BY <1>1, <1>2, OthersSame
  DEF CallOK, Underway, Over, InLoop, Reaches, InCall, WithKey
<1>4. \A u \in Verifiers : u # v => Untouched(u)
  BY OthersSame DEF Untouched
<1> QED BY <1>3, <1>4, OthersSame DEF Keeps, CallOK

LEMMA OpenTpmKeeps ==
    ASSUME HandlerInv, NEW v \in Verifiers, OpenTpm(v)
    PROVE  Keeps(v)
<1> DEFINE Values == {"indeterminate", "initialized"}
           declared == With(local[v], {"esys", "tcti"}, "initialized")
<1>1. /\ local[v] \in [Locals -> Values] /\ response[v] # Nothing
      /\ step[v] = "tpm" /\ CallOK(v) /\ local[v]["res"] # "indeterminate"
  BY DEF HandlerInv, CallTypes, OpenTpm, CallOK, Underway, InCall, SetSoFar
<1>2. /\ declared \in [Locals -> Values]
      /\ \A x \in Locals : declared[x] # "indeterminate"
  BY <1>1, WithType DEF Locals
<1>3. ASSUME NEW X
      PROVE  /\ With(declared, X, "initialized") \in [Locals -> Values]
             /\ \A x \in Locals :
                  With(declared, X, "initialized")[x] # "indeterminate"
  BY <1>2, WithType
<1> HIDE DEF declared
<1>4. PICK l \in [Locals -> Values] :
        Assign(v, l) /\ \A x \in Locals : l[x] # "indeterminate"
  BY <1>2, <1>3 DEF OpenTpm, Initialized, declared
<1>5. /\ UNCHANGED <<OtherVars, stale, response, key, checks, before>>
      /\ \/ Rc(v, "ERROR") /\ GoTo(v, "cleanup")
         \/ UNCHANGED attestation_rc /\ GoTo(v, "key")
  BY DEF OpenTpm
<1>6. CallTypes'
  BY <1>4, <1>5
  DEF HandlerInv, CallTypes, Steps, InCall, WithKey, Codes, Rc, GoTo, Assign
<1>7. SetSoFar(v)' /\ CanEndWith(v)'
  BY <1>1, <1>4, <1>5, OthersSame
  DEF HandlerInv, CallTypes, CallOK, SetSoFar, TurnedAway, CanEndWith,
      SignedByTrusted, NonceMatches, PcrsMatch, FirstSet, Rc, GoTo, Assign,
      InCall, WithKey, Locals
<1>8. key[v] = FALSE
  BY <1>1 DEF HandlerInv, CallTypes, CallOK, Over, WithKey
<1> QED BY <1>1, <1>4, <1>5, <1>6, <1>7, <1>8, Midway
        DEF HandlerInv, CallTypes, Rc, GoTo, Assign, InCall, WithKey

LEMMA LoadKeyKeeps ==
    ASSUME HandlerInv, NEW v \in Verifiers, LoadKey(v)
    PROVE  Keeps(v)
<1>1. step[v] = "key" /\ CallOK(v) /\ response[v] # Nothing
  BY DEF HandlerInv, LoadKey, CallOK, Underway, InCall
<1>2. /\ UNCHANGED <<OtherVars, stale, response, local, checks, before>>
      /\ \/ /\ key' = [key EXCEPT ![v] = TRUE]
            /\ Rc(v, "SUCCESS") /\ GoTo(v, "signature")
         \/ Rc(v, "ERROR") /\ GoTo(v, "cleanup") /\ UNCHANGED key
  BY DEF LoadKey
<1>3. CallTypes'
  BY <1>2
  DEF HandlerInv, CallTypes, Steps, InCall, WithKey, Codes, Rc, GoTo
<1>4. SetSoFar(v)' /\ CanEndWith(v)'
  BY <1>1, <1>2, OthersSame
  DEF HandlerInv, CallTypes, CallOK, SetSoFar, TurnedAway, CanEndWith,
      SignedByTrusted, NonceMatches, PcrsMatch, FirstSet, Rc, GoTo, InCall,
      WithKey
<1> QED BY <1>1, <1>2, <1>3, <1>4, Midway
        DEF HandlerInv, CallTypes, Rc, GoTo, InCall, WithKey

LEMMA VerifySignatureKeeps ==
    ASSUME HandlerInv, NEW v \in Verifiers, VerifySignature(v)
    PROVE  Keeps(v)
<1>1. step[v] = "signature" /\ CallOK(v) /\ response[v] # Nothing
  BY DEF HandlerInv, VerifySignature, CallOK, Underway, InCall, WithKey
<1>2. /\ UNCHANGED <<OtherVars, stale, response, local, key, before>>
      /\ GoTo(v, "convert")
      /\ \/ /\ SignedByTrusted(response[v]) /\ Rc(v, "SUCCESS")
            /\ checks' = [checks EXCEPT ![v] = @ \cup {"signature"}]
         \/ Rc(v, "ERROR") /\ checks' = [checks EXCEPT ![v] = @]
  BY DEF VerifySignature, Set
<1>3. CallTypes'
  <2>1. checks' \in [Verifiers -> SUBSET Check]
    BY <1>2 DEF HandlerInv, CallTypes, Check
  <2> QED BY <1>2, <2>1
          DEF HandlerInv, CallTypes, Steps, InCall, WithKey, Codes, Rc, GoTo
<1>4. SetSoFar(v)' /\ CanEndWith(v)'
  BY <1>1, <1>2, OthersSame
  DEF HandlerInv, CallTypes, CallOK, SetSoFar, TurnedAway, CanEndWith,
      SignedByTrusted, NonceMatches, PcrsMatch, FirstSet, Rc, GoTo, InCall,
      WithKey
<1> QED BY <1>1, <1>2, <1>3, <1>4, Midway
        DEF HandlerInv, CallTypes, Rc, GoTo, InCall, WithKey

LEMMA VerifyWithMbedtlsKeeps ==
    ASSUME HandlerInv, NEW v \in Verifiers,
           VerifyWithMbedtls(v) \/ UnmarshalQuote(v)
    PROVE  Keeps(v)
<1>1. /\ step[v] \in {"convert", "quote"}
      /\ CallOK(v) /\ response[v] # Nothing
  BY DEF HandlerInv, VerifyWithMbedtls, UnmarshalQuote, CallOK, Underway,
         InCall, WithKey
<1>2. /\ UNCHANGED <<OtherVars, stale, response, local, key, checks, before>>
      /\ \/ Rc(v, "ERROR") /\ GoTo(v, "cleanup")
         \/ \E rc \in {"SUCCESS", "ERROR"}, s \in {"quote", "nonce"} :
              Rc(v, rc) /\ GoTo(v, s)
  BY DEF VerifyWithMbedtls, UnmarshalQuote, FailedRc
<1>3. CallTypes'
  BY <1>2 DEF HandlerInv, CallTypes, Steps, InCall, WithKey, Codes, Rc, GoTo
<1>4. SetSoFar(v)' /\ CanEndWith(v)'
  BY <1>1, <1>2, OthersSame
  DEF HandlerInv, CallTypes, CallOK, SetSoFar, TurnedAway, CanEndWith,
      SignedByTrusted, NonceMatches, PcrsMatch, FirstSet, Rc, GoTo, InCall,
      WithKey
<1> QED BY <1>1, <1>2, <1>3, <1>4, Midway
        DEF HandlerInv, CallTypes, Rc, GoTo, InCall, WithKey

LEMMA CheckNonceKeeps ==
    ASSUME HandlerInv, NEW v \in Verifiers, CheckNonce(v)
    PROVE  Keeps(v)
<1>1. step[v] = "nonce" /\ CallOK(v) /\ response[v] # Nothing
  BY DEF HandlerInv, CheckNonce, CallOK, Underway, InCall, WithKey
<1>2. /\ UNCHANGED <<OtherVars, attestation_rc, stale, response, local, key,
                     before>>
      /\ GoTo(v, "pcrs")
      /\ checks' = [checks EXCEPT ![v] =
                      IF NonceMatches(v, response[v]) THEN @ \cup {"nonce"}
                      ELSE @]
  BY DEF CheckNonce, Set
<1>3. CallTypes'
  BY <1>2 DEF HandlerInv, CallTypes, Steps, InCall, WithKey, Check, GoTo
<1>4. SetSoFar(v)' /\ CanEndWith(v)'
  BY <1>1, <1>2, OthersSame
  DEF HandlerInv, CallTypes, CallOK, SetSoFar, TurnedAway, CanEndWith,
      SignedByTrusted, NonceMatches, PcrsMatch, FirstSet, GoTo, InCall, WithKey
<1> QED BY <1>1, <1>2, <1>3, <1>4, Midway
        DEF HandlerInv, CallTypes, GoTo, InCall, WithKey

LEMMA CheckPcrsKeeps ==
    ASSUME HandlerInv, NEW v \in Verifiers, CheckPcrs(v)
    PROVE  Keeps(v)
<1> DEFINE match == PcrsMatch(stale[v], response[v].digest)
<1>1. step[v] = "pcrs" /\ CallOK(v) /\ response[v] # Nothing
  BY DEF HandlerInv, CheckPcrs, CallOK, Underway, InCall, WithKey
<1>2. match \in BOOLEAN
  BY DEF PcrsMatch
<1>3. PICK b \in BOOLEAN, w \in BOOLEAN :
        /\ stale' = [stale EXCEPT ![v] = b]
        /\ checks' = [checks EXCEPT ![v] = IF w THEN @ \cup {"pcrs"} ELSE @]
        /\ w => match
  <2>1. CASE /\ Set(v, "pcrs", match)
             /\ \E b \in StaleAfter(match) : stale' = [stale EXCEPT ![v] = b]
    BY <1>2, <2>1 DEF Set, StaleAfter
  <2>2. CASE /\ Set(v, "pcrs", FALSE)
             /\ \E b \in BOOLEAN : stale' = [stale EXCEPT ![v] = b]
    BY <2>2 DEF Set
  <2> QED BY <2>1, <2>2 DEF CheckPcrs
<1>4. /\ UNCHANGED <<OtherVars, attestation_rc, response, local, key, before>>
      /\ GoTo(v, "verdict")
  BY DEF CheckPcrs
<1>5. CallTypes'
  BY <1>3, <1>4 DEF HandlerInv, CallTypes, Steps, InCall, WithKey, Check, GoTo
<1>6. SetSoFar(v)' /\ CanEndWith(v)'
  BY <1>1, <1>3, <1>4, OthersSame
  DEF HandlerInv, CallTypes, CallOK, SetSoFar, TurnedAway, CanEndWith,
      SignedByTrusted, NonceMatches, PcrsMatch, FirstSet, GoTo, InCall, WithKey
<1> QED BY <1>1, <1>3, <1>4, <1>5, <1>6, Midway
        DEF HandlerInv, CallTypes, GoTo, InCall, WithKey

LEMMA ConcludeKeeps ==
    ASSUME HandlerInv, NEW v \in Verifiers, Conclude(v)
    PROVE  Keeps(v)
<1>1. step[v] = "verdict" /\ CallOK(v) /\ response[v] # Nothing
  BY DEF HandlerInv, Conclude, CallOK, Underway, InCall, WithKey
<1>2. /\ UNCHANGED <<OtherVars, stale, response, local, key, checks, before>>
      /\ GoTo(v, "cleanup")
      /\ \/ /\ Rc(v, "SUCCESS")
            /\ {"signature", "nonce", "pcrs"} \subseteq checks[v]
         \/ Rc(v, "VERIFICATION_FAILED")
  BY DEF Conclude, Verdict
<1>3. CallTypes'
  BY <1>2 DEF HandlerInv, CallTypes, Steps, InCall, WithKey, Codes, Rc, GoTo
<1>4. SetSoFar(v)' /\ CanEndWith(v)'
  BY <1>1, <1>2, OthersSame
  DEF HandlerInv, CallTypes, CallOK, SetSoFar, TurnedAway, CanEndWith,
      SignedByTrusted, NonceMatches, PcrsMatch, FirstSet, Rc, GoTo, InCall,
      WithKey
<1> QED BY <1>1, <1>2, <1>3, <1>4, Midway
        DEF HandlerInv, CallTypes, Rc, GoTo, InCall, WithKey

\* A pass of the wait loop touches its own process and ends none of the others.
LEMMA PassTouchesOne ==
    ASSUME HandlerInv, NEW v \in Verifiers, pc[v] = "waiting",
           NEW t, NEW rc \in Codes, NEW p, EndOfPass(v, t, rc, p)
    PROVE  /\ attestation_rc' \in [Verifiers -> Codes]
           /\ attestation_rc'[v] = rc /\ pc'[v] \in {"waiting", "exited"}
           /\ \A u \in Verifiers : u # v =>
                /\ pc'[u] = pc[u] /\ elapsed'[u] = elapsed[u]
                /\ attestation_rc'[u] = attestation_rc[u]
           /\ \A u \in Verifiers : pc[u] \in {"exited", "crashed"}
                                     => pc'[u] \in {"exited", "crashed"}
BY DEF EndOfPass, HandlerInv, CallTypes, Proved!TypeOK

LEMMA CleanUpKeeps ==
    ASSUME HandlerInv, NEW v \in Verifiers, CleanUp(v)
    PROVE  Keeps(v)
<1>1. step[v] = "cleanup" /\ CallOK(v) /\ pc[v] = "waiting"
  BY DEF HandlerInv, CleanUp, CallOK, Underway, InCall, WithKey, InLoop
<1>2. PICK t \in IoTimes, p \in BOOLEAN : EndOfPass(v, t, attestation_rc[v], p)
  BY DEF CleanUp
<1>3. attestation_rc[v] \in Codes
  BY DEF HandlerInv, CallTypes
<1>4. /\ step' = [step EXCEPT ![v] = "idle"]
      /\ response' = [response EXCEPT ![v] = Nothing]
      /\ local' = [local EXCEPT ![v] = [x \in Locals |-> "indeterminate"]]
      /\ key' = [key EXCEPT ![v] = FALSE]
      /\ checks' = [checks EXCEPT ![v] = {}]
      /\ before' = [before EXCEPT ![v] = NoCall]
      /\ UNCHANGED <<last_request, stale, requests, quotes, errors>>
  BY DEF CleanUp, GoTo, Assign, networkVars
<1>5. CallTypes'
  <2>1. CallTypes
    BY DEF HandlerInv
  <2>2. attestation_rc' \in [Verifiers -> Codes]
    BY <1>1, <1>2, <1>3, PassTouchesOne
  <2>3. stale' \in [Verifiers -> BOOLEAN]
    BY <2>1, <1>4 DEF CallTypes
  <2>4. /\ step' \in [Verifiers -> Steps]
        /\ response' \in [Verifiers -> Quote \cup {Nothing}]
    BY <2>1, <1>4 DEF CallTypes, Steps
  <2>5. local' \in [Verifiers -> [Locals -> {"indeterminate", "initialized"}]]
    BY <2>1, <1>4 DEF CallTypes
  <2>6. /\ key' \in [Verifiers -> BOOLEAN]
        /\ checks' \in [Verifiers -> SUBSET Check]
    BY <2>1, <1>4 DEF CallTypes
  <2>7. before' \in [Verifiers -> [rc : Codes, stale : BOOLEAN]]
    BY <2>1, <1>4 DEF CallTypes, NoCall, Codes
  <2> QED
    BY <2>2, <2>3, <2>4, <2>5, <2>6, <2>7 DEF CallTypes
<1>6. \A u \in Verifiers : u # v => Untouched(u)
  BY <1>1, <1>2, <1>3, <1>4, PassTouchesOne DEF HandlerInv, CallTypes, Untouched
<1>7. Grows
  BY <1>1, <1>2, <1>3, <1>4, PassTouchesOne DEF Grows
<1>8. CallOK(v)'
  BY <1>1, <1>2, <1>3, <1>4, PassTouchesOne
  DEF HandlerInv, CallTypes, CallOK, Underway, Over, SetSoFar, CanEndWith,
      ContextsUnset, Locals, InCall, WithKey
<1> QED BY <1>5, <1>6, <1>7, <1>8 DEF Keeps

LEMMA CrashKeeps ==
    ASSUME HandlerInv, NEW v \in Verifiers, Crash(v)
    PROVE  Keeps(v)
<1>1. /\ step[v] = "cleanup" /\ CallOK(v) /\ pc[v] = "waiting"
      /\ \E x \in Locals : local[v][x] = "indeterminate"
  BY DEF HandlerInv, Crash, CallOK, Underway, InCall, WithKey, InLoop
<1>2. ContextsUnset(v) /\ key[v] = FALSE
  BY <1>1 DEF CallOK, Underway, SetSoFar, TurnedAway, Over, InCall, WithKey,
              HandlerInv, CallTypes
<1>3. /\ pc' = [pc EXCEPT ![v] = "crashed"]
      /\ step' = [step EXCEPT ![v] = "crashed"]
      /\ UNCHANGED <<response, local, key, checks, before, attestation_rc,
                     stale, elapsed, last_request, quotes, errors>>
  BY DEF Crash, Dies, GoTo, networkVars
<1>4. CallTypes'
  BY <1>3 DEF HandlerInv, CallTypes, Steps
<1>5. \A u \in Verifiers : u # v => Untouched(u)
  BY <1>3 DEF HandlerInv, CallTypes, Proved!TypeOK, Untouched
<1>6. Grows
  BY <1>3 DEF HandlerInv, Proved!TypeOK, Grows
<1>7. CallOK(v)'
  BY <1>2, <1>3 DEF HandlerInv, CallTypes, CallOK, Underway, Over, SetSoFar,
                    ContextsUnset, CanEndWith, InCall, WithKey
<1> QED BY <1>4, <1>5, <1>6, <1>7 DEF Keeps

LEMMA HandlerKeeps ==
    ASSUME HandlerInv, NEW v \in Verifiers, Handler(v)
    PROVE  Keeps(v)
BY ReadQuoteKeeps, QuoteUnreadableKeeps, ReadErrorKeeps, OpenTpmKeeps,
   LoadKeyKeeps, VerifySignatureKeeps, VerifyWithMbedtlsKeeps, CheckNonceKeeps,
   CheckPcrsKeeps, ConcludeKeeps, CleanUpKeeps, CrashKeeps DEF Handler

-----------------------------------------------------------------------------
(* The handler taken apart implements the handler in one step.              *)

\* What a process does outside the handler leaves the verdict's variables as
\* they are.
LEMMA OutsideSame ==
    ASSUME CallTypes, NEW v \in Verifiers, Outside(v)
    PROVE  UNCHANGED <<attestation_rc, stale>>
BY DEF Outside, Abort, Send, SendFails, Wait, GiveUp, IoError, EndOfPass,
       CallTypes

\* While these and the handler's variables stay, so does what is seen of them.
LEMMA SeenSame ==
    ASSUME UNCHANGED <<step, before, attestation_rc, stale>>
    PROVE  \A u \in Verifiers : SeenOutside(u)' = SeenOutside(u)
BY DEF SeenOutside

LEMMA OutsideMaps ==
    ASSUME HandlerInv, NEW v \in Verifiers, Outside(v), UNCHANGED handlerVars
    PROVE  Atomic!Next
<1>0. /\ UNCHANGED <<step, before, attestation_rc, stale>>
      /\ step[v] = "idle" /\ SeenOutside(v).rc = attestation_rc[v]
  BY OutsideSame DEF HandlerInv, Outside, handlerVars, SeenOutside
<1>1. \A u \in Verifiers : SeenOutside(u)' = SeenOutside(u)
  BY <1>0, SeenSame
<1> USE <1>1 DEF networkVars, Atomic!networkVars, platformVars,
                 Atomic!platformVars
<1>2. CASE Abort(v)
  <2>1. Atomic!Abort(v)
    BY <1>2 DEF Abort, Atomic!Abort, SetupFailures, Atomic!SetupFailures
  <2> QED BY <2>1 DEF Atomic!Next, Atomic!Verifier
<1>3. CASE Send(v)
  <2>1. Atomic!Send(v)
    BY <1>3 DEF Send, Atomic!Send, Drawn, Atomic!Drawn
  <2> QED BY <2>1 DEF Atomic!Next, Atomic!Verifier
<1>4. CASE SendFails(v)
  <2>1. Atomic!SendFails(v)
    BY <1>4 DEF SendFails, Atomic!SendFails, Drawn, Atomic!Drawn
  <2> QED BY <2>1 DEF Atomic!Next, Atomic!Verifier
<1>5. ASSUME NEW t, NEW p, EndOfPass(v, t, attestation_rc[v], p)
      PROVE  Atomic!EndOfPass(v, t, SeenOutside(v).rc, p)
  BY <1>0, <1>5 DEF EndOfPass, Atomic!EndOfPass, AddWait, Atomic!AddWait,
                    TimedOut, Atomic!TimedOut
<1>6. CASE Wait(v)
  <2>1. Atomic!Wait(v)
    BY <1>5, <1>6 DEF Wait, Atomic!Wait, InLoop, Atomic!InLoop
  <2> QED BY <2>1 DEF Atomic!Next, Atomic!Verifier
<1>7. CASE GiveUp(v)
  <2>1. Atomic!GiveUp(v)
    BY <1>5, <1>7 DEF GiveUp, Atomic!GiveUp
  <2> QED BY <2>1 DEF Atomic!Next, Atomic!Verifier
<1>8. CASE IoError(v)
  <2>1. Atomic!IoError(v)
    BY <1>8 DEF IoError, Atomic!IoError, InLoop, Atomic!InLoop
  <2> QED BY <2>1 DEF Atomic!Next, Atomic!Verifier
<1> QED BY <1>2, <1>3, <1>4, <1>6, <1>7, <1>8 DEF Outside

LEMMA EnvironmentMaps ==
    ASSUME Environment, UNCHANGED handlerVars
    PROVE  Atomic!Next
<1>0. UNCHANGED <<step, before, attestation_rc, stale>>
  BY DEF Environment, Answer, AnswerError, ChangePcrs, verifierVars,
         handlerVars
<1> USE <1>0, SeenSame DEF networkVars, Atomic!networkVars, platformVars,
        Atomic!platformVars, verifierVars, Atomic!verifierVars
<1>1. ASSUME NEW r \in requests, Answer(r) PROVE Atomic!Answer(r)
  BY <1>1 DEF Answer, Atomic!Answer
<1>2. ASSUME NEW r \in requests, AnswerError(r) PROVE Atomic!AnswerError(r)
  BY <1>2 DEF AnswerError, Atomic!AnswerError
<1>3. ASSUME NEW a \in Attesters, NEW d \in Digests, ChangePcrs(a, d)
      PROVE  Atomic!ChangePcrs(a, d)
  BY <1>3 DEF ChangePcrs, Atomic!ChangePcrs
<1> QED BY <1>1, <1>2, <1>3 DEF Environment, Atomic!Next

\* The clean-up is the moment at which the call is seen.
LEMMA CleanUpMaps ==
    ASSUME HandlerInv, NEW v \in Verifiers, CleanUp(v)
    PROVE  Atomic!Next
<1>1. /\ step[v] = "cleanup" /\ CallOK(v) /\ InLoop(v) /\ pc[v] = "waiting"
      /\ UNCHANGED <<stale, last_request, networkVars, platformVars>>
  BY DEF HandlerInv, CleanUp, CallOK, Underway, InCall, WithKey, InLoop
<1>2. PICK t \in IoTimes, p \in BOOLEAN : EndOfPass(v, t, attestation_rc[v], p)
  BY DEF CleanUp
<1>3. /\ step' = [step EXCEPT ![v] = "idle"]
      /\ before' = [before EXCEPT ![v] = NoCall]
      /\ attestation_rc' = [attestation_rc EXCEPT ![v] = attestation_rc[v]]
  BY <1>2 DEF CleanUp, GoTo, EndOfPass
<1>4. /\ \A u \in Verifiers : u # v => SeenOutside(u)' = SeenOutside(u)
      /\ SeenOutside(v)' = [rc |-> attestation_rc[v], stale |-> stale[v]]
      /\ SeenOutside(v) = before[v]
  BY <1>1, <1>3 DEF SeenOutside, HandlerInv, CallTypes
<1>5. Atomic!EndOfPass(v, t, attestation_rc[v], p)
  <2>1. [u \in Verifiers |-> SeenOutside(u).rc]'
          = [[u \in Verifiers |-> SeenOutside(u).rc]
                EXCEPT ![v] = attestation_rc[v]]
    <3>1. \A u \in Verifiers :
            SeenOutside(u)'.rc = IF u = v THEN attestation_rc[v]
                                 ELSE SeenOutside(u).rc
      BY <1>4
    <3> QED BY <3>1
  <2> QED BY <1>2, <2>1 DEF EndOfPass, Atomic!EndOfPass, AddWait,
                            Atomic!AddWait, TimedOut, Atomic!TimedOut
<1>6. Atomic!InLoop(v)
  BY <1>1 DEF InLoop, Atomic!InLoop
<1>7. UNCHANGED <<last_request, Atomic!networkVars, Atomic!platformVars>>
  BY <1>1 DEF networkVars, platformVars, Atomic!networkVars,
              Atomic!platformVars
<1>8. CASE response[v] = Nothing
  <2>1. /\ attestation_rc[v] = "ERROR" /\ stale[v] = before[v].stale
        /\ \E u \in errors : Reaches(u, v)
    BY <1>1, <1>8 DEF CallOK, Underway, InCall, WithKey
  <2>2. UNCHANGED [u \in Verifiers |-> SeenOutside(u).stale]
    BY <1>4, <2>1
  <2>3. Atomic!ReceiveError(v)
    BY <1>5, <1>6, <1>7, <2>1, <2>2
    DEF Atomic!ReceiveError, Reaches, Atomic!Reaches
  <2> QED BY <2>3 DEF Atomic!Next, Atomic!Verifier
<1>9. CASE response[v] # Nothing
  <2> DEFINE m == response[v]
             o == [rc |-> attestation_rc[v], stale |-> stale[v]]
  <2>1. m \in quotes /\ Reaches(m.to, v)
    BY <1>1, <1>9 DEF CallOK, Underway, InCall, WithKey
  <2>2. o \in Atomic!Outcomes(v, m)
    <3>1. stale[v] \in BOOLEAN
      BY DEF HandlerInv, CallTypes
    <3>2. CASE attestation_rc[v] = "ERROR" /\ stale[v] = before[v].stale
      BY <1>4, <3>2 DEF Atomic!Outcomes, Atomic!CannotAppraise
    <3>3. CASE attestation_rc[v] = "VERIFICATION_FAILED"
      BY <3>1, <3>3 DEF Atomic!Outcomes, Atomic!ReferenceUnreadable
    <3>4. CASE /\ attestation_rc[v] = "SUCCESS"
               /\ SignedByTrusted(response[v]) /\ NonceMatches(v, response[v])
               /\ PcrsMatch(before[v].stale, response[v].digest)
      <4>1. /\ Atomic!SignedByTrusted(m) /\ Atomic!NonceMatches(v, m)
            /\ Atomic!PcrsMatch(SeenOutside(v).stale, m.digest)
        BY <1>4, <3>4
        DEF SignedByTrusted, NonceMatches, PcrsMatch, FirstSet,
            Atomic!SignedByTrusted, Atomic!NonceMatches, Atomic!PcrsMatch,
            Atomic!FirstSet
      <4>2. Atomic!Appraise(v, m) = "SUCCESS"
        BY <4>1 DEF Atomic!Appraise, Atomic!Verdict
      <4>3. Atomic!PcrsMatch(SeenOutside(v).stale, m.digest) = TRUE
        BY <4>1 DEF Atomic!PcrsMatch
      <4> QED BY <3>1, <3>4, <4>2, <4>3 DEF Atomic!Outcomes, Atomic!StaleAfter
    <3> QED BY <1>1, <1>9, <3>2, <3>3, <3>4 DEF CallOK, CanEndWith
  <2>3. [u \in Verifiers |-> SeenOutside(u).stale]'
          = [[u \in Verifiers |-> SeenOutside(u).stale] EXCEPT ![v] = o.stale]
    BY <1>4
  <2>4. Atomic!Receive(v, m)
    <3>1. o.rc = attestation_rc[v]
      OBVIOUS
    <3> HIDE DEF o
    <3> QED BY <1>5, <1>6, <1>7, <2>1, <2>2, <2>3, <3>1
            DEF Atomic!Receive, Reaches, Atomic!Reaches
  <2> QED BY <2>1, <2>4 DEF Atomic!Next, Atomic!Verifier
<1> QED BY <1>8, <1>9

\* A crash is one; the other steps of a call are not seen.
LEMMA HandlerMaps ==
    ASSUME HandlerInv, NEW v \in Verifiers, Handler(v)
    PROVE  [Atomic!Next]_(Atomic!vars)
<1>1. CASE CleanUp(v)
  BY <1>1, CleanUpMaps
<1>2. CASE Crash(v)
  <2>1. /\ step[v] = "cleanup" /\ CallOK(v) /\ InLoop(v)
        /\ \E x \in Locals : local[v][x] = "indeterminate"
    BY <1>2 DEF HandlerInv, Crash, CallOK, Underway, InCall, WithKey
  <2>2. Atomic!InLoop(v)
    BY <2>1 DEF InLoop, Atomic!InLoop
  <2>3. \A u \in Verifiers : SeenOutside(u)' = SeenOutside(u)
    BY <1>2, <2>1 DEF Crash, Dies, GoTo, SeenOutside, HandlerInv, CallTypes
  <2>4. Atomic!Dies(v)
    BY <1>2, <2>3
    DEF Crash, Dies, Atomic!Dies, networkVars, Atomic!networkVars,
        platformVars, Atomic!platformVars
  <2>5. CASE response[v] = Nothing
    <3>1. \E u \in errors : Reaches(u, v)
      BY <2>1, <2>5 DEF CallOK, Underway, InCall, WithKey
    <3>2. Atomic!ReceiveErrorCrash(v)
      BY <2>2, <2>4, <3>1 DEF Atomic!ReceiveErrorCrash, Reaches, Atomic!Reaches
    <3> QED BY <3>2 DEF Atomic!Next, Atomic!Verifier
  <2>6. CASE response[v] # Nothing
    <3>1. response[v] \in quotes /\ Reaches(response[v].to, v)
      BY <2>1, <2>6 DEF CallOK, Underway, InCall, WithKey
    <3>2. Atomic!ReceiveCrash(v, response[v])
      BY <2>2, <2>4, <3>1 DEF Atomic!ReceiveCrash, Reaches, Atomic!Reaches
    <3> QED BY <3>1, <3>2 DEF Atomic!Next, Atomic!Verifier
  <2> QED BY <2>5, <2>6
<1>3. CASE ~CleanUp(v) /\ ~Crash(v)
  <2>1. UNCHANGED OtherVars
    BY <1>3 DEF Handler, ReadQuote, QuoteUnreadable, ReadError, Called,
                OpenTpm, LoadKey,
                VerifySignature, VerifyWithMbedtls, UnmarshalQuote,
                CheckNonce, CheckPcrs, Conclude
  <2>2. SeenOutside(v)' = SeenOutside(v)
    <3>1. CASE step[v] = "idle"
      BY <1>3, <3>1
      DEF Handler, ReadQuote, QuoteUnreadable, ReadError, Called, OpenTpm,
          LoadKey, VerifySignature, VerifyWithMbedtls, UnmarshalQuote,
          CheckNonce, CheckPcrs, Conclude, GoTo, SeenOutside, HandlerInv,
          CallTypes
    <3>2. CASE step[v] # "idle"
      BY <1>3, <3>2
      DEF Handler, ReadQuote, QuoteUnreadable, ReadError, Called, OpenTpm,
          LoadKey, VerifySignature, VerifyWithMbedtls, UnmarshalQuote,
          CheckNonce, CheckPcrs, Conclude, GoTo, SeenOutside, HandlerInv,
          CallTypes
    <3> QED BY <3>1, <3>2
  <2>3. \A u \in Verifiers : u # v => SeenOutside(u)' = SeenOutside(u)
    BY HandlerKeeps DEF Keeps, Untouched, SeenOutside
  <2> QED BY <2>1, <2>2, <2>3
          DEF OtherVars, networkVars, platformVars, Atomic!vars,
              Atomic!verifierVars, Atomic!networkVars, Atomic!platformVars
<1> QED BY <1>1, <1>2, <1>3

-----------------------------------------------------------------------------
(* Everything keeps the invariant.                                          *)

LEMMA OutsideKeeps ==
    ASSUME HandlerInv, NEW v \in Verifiers, Outside(v), UNCHANGED handlerVars
    PROVE  CallTypes' /\ \A u \in Verifiers : CallOK(u)'
<1>1. /\ UNCHANGED <<step, response, local, key, checks, before>>
      /\ UNCHANGED <<attestation_rc, stale>> /\ step[v] = "idle"
  BY OutsideSame DEF HandlerInv, Outside, handlerVars
<1>2. CallTypes'
  BY <1>1 DEF HandlerInv, CallTypes
<1>3. /\ pc'[v] \in {"waiting", "exited"} /\ pc[v] \in {"start", "waiting"}
      /\ \A u \in Verifiers : u # v => /\ pc'[u] = pc[u]
                                       /\ elapsed'[u] = elapsed[u]
                                       /\ last_request'[u] = last_request[u]
      /\ UNCHANGED <<quotes, errors>>
  BY DEF HandlerInv, Proved!TypeOK, Outside, Abort, Send, SendFails, Wait,
         GiveUp, IoError, EndOfPass, InLoop, networkVars
<1>4. Grows
  BY <1>3 DEF Grows
<1>5. ASSUME NEW u \in Verifiers, u # v PROVE CallOK(u)'
  BY <1>1, <1>3, <1>4, <1>5, UntouchedOK DEF Untouched
<1>6. CallOK(v)'
  BY <1>1, <1>3 DEF HandlerInv, CallOK, Underway, Over, ContextsUnset,
                    SetSoFar, CanEndWith,
                    InCall, WithKey
<1> QED BY <1>2, <1>5, <1>6

LEMMA EnvironmentKeeps ==
    ASSUME HandlerInv, Environment, UNCHANGED handlerVars
    PROVE  CallTypes' /\ \A u \in Verifiers : CallOK(u)'
<1>1. UNCHANGED <<step, response, local, key, checks, before, verifierVars>>
  BY DEF Environment, Answer, AnswerError, ChangePcrs, handlerVars
<1>2. quotes \subseteq quotes' /\ errors \subseteq errors'
  BY DEF Environment, Answer, AnswerError, ChangePcrs, networkVars
<1>3. Grows /\ \A u \in Verifiers : Untouched(u)
  BY <1>1, <1>2 DEF Grows, Untouched, verifierVars
<1> QED BY <1>1, <1>3, UntouchedOK DEF HandlerInv, CallTypes, verifierVars

\* The instance by which the handler is refined and the one the theorems come
\* with are the same.
LEMMA SameSpecification ==
    /\ Atomic!Init => Proved!Init
    /\ [Atomic!Next]_(Atomic!vars) => [Proved!Next]_(Proved!vars)
<1>1. Atomic!Init => Proved!Init
  BY DEF Atomic!Init, Proved!Init
<1>2. UNCHANGED Atomic!vars => UNCHANGED Proved!vars
  BY DEF Atomic!vars, Proved!vars, Atomic!verifierVars, Proved!verifierVars,
         Atomic!networkVars, Proved!networkVars, Atomic!platformVars,
         Proved!platformVars
<1>3. \A v, t, rc, p :
        Atomic!EndOfPass(v, t, rc, p) <=> Proved!EndOfPass(v, t, rc, p)
  BY DEF Atomic!EndOfPass, Proved!EndOfPass, Atomic!AddWait, Proved!AddWait,
         Atomic!TimedOut, Proved!TimedOut
<1>4. \A v \in Verifiers, m \in quotes :
        Atomic!Outcomes(v, m) = Proved!Outcomes(v, m)
  BY DEF Atomic!Outcomes, Proved!Outcomes, Atomic!CannotAppraise,
         Proved!CannotAppraise, Atomic!ReferenceUnreadable,
         Proved!ReferenceUnreadable, Atomic!Appraise, Proved!Appraise,
         Atomic!SignedByTrusted, Proved!SignedByTrusted, Atomic!Verdict,
         Proved!Verdict, Atomic!NonceMatches, Proved!NonceMatches,
         Atomic!PcrsMatch, Proved!PcrsMatch, Atomic!FirstSet, Proved!FirstSet,
         Atomic!StaleAfter, Proved!StaleAfter
<1>5. Atomic!Next => Proved!Next
  <2> USE <1>3, <1>4
      DEF Atomic!networkVars, Proved!networkVars, Atomic!platformVars,
          Proved!platformVars, Atomic!verifierVars, Proved!verifierVars,
          Atomic!InLoop, Proved!InLoop, Atomic!Reaches, Proved!Reaches
  <2>1. \A v \in Verifiers :
          /\ Atomic!Abort(v) => Proved!Abort(v)
          /\ Atomic!Send(v) => Proved!Send(v)
          /\ Atomic!SendFails(v) => Proved!SendFails(v)
    BY DEF Atomic!Abort, Proved!Abort, Atomic!SetupFailures,
           Proved!SetupFailures, Atomic!Send, Proved!Send, Atomic!SendFails,
           Proved!SendFails, Atomic!Drawn, Proved!Drawn
  <2>2. \A v \in Verifiers :
          /\ Atomic!Wait(v) => Proved!Wait(v)
          /\ Atomic!GiveUp(v) => Proved!GiveUp(v)
          /\ Atomic!IoError(v) => Proved!IoError(v)
    BY DEF Atomic!Wait, Proved!Wait, Atomic!GiveUp, Proved!GiveUp,
           Atomic!IoError, Proved!IoError
  <2>3. \A v \in Verifiers, m \in quotes :
          /\ Atomic!Receive(v, m) => Proved!Receive(v, m)
          /\ Atomic!ReceiveCrash(v, m) => Proved!ReceiveCrash(v, m)
    BY DEF Atomic!Receive, Proved!Receive, Atomic!ReceiveCrash,
           Proved!ReceiveCrash, Atomic!Dies, Proved!Dies
  <2>4. \A v \in Verifiers :
          /\ Atomic!ReceiveError(v) => Proved!ReceiveError(v)
          /\ Atomic!ReceiveErrorCrash(v) => Proved!ReceiveErrorCrash(v)
    BY DEF Atomic!ReceiveError, Proved!ReceiveError, Atomic!ReceiveErrorCrash,
           Proved!ReceiveErrorCrash, Atomic!Dies, Proved!Dies
  <2>5. \A v \in Verifiers : Atomic!Verifier(v) => Proved!Verifier(v)
    BY <2>1, <2>2, <2>3, <2>4 DEF Atomic!Verifier, Proved!Verifier
  <2> QED BY <2>5 DEF Atomic!Next, Proved!Next, Atomic!Answer, Proved!Answer,
                 Atomic!AnswerError, Proved!AnswerError, Atomic!ChangePcrs,
                 Proved!ChangePcrs
<1> QED BY <1>1, <1>2, <1>5

LEMMA CallStep ==
    ASSUME HandlerInv, [HandlerNext]_allVars
    PROVE  /\ CallTypes' /\ \A u \in Verifiers : CallOK(u)'
           /\ [Atomic!Next]_(Atomic!vars)
<1>1. ASSUME NEW v \in Verifiers, Handler(v)
      PROVE  /\ CallTypes' /\ \A u \in Verifiers : CallOK(u)'
             /\ [Atomic!Next]_(Atomic!vars)
  <2>1. Keeps(v)
    BY <1>1, HandlerKeeps
  <2>2. ASSUME NEW u \in Verifiers PROVE CallOK(u)'
    BY <2>1, UntouchedOK DEF Keeps
  <2> QED BY <1>1, <2>1, <2>2, HandlerMaps DEF Keeps
<1>2. ASSUME NEW v \in Verifiers, Outside(v), UNCHANGED handlerVars
      PROVE  /\ CallTypes' /\ \A u \in Verifiers : CallOK(u)'
             /\ [Atomic!Next]_(Atomic!vars)
  BY <1>2, OutsideKeeps, OutsideMaps
<1>3. CASE Environment /\ UNCHANGED handlerVars
  BY <1>3, EnvironmentKeeps, EnvironmentMaps
<1>4. CASE UNCHANGED allVars
  <2>1. /\ UNCHANGED <<step, response, local, key, checks, before>>
        /\ UNCHANGED <<verifierVars, networkVars, platformVars>>
    BY <1>4 DEF allVars, vars, handlerVars
  <2>2. Grows /\ \A u \in Verifiers : Untouched(u)
    BY <2>1 DEF Grows, Untouched, verifierVars, networkVars
  <2>3. \A u \in Verifiers : CallOK(u)'
    BY <2>2, UntouchedOK
  <2>4. CallTypes'
    BY <2>1 DEF HandlerInv, CallTypes, verifierVars
  <2>5. UNCHANGED Atomic!vars
    BY <2>1, SeenSame
    DEF Atomic!vars, Atomic!verifierVars, Atomic!networkVars,
        Atomic!platformVars, verifierVars, networkVars, platformVars
  <2> QED BY <2>3, <2>4, <2>5
<1> QED BY <1>1, <1>2, <1>3, <1>4 DEF HandlerNext

LEMMA HandlerStep ==
    HandlerInv /\ [HandlerNext]_allVars
      => HandlerInv' /\ [Atomic!Next]_(Atomic!vars)
<1> SUFFICES ASSUME HandlerInv, [HandlerNext]_allVars
             PROVE  HandlerInv' /\ [Atomic!Next]_(Atomic!vars)
  OBVIOUS
<1>1. Proved!TypeOK /\ [Proved!Next]_(Proved!vars) => Proved!TypeOK'
  BY Proved!TypeStep, TrustedAssumption, DestinationAssumption,
     NoNonceAssumption, ReferenceAssumption, TimeAssumption
<1>2. Proved!TypeOK'
  BY <1>1, CallStep, SameSpecification DEF HandlerInv
<1> QED BY <1>2, CallStep DEF HandlerInv

LEMMA HandlerStart == HandlerInit => HandlerInv /\ Atomic!Init
<1> SUFFICES ASSUME HandlerInit PROVE HandlerInv /\ Atomic!Init
  OBVIOUS
<1>1. Atomic!Init
  BY DEF HandlerInit, Init, Atomic!Init, SeenOutside
<1>2. CallTypes
  BY DEF HandlerInit, Init, CallTypes, NoCall, Codes, Steps
<1>3. \A v \in Verifiers : CallOK(v)
  BY DEF HandlerInit, Init, CallOK, Underway, Over, SetSoFar, CanEndWith,
         ContextsUnset, Locals, InCall, WithKey
<1>4. Proved!TypeOK
  <2>1. /\ [v \in Verifiers |-> SeenOutside(v).rc]
             \in [Verifiers -> {"SUCCESS", "ERROR", "VERIFICATION_FAILED"}]
        /\ [v \in Verifiers |-> SeenOutside(v).stale]
             \in [Verifiers -> BOOLEAN]
    BY DEF HandlerInit, Init, SeenOutside
  <2>2. 0 \in 0 .. WaitModulus - 1
    BY TimeAssumption
  <2> QED BY <2>1, <2>2
          DEF HandlerInit, Init, Proved!TypeOK, Proved!CHARRA_RC
<1> QED BY <1>1, <1>2, <1>3, <1>4 DEF HandlerInv

\* A verifier that overwrites attestation_rc a dozen times while PCRs change
\* and quotes arrive, and jumps to the clean-up from any of its steps,
\* implements one that handles a response in one go: what is proved of
\* Attestation holds of it.
THEOREM HandlerImplementsAttestation == HandlerSpec => ImplementsAttestation
BY HandlerStart, HandlerStep, PTL
DEF HandlerSpec, ImplementsAttestation, Atomic!Spec

\* A positive verdict has its witness also when the PCRs change, quotes arrive
\* and other processes run between two checks of one response.
THEOREM HandlerWitness == HandlerSpec => []PositiveIsWitnessed
<1>1. Proved!Spec => []Proved!PositiveIsWitnessed
  BY Proved!PositiveIsWitnessedAlways, TrustedAssumption,
     DestinationAssumption, NoNonceAssumption, ReferenceAssumption,
     TimeAssumption, PTL
<1>2. Proved!PositiveIsWitnessed => PositiveIsWitnessed
  BY DEF Proved!PositiveIsWitnessed, PositiveIsWitnessed,
         Proved!ReferenceDigests, ReferenceDigests
<1>3. Atomic!Spec => Proved!Spec
  BY SameSpecification, PTL DEF Atomic!Spec, Proved!Spec
<1> QED BY <1>1, <1>2, <1>3, HandlerImplementsAttestation, PTL
        DEF ImplementsAttestation

-----------------------------------------------------------------------------
(* Within a call.                                                           *)

\* No path through the handler ends with SUCCESS but the one on which all three
\* checks have set their result, for this response and this process's nonce.
THEOREM NoEarlySuccessAlways == HandlerSpec => []NoEarlySuccess
<1>1. HandlerInv => NoEarlySuccess
  <2> SUFFICES ASSUME HandlerInv, NEW v \in Verifiers, step[v] = "cleanup",
                      attestation_rc[v] = "SUCCESS"
               PROVE  /\ response[v] # Nothing
                      /\ SignedByTrusted(response[v])
                      /\ NonceMatches(v, response[v])
                      /\ \E i \in 1 .. Len(ReferenceSets) :
                            ReferenceSets[i] = response[v].digest
    BY DEF NoEarlySuccess
  <2>1. response[v] # Nothing
    BY DEF HandlerInv, CallOK, Underway, InCall, WithKey
  <2>2. /\ SignedByTrusted(response[v]) /\ NonceMatches(v, response[v])
        /\ PcrsMatch(before[v].stale, response[v].digest)
    BY <2>1 DEF HandlerInv, CallOK, CanEndWith
  <2>3. \E i \in 1 .. Len(ReferenceSets) :
           ReferenceSets[i] = response[v].digest
    BY <2>2, ReferenceAssumption DEF PcrsMatch, FirstSet
  <2> QED BY <2>1, <2>2, <2>3
<1> QED BY <1>1, HandlerStart, HandlerStep, PTL DEF HandlerSpec

\* A process that dies of what it has received has turned it away before its
\* TPM was opened: no later error finds a local of the clean-up unset, and the
\* process leaves no key and no connection behind.
THEOREM DiesBeforeTpmAlways == HandlerSpec => []DiesBeforeTpm
<1>1. HandlerInv => DiesBeforeTpm
  BY DEF HandlerInv, CallTypes, CallOK, Over, WithKey, ContextsUnset,
         DiesBeforeTpm
<1> QED BY <1>1, HandlerStart, HandlerStep, PTL DEF HandlerSpec

-----------------------------------------------------------------------------
(* The keys in the TPMs.                                                    *)

\* The processes that hold a key in TPM p.
Holders(p) == {v \in Verifiers : key[v] /\ TpmOf[v] = p}

KeysInv ==
    /\ loaded \in [Tpms -> 0 .. TpmSlots] /\ refused \in [Tpms -> Nat]
    /\ \A p \in Tpms : IsFiniteSet(Holders(p))
    /\ \A p \in Tpms : loaded[p] = refused[p] + Cardinality(Holders(p))

LEMMA KeysStep ==
    HandlerInv /\ KeysInv /\ [HandlerNext]_allVars => KeysInv'
<1> SUFFICES ASSUME HandlerInv, KeysInv, [HandlerNext]_allVars PROVE KeysInv'
  OBVIOUS
<1>0. \A p \in Tpms : Cardinality(Holders(p)) \in Nat
  BY FS_CardinalityType DEF KeysInv
<1>1. ASSUME UNCHANGED <<key, loaded, refused>> PROVE KeysInv'
  <2>1. \A p \in Tpms : Holders(p)' = Holders(p)
    BY <1>1 DEF Holders
  <2> QED BY <1>1, <2>1 DEF KeysInv
<1>2. ASSUME NEW v \in Verifiers, LoadKey(v) PROVE KeysInv'
  <2> DEFINE q == TpmOf[v]
  <2>1. q \in Tpms /\ key \in [Verifiers -> BOOLEAN] /\ key[v] = FALSE
    BY <1>2, TpmAssumption
    DEF HandlerInv, CallTypes, CallOK, Over, LoadKey, WithKey
  <2>2. CASE /\ loaded[q] < TpmSlots
             /\ loaded' = [loaded EXCEPT ![q] = @ + 1]
             /\ key' = [key EXCEPT ![v] = TRUE] /\ UNCHANGED refused
    <3>1. \A p \in Tpms : p # q => Holders(p)' = Holders(p)
      BY <2>1, <2>2 DEF Holders
    <3>2. Holders(q)' = Holders(q) \cup {v} /\ v \notin Holders(q)
      BY <2>1, <2>2 DEF Holders
    <3>3. /\ IsFiniteSet(Holders(q)')
          /\ Cardinality(Holders(q)') = Cardinality(Holders(q)) + 1
      BY <2>1, <3>2, FS_AddElement DEF KeysInv
    <3>4. loaded' \in [Tpms -> 0 .. TpmSlots]
      BY <2>1, <2>2, TpmAssumption DEF KeysInv
    <3>5. ASSUME NEW p \in Tpms
          PROVE  /\ IsFiniteSet(Holders(p)')
                 /\ loaded'[p] = refused'[p] + Cardinality(Holders(p)')
      <4>1. CASE p = q
        BY <1>0, <2>1, <2>2, <3>3, <4>1, TpmAssumption DEF KeysInv
      <4>2. CASE p # q
        BY <2>1, <2>2, <3>1, <4>2 DEF KeysInv
      <4> QED BY <4>1, <4>2
    <3> QED BY <2>2, <3>4, <3>5 DEF KeysInv
  <2>3. CASE UNCHANGED <<key, loaded, refused>>
    BY <1>1, <2>3
  <2> QED BY <1>2, <2>2, <2>3 DEF LoadKey
<1>3. ASSUME NEW v \in Verifiers, CleanUp(v) PROVE KeysInv'
  <2> DEFINE q == TpmOf[v]
  <2>1. /\ q \in Tpms /\ key \in [Verifiers -> BOOLEAN]
        /\ key' = [key EXCEPT ![v] = FALSE]
    BY <1>3, TpmAssumption DEF HandlerInv, CallTypes, CleanUp
  <2>2. \A p \in Tpms : p # q => Holders(p)' = Holders(p)
    BY <2>1 DEF Holders
  <2>3. CASE ~key[v]
    <3>1. key' = key
      BY <2>1, <2>3
    <3>2. loaded' = [loaded EXCEPT ![q] = loaded[q]] /\ UNCHANGED refused
      BY <1>3, <2>3 DEF CleanUp, Flushed
    <3>3. loaded' = loaded
      BY <3>2 DEF KeysInv
    <3> QED BY <1>1, <3>1, <3>2, <3>3
  <2>4. CASE key[v]
    <3>1. Holders(q)' = Holders(q) \ {v} /\ v \in Holders(q)
      BY <2>1, <2>4 DEF Holders
    <3>2. /\ IsFiniteSet(Holders(q)')
          /\ Cardinality(Holders(q)') = Cardinality(Holders(q)) - 1
      BY <2>1, <3>1, FS_RemoveElement DEF KeysInv
    <3>3. Cardinality(Holders(q)') \in Nat
      BY <3>2, FS_CardinalityType
    <3>4. /\ loaded[q] \in 0 .. TpmSlots /\ refused[q] \in Nat
          /\ loaded[q] = refused[q] + Cardinality(Holders(q))
          /\ Cardinality(Holders(q)) \in Nat /\ TpmSlots \in Nat
      BY <1>0, <2>1, TpmAssumption DEF KeysInv
    <3>5. \/ loaded' = [loaded EXCEPT ![q] = @ - 1] /\ UNCHANGED refused
          \/ refused' = [refused EXCEPT ![q] = @ + 1] /\ UNCHANGED loaded
      BY <1>3, <2>4 DEF CleanUp, Flushed
    <3>6. /\ loaded' \in [Tpms -> 0 .. TpmSlots] /\ refused' \in [Tpms -> Nat]
          /\ loaded'[q] = refused'[q] + Cardinality(Holders(q)')
          /\ \A p \in Tpms : p # q => /\ loaded'[p] = loaded[p]
                                      /\ refused'[p] = refused[p]
      BY <2>1, <3>2, <3>3, <3>4, <3>5 DEF KeysInv
    <3> QED BY <2>2, <3>2, <3>6 DEF KeysInv
  <2> QED BY <2>3, <2>4
<1>4. CASE ~\E v \in Verifiers : LoadKey(v) \/ CleanUp(v)
  <2>1. UNCHANGED <<key, loaded, refused>>
    BY <1>4 DEF HandlerNext, Handler, ReadQuote, QuoteUnreadable, ReadError,
                Called, OpenTpm,
                VerifySignature, VerifyWithMbedtls, UnmarshalQuote,
                CheckNonce, CheckPcrs, Conclude, Crash, allVars, handlerVars
  <2> QED BY <1>1, <2>1
<1> QED BY <1>2, <1>3, <1>4

LEMMA KeysStart == HandlerInit => KeysInv
<1> SUFFICES ASSUME HandlerInit PROVE KeysInv
  OBVIOUS
<1>1. \A p \in Tpms : Holders(p) = {}
  BY DEF HandlerInit, Holders
<1>2. \A p \in Tpms : IsFiniteSet(Holders(p)) /\ Cardinality(Holders(p)) = 0
  BY <1>1, FS_EmptySet
<1>3. loaded \in [Tpms -> 0 .. TpmSlots] /\ refused \in [Tpms -> Nat]
  BY TpmAssumption DEF HandlerInit
<1>4. \A p \in Tpms : loaded[p] = 0 /\ refused[p] = 0
  BY DEF HandlerInit
<1> QED BY <1>2, <1>3, <1>4 DEF KeysInv

\* However many processes share a TPM, and wherever each of them fails: a public
\* key stays in it only while a call that loaded it is under way, or because
\* the TPM has refused to flush it.
THEOREM KeysAccountedAlways == HandlerSpec => []KeysAccounted
<1>1. KeysInv => KeysAccounted
  BY DEF KeysInv, KeysAccounted, Holders
<1> QED BY <1>1, HandlerStart, HandlerStep, KeysStart, KeysStep, PTL
        DEF HandlerSpec

\* Every variable keeps its type on every path: in particular no TPM is ever
\* overdrawn, and none is told to flush a key it does not hold.
THEOREM HandlerTypeCorrect == HandlerSpec => []HandlerTypeOK
<1>1. HandlerInv /\ KeysInv => HandlerTypeOK
  <2> SUFFICES ASSUME HandlerInv, KeysInv PROVE HandlerTypeOK
    OBVIOUS
  <2>1. TypeOK
    BY DEF HandlerInv, CallTypes, Codes, Proved!TypeOK, TypeOK,
           Proved!Request, Request, Proved!Quote, Quote, Proved!CHARRA_RC,
           CHARRA_RC
  <2> QED BY <2>1 DEF HandlerInv, CallTypes, KeysInv, HandlerTypeOK, Steps,
                      InCall, WithKey, Codes
<1> QED BY <1>1, HandlerStart, HandlerStep, KeysStart, KeysStep, PTL
        DEF HandlerSpec

=============================================================================
