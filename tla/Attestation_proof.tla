------------------------- MODULE Attestation_proof -------------------------
(* Proofs about Attestation, for any set of processes, platforms, nonces,   *)
(* digests and reference sets, and any clock.                               *)
EXTENDS Attestation, TLAPS

\* A pass of the wait loop keeps the types.
LEMMA EndOfPassType ==
    ASSUME TypeOK, NEW v \in Verifiers, NEW t \in Nat, NEW p \in BOOLEAN,
           NEW rc \in {"SUCCESS", "ERROR", "VERIFICATION_FAILED"},
           EndOfPass(v, t, rc, p)
    PROVE  /\ pc' \in [Verifiers -> {"start", "waiting", "exited", "crashed"}]
           /\ result' \in [Verifiers -> CHARRA_RC \cup {"none"}]
           /\ attestation_rc' \in
                 [Verifiers -> {"SUCCESS", "ERROR", "VERIFICATION_FAILED"}]
           /\ response_wait_time' \in [Verifiers -> 0 .. WaitModulus - 1]
           /\ elapsed' \in [Verifiers -> Nat]
<1>1. AddWait(response_wait_time[v], t) \in 0 .. WaitModulus - 1
  BY TimeAssumption DEF AddWait, TypeOK
<1>2. rc \in CHARRA_RC /\ "TIMEOUT" \in CHARRA_RC
  BY DEF CHARRA_RC
<1>3. pc' \in [Verifiers -> {"start", "waiting", "exited", "crashed"}]
  BY DEF EndOfPass, TypeOK
<1>4. result' \in [Verifiers -> CHARRA_RC \cup {"none"}]
  BY <1>2 DEF EndOfPass, TypeOK
<1>5. attestation_rc' \in
         [Verifiers -> {"SUCCESS", "ERROR", "VERIFICATION_FAILED"}]
  BY DEF EndOfPass, TypeOK
<1>6. response_wait_time' \in [Verifiers -> 0 .. WaitModulus - 1]
  BY <1>1 DEF EndOfPass, TypeOK
<1>7. elapsed' \in [Verifiers -> Nat]
  BY DEF EndOfPass, TypeOK
<1> QED BY <1>3, <1>4, <1>5, <1>6, <1>7

\* What the handler leaves is one of three codes and a flag.
LEMMA OutcomesType ==
    ASSUME TypeOK, NEW v \in Verifiers, NEW m \in quotes, NEW o \in Outcomes(v, m)
    PROVE  /\ o.rc \in {"SUCCESS", "ERROR", "VERIFICATION_FAILED"}
           /\ o.stale \in BOOLEAN
<1>1. CASE o = [rc |-> "ERROR", stale |-> stale[v]]
  BY <1>1 DEF TypeOK
<1>2. CASE o \in [rc: {"VERIFICATION_FAILED"}, stale: BOOLEAN]
  BY <1>2
<1>3. CASE o \in [rc: {Appraise(v, m)},
                  stale: StaleAfter(PcrsMatch(stale[v], m.digest))]
  BY <1>3 DEF Appraise, StaleAfter
<1> QED BY <1>1, <1>2, <1>3 DEF Outcomes, CannotAppraise, ReferenceUnreadable

\* Every step keeps the types.
LEMMA TypeStep == TypeOK /\ [Next]_vars => TypeOK'
<1> SUFFICES ASSUME TypeOK, [Next]_vars PROVE TypeOK'
  OBVIOUS
<1>0. {"SUCCESS", "ERROR", "VERIFICATION_FAILED"} \subseteq CHARRA_RC
      /\ "COAP_ERROR" \in CHARRA_RC
  BY DEF CHARRA_RC
<1>1. ASSUME NEW v \in Verifiers, Abort(v) PROVE TypeOK'
  BY <1>0, <1>1 DEF Abort, SetupFailures, TypeOK, networkVars, platformVars
<1>2. ASSUME NEW v \in Verifiers, Send(v) PROVE TypeOK'
  <2>1. PICK n \in Nonces :
          /\ last_request' = [last_request EXCEPT ![v] = n]
          /\ requests' = requests \cup {[from |-> v, nonce |-> n]}
    BY <1>2 DEF Send
  <2>2. last_request' \in [Verifiers -> Nonces \cup {NoNonce}]
    BY <2>1 DEF TypeOK
  <2>3. requests' \subseteq Request
    BY <2>1 DEF TypeOK, Request
  <2>4. seen' \in [Verifiers -> SUBSET Digests]
    BY <1>2, TrustedAssumption DEF Send, TypeOK
  <2> QED BY <1>2, <2>2, <2>3, <2>4 DEF Send, TypeOK
<1>3. ASSUME NEW v \in Verifiers, SendFails(v) PROVE TypeOK'
  BY <1>0, <1>3 DEF SendFails, TypeOK, networkVars, platformVars
<1>4. ASSUME NEW v \in Verifiers, Wait(v) PROVE TypeOK'
  <2>1. PICK t \in IoTimes : EndOfPass(v, t, attestation_rc[v], TRUE)
    BY <1>4 DEF Wait
  <2>2. t \in Nat /\ attestation_rc[v] \in {"SUCCESS", "ERROR", "VERIFICATION_FAILED"}
    BY TimeAssumption DEF TypeOK
  <2> QED BY <1>4, <2>1, <2>2, EndOfPassType DEF Wait, TypeOK, networkVars, platformVars
<1>5. ASSUME NEW v \in Verifiers, GiveUp(v) PROVE TypeOK'
  <2>1. attestation_rc[v] \in {"SUCCESS", "ERROR", "VERIFICATION_FAILED"}
    BY DEF TypeOK
  <2> QED BY <1>5, <2>1, EndOfPassType DEF GiveUp, TypeOK, networkVars, platformVars
<1>6. ASSUME NEW v \in Verifiers, IoError(v) PROVE TypeOK'
  BY <1>0, <1>6 DEF IoError, TypeOK, networkVars, platformVars
<1>7. ASSUME NEW v \in Verifiers, NEW m \in quotes, Receive(v, m) PROVE TypeOK'
  <2>1. PICK o \in Outcomes(v, m), t \in IoTimes, p \in BOOLEAN :
          /\ EndOfPass(v, t, o.rc, p)
          /\ stale' = [stale EXCEPT ![v] = o.stale]
    BY <1>7 DEF Receive
  <2>2. t \in Nat
    BY TimeAssumption
  <2>3. /\ o.rc \in {"SUCCESS", "ERROR", "VERIFICATION_FAILED"}
        /\ o.stale \in BOOLEAN
    BY OutcomesType
  <2>4. stale' \in [Verifiers -> BOOLEAN]
    BY <2>1, <2>3 DEF TypeOK
  <2> QED BY <1>7, <2>1, <2>2, <2>3, <2>4, EndOfPassType
          DEF Receive, TypeOK, networkVars, platformVars
<1>8. ASSUME NEW v \in Verifiers, ReceiveError(v) PROVE TypeOK'
  <2>1. PICK t \in IoTimes, p \in BOOLEAN : EndOfPass(v, t, "ERROR", p)
    BY <1>8 DEF ReceiveError
  <2>2. t \in Nat
    BY TimeAssumption
  <2> QED BY <1>8, <2>1, <2>2, EndOfPassType
          DEF ReceiveError, TypeOK, networkVars, platformVars
<1>9. ASSUME NEW v \in Verifiers, Dies(v) PROVE TypeOK'
  BY <1>9 DEF Dies, TypeOK, networkVars, platformVars
<1>10. ASSUME NEW r \in requests, Answer(r) PROVE TypeOK'
  <2>1. [to |-> r.from, attester |-> Destination[r.from], nonce |-> r.nonce,
         digest |-> pcrs[Destination[r.from]]] \in Quote
    BY DestinationAssumption DEF TypeOK, Request, Quote
  <2> QED BY <1>10, <2>1 DEF Answer, TypeOK, verifierVars, platformVars
<1>11. ASSUME NEW r \in requests, AnswerError(r) PROVE TypeOK'
  BY <1>11 DEF AnswerError, TypeOK, Request, verifierVars, platformVars
<1>12. ASSUME NEW a \in Attesters, NEW d \in Digests, ChangePcrs(a, d) PROVE TypeOK'
  BY <1>12 DEF ChangePcrs, TypeOK, verifierVars, networkVars
<1>13. CASE UNCHANGED vars
  BY <1>13 DEF vars, TypeOK, verifierVars, networkVars, platformVars
<1> QED
  BY <1>1, <1>2, <1>3, <1>4, <1>5, <1>6, <1>7, <1>8, <1>9, <1>10, <1>11,
     <1>12, <1>13 DEF Next, Verifier, ReceiveErrorCrash, ReceiveCrash

\* Every variable keeps its type: no step leaves the record sets of the
\* messages, the four process states, or 16 bits.
THEOREM TypeCorrect == Spec => []TypeOK
<1>1. Init => TypeOK
  BY TimeAssumption DEF Init, TypeOK, CHARRA_RC
<1> QED BY <1>1, TypeStep, PTL DEF Spec

-----------------------------------------------------------------------------

\* A quote that passes the appraisal was made for this very process, while it
\* waits, by the trusted platform, in a reference state.
LEMMA AppraisedIsSeen ==
    ASSUME TypeOK, WitnessInv, NEW v \in Verifiers, NEW m \in quotes,
           pc[v] = "waiting", Appraise(v, m) = "SUCCESS"
    PROVE  seen[v] \cap ReferenceDigests # {}
<1>1. /\ m.attester = Trusted
      /\ m.nonce = last_request[v]
      /\ PcrsMatch(stale[v], m.digest)
  BY DEF Appraise, SignedByTrusted, Verdict, NonceMatches
<1>2. m.to \in Verifiers /\ m.nonce \in Nonces
  BY DEF TypeOK, Quote
<1>3. m.to = v
  BY <1>1, <1>2, NoNonceAssumption DEF WitnessInv, MessagesAreOwn, NoncesDiffer
<1>4. m.digest \in seen[v]
  BY <1>1, <1>3 DEF WitnessInv, QuotesAreSeen
<1>5. PICK i \in FirstSet(stale[v]) .. Len(ReferenceSets) :
         ReferenceSets[i] = m.digest
  BY <1>1 DEF PcrsMatch
<1>6. FirstSet(stale[v]) \in {1, 2}
  BY DEF FirstSet
<1>7. Len(ReferenceSets) \in Nat
  BY ReferenceAssumption
<1>8. i \in 1 .. Len(ReferenceSets)
  BY <1>5, <1>6, <1>7
<1>9. m.digest \in ReferenceDigests
  BY <1>5, <1>8 DEF ReferenceDigests
<1> QED BY <1>4, <1>9

\* A pass of the loop that leaves SUCCESS only for a witness keeps WitnessInv.
LEMMA PassKeepsWitness ==
    ASSUME TypeOK, WitnessInv, NEW v \in Verifiers, NEW t, NEW p \in BOOLEAN,
           NEW rc \in {"SUCCESS", "ERROR", "VERIFICATION_FAILED"},
           pc[v] = "waiting", EndOfPass(v, t, rc, p),
           rc = "SUCCESS" => seen[v] \cap ReferenceDigests # {},
           UNCHANGED <<last_request, networkVars, platformVars>>
    PROVE  WitnessInv'
<1> USE DEF WitnessInv, networkVars, platformVars
<1>1. /\ pc' = [pc EXCEPT ![v] = pc'[v]]
      /\ pc'[v] \in {"waiting", "exited"}
  BY DEF EndOfPass, TypeOK
<1>2. /\ attestation_rc' = [attestation_rc EXCEPT ![v] = rc]
      /\ result' = [result EXCEPT ![v] = result'[v]]
      /\ result'[v] \in {"TIMEOUT", rc, result[v]}
      /\ result'[v] = result[v] \/ pc'[v] = "exited"
      /\ pc'[v] = "exited" => result'[v] \in {"TIMEOUT", rc}
  BY DEF EndOfPass, TypeOK
<1>3. NoncesDiffer'
  BY DEF NoncesDiffer
<1>4. MessagesAreOwn'
  BY <1>1, <1>2 DEF MessagesAreOwn, TypeOK
<1>5. QuotesAreSeen'
  BY <1>1 DEF QuotesAreSeen, TypeOK, Quote
<1>6. SuccessIsSeen'
  <2>1. \A u \in Verifiers :
           attestation_rc'[u] = "SUCCESS" => seen'[u] \cap ReferenceDigests # {}
    BY <1>2 DEF SuccessIsSeen, TypeOK
  <2>2. \A u \in Verifiers : pc'[u] # "exited" => result'[u] = "none"
    BY <1>1, <1>2 DEF SuccessIsSeen, TypeOK
  <2> QED BY <2>1, <2>2 DEF SuccessIsSeen, ReferenceDigests
<1>7. PositiveIsWitnessed'
  BY <1>1, <1>2 DEF PositiveIsWitnessed, TypeOK, ReferenceDigests
<1> QED BY <1>3, <1>4, <1>5, <1>6, <1>7

\* Every step keeps the inductive invariant.
LEMMA WitnessStep == TypeOK /\ WitnessInv /\ [Next]_vars => WitnessInv'
<1> SUFFICES ASSUME TypeOK, WitnessInv, [Next]_vars PROVE WitnessInv'
  OBVIOUS
<1> USE DEF WitnessInv
<1>1. ASSUME NEW v \in Verifiers, Abort(v) PROVE WitnessInv'
  <2>1. UNCHANGED <<last_request, attestation_rc, requests, quotes, pcrs, seen>>
        /\ pc' = [pc EXCEPT ![v] = "exited"]
        /\ result' = [result EXCEPT ![v] = result'[v]]
        /\ last_request[v] = NoNonce
    BY <1>1 DEF Abort, TypeOK, networkVars, platformVars, MessagesAreOwn
  <2>2. NoncesDiffer' /\ MessagesAreOwn'
    BY <2>1 DEF NoncesDiffer, MessagesAreOwn, TypeOK
  <2>3. QuotesAreSeen' /\ SuccessIsSeen'
    BY <2>1 DEF QuotesAreSeen, SuccessIsSeen, TypeOK, Quote, ReferenceDigests
  <2>4. PositiveIsWitnessed'
    BY <2>1 DEF PositiveIsWitnessed, TypeOK, ReferenceDigests
  <2> QED BY <2>2, <2>3, <2>4
<1>2. ASSUME NEW v \in Verifiers, Send(v) PROVE WitnessInv'
  <2>1. PICK n \in Nonces \ Drawn :
          /\ last_request' = [last_request EXCEPT ![v] = n]
          /\ requests' = requests \cup {[from |-> v, nonce |-> n]}
    BY <1>2 DEF Send
  <2>2. /\ pc[v] = "start" /\ last_request[v] = NoNonce
        /\ pc' = [pc EXCEPT ![v] = "waiting"]
        /\ seen' = [seen EXCEPT ![v] = {pcrs[Trusted]}]
        /\ UNCHANGED <<result, attestation_rc, quotes, pcrs>>
    BY <1>2 DEF Send, MessagesAreOwn
  <2>3. n \in Nonces /\ n # NoNonce /\ \A u \in Verifiers : last_request[u] # n
    BY NoNonceAssumption DEF Drawn
  <2>4. \A m \in quotes : m.to \in Verifiers /\ m.to # v
    BY <2>2, NoNonceAssumption DEF MessagesAreOwn, TypeOK, Quote
  <2>5. \A r \in requests : r.from \in Verifiers /\ r.from # v
    BY <2>2, NoNonceAssumption DEF MessagesAreOwn, TypeOK, Request
  <2>6. NoncesDiffer'
    BY <2>1, <2>3 DEF NoncesDiffer, TypeOK
  <2>7. MessagesAreOwn'
    <3>1. \A u \in Verifiers : pc'[u] = "start" => last_request'[u] = NoNonce
                                                    /\ attestation_rc'[u] = "ERROR"
      BY <2>1, <2>2 DEF MessagesAreOwn, TypeOK
    <3>2. \A r \in requests' : r.nonce = last_request'[r.from]
      BY <2>1, <2>5 DEF MessagesAreOwn, TypeOK
    <3>3. \A m \in quotes' : m.nonce = last_request'[m.to]
      BY <2>1, <2>2, <2>4 DEF MessagesAreOwn, TypeOK
    <3> QED BY <3>1, <3>2, <3>3 DEF MessagesAreOwn
  <2>8. QuotesAreSeen'
    BY <2>2, <2>4 DEF QuotesAreSeen, TypeOK
  <2>9. SuccessIsSeen' /\ PositiveIsWitnessed'
    <3>1. attestation_rc[v] # "SUCCESS"
      BY <2>2 DEF MessagesAreOwn, SuccessIsSeen, TypeOK
    <3> QED BY <2>1, <2>2, <3>1
            DEF SuccessIsSeen, PositiveIsWitnessed, TypeOK, ReferenceDigests
  <2> QED BY <2>6, <2>7, <2>8, <2>9
<1>3. ASSUME NEW v \in Verifiers, SendFails(v) PROVE WitnessInv'
  <2>1. PICK n \in Nonces \ Drawn : last_request' = [last_request EXCEPT ![v] = n]
    BY <1>3 DEF SendFails
  <2>2. /\ last_request[v] = NoNonce
        /\ pc' = [pc EXCEPT ![v] = "exited"]
        /\ result' = [result EXCEPT ![v] = "ERROR"]
        /\ UNCHANGED <<attestation_rc, requests, quotes, pcrs, seen>>
    BY <1>3 DEF SendFails, MessagesAreOwn, networkVars, platformVars
  <2>3. n \in Nonces /\ n # NoNonce /\ \A u \in Verifiers : last_request[u] # n
    BY NoNonceAssumption DEF Drawn
  <2>4. \A m \in quotes : m.to \in Verifiers /\ m.to # v
    BY <2>2, NoNonceAssumption DEF MessagesAreOwn, TypeOK, Quote
  <2>5. \A r \in requests : r.from \in Verifiers /\ r.from # v
    BY <2>2, NoNonceAssumption DEF MessagesAreOwn, TypeOK, Request
  <2>6. NoncesDiffer'
    BY <2>1, <2>3 DEF NoncesDiffer, TypeOK
  <2>7. MessagesAreOwn'
    BY <2>1, <2>2, <2>4, <2>5 DEF MessagesAreOwn, TypeOK
  <2>8. QuotesAreSeen' /\ SuccessIsSeen'
    BY <2>2 DEF QuotesAreSeen, SuccessIsSeen, TypeOK, Quote, ReferenceDigests
  <2>9. PositiveIsWitnessed'
    BY <2>1, <2>2 DEF PositiveIsWitnessed, TypeOK, ReferenceDigests
  <2> QED BY <2>6, <2>7, <2>8, <2>9
<1>4. ASSUME NEW v \in Verifiers, Wait(v) PROVE WitnessInv'
  <2>1. PICK t \in IoTimes : EndOfPass(v, t, attestation_rc[v], TRUE)
    BY <1>4 DEF Wait
  <2>2. /\ attestation_rc[v] \in {"SUCCESS", "ERROR", "VERIFICATION_FAILED"}
        /\ attestation_rc[v] = "SUCCESS" => seen[v] \cap ReferenceDigests # {}
    BY DEF TypeOK, SuccessIsSeen
  <2> QED BY <1>4, <2>1, <2>2, PassKeepsWitness DEF Wait, InLoop
<1>5. ASSUME NEW v \in Verifiers, GiveUp(v) PROVE WitnessInv'
  <2>1. /\ attestation_rc[v] \in {"SUCCESS", "ERROR", "VERIFICATION_FAILED"}
        /\ attestation_rc[v] = "SUCCESS" => seen[v] \cap ReferenceDigests # {}
    BY DEF TypeOK, SuccessIsSeen
  <2> QED BY <1>5, <2>1, PassKeepsWitness DEF GiveUp
<1>6. ASSUME NEW v \in Verifiers, IoError(v) PROVE WitnessInv'
  <2>1. /\ UNCHANGED <<last_request, attestation_rc, requests, quotes, pcrs, seen>>
        /\ pc' = [pc EXCEPT ![v] = "exited"]
        /\ result' = [result EXCEPT ![v] = "COAP_ERROR"]
    BY <1>6 DEF IoError, networkVars, platformVars
  <2>2. NoncesDiffer' /\ MessagesAreOwn'
    BY <2>1 DEF NoncesDiffer, MessagesAreOwn, TypeOK
  <2>3. QuotesAreSeen' /\ SuccessIsSeen' /\ PositiveIsWitnessed'
    BY <2>1 DEF QuotesAreSeen, SuccessIsSeen, PositiveIsWitnessed, TypeOK,
                Quote, ReferenceDigests
  <2> QED BY <2>2, <2>3
<1>7. ASSUME NEW v \in Verifiers, NEW m \in quotes, Receive(v, m) PROVE WitnessInv'
  <2>1. PICK o \in Outcomes(v, m), t \in IoTimes, p \in BOOLEAN :
          EndOfPass(v, t, o.rc, p)
    BY <1>7 DEF Receive
  <2>2. o.rc \in {"SUCCESS", "ERROR", "VERIFICATION_FAILED"}
    BY OutcomesType
  <2>3. o.rc = "SUCCESS" => Appraise(v, m) = "SUCCESS"
    BY DEF Outcomes, CannotAppraise, ReferenceUnreadable
  <2>4. o.rc = "SUCCESS" => seen[v] \cap ReferenceDigests # {}
    BY <1>7, <2>3, AppraisedIsSeen DEF Receive, InLoop
  <2> QED BY <1>7, <2>1, <2>2, <2>4, PassKeepsWitness DEF Receive, InLoop
<1>8. ASSUME NEW v \in Verifiers, ReceiveError(v) PROVE WitnessInv'
  <2>1. PICK t \in IoTimes, p \in BOOLEAN : EndOfPass(v, t, "ERROR", p)
    BY <1>8 DEF ReceiveError
  <2> QED BY <1>8, <2>1, PassKeepsWitness DEF ReceiveError, InLoop
<1>9. ASSUME NEW v \in Verifiers, InLoop(v), Dies(v) PROVE WitnessInv'
  <2>1. /\ UNCHANGED <<last_request, attestation_rc, requests, quotes, pcrs, seen, result>>
        /\ pc[v] = "waiting" /\ pc' = [pc EXCEPT ![v] = "crashed"]
    BY <1>9 DEF Dies, InLoop, networkVars, platformVars
  <2>2. NoncesDiffer' /\ MessagesAreOwn'
    BY <2>1 DEF NoncesDiffer, MessagesAreOwn, TypeOK
  <2>3. QuotesAreSeen' /\ SuccessIsSeen' /\ PositiveIsWitnessed'
    BY <2>1 DEF QuotesAreSeen, SuccessIsSeen, PositiveIsWitnessed, TypeOK,
                Quote, ReferenceDigests
  <2> QED BY <2>2, <2>3
<1>10. ASSUME NEW r \in requests, Answer(r) PROVE WitnessInv'
  <2>1. /\ UNCHANGED <<pc, last_request, attestation_rc, result, requests, pcrs, seen>>
        /\ quotes' = quotes \cup
             {[to |-> r.from, attester |-> Destination[r.from],
               nonce |-> r.nonce, digest |-> pcrs[Destination[r.from]]]}
    BY <1>10 DEF Answer, verifierVars, platformVars
  <2>2. r.from \in Verifiers
    BY DEF TypeOK, Request
  <2>3. NoncesDiffer' /\ SuccessIsSeen' /\ PositiveIsWitnessed'
    BY <2>1 DEF NoncesDiffer, SuccessIsSeen, PositiveIsWitnessed, ReferenceDigests
  <2>4. MessagesAreOwn'
    BY <2>1 DEF MessagesAreOwn
  <2>5. QuotesAreSeen'
    BY <2>1, <2>2 DEF QuotesAreSeen
  <2> QED BY <2>3, <2>4, <2>5
<1>11. ASSUME NEW r \in requests, AnswerError(r) PROVE WitnessInv'
  BY <1>11 DEF AnswerError, verifierVars, platformVars, NoncesDiffer,
     MessagesAreOwn, QuotesAreSeen, SuccessIsSeen, PositiveIsWitnessed, ReferenceDigests
<1>12. ASSUME NEW a \in Attesters, NEW d \in Digests, ChangePcrs(a, d)
       PROVE WitnessInv'
  <2>1. /\ UNCHANGED <<pc, last_request, attestation_rc, result, requests, quotes>>
        /\ pcrs' = [pcrs EXCEPT ![a] = d]
        /\ \A v \in Verifiers : seen[v] \subseteq seen'[v]
        /\ a = Trusted => \A v \in Verifiers : pc[v] = "waiting" => d \in seen'[v]
    BY <1>12 DEF ChangePcrs, verifierVars, networkVars
  <2>2. NoncesDiffer' /\ MessagesAreOwn'
    BY <2>1 DEF NoncesDiffer, MessagesAreOwn
  <2>3. QuotesAreSeen'
    <3>1. \A v \in Verifiers : pc'[v] = "waiting" => pcrs'[Trusted] \in seen'[v]
      BY <2>1, TrustedAssumption DEF QuotesAreSeen, TypeOK
    <3>2. \A m \in quotes' : m.attester = Trusted /\ pc'[m.to] = "waiting"
                              => m.digest \in seen'[m.to]
      BY <2>1 DEF QuotesAreSeen, TypeOK, Quote
    <3> QED BY <3>1, <3>2 DEF QuotesAreSeen
  <2>4. SuccessIsSeen' /\ PositiveIsWitnessed'
    BY <2>1 DEF SuccessIsSeen, PositiveIsWitnessed, ReferenceDigests
  <2> QED BY <2>2, <2>3, <2>4
<1>13. CASE UNCHANGED vars
  BY <1>13 DEF vars, verifierVars, networkVars, platformVars, NoncesDiffer,
     MessagesAreOwn, QuotesAreSeen, SuccessIsSeen, PositiveIsWitnessed, ReferenceDigests
<1> QED
  BY <1>1, <1>2, <1>3, <1>4, <1>5, <1>6, <1>7, <1>8, <1>9, <1>10, <1>11,
     <1>12, <1>13 DEF Next, Verifier, ReceiveErrorCrash, ReceiveCrash

\* The argument behind the promise holds all the time, whatever the network
\* does: no nonce is drawn twice, a quote carries the nonce of the process it
\* was made for and shows a state seen while that process waits, and
\* attestation_rc is SUCCESS for a witness only.
THEOREM WitnessInvAlways == Spec => []WitnessInv
<1>1. Init => WitnessInv
  BY DEF Init, WitnessInv, NoncesDiffer, MessagesAreOwn, QuotesAreSeen,
         SuccessIsSeen, PositiveIsWitnessed
<1> QED BY <1>1, WitnessStep, TypeCorrect, PTL DEF Spec

\* A positive exit after a request means that the trusted platform was in a
\* reference state between the request and the exit: for every number of
\* processes, platforms, nonces, digests and reference sets, however messages
\* are lost, repeated, delayed or answered by the wrong platform.
THEOREM PositiveIsWitnessedAlways == Spec => []PositiveIsWitnessed
<1>1. WitnessInv => PositiveIsWitnessed
  BY DEF WitnessInv
<1> QED BY <1>1, WitnessInvAlways, PTL

-----------------------------------------------------------------------------
(* The implementation of ChallengeResponse.                                 *)

\* A process that leaves its wait ends the challenge, with the verdict that its
\* exit code gives; a positive one has its witness.
LEMMA EndIsEnd ==
    ASSUME TypeOK, WitnessInv, WitnessInv', NEW v \in Verifiers,
           pc[v] = "waiting", pc'[v] \in {"exited", "crashed"},
           pc' = [pc EXCEPT ![v] = pc'[v]],
           result' = [result EXCEPT ![v] = result'[v]],
           UNCHANGED <<last_request, pcrs, seen>>
    PROVE  Promise!Next
<1> DEFINE r == Outcome(v)'
<1>1. r \in {"positive", "negative"}
  BY DEF Outcome, Ended
<1>2. Phase(v) = "challenged" /\ Phase(v)' = "ended"
  BY DEF Phase
<1>3. [u \in Verifiers |-> Phase(u)]' = [[u \in Verifiers |-> Phase(u)] EXCEPT ![v] = "ended"]
  BY <1>2 DEF Phase, TypeOK
<1>4. [u \in Verifiers |-> Outcome(u)]' = [[u \in Verifiers |-> Outcome(u)] EXCEPT ![v] = r]
  BY DEF Outcome, Ended, TypeOK
<1>5. r = "positive" => seen[v] \cap ReferenceDigests # {}
  <2>1. r = "positive" => /\ pc'[v] = "exited" /\ result'[v] = "SUCCESS"
                          /\ last_request'[v] # NoNonce
    BY DEF Outcome
  <2> QED BY <2>1 DEF WitnessInv, PositiveIsWitnessed, ReferenceDigests
<1>6. Promise!End(v, r)
  BY <1>2, <1>3, <1>4, <1>5 DEF Promise!End
<1> QED BY <1>1, <1>6 DEF Promise!Next

\* A pass of the loop either changes nothing the promise speaks of or ends.
LEMMA PassKeepsPromise ==
    ASSUME TypeOK, WitnessInv, WitnessInv', NEW v \in Verifiers, NEW t,
           NEW p, NEW rc, pc[v] = "waiting", EndOfPass(v, t, rc, p),
           UNCHANGED <<last_request, networkVars, platformVars>>
    PROVE  [Promise!Next]_(Promise!vars)
<1>1. CASE pc'[v] = "waiting"
  <2>1. pc' = pc
    BY <1>1 DEF EndOfPass, TypeOK
  <2>2. \A u \in Verifiers : Phase(u)' = Phase(u) /\ Outcome(u)' = Outcome(u)
    BY <1>1, <2>1 DEF EndOfPass, TypeOK, Phase, Outcome, Ended
  <2> QED BY <2>2 DEF Promise!vars, platformVars
<1>2. CASE pc'[v] # "waiting"
  <2>1. /\ pc'[v] = "exited"
        /\ pc' = [pc EXCEPT ![v] = pc'[v]]
        /\ result' = [result EXCEPT ![v] = result'[v]]
    BY <1>2 DEF EndOfPass, TypeOK
  <2> QED BY <2>1, EndIsEnd DEF platformVars
<1> QED BY <1>1, <1>2

\* A process that ends before it has sent anything gives up early.
LEMMA StartToEnd ==
    ASSUME TypeOK, NEW v \in Verifiers, pc[v] = "start",
           pc' = [pc EXCEPT ![v] = "exited"],
           result' = [result EXCEPT ![v] = result'[v]],
           \A u \in Verifiers \ {v} : last_request'[u] = last_request[u],
           result'[v] = "SUCCESS" => last_request'[v] = NoNonce,
           UNCHANGED platformVars
    PROVE  Promise!Next
<1>1. [u \in Verifiers |-> Phase(u)]' = [[u \in Verifiers |-> Phase(u)] EXCEPT ![v] = "ended"]
  BY DEF Phase, TypeOK
<1>2. [u \in Verifiers |-> Outcome(u)]'
        = [[u \in Verifiers |-> Outcome(u)] EXCEPT ![v] = "negative"]
  BY DEF Outcome, Ended, TypeOK
<1>3. Phase(v) = "idle"
  BY DEF Phase
<1>4. Promise!GiveUpEarly(v)
  BY <1>1, <1>2, <1>3 DEF Promise!GiveUpEarly, platformVars
<1> QED BY <1>4 DEF Promise!Next

\* Every step of Attestation is a step of the promise or a stutter.
LEMMA PromiseStep ==
    ASSUME TypeOK, WitnessInv, WitnessInv', [Next]_vars
    PROVE  [Promise!Next]_(Promise!vars)
<1>1. ASSUME NEW v \in Verifiers, Abort(v) PROVE Promise!Next
  <2>1. last_request[v] = NoNonce
    BY <1>1 DEF Abort, WitnessInv, MessagesAreOwn
  <2> QED BY <1>1, <2>1, StartToEnd DEF Abort, TypeOK
<1>2. ASSUME NEW v \in Verifiers, Send(v) PROVE Promise!Next
  <2>1. [u \in Verifiers |-> Phase(u)]'
          = [[u \in Verifiers |-> Phase(u)] EXCEPT ![v] = "challenged"]
    BY <1>2 DEF Send, Phase, TypeOK
  <2>2. \A u \in Verifiers : Outcome(u)' = Outcome(u)
    BY <1>2 DEF Send, Outcome, Ended, TypeOK
  <2>3. Phase(v) = "idle"
    BY <1>2 DEF Send, Phase
  <2>4. Promise!Challenge(v)
    BY <1>2, <2>1, <2>2, <2>3 DEF Send, Promise!Challenge
  <2> QED BY <2>4 DEF Promise!Next
<1>3. ASSUME NEW v \in Verifiers, SendFails(v) PROVE Promise!Next
  <2>1. /\ \A u \in Verifiers \ {v} : last_request'[u] = last_request[u]
        /\ result'[v] = "ERROR"
    BY <1>3 DEF SendFails, TypeOK
  <2> QED BY <1>3, <2>1, StartToEnd DEF SendFails, TypeOK
<1>4. ASSUME NEW v \in Verifiers, Wait(v) \/ GiveUp(v) \/ ReceiveError(v)
      PROVE  [Promise!Next]_(Promise!vars)
  <2>1. PICK t, p, rc : EndOfPass(v, t, rc, p)
    BY <1>4 DEF Wait, GiveUp, ReceiveError
  <2> QED BY <1>4, <2>1, PassKeepsPromise DEF Wait, GiveUp, ReceiveError, InLoop
<1>5. ASSUME NEW v \in Verifiers, NEW m \in quotes, Receive(v, m)
      PROVE  [Promise!Next]_(Promise!vars)
  <2>1. PICK t, p, rc : EndOfPass(v, t, rc, p)
    BY <1>5 DEF Receive
  <2> QED BY <1>5, <2>1, PassKeepsPromise DEF Receive, InLoop
<1>6. ASSUME NEW v \in Verifiers, InLoop(v), IoError(v) \/ Dies(v)
      PROVE  Promise!Next
  <2>1. /\ pc[v] = "waiting" /\ pc'[v] \in {"exited", "crashed"}
        /\ pc' = [pc EXCEPT ![v] = pc'[v]]
        /\ result' = [result EXCEPT ![v] = result'[v]]
        /\ UNCHANGED <<last_request, pcrs, seen>>
    BY <1>6 DEF IoError, Dies, InLoop, TypeOK, platformVars
  <2> QED BY <2>1, EndIsEnd
<1>7. ASSUME UNCHANGED <<verifierVars, platformVars>>
      PROVE  UNCHANGED Promise!vars
  BY <1>7 DEF verifierVars, platformVars, Promise!vars, Phase, Outcome, Ended
<1>8. ASSUME NEW a \in Attesters, NEW d \in Digests, ChangePcrs(a, d)
      PROVE  [Promise!Next]_(Promise!vars)
  <2>1. \A u \in Verifiers : Phase(u)' = Phase(u) /\ Outcome(u)' = Outcome(u)
    BY <1>8 DEF ChangePcrs, verifierVars, Phase, Outcome, Ended
  <2>2. CASE a = Trusted
    <3>1. pcrs'[Trusted] = d
      BY <1>8, <2>2, TrustedAssumption DEF ChangePcrs, TypeOK
    <3>2. \A v \in Verifiers : Phase(v) = "challenged" <=> pc[v] = "waiting"
      BY DEF Phase
    <3>3. seen' = [v \in Verifiers |->
                     IF Phase(v) = "challenged" THEN seen[v] \cup {d} ELSE seen[v]]
      BY <1>8, <2>2, <3>2 DEF ChangePcrs
    <3>4. Promise!Change(d)
      BY <2>1, <3>1, <3>3 DEF Promise!Change
    <3> QED BY <3>4 DEF Promise!Next
  <2>3. CASE a # Trusted
    <3>1. pcrs'[Trusted] = pcrs[Trusted] /\ seen' = seen
      BY <1>8, <2>3 DEF ChangePcrs, TypeOK
    <3> QED BY <2>1, <3>1 DEF Promise!vars
  <2> QED BY <2>2, <2>3
<1>9. ASSUME NEW v \in Verifiers, Verifier(v)
      PROVE  [Promise!Next]_(Promise!vars)
  <2>1. CASE Abort(v) \/ Send(v) \/ SendFails(v)
    BY <1>1, <1>2, <1>3, <2>1
  <2>2. CASE Wait(v) \/ GiveUp(v) \/ ReceiveError(v)
    BY <1>4, <2>2
  <2>3. CASE IoError(v) \/ ReceiveErrorCrash(v)
    BY <1>6, <2>3 DEF IoError, ReceiveErrorCrash
  <2>4. ASSUME NEW m \in quotes, Receive(v, m) \/ ReceiveCrash(v, m)
        PROVE  [Promise!Next]_(Promise!vars)
    BY <1>5, <1>6, <2>4 DEF ReceiveCrash
  <2> QED BY <1>9, <2>1, <2>2, <2>3, <2>4 DEF Verifier
<1> QED BY <1>7, <1>8, <1>9 DEF Next, Answer, AnswerError, vars

\* Attestation implements ChallengeResponse: whatever a verifier process tells
\* its caller, the promise allowed it to tell.
THEOREM AttestationKeepsPromise == Spec => KeepsPromise
<1>1. Init => Promise!Init
  BY TrustedAssumption DEF Init, Promise!Init, Phase, Outcome, Ended
<1>2. Init => WitnessInv
  BY DEF Init, WitnessInv, NoncesDiffer, MessagesAreOwn, QuotesAreSeen,
         SuccessIsSeen, PositiveIsWitnessed
<1>3. TypeOK /\ WitnessInv /\ WitnessInv' /\ [Next]_vars
         => [Promise!Next]_(Promise!vars)
  BY PromiseStep
<1> QED BY <1>1, <1>2, <1>3, WitnessStep, TypeCorrect, PTL
        DEF Spec, KeepsPromise, Promise!Spec

-----------------------------------------------------------------------------
(* The clock.                                                               *)

\* The 16-bit sum and the time really spent, as far as both are the same.
ClockInv ==
    \A v \in Verifiers :
        pc[v] \in {"start", "waiting"} =>
              /\ response_wait_time[v] = elapsed[v]
              /\ elapsed[v] < TimeoutMs

\* If the limit and one more pass fit into 16 bits, then the wait is over in
\* time, for every limit and every way in which passes take their time.
THEOREM DeadlineHonouredIfItFits ==
    ASSUME \A t \in IoTimes : TimeoutMs + t <= WaitModulus
    PROVE  Spec => []DeadlineHonoured
<1>1. Init => ClockInv
  BY TimeAssumption DEF Init, ClockInv
<1>2. TypeOK /\ ClockInv /\ [Next]_vars => ClockInv'
  <2> SUFFICES ASSUME TypeOK, ClockInv, [Next]_vars, NEW u \in Verifiers
               PROVE  pc'[u] \in {"start", "waiting"} =>
                            /\ response_wait_time'[u] = elapsed'[u]
                            /\ elapsed'[u] < TimeoutMs
    BY DEF ClockInv
  <2>1. ASSUME NEW v \in Verifiers, NEW t \in IoTimes \cup {0},
               NEW rc, NEW p, pc[v] = "waiting", EndOfPass(v, t, rc, p)
        PROVE  pc'[u] \in {"start", "waiting"} =>
                     /\ response_wait_time'[u] = elapsed'[u]
                     /\ elapsed'[u] < TimeoutMs
    <3>1. CASE u = v /\ pc'[u] \in {"start", "waiting"}
      <4> DEFINE w == AddWait(response_wait_time[v], t)
      <4>1. (t \in Nat /\ TimeoutMs + t <= WaitModulus) \/ t = 0
        BY TimeAssumption
      <4>2. elapsed[v] \in Nat /\ response_wait_time[v] = elapsed[v]
            /\ elapsed[v] < TimeoutMs /\ elapsed[v] < WaitModulus
        BY <2>1, TimeAssumption DEF ClockInv, TypeOK
      <4>3. w = elapsed[v] + t
        BY <4>1, <4>2, TimeAssumption DEF AddWait
      <4>4. ~TimedOut(w) /\ response_wait_time'[u] = w /\ elapsed'[u] = elapsed[v] + t
        BY <2>1, <3>1 DEF EndOfPass, TypeOK
      <4> QED BY <2>1, <3>1, <4>1, <4>2, <4>3, <4>4, TimeAssumption
              DEF TimedOut, ClockInv
    <3>2. CASE u # v
      BY <2>1, <3>2 DEF EndOfPass, TypeOK, ClockInv
    <3> QED BY <3>1, <3>2
  <2>2. ASSUME NEW v \in Verifiers, Verifier(v)
        PROVE  pc'[u] \in {"start", "waiting"} =>
                     /\ response_wait_time'[u] = elapsed'[u]
                     /\ elapsed'[u] < TimeoutMs
    <3>1. CASE \/ Abort(v) \/ Send(v) \/ SendFails(v) \/ IoError(v)
               \/ InLoop(v) /\ Dies(v)
      BY <3>1 DEF Abort, Send, SendFails, IoError, Dies, TypeOK, ClockInv
    <3>2. CASE Wait(v) \/ GiveUp(v) \/ ReceiveError(v)
                \/ \E m \in quotes : Receive(v, m)
      <4>1. pc[v] = "waiting"
        BY <3>2 DEF Wait, GiveUp, ReceiveError, Receive, InLoop
      <4>2. PICK t \in IoTimes \cup {0} : \E rc, p : EndOfPass(v, t, rc, p)
        BY <3>2 DEF Wait, GiveUp, ReceiveError, Receive
      <4> QED BY <2>1, <4>1, <4>2
    <3> QED BY <2>2, <3>1, <3>2 DEF Verifier, ReceiveErrorCrash, ReceiveCrash
  <2>3. CASE UNCHANGED verifierVars
    BY <2>3 DEF verifierVars, ClockInv
  <2> QED BY <2>2, <2>3
          DEF Next, Answer, AnswerError, ChangePcrs, vars
<1>3. ClockInv => DeadlineHonoured
  BY DEF ClockInv, DeadlineHonoured
<1> QED BY <1>1, <1>2, <1>3, TypeCorrect, PTL DEF Spec

\* The sum wraps but never runs ahead of the time spent.
SumInv ==
    \A v \in Verifiers :
        /\ response_wait_time[v] <= elapsed[v]
        /\ result[v] = "TIMEOUT" => elapsed[v] >= TimeoutMs
        /\ pc[v] \in {"start", "waiting"} => result[v] = "none"

\* TIMEOUT is never reported before the limit, for every limit, wrap or not.
THEOREM NoEarlyTimeoutAlways == Spec => []NoEarlyTimeout
<1>1. Init => SumInv
  BY TimeAssumption DEF Init, SumInv
<1>2. TypeOK /\ SumInv /\ [Next]_vars => SumInv'
  <2> SUFFICES ASSUME TypeOK, SumInv, [Next]_vars, NEW u \in Verifiers
               PROVE  /\ response_wait_time'[u] <= elapsed'[u]
                      /\ result'[u] = "TIMEOUT" => elapsed'[u] >= TimeoutMs
                      /\ pc'[u] \in {"start", "waiting"} => result'[u] = "none"
    BY DEF SumInv
  <2>1. ASSUME NEW v \in Verifiers, NEW t \in IoTimes \cup {0},
               NEW rc \in {"SUCCESS", "ERROR", "VERIFICATION_FAILED"}, NEW p,
               pc[v] = "waiting", EndOfPass(v, t, rc, p)
        PROVE  /\ response_wait_time'[u] <= elapsed'[u]
               /\ result'[u] = "TIMEOUT" => elapsed'[u] >= TimeoutMs
               /\ pc'[u] \in {"start", "waiting"} => result'[u] = "none"
    <3>1. CASE u = v
      <4> DEFINE w == AddWait(response_wait_time[v], t)
      <4>1. /\ t \in Nat /\ elapsed[v] \in Nat /\ response_wait_time[v] \in Nat
            /\ response_wait_time[v] <= elapsed[v] /\ result[v] = "none"
        BY <2>1, TimeAssumption DEF SumInv, TypeOK
      <4>2. w \in Nat /\ w <= elapsed[v] + t
        BY <4>1, TimeAssumption DEF AddWait
      <4>3. /\ response_wait_time'[u] = w /\ elapsed'[u] = elapsed[v] + t
            /\ pc'[u] \in {"start", "waiting"} => result'[u] = result[v]
            /\ result'[u] = "TIMEOUT" => TimedOut(w)
        BY <2>1, <3>1, <4>1 DEF EndOfPass, TypeOK
      <4> QED BY <4>1, <4>2, <4>3, TimeAssumption DEF TimedOut
    <3>2. CASE u # v
      BY <2>1, <3>2 DEF EndOfPass, TypeOK, SumInv
    <3> QED BY <3>1, <3>2
  <2>2. ASSUME NEW v \in Verifiers, Verifier(v)
        PROVE  /\ response_wait_time'[u] <= elapsed'[u]
               /\ result'[u] = "TIMEOUT" => elapsed'[u] >= TimeoutMs
               /\ pc'[u] \in {"start", "waiting"} => result'[u] = "none"
    <3>1. CASE \/ Abort(v) \/ Send(v) \/ SendFails(v) \/ IoError(v)
               \/ InLoop(v) /\ Dies(v)
      BY <3>1 DEF Abort, Send, SendFails, IoError, Dies, InLoop,
                  SetupFailures, TypeOK, SumInv
    <3>2. CASE Wait(v) \/ GiveUp(v) \/ ReceiveError(v)
                \/ \E m \in quotes : Receive(v, m)
      <4>1. pc[v] = "waiting"
        BY <3>2 DEF Wait, GiveUp, ReceiveError, Receive, InLoop
      <4>2. PICK t \in IoTimes \cup {0}, rc \in {"SUCCESS", "ERROR", "VERIFICATION_FAILED"} :
               \E p : EndOfPass(v, t, rc, p)
        <5>1. CASE Wait(v) \/ GiveUp(v) \/ ReceiveError(v)
          BY <5>1 DEF Wait, GiveUp, ReceiveError, TypeOK
        <5>2. CASE \E m \in quotes : Receive(v, m)
          BY <5>2, OutcomesType DEF Receive
        <5> QED BY <3>2, <5>1, <5>2
      <4> QED BY <2>1, <4>1, <4>2
    <3> QED BY <2>2, <3>1, <3>2 DEF Verifier, ReceiveErrorCrash, ReceiveCrash
  <2>3. CASE UNCHANGED verifierVars
    BY <2>3 DEF verifierVars, SumInv
  <2> QED BY <2>2, <2>3
          DEF Next, Answer, AnswerError, ChangePcrs, vars
<1>3. SumInv => NoEarlyTimeout
  BY DEF SumInv, NoEarlyTimeout
<1> QED BY <1>1, <1>2, <1>3, TypeCorrect, PTL DEF Spec

=============================================================================
