--------------------------- MODULE Exchange_proof ---------------------------
(***************************************************************************)
(* What the responses on their way say about the platform's log and about  *)
(* the logs that were asked for; and that a verdict is about the PCRs that *)
(* the command line names.                                                 *)
(***************************************************************************)
EXTENDS Exchange, TapCbor_proof, PcrSelectionOption_proof

LogRequestList == Seq(LogRequestType(STRING))
Contents == Int \cup {Nothing}
Counts == [Pcrs -> Nat]

-----------------------------------------------------------------------------
(* The invariant.                                                           *)

\* The log of a platform is never behind its PCR.
PlatformInv ==
    pcr \in Counts /\ ima_log \in Nat /\ pcr[ImaPcr] <= ima_log

\* A request asks for the logs of the process whose nonce it has.
AskedBy(logs, v) == v \in Verifiers /\ logs = pcr_logs[v]
RequestInv ==
    /\ pcr_logs \in LogRequests
    /\ \A m \in requests :
          AskedBy(DecodeRequest(m).pcr_logs, DecodeRequest(m).nonce)

\* The content c of a log explains the PCRs of a quote.
Explains(log, c, pcrs) ==
    log.identifier = "ima" /\ c # Nothing => c >= pcrs[ImaPcr]

\* What the attester's handler has at each step.
HandlerInv ==
    /\ step \in {"idle", "quote", "logs", "reply"}
    /\ step # "idle" => AskedBy(req.pcr_logs, req.nonce)
    /\ step \in {"idle", "quote"} => contents = <<>>
    /\ step \in {"logs", "reply"} =>
          /\ quote.nonce = req.nonce
          /\ quote.pcrs \in Counts /\ quote.pcrs[ImaPcr] <= ima_log
          /\ contents \in Seq(Contents) /\ Len(contents) <= Len(req.pcr_logs)
          /\ \A k \in DOMAIN contents :
                Explains(req.pcr_logs[k], contents[k], quote.pcrs)
    /\ step = "reply" => Len(contents) = Len(req.pcr_logs)

\* A response that is not an error's text is the encoding of an answer, to one
\* of the processes and with the logs that it has asked for.
Answers(d) ==
    /\ d = [attestation_data |-> d.attestation_data,
            tpm2_signature |-> d.tpm2_signature, pcr_logs |-> d.pcr_logs]
    /\ d.attestation_data.nonce \in Verifiers
    /\ d.pcr_logs \in Seq(LogType(STRING, Contents))
    /\ \A k \in DOMAIN d.pcr_logs :
          Explains(d.pcr_logs[k], d.pcr_logs[k].content,
                   d.attestation_data.pcrs)
    /\ Len(d.pcr_logs) = Len(pcr_logs[d.attestation_data.nonce])
    /\ \A k \in DOMAIN d.pcr_logs :
          d.pcr_logs[k].identifier =
            pcr_logs[d.attestation_data.nonce][k].identifier
ResponseInv ==
    \A m \in responses : \/ m = Text("diagnostic", FALSE)
                         \/ \E d : Answers(d) /\ m = EncodeResponse(d)

AnswerInv == PlatformInv /\ RequestInv /\ HandlerInv /\ ResponseInv

-----------------------------------------------------------------------------
(* The parts of a step.                                                     *)

USE DEF LogRequestList

\* What a verifier asks for is a list that the codec can carry.
LEMMA ListsOfLogs ==
    ASSUME NEW logs \in LogRequests, NEW v \in Verifiers
    PROVE  /\ logs[v] \in LogRequestList
           /\ Len(logs[v]) <= SUPPORTED_PCR_LOGS_COUNT
  BY LogRequestsAssumption DEF LogRequestType

LEMMA InitAnswer == Init => AnswerInv
  <1> SUFFICES ASSUME Init PROVE AnswerInv
    OBVIOUS
  <1>1. PlatformInv
    BY ExchangeAssumption DEF Init, PlatformInv, Counts
  <1>2. RequestInv
    BY DEF Init, RequestInv
  <1>3. HandlerInv
    BY DEF Init, HandlerInv
  <1>4. ResponseInv
    BY DEF Init, ResponseInv
  <1> QED
    BY <1>1, <1>2, <1>3, <1>4 DEF AnswerInv

\* The platform moves only by its own three actions.
LEMMA PlatformStep ==
    ASSUME AnswerInv, [Next]_vars
    PROVE  PlatformInv'
  <1> USE ExchangeAssumption DEF AnswerInv, PlatformInv, Counts
  <1>1. CASE Measure
    BY <1>1 DEF Measure
  <1>2. CASE Reboot
    BY <1>2 DEF Reboot
  <1>3. CASE \E p \in Pcrs : Extend(p)
    BY <1>3 DEF Extend
  <1>4. CASE UNCHANGED <<pcr, ima_log>>
    BY <1>4
  <1> QED
    BY <1>1, <1>2, <1>3, <1>4
       DEF Next, vars, platformVars, PcrSelection, Send, Receive,
           ReceiveRequest, TakeQuote, ReadLog, LogsDone, Reply, Fail,
           AnswerError

\* Only Send adds a request, and the logs to ask for stay as they are.
LEMMA RequestStep ==
    ASSUME AnswerInv, [Next]_vars
    PROVE  RequestInv' /\ UNCHANGED pcr_logs
  <1> USE DEF AnswerInv, RequestInv, AskedBy
  <1>1. CASE \E v \in Verifiers : Send(v)
    <2>1. PICK v \in Verifiers : Send(v)
      BY <1>1
    <2>2. PICK version \in Versions[v] :
            requests' = requests \cup {EncodeRequest(RequestOf(v, version))}
      BY <2>1 DEF Send
    <2>3. RequestOf(v, version).pcr_logs = pcr_logs[v]
          /\ RequestOf(v, version).nonce = v
      BY DEF RequestOf
    <2>4. pcr_logs[v] \in Seq(LogRequestType(STRING))
      BY ListsOfLogs
    <2>5. LET m == EncodeRequest(RequestOf(v, version))
          IN  /\ DecodeRequest(m).nonce = v
              /\ DecodeRequest(m).pcr_logs = pcr_logs[v]
      BY <2>3, <2>4, NonceAndLogsComeBack
    <2>6. UNCHANGED pcr_logs
      BY <2>1 DEF Send
    <2> QED
      BY <2>2, <2>5, <2>6
  <1>2. CASE UNCHANGED <<requests, pcr_logs>>
    BY <1>2
  <1> QED
    BY <1>1, <1>2
       DEF Next, vars, verifierVars, networkVars, PcrSelection, Receive,
           ReceiveRequest, TakeQuote, ReadLog, LogsDone, Reply, Fail,
           AnswerError, Measure, Reboot, Extend

\* The handler reads the log after it has made the quote; while it does, the log
\* only grows, unless the platform restarts and the handler with it.
LEMMA HandlerStep ==
    ASSUME AnswerInv, [Next]_vars
    PROVE  HandlerInv'
  <1>0. UNCHANGED pcr_logs /\ PlatformInv'
    BY RequestStep, PlatformStep
  <1> USE DEF AnswerInv, HandlerInv, AskedBy
  <1>1. CASE ReceiveRequest
    BY <1>0, <1>1 DEF ReceiveRequest, After, RequestInv
  <1>2. CASE TakeQuote
    <2>1. /\ quote'.nonce = req.nonce /\ quote'.pcrs = pcr
          /\ step = "quote" /\ step' = "logs" /\ UNCHANGED <<req, contents>>
          /\ UNCHANGED ima_log
      BY <1>2 DEF TakeQuote, After, platformVars
    <2>2. req.pcr_logs \in LogRequestList
      BY <2>1, ListsOfLogs DEF RequestInv
    <2> QED
      BY <1>0, <2>1, <2>2 DEF PlatformInv
  <1>3. CASE ReadLog
    <2>1. /\ step = "logs" /\ Len(contents) < Len(req.pcr_logs)
          /\ UNCHANGED <<step, req, quote, ima_log>>
      BY <1>3 DEF ReadLog, platformVars
    <2> DEFINE l == req.pcr_logs[Len(contents) + 1]
    <2>2. PICK c \in LogContents(l) : contents' = Append(contents, c)
      BY <1>3 DEF ReadLog
    <2>3. c \in Contents
      BY <2>2 DEF LogContents, Contents, PlatformInv
    <2>4. Explains(l, c, quote.pcrs)
      BY <2>1, <2>2, ExchangeAssumption
         DEF LogContents, Explains, PlatformInv, Counts
    <2>5. /\ contents' \in Seq(Contents)
          /\ Len(contents') = Len(contents) + 1
          /\ DOMAIN contents' = 1 .. Len(contents) + 1
          /\ \A k \in DOMAIN contents : contents'[k] = contents[k]
          /\ contents'[Len(contents) + 1] = c
      BY <2>1, <2>2, <2>3
    <2>6. \A k \in DOMAIN contents' :
             Explains(req.pcr_logs[k], contents'[k], quote.pcrs)
      <3> SUFFICES ASSUME NEW k \in DOMAIN contents'
                   PROVE  Explains(req.pcr_logs[k], contents'[k], quote.pcrs)
        OBVIOUS
      <3>1. CASE k \in DOMAIN contents
        BY <2>1, <2>5, <3>1
      <3>2. CASE k = Len(contents) + 1
        BY <2>4, <2>5, <3>2
      <3> QED
        BY <2>1, <2>5, <3>1, <3>2
    <2>7. req.pcr_logs \in LogRequestList
      BY <2>1, ListsOfLogs DEF RequestInv
    <2>8. Len(contents') <= Len(req.pcr_logs)
      BY <2>1, <2>5, <2>7
    <2> QED
      BY <1>0, <2>1, <2>5, <2>6, <2>8 DEF Explains
  <1>4. CASE LogsDone
    BY <1>0, <1>4 DEF LogsDone, After, Explains, platformVars
  <1>5. CASE Idle
    BY <1>5 DEF Idle
  <1>6. CASE UNCHANGED attesterVars /\ (step = "idle" \/ ima_log <= ima_log')
    <2>1. UNCHANGED <<step, req, quote, contents>>
      BY <1>6 DEF attesterVars
    <2>2. CASE step \in {"logs", "reply"}
      <3>1. quote.pcrs[ImaPcr] <= ima_log'
        BY <1>0, <1>6, <2>2, ExchangeAssumption DEF PlatformInv, Counts
      <3> QED
        BY <1>0, <2>1, <2>2, <3>1 DEF Explains
    <2>3. CASE step \notin {"logs", "reply"}
      BY <1>0, <2>1, <2>3
    <2> QED
      BY <2>2, <2>3
  <1>7. CASE Measure
    <2>1. ima_log <= ima_log' /\ UNCHANGED attesterVars
      BY <1>7 DEF Measure, PlatformInv
    <2> QED
      BY <1>6, <2>1
  <1>8. CASE UNCHANGED <<attesterVars, ima_log>>
    <2>1. ima_log <= ima_log' /\ UNCHANGED attesterVars
      BY <1>8 DEF PlatformInv
    <2> QED
      BY <1>6, <2>1
  <1> QED
    BY <1>1, <1>2, <1>3, <1>4, <1>5, <1>7, <1>8
       DEF Next, vars, platformVars, PcrSelection, Send, Receive, Reply, Fail,
           AnswerError, Reboot, Extend

\* A reply is an answer.
LEMMA ReplyAnswers ==
    ASSUME AnswerInv, Reply
    PROVE  \E d : /\ Answers(d) /\ d.attestation_data = quote
                  /\ responses' = responses \cup {EncodeResponse(d)}
  <1> DEFINE logs == [k \in DOMAIN contents |-> LogResponse(k)]
             d == [attestation_data |-> quote, tpm2_signature |-> "signature",
                   pcr_logs |-> logs]
  <1>1. /\ step = "reply" /\ responses' = responses \cup {EncodeResponse(d)}
    BY DEF Reply
  <1>2. /\ req.nonce \in Verifiers /\ req.pcr_logs = pcr_logs[req.nonce]
        /\ quote.nonce = req.nonce
        /\ contents \in Seq(Contents) /\ Len(contents) = Len(req.pcr_logs)
        /\ \A k \in DOMAIN contents :
              Explains(req.pcr_logs[k], contents[k], quote.pcrs)
    BY <1>1 DEF AnswerInv, HandlerInv, AskedBy
  <1>3. req.pcr_logs \in LogRequestList
    BY <1>2, ListsOfLogs DEF AnswerInv, RequestInv
  <1>4. ASSUME NEW k \in DOMAIN contents
        PROVE  /\ LogResponse(k) \in LogType(STRING, Contents)
               /\ LogResponse(k).identifier = req.pcr_logs[k].identifier
               /\ LogResponse(k).content = contents[k]
    <2>1. req.pcr_logs[k] \in LogRequestType(STRING)
      BY <1>2, <1>3
    <2>2. req.pcr_logs[k].identifier \in STRING
      BY <2>1 DEF LogRequestType
    <2>3. contents[k] \in Contents
      BY <1>2
    <2> QED
      BY <2>2, <2>3 DEF LogResponse, LogType
  <1>5. /\ DOMAIN logs = 1 .. Len(contents) /\ Len(contents) \in Nat
        /\ \A k \in DOMAIN logs : logs[k] \in LogType(STRING, Contents)
    BY <1>2, <1>4
  <1>6. logs \in Seq(LogType(STRING, Contents)) /\ Len(logs) = Len(contents)
    BY <1>5
  <1>7. \A k \in DOMAIN logs :
           /\ logs[k].identifier = req.pcr_logs[k].identifier
           /\ Explains(logs[k], logs[k].content, quote.pcrs)
    BY <1>2, <1>4 DEF Explains
  <1> HIDE DEF logs
  <1>8. Answers(d)
    BY <1>2, <1>6, <1>7 DEF Answers
  <1> QED
    BY <1>1, <1>8

LEMMA ResponseStep ==
    ASSUME AnswerInv, [Next]_vars
    PROVE  ResponseInv'
  <1>1. UNCHANGED pcr_logs
    BY RequestStep
  <1>2. \A d : Answers(d) => Answers(d)'
    BY <1>1 DEF Answers, Explains
  <1> USE DEF AnswerInv, ResponseInv
  <1>3. CASE Reply
    <2>1. PICK d : /\ Answers(d)
                   /\ responses' = responses \cup {EncodeResponse(d)}
      BY <1>3, ReplyAnswers
    <2> QED
      BY <1>2, <2>1
  <1>4. CASE AnswerError
    BY <1>2, <1>4 DEF AnswerError
  <1>5. CASE UNCHANGED responses
    BY <1>2, <1>5
  <1> QED
    BY <1>3, <1>4, <1>5
       DEF Next, vars, networkVars, PcrSelection, Send, Receive,
           ReceiveRequest, TakeQuote, ReadLog, LogsDone, Fail, Measure,
           Reboot, Extend

LEMMA AnswerStep == AnswerInv /\ [Next]_vars => AnswerInv'
  BY PlatformStep, RequestStep, HandlerStep, ResponseStep DEF AnswerInv

-----------------------------------------------------------------------------
(* The theorems.                                                            *)

\* What the verifier decodes is what the attester encoded, and no error text is
\* taken for a response.
LEMMA DecodedAnswers ==
    ASSUME ResponseInv, NEW m \in responses, ResponseAccepted(m)
    PROVE  Answers(DecodeResponse(m))
  <1>1. ~ResponseAccepted(Text("diagnostic", FALSE))
    BY DEF ResponseAccepted, Begins, Is, Text
  <1>2. PICK d : Answers(d) /\ m = EncodeResponse(d)
    BY <1>1 DEF ResponseInv
  <1>3. d.pcr_logs \in Seq(LogType(STRING, Contents))
    BY <1>2 DEF Answers
  <1>4. DecodeResponse(EncodeResponse(d)) =
          [attestation_data |-> d.attestation_data,
           tpm2_signature |-> d.tpm2_signature, pcr_logs |-> d.pcr_logs]
    BY <1>3, ResponseFieldsComeBack
  <1>5. DecodeResponse(m) = d
    BY <1>2, <1>4 DEF Answers
  <1> QED
    BY <1>2, <1>5

LEMMA AnswerAlways == Spec => []AnswerInv
  BY InitAnswer, AnswerStep, PTL DEF Spec

\* The IMA log in a response holds every event that the quoted PCR stands for:
\* the handler reads the log only after the quote was made, and a platform that
\* restarts in between takes the handler with it.
THEOREM LogCoversQuoteAlways == Spec => []LogCoversQuote
  <1>1. AnswerInv => LogCoversQuote
    BY DecodedAnswers DEF AnswerInv, LogCoversQuote, Answers, Explains
  <1> QED
    BY <1>1, AnswerAlways, PTL

\* A response never has more logs than the verifier's pcr_logs has room for, and
\* they are the ones that the process it answers has asked for, in that order.
THEOREM LogsNamedAlways == Spec => []LogsNamed
  <1>1. ASSUME AnswerInv, NEW m \in responses, ResponseAccepted(m)
        PROVE  LET res == DecodeResponse(m)
                   identifiers(logs) == Each(LAMBDA l : l.identifier, logs)
               IN  /\ Len(res.pcr_logs) <= SUPPORTED_PCR_LOGS_COUNT
                   /\ identifiers(res.pcr_logs)
                        = identifiers(pcr_logs[res.attestation_data.nonce])
    <2> DEFINE res == DecodeResponse(m)
               asks == pcr_logs[res.attestation_data.nonce]
    <2>1. Answers(res)
      BY <1>1, DecodedAnswers DEF AnswerInv
    <2>2. /\ res.pcr_logs \in Seq(LogType(STRING, Contents))
          /\ Len(res.pcr_logs) = Len(asks)
          /\ res.attestation_data.nonce \in Verifiers
          /\ \A k \in DOMAIN res.pcr_logs :
                res.pcr_logs[k].identifier = asks[k].identifier
      BY <2>1 DEF Answers
    <2>3. asks \in LogRequestList /\ Len(asks) <= SUPPORTED_PCR_LOGS_COUNT
      BY <1>1, <2>2, ListsOfLogs DEF AnswerInv, RequestInv
    <2> HIDE DEF res, asks
    <2>4. DOMAIN res.pcr_logs = DOMAIN asks
      BY <2>2, <2>3
    <2>5. [k \in DOMAIN res.pcr_logs |-> res.pcr_logs[k].identifier]
            = [k \in DOMAIN asks |-> asks[k].identifier]
      BY <2>2, <2>4
    <2> QED
      BY <2>2, <2>3, <2>5 DEF Each, res, asks
  <1>2. AnswerInv => LogsNamed
    BY <1>1 DEF LogsNamed
  <1> QED
    BY <1>2, AnswerAlways, PTL

-----------------------------------------------------------------------------
(* The invariant of the verdict.                                            *)

Selected(v) == tpm_pcr_selection[v]["sha256"]
DefaultSelection ==
    [b \in Banks |-> IF b = "sha256" THEN DefaultPcrs ELSE <<>>]

\* The selection is the static one, or what was made of the last option; the
\* index is where it was at the start until there is a response.
SelectionInv ==
    /\ stage \in [Verifiers -> {"options", "waiting", "refused"}]
    /\ DOMAIN asked = Verifiers
    /\ tpm_pcr_selection \in [Verifiers -> [Banks -> Seq(Indices)]]
    /\ pcr_selection_index \in [Verifiers -> Nat]
    /\ \A v \in Verifiers :
          /\ \/ asked[v] = Nothing /\ tpm_pcr_selection[v] = DefaultSelection
             \/ /\ asked[v] \in Arguments[v] /\ Readable(asked[v])
                /\ tpm_pcr_selection[v] = Parsed(asked[v])
          /\ pcr_selection_index[v] <= Len(Selected(v))
          /\ stage[v] = "options" => pcr_selection_index[v] = 0

\* Nonce v is that of a process that waits, and whose selection is fixed.
Waits(v) == v \in Verifiers /\ stage[v] = "waiting"

\* What is asked for with nonce v is the selection of that process.
Asks(selections, v) ==
    /\ Waits(v)
    /\ selections = <<[tcg_hash_alg_id |-> TPM2_ALG_SHA256,
                       pcrs |-> Selected(v)]>>

\* The values of the PCRs in S, in ascending order.
ValuesIn(pcrs, S) == [k \in DOMAIN Ascending(S) |-> pcrs[Ascending(S)[k]]]

\* If the values are a reference state for v, there was one since its request.
IsWitness(values, v) == IsReference(values, Named(v)) => v \in witnessed

\* A quote is over those PCRs of its process's selection that the TPM has, as
\* they were at some moment since the request.
QuotesSelected(q) ==
    /\ Waits(q.nonce) /\ q.pcrs \in Counts
    /\ q.digest = ValuesIn(q.pcrs, Elements(Selected(q.nonce)) \cap Pcrs)
    /\ IsWitness(q.pcrs, q.nonce)
PlatformIsSeen ==
    /\ witnessed \subseteq Verifiers
    /\ \A v \in Waiting : IsWitness(pcr, v)

RequestsAsk ==
    \A m \in requests :
       Asks(DecodeRequest(m).pcr_selections, DecodeRequest(m).nonce)
HandlerAsks ==
    /\ step \in {"idle", "quote", "logs", "reply"}
    /\ step # "idle" => Asks(req.pcr_selections, req.nonce)
    /\ step \in {"logs", "reply"} => QuotesSelected(quote)
ResponsesQuote ==
    \A m \in responses : ResponseAccepted(m) =>
        QuotesSelected(DecodeResponse(m).attestation_data)
QuoteInv == PlatformIsSeen /\ RequestsAsk /\ HandlerAsks /\ ResponsesQuote

\* The verdict is the RIM manager's answer for the quote that was judged.
Judges(v) ==
    /\ Waits(v)
    /\ judged[v] \in [pcrs : Counts, from : Nat]
    /\ IsWitness(judged[v].pcrs, v)
    /\ attestation_rc[v] = "SUCCESS" <=>
          Accepted(Selected(v), judged[v].from,
                   ValuesIn(judged[v].pcrs, Elements(Selected(v)) \cap Pcrs))
JudgedInv ==
    /\ attestation_rc \in
          [Verifiers -> {"SUCCESS", "ERROR", "VERIFICATION_FAILED"}]
    /\ DOMAIN judged = Verifiers
    /\ \A v \in Verifiers :
          \/ judged[v] = Nothing /\ attestation_rc[v] # "SUCCESS"
          \/ Judges(v)

VerdictInv == SelectionInv /\ QuoteInv /\ JudgedInv

-----------------------------------------------------------------------------
(* The selection.                                                           *)

LEMMA InitSelection == Init => SelectionInv
  <1> SUFFICES ASSUME Init PROVE SelectionInv
    OBVIOUS
  <1>1. DefaultSelection \in [Banks -> Seq(Indices)]
    <2>1. DefaultPcrs \in Seq(Indices) /\ <<>> \in Seq(Indices)
      BY SelectionsAssumption, ExchangeAssumption, MaxPcrsAssumption
         DEF Pcrs, Indices
    <2> QED
      BY <2>1 DEF DefaultSelection
  <1>2. tpm_pcr_selection = [v \in Verifiers |-> DefaultSelection]
    BY DEF Init, DefaultSelection
  <1>3. DefaultSelection["sha256"] \in Seq(Indices)
    BY <1>1 DEF Banks
  <1> QED
    BY <1>1, <1>2, <1>3 DEF Init, SelectionInv, Selected

\* What the option leaves.
LEMMA OptionStep ==
    ASSUME SelectionInv, NEW v \in Verifiers, PcrSelection(v)
    PROVE  SelectionInv'
  <1>1. stage[v] = "options" /\ UNCHANGED pcr_selection_index
    BY DEF PcrSelection
  <1>2. PICK argument \in Arguments[v] :
          \/ /\ Readable(argument)
             /\ asked' = [asked EXCEPT ![v] = argument]
             /\ tpm_pcr_selection' =
                   [tpm_pcr_selection EXCEPT ![v] = Parsed(argument)]
             /\ UNCHANGED stage
          \/ /\ stage' = [stage EXCEPT ![v] = "refused"]
             /\ UNCHANGED <<asked, tpm_pcr_selection>>
    BY DEF PcrSelection
  <1>3. CASE stage' = [stage EXCEPT ![v] = "refused"]
             /\ UNCHANGED <<asked, tpm_pcr_selection>>
    BY <1>1, <1>3 DEF SelectionInv, Selected
  <1>4. CASE /\ Readable(argument)
             /\ asked' = [asked EXCEPT ![v] = argument]
             /\ tpm_pcr_selection' =
                   [tpm_pcr_selection EXCEPT ![v] = Parsed(argument)]
             /\ UNCHANGED stage
    <2>1. Parsed(argument) \in [Banks -> Seq(Indices)]
      BY <1>4, ParsedType, SelectionsAssumption
    <2>2. Len(Parsed(argument)["sha256"]) \in Nat
      BY <2>1 DEF Banks
    <2>3. pcr_selection_index[v] = 0
      BY <1>1 DEF SelectionInv
    <2>4. ASSUME NEW u \in Verifiers
          PROVE  /\ \/ /\ asked'[u] = Nothing
                       /\ tpm_pcr_selection'[u] = DefaultSelection
                    \/ /\ asked'[u] \in Arguments[u] /\ Readable(asked'[u])
                       /\ tpm_pcr_selection'[u] = Parsed(asked'[u])
                 /\ pcr_selection_index[u]
                       <= Len(tpm_pcr_selection'[u]["sha256"])
      BY <1>4, <2>2, <2>3, <2>4 DEF SelectionInv, Selected
    <2> QED
      BY <1>1, <1>4, <2>1, <2>4 DEF SelectionInv, Selected
  <1> QED
    BY <1>2, <1>3, <1>4

LEMMA FirstIsLeast ==
    ASSUME NEW T \in SUBSET Nat, T # {}
    PROVE  First(T) \in T
  <1>1. \E i \in T : \A j \in T : i <= j
    BY LeastNatural
  <1> QED
    BY <1>1 DEF First

\* Wherever a call of the RIM manager ends, the index is in the selection.
LEMMA IndexInRange ==
    ASSUME NEW s \in Seq(Indices), NEW from \in 0 .. Len(s), NEW digest
    PROVE  IndexAfter(s, from, digest) \in 0 .. Len(s)
  <1> DEFINE E == Ending(ReferenceSets, s, from, digest)
             i == First(E)
             M == Missing(ReferenceSets, s, i, from)
  <1>1. Len(s) \in Nat
    OBVIOUS
  <1>2. CASE Len(s) >= MaxPcrs \/ E = {}
    BY <1>1, <1>2 DEF IndexAfter, IndexLeft
  <1>3. CASE E # {} /\ Match(ReferenceSets, s, i, from, digest)
    BY <1>1, <1>3 DEF IndexAfter, IndexLeft
  <1>4. CASE E # {} /\ ~Match(ReferenceSets, s, i, from, digest)
    <2>1. E \in SUBSET Nat
      BY ReferenceSetsAssumption DEF Ending
    <2>2. i \in E
      BY <1>4, <2>1, FirstIsLeast
    <2>3. Incomplete(ReferenceSets, s, i, from)
      BY <1>4, <2>2 DEF Ending
    <2>4. From(i, from) \in Nat /\ From(i, from) <= Len(s)
      BY <1>1 DEF From
    <2> HIDE DEF i, E
    <2>5. M # {} /\ M \in SUBSET (1 .. Len(s))
      <3>1. M # {}
        BY <2>3 DEF Incomplete, Missing
      <3>2. \A k \in From(i, from) + 1 .. Len(s) : k \in 1 .. Len(s)
        BY <1>1, <2>4
      <3>3. \A k \in M : k \in From(i, from) + 1 .. Len(s)
        BY DEF Missing
      <3> HIDE DEF M
      <3> QED
        BY <3>1, <3>2, <3>3
    <2> HIDE DEF M
    <2>6. First(M) \in 1 .. Len(s)
      <3>1. M \in SUBSET Nat
        BY <1>1, <2>5
      <3> QED
        BY <2>5, <3>1, FirstIsLeast
    <2>7. First(M) - 1 \in 0 .. Len(s)
      BY <1>1, <2>6
    <2> QED
      BY <1>2, <1>4, <2>7 DEF IndexAfter, IndexLeft, i, E, M
  <1> QED
    BY <1>2, <1>3, <1>4

\* What a response leaves.
LEMMA IndexStep ==
    ASSUME SelectionInv, NEW v \in Verifiers, Receive(v)
    PROVE  SelectionInv'
  <1>1. /\ stage[v] = "waiting"
        /\ UNCHANGED <<stage, asked, tpm_pcr_selection>>
    BY DEF Receive
  <1>2. /\ Selected(v) \in Seq(Indices)
        /\ pcr_selection_index[v] \in 0 .. Len(Selected(v))
    BY DEF SelectionInv, Selected, Banks
  <1>3. \E k \in 0 .. Len(Selected(v)) :
           pcr_selection_index' = [pcr_selection_index EXCEPT ![v] = k]
    <2>1. CASE CannotAppraise(v)
      <3>1. pcr_selection_index' =
              [pcr_selection_index EXCEPT ![v] = pcr_selection_index[v]]
        BY <2>1 DEF CannotAppraise, SelectionInv
      <3> QED
        BY <1>2, <3>1
    <2>2. CASE ReferenceUnusable(v)
      BY <2>2 DEF ReferenceUnusable, Selected
    <2>3. ASSUME NEW q, Appraise(v, q)
          PROVE  \E k \in 0 .. Len(Selected(v)) :
                    pcr_selection_index' = [pcr_selection_index EXCEPT ![v] = k]
      <3>1. pcr_selection_index' =
              [pcr_selection_index EXCEPT ![v] =
                  IndexAfter(Selected(v), pcr_selection_index[v], q.digest)]
        BY <2>3 DEF Appraise, Selected
      <3> QED
        BY <1>2, <3>1, IndexInRange
    <2> QED
      BY <2>1, <2>2, <2>3 DEF Receive
  <1>4. PICK k \in 0 .. Len(Selected(v)) :
           pcr_selection_index' = [pcr_selection_index EXCEPT ![v] = k]
    BY <1>3
  <1>5. k \in Nat /\ k <= Len(Selected(v))
    BY <1>2
  <1>6. ASSUME NEW u \in Verifiers
        PROVE  /\ pcr_selection_index'[u] <= Len(Selected(u))'
               /\ stage'[u] = "options" => pcr_selection_index'[u] = 0
    BY <1>1, <1>4, <1>5 DEF SelectionInv, Selected
  <1> QED
    BY <1>1, <1>4, <1>5, <1>6 DEF SelectionInv

LEMMA SelectionStep ==
    ASSUME SelectionInv, [Next]_vars
    PROVE  SelectionInv'
  <1>1. CASE \E v \in Verifiers : PcrSelection(v)
    BY <1>1, OptionStep
  <1>2. CASE \E v \in Verifiers : Receive(v)
    BY <1>2, IndexStep
  <1>3. CASE \E v \in Verifiers : Send(v)
    BY <1>3 DEF Send, SelectionInv, Selected
  <1>4. CASE UNCHANGED verifierVars
    BY <1>4 DEF verifierVars, SelectionInv, Selected
  <1> QED
    BY <1>1, <1>2, <1>3, <1>4
       DEF Next, vars, ReceiveRequest, TakeQuote, ReadLog, LogsDone, Reply,
           Fail, AnswerError, Measure, Reboot, Extend

\* Once a process waits, its selection is fixed.
LEMMA WaitingIsFixed ==
    ASSUME SelectionInv, [Next]_vars, NEW v \in Verifiers, stage[v] = "waiting"
    PROVE  /\ stage'[v] = "waiting" /\ asked'[v] = asked[v]
           /\ tpm_pcr_selection'[v] = tpm_pcr_selection[v]
  <1>1. CASE \E u \in Verifiers : PcrSelection(u) \/ Send(u)
    BY <1>1 DEF PcrSelection, Send, SelectionInv
  <1>2. CASE UNCHANGED <<stage, asked, tpm_pcr_selection>>
    BY <1>2
  <1> QED
    BY <1>1, <1>2
       DEF Next, vars, verifierVars, Receive, ReceiveRequest, TakeQuote,
           ReadLog, LogsDone, Reply, Fail, AnswerError, Measure, Reboot, Extend

-----------------------------------------------------------------------------
(* What is asked for and quoted.                                            *)

LEMMA FlattenOne ==
    ASSUME NEW x
    PROVE  FlattenSeq(<<x>>) = x
  <1> DEFINE IsFlat(f) ==
               f = [i \in 1 .. Len(<<x>>) |->
                      IF i = 1 THEN <<x>>[i] ELSE f[i - 1] \o <<x>>[i]]
             g == CHOOSE f : IsFlat(f)
  <1>1. FlattenSeq(<<x>>) = g[Len(<<x>>)]
    BY DEF FlattenSeq
  <1>2. Len(<<x>>) = 1 /\ <<x>>[1] = x
    OBVIOUS
  <1>3. IsFlat([i \in 1 .. 1 |-> x])
    BY <1>2
  <1>4. IsFlat(g)
    BY <1>3
  <1> HIDE DEF g
  <1>5. g[1] = x
    BY <1>2, <1>4
  <1> QED
    BY <1>1, <1>2, <1>5

\* The digest of a quote over one bank.
LEMMA CompositeIs ==
    ASSUME NEW s
    PROVE  Composite(<<[tcg_hash_alg_id |-> TPM2_ALG_SHA256, pcrs |-> s]>>)
             = ValuesIn(pcr, Elements(s) \cap Pcrs)
  <1> DEFINE c == [tcg_hash_alg_id |-> TPM2_ALG_SHA256, pcrs |-> s]
  <1>1. Bitmap(c) = Elements(s) \cap Pcrs
    BY DEF Bitmap, Bit
  <1>2. ValuesOf(c) = ValuesIn(pcr, Elements(s) \cap Pcrs)
    BY <1>1 DEF ValuesOf, ValuesIn, Each
  <1> HIDE DEF c
  <1>3. Each(ValuesOf, <<c>>) = <<ValuesOf(c)>>
    BY DEF Each
  <1> QED
    BY <1>2, <1>3, FlattenOne DEF Composite, c

\* The selection of a process fits the message.
LEMMA SelectionFits ==
    ASSUME SelectionInv, NEW v \in Verifiers
    PROVE  <<[tcg_hash_alg_id |-> TPM2_ALG_SHA256, pcrs |-> Selected(v)]>>
              \in Seq(SelectionType)
  <1>1. Selected(v) \in Seq(Indices)
    BY DEF SelectionInv, Selected, Banks
  <1>2. \A p \in Indices : p \in Below(256)
    BY MaxPcrsAssumption DEF Indices, Below
  <1>3. Selected(v) \in Seq(Below(256))
    BY <1>1, <1>2
  <1>4. TPM2_ALG_SHA256 \in Below(65536)
    BY DEF TPM2_ALG_SHA256, Below
  <1>5. [tcg_hash_alg_id |-> TPM2_ALG_SHA256, pcrs |-> Selected(v)]
           \in SelectionType
    BY <1>3, <1>4 DEF SelectionType
  <1> QED
    BY <1>5

\* What has been there once since a request has been there since.
LEMMA WitnessIsKept ==
    ASSUME SelectionInv, [Next]_vars, NEW v, Waits(v), NEW values
    PROVE  IsWitness(values, v) => IsWitness(values, v)'
  <1>1. v \in Verifiers /\ asked'[v] = asked[v]
    BY WaitingIsFixed DEF Waits
  <1>2. Named(v)' = Named(v)
    BY <1>1 DEF Named
  <1>3. witnessed \subseteq witnessed'
    BY DEF Next, vars, platformVars, PcrSelection, Send, Receive,
           ReceiveRequest, TakeQuote, ReadLog, LogsDone, Reply, Fail,
           AnswerError, Measure, Extend, Reboot
  <1>4. IsReference(values, Named(v))' <=> IsReference(values, Named(v))
    BY <1>2 DEF IsReference, Satisfies
  <1> QED
    BY <1>3, <1>4 DEF IsWitness

\* The platform as it is has been seen by every process that waits.
LEMMA PlatformIsSeenStep ==
    ASSUME SelectionInv, PlatformIsSeen, [Next]_vars
    PROVE  PlatformIsSeen'
  <1>1. \A v \in Waiting : \A values :
           IsWitness(values, v) => IsWitness(values, v)'
    BY WitnessIsKept DEF Waiting, Waits
  <1>2. ASSUME NEW v \in Verifiers, Send(v) PROVE PlatformIsSeen'
    <2>1. /\ Waiting' = Waiting \cup {v} /\ UNCHANGED <<pcr, asked>>
          /\ witnessed' = witnessed \cup AttestedBy(pcr, {v})
      BY <1>2 DEF Send, Waiting, SelectionInv
    <2>2. IsWitness(pcr, v)'
      BY <2>1 DEF IsWitness, AttestedBy, IsReference, Satisfies, Named
    <2>3. AttestedBy(pcr, {v}) \subseteq Verifiers
      BY DEF AttestedBy
    <2> QED
      BY <1>1, <2>1, <2>2, <2>3 DEF PlatformIsSeen
  <1>3. CASE /\ UNCHANGED <<stage, asked>>
             /\ witnessed' = witnessed \cup AttestedBy(pcr', Waiting)
    <2>1. Waiting' = Waiting /\ Waiting \subseteq Verifiers
      BY <1>3 DEF Waiting
    <2>2. \A v \in Waiting : IsWitness(pcr, v)'
      BY <1>3 DEF IsWitness, AttestedBy, IsReference, Satisfies, Named
    <2>3. AttestedBy(pcr', Waiting) \subseteq Verifiers
      BY <2>1 DEF AttestedBy
    <2> QED
      BY <1>3, <2>1, <2>2, <2>3 DEF PlatformIsSeen
  <1>4. CASE UNCHANGED <<pcr, witnessed>> /\ Waiting' \subseteq Waiting
    BY <1>1, <1>4 DEF PlatformIsSeen
  <1>5. ASSUME NEW v \in Verifiers, PcrSelection(v)
        PROVE  PlatformIsSeen'
    <2>1. Waiting' \subseteq Waiting
      BY <1>5 DEF PcrSelection, Waiting, SelectionInv
    <2> QED
      BY <1>4, <1>5, <2>1 DEF PcrSelection, platformVars
  <1>6. CASE UNCHANGED <<stage, pcr, witnessed>>
    BY <1>4, <1>6 DEF Waiting
  <1> QED
    BY <1>2, <1>3, <1>4, <1>5, <1>6
       DEF Next, vars, verifierVars, platformVars, Receive, ReceiveRequest,
           TakeQuote, ReadLog, LogsDone, Reply, Fail, AnswerError, Measure,
           Extend, Reboot

\* What is said about a process that waits stays true.
LEMMA WaitingIsKept ==
    ASSUME SelectionInv, [Next]_vars
    PROVE  /\ \A x, v : Asks(x, v) => Asks(x, v)'
           /\ \A q : QuotesSelected(q) => QuotesSelected(q)'
  <1>1. \A v : Waits(v) => Waits(v)' /\ Selected(v)' = Selected(v)
    BY WaitingIsFixed DEF Waits, Selected
  <1>2. ASSUME NEW x, NEW v, Asks(x, v) PROVE Asks(x, v)'
    BY <1>1, <1>2 DEF Asks
  <1>3. ASSUME NEW q, QuotesSelected(q) PROVE QuotesSelected(q)'
    <2>1. Waits(q.nonce) /\ IsWitness(q.pcrs, q.nonce)
      BY <1>3 DEF QuotesSelected
    <2>2. IsWitness(q.pcrs, q.nonce)'
      BY <2>1, WitnessIsKept
    <2> QED
      BY <1>1, <1>3, <2>2 DEF QuotesSelected, ValuesIn
  <1> QED
    BY <1>2, <1>3

LEMMA RequestsAskStep ==
    ASSUME SelectionInv, RequestsAsk, [Next]_vars
    PROVE  RequestsAsk'
  <1>1. \A x, v : Asks(x, v) => Asks(x, v)'
    BY WaitingIsKept
  <1>2. CASE \E v \in Verifiers : Send(v)
    <2>1. PICK v \in Verifiers : Send(v)
      BY <1>2
    <2>2. PICK version \in Versions[v] :
            requests' = requests \cup {EncodeRequest(RequestOf(v, version))}
      BY <2>1 DEF Send
    <2> DEFINE d == RequestOf(v, version)
    <2>3. /\ d.nonce = v
          /\ d.pcr_selections =
                <<[tcg_hash_alg_id |-> TPM2_ALG_SHA256, pcrs |-> Selected(v)]>>
      BY DEF RequestOf, Selected
    <2> HIDE DEF d
    <2>4. PICK m : /\ m = EncodeRequest(d)
                   /\ DecodeRequest(m).nonce = v
                   /\ DecodeRequest(m).pcr_selections =
                        <<[tcg_hash_alg_id |-> TPM2_ALG_SHA256,
                           pcrs |-> Selected(v)]>>
      BY <2>3, SelectionFits, NonceAndSelectionsComeBack
    <2>5. Waits(v)' /\ Selected(v)' = Selected(v)
      BY <2>1 DEF Send, Waits, Selected, SelectionInv
    <2>6. Asks(DecodeRequest(m).pcr_selections, DecodeRequest(m).nonce)'
      BY <2>4, <2>5 DEF Asks
    <2>7. requests' = requests \cup {m}
      BY <2>2, <2>4 DEF d
    <2> QED
      BY <1>1, <2>6, <2>7 DEF RequestsAsk
  <1>3. CASE UNCHANGED requests
    BY <1>1, <1>3 DEF RequestsAsk
  <1> QED
    BY <1>2, <1>3
       DEF Next, vars, networkVars, PcrSelection, Receive, ReceiveRequest,
           TakeQuote, ReadLog, LogsDone, Reply, Fail, AnswerError, Measure,
           Reboot, Extend

LEMMA HandlerAsksStep ==
    ASSUME SelectionInv, PlatformInv, PlatformIsSeen, RequestsAsk, HandlerAsks,
           [Next]_vars
    PROVE  HandlerAsks'
  <1>1. /\ \A x, v : Asks(x, v) => Asks(x, v)'
        /\ \A q : QuotesSelected(q) => QuotesSelected(q)'
    BY WaitingIsKept
  <1>2. CASE ReceiveRequest
    BY <1>1, <1>2 DEF ReceiveRequest, After, RequestsAsk, HandlerAsks
  <1>3. CASE TakeQuote
    <2>1. /\ step = "quote" /\ step' = "logs" /\ UNCHANGED req
          /\ quote' = [nonce |-> req.nonce,
                       digest |-> Composite(req.pcr_selections), pcrs |-> pcr]
      BY <1>3 DEF TakeQuote, After
    <2>2. Asks(req.pcr_selections, req.nonce)
      BY <2>1 DEF HandlerAsks
    <2>3. QuotesSelected(quote')
      <3>1. /\ quote'.nonce = req.nonce /\ quote'.pcrs = pcr
            /\ quote'.digest = Composite(req.pcr_selections)
        BY <2>1
      <3>2. Composite(req.pcr_selections) =
              ValuesIn(pcr, Elements(Selected(req.nonce)) \cap Pcrs)
        BY <2>2, CompositeIs DEF Asks
      <3>3. IsWitness(pcr, req.nonce)
        BY <2>2 DEF PlatformIsSeen, Asks, Waits, Waiting
      <3> QED
        BY <2>2, <3>1, <3>2, <3>3 DEF QuotesSelected, Asks, PlatformInv
    <2> QED
      BY <1>1, <2>1, <2>2, <2>3 DEF HandlerAsks
  <1>4. CASE LogsDone
    BY <1>1, <1>4 DEF LogsDone, After, HandlerAsks
  <1>5. CASE Idle
    BY <1>5 DEF Idle, HandlerAsks
  <1>6. CASE UNCHANGED <<step, req, quote>>
    BY <1>1, <1>6 DEF HandlerAsks
  <1> QED
    BY <1>2, <1>3, <1>4, <1>5, <1>6
       DEF Next, vars, attesterVars, PcrSelection, Send, Receive, ReadLog,
           Reply, Fail, AnswerError, Measure, Reboot, Extend

LEMMA ResponsesQuoteStep ==
    ASSUME AnswerInv, SelectionInv, HandlerAsks, ResponsesQuote, [Next]_vars
    PROVE  ResponsesQuote'
  <1>1. \A q : QuotesSelected(q) => QuotesSelected(q)'
    BY WaitingIsKept
  <1>2. CASE Reply
    <2>1. PICK d : /\ Answers(d) /\ d.attestation_data = quote
                   /\ responses' = responses \cup {EncodeResponse(d)}
      BY <1>2, ReplyAnswers
    <2>2. DecodeResponse(EncodeResponse(d)) =
            [attestation_data |-> d.attestation_data,
             tpm2_signature |-> d.tpm2_signature, pcr_logs |-> d.pcr_logs]
      BY <2>1, ResponseFieldsComeBack DEF Answers
    <2>3. QuotesSelected(DecodeResponse(EncodeResponse(d)).attestation_data)
      BY <1>2, <2>1, <2>2 DEF Reply, HandlerAsks
    <2> QED
      BY <1>1, <2>1, <2>3 DEF ResponsesQuote
  <1>3. CASE AnswerError
    <2>1. ~ResponseAccepted(Text("diagnostic", FALSE))
      BY DEF ResponseAccepted, Begins, Is, Text
    <2> QED
      BY <1>1, <1>3, <2>1 DEF AnswerError, ResponsesQuote
  <1>4. CASE UNCHANGED responses
    BY <1>1, <1>4 DEF ResponsesQuote
  <1> QED
    BY <1>2, <1>3, <1>4
       DEF Next, vars, networkVars, PcrSelection, Send, Receive,
           ReceiveRequest, TakeQuote, ReadLog, LogsDone, Fail, Measure,
           Reboot, Extend

-----------------------------------------------------------------------------
(* What is judged.                                                          *)

\* The end of the handler, for a quote over its process's selection.
LEMMA AppraiseJudges ==
    ASSUME SelectionInv, JudgedInv, NEW v \in Verifiers, stage[v] = "waiting",
           NEW q, QuotesSelected(q), Appraise(v, q),
           UNCHANGED <<stage, asked, tpm_pcr_selection, witnessed>>
    PROVE  JudgedInv'
  <1> DEFINE s == Selected(v)
             from == pcr_selection_index[v]
             good == OwnNonce(v, q) /\ Accepted(s, from, q.digest)
  <1>1. /\ attestation_rc' = [attestation_rc EXCEPT
              ![v] = IF good THEN "SUCCESS" ELSE "VERIFICATION_FAILED"]
        /\ judged' = [judged EXCEPT
              ![v] = IF q.nonce = v THEN [pcrs |-> q.pcrs, from |-> from]
                     ELSE Nothing]
    BY DEF Appraise, Selected, OwnNonce
  <1>2. /\ q.pcrs \in Counts /\ from \in Nat
        /\ q.nonce = v =>
              q.digest = ValuesIn(q.pcrs, Elements(s) \cap Pcrs)
    BY DEF QuotesSelected, SelectionInv
  <1>3. \A u : Waits(u)' = Waits(u) /\ Selected(u)' = Selected(u)
    BY DEF Waits, Selected
  <1>9. \A u, values : IsWitness(values, u) => IsWitness(values, u)'
    BY DEF IsWitness, IsReference, Satisfies, Named
  <1>4. attestation_rc'[v] = "SUCCESS" <=> good
    BY <1>1 DEF JudgedInv
  <1>5. judged'[v] = IF q.nonce = v THEN [pcrs |-> q.pcrs, from |-> from]
                     ELSE Nothing
    BY <1>1 DEF JudgedInv
  <1>6. \/ judged'[v] = Nothing /\ attestation_rc'[v] # "SUCCESS"
        \/ Judges(v)'
    <2>1. CASE q.nonce = v
      <3>1. /\ judged'[v] \in [pcrs : Counts, from : Nat]
            /\ judged'[v].pcrs = q.pcrs /\ judged'[v].from = from
        BY <1>2, <1>5, <2>1
      <3>2. Waits(v)
        BY DEF Waits
      <3>3. attestation_rc'[v] = "SUCCESS" <=> Accepted(s, from, q.digest)
        BY <1>4, <2>1 DEF OwnNonce
      <3>7. IsWitness(judged[v].pcrs, v)'
        BY <1>9, <2>1, <3>1 DEF QuotesSelected
      <3>4. q.digest = ValuesIn(q.pcrs, Elements(s) \cap Pcrs)
        BY <1>2, <2>1
      <3> HIDE DEF good, s, from
      <3>5. attestation_rc'[v] = "SUCCESS" <=>
              Accepted(s, judged'[v].from,
                       ValuesIn(judged'[v].pcrs, Elements(s) \cap Pcrs))
        BY <3>1, <3>3, <3>4
      <3>6. Waits(v)' /\ Selected(v)' = s
        BY <1>3, <3>2 DEF s
      <3> QED
        BY <3>1, <3>5, <3>6, <3>7 DEF Judges
    <2>2. CASE q.nonce # v
      BY <1>4, <1>5, <2>2 DEF OwnNonce
    <2> QED
      BY <2>1, <2>2
  <1>7. ASSUME NEW u \in Verifiers, u # v
        PROVE  \/ judged'[u] = Nothing /\ attestation_rc'[u] # "SUCCESS"
               \/ Judges(u)'
    <2>1. judged'[u] = judged[u] /\ attestation_rc'[u] = attestation_rc[u]
      BY <1>1, <1>7 DEF JudgedInv
    <2> QED
      BY <1>3, <1>9, <2>1 DEF JudgedInv, Judges, ValuesIn
  <1>8. /\ attestation_rc' \in
              [Verifiers -> {"SUCCESS", "ERROR", "VERIFICATION_FAILED"}]
        /\ DOMAIN judged' = Verifiers
    BY <1>1 DEF JudgedInv
  <1> QED
    BY <1>6, <1>7, <1>8 DEF JudgedInv

LEMMA JudgedStep ==
    ASSUME SelectionInv, ResponsesQuote, JudgedInv, [Next]_vars
    PROVE  JudgedInv'
  <1>1. ASSUME NEW v \in Verifiers, Receive(v) PROVE JudgedInv'
    <2>1. /\ stage[v] = "waiting"
          /\ UNCHANGED <<stage, asked, tpm_pcr_selection, witnessed>>
      BY <1>1 DEF Receive, platformVars
    <2>7. \A u, values : IsWitness(values, u) => IsWitness(values, u)'
      BY <2>1 DEF IsWitness, IsReference, Satisfies, Named
    <2>2. PICK m \in responses :
            \/ CannotAppraise(v)
            \/ ResponseAccepted(m) /\ ReferenceUnusable(v)
            \/ /\ ResponseAccepted(m)
               /\ Appraise(v, DecodeResponse(m).attestation_data)
      BY <1>1 DEF Receive
    <2>3. ASSUME NEW code \in {"ERROR", "VERIFICATION_FAILED"},
                 attestation_rc' = [attestation_rc EXCEPT ![v] = code],
                 judged' = [judged EXCEPT ![v] = Nothing]
          PROVE  JudgedInv'
      BY <2>1, <2>3, <2>7 DEF JudgedInv, Judges, Waits, Selected, ValuesIn
    <2>4. CASE CannotAppraise(v)
      BY <2>3, <2>4 DEF CannotAppraise
    <2>5. CASE ReferenceUnusable(v)
      BY <2>3, <2>5 DEF ReferenceUnusable
    <2>6. CASE /\ ResponseAccepted(m)
               /\ Appraise(v, DecodeResponse(m).attestation_data)
      <3>1. QuotesSelected(DecodeResponse(m).attestation_data)
        BY <2>6 DEF ResponsesQuote
      <3> QED
        BY <2>1, <2>6, <3>1, AppraiseJudges
    <2> QED
      BY <2>2, <2>4, <2>5, <2>6
  <1>2. CASE UNCHANGED <<attestation_rc, judged>>
    <2>1. ASSUME NEW v \in Verifiers, Judges(v) PROVE Judges(v)'
      <3>1. stage[v] = "waiting"
        BY <2>1 DEF Judges, Waits
      <3>2. Waits(v)' /\ Selected(v)' = Selected(v)
        BY <3>1, WaitingIsFixed DEF Waits, Selected
      <3>3. IsWitness(judged[v].pcrs, v)'
        <4>1. PICK values : values = judged[v].pcrs
          OBVIOUS
        <4>2. IsWitness(values, v) /\ Waits(v)
          BY <2>1, <4>1 DEF Judges
        <4>3. IsWitness(values, v)'
          BY <4>2, WitnessIsKept
        <4> QED
          BY <1>2, <4>1, <4>3
      <3> QED
        BY <1>2, <2>1, <3>2, <3>3 DEF Judges, ValuesIn
    <2> QED
      BY <1>2, <2>1 DEF JudgedInv
  <1> QED
    BY <1>1, <1>2
       DEF Next, vars, verifierVars, PcrSelection, Send, ReceiveRequest,
           TakeQuote, ReadLog, LogsDone, Reply, Fail, AnswerError, Measure,
           Reboot, Extend

LEMMA VerdictAlways == Spec => []VerdictInv
  <1>1. Init => VerdictInv
    <2> SUFFICES ASSUME Init PROVE VerdictInv
      OBVIOUS
    <2>1. SelectionInv
      BY InitSelection
    <2>2. QuoteInv
      BY DEF Init, QuoteInv, PlatformIsSeen, Waiting, RequestsAsk, HandlerAsks,
             ResponsesQuote
    <2>3. JudgedInv
      BY DEF Init, JudgedInv
    <2> QED
      BY <2>1, <2>2, <2>3 DEF VerdictInv
  <1>2. AnswerInv /\ VerdictInv /\ [Next]_vars => VerdictInv'
    BY SelectionStep, PlatformIsSeenStep, RequestsAskStep, HandlerAsksStep,
       ResponsesQuoteStep, JudgedStep DEF AnswerInv, VerdictInv, QuoteInv
  <1> QED
    BY <1>1, <1>2, AnswerAlways, PTL DEF Spec

-----------------------------------------------------------------------------
(* What a verdict says.                                                     *)

LEMMA IndicesAreNaturals ==
    ASSUME NEW s \in Seq(Indices)
    PROVE  s \in Seq(Nat)
  <1>1. \A p \in Indices : p \in Nat
    BY MaxPcrsAssumption DEF Indices
  <1> QED
    BY <1>1

\* The static selection is one that an option could have left.
LEMMA DefaultFits ==
    /\ DefaultPcrs \in Seq(Indices) /\ IsAscending(DefaultPcrs)
    /\ Len(DefaultPcrs) <= MaxPcrs
  <1>1. \A p \in Pcrs : p \in Indices
    BY ExchangeAssumption, MaxPcrsAssumption DEF Pcrs, Indices
  <1>2. DefaultPcrs \in Seq(Indices) /\ IsAscending(DefaultPcrs)
    BY <1>1, SelectionsAssumption
  <1>3. Elements(DefaultPcrs) \in SUBSET Indices
    BY <1>2 DEF Elements
  <1>4. DefaultPcrs \in Seq(Nat)
    BY <1>2, IndicesAreNaturals
  <1>5. IsFiniteSet(Indices) /\ Cardinality(Indices) = MaxPcrs
    BY MaxPcrsAssumption, FS_Interval DEF Indices
  <1>6. Cardinality(Elements(DefaultPcrs)) <= MaxPcrs
    BY <1>3, <1>5, FS_Subset
  <1> QED
    BY <1>2, <1>4, <1>6, AscendingCounts

\* The selection is what the command line names, in ascending order, or it is
\* too long for the RIM manager.
LEMMA SelectedNames ==
    ASSUME SelectionInv, NEW v \in Verifiers
    PROVE  /\ Selected(v) \in Seq(Indices) /\ Len(Selected(v)) <= MaxPcrs
           /\ \/ Len(Selected(v)) = MaxPcrs /\ Named(v) = Indices
              \/ IsAscending(Selected(v)) /\ Elements(Selected(v)) = Named(v)
  <1>1. CASE asked[v] = Nothing /\ tpm_pcr_selection[v] = DefaultSelection
    <2>1. Selected(v) = DefaultPcrs
      BY <1>1 DEF Selected, DefaultSelection, Banks
    <2> QED
      BY <1>1, <2>1, DefaultFits DEF Named
  <1>2. CASE /\ asked[v] \in Arguments[v] /\ Readable(asked[v])
             /\ tpm_pcr_selection[v] = Parsed(asked[v])
    <2>1. asked[v] # Nothing /\ asked[v] \in ArgumentType
      BY <1>2, NothingAssumption, SelectionsAssumption
    <2>2. "sha256" \in Banks
      BY DEF Banks
    <2> QED
      BY <1>2, <2>1, <2>2, ParsedSelectsNamed DEF Selected, Named
  <1> QED
    BY <1>1, <1>2 DEF SelectionInv

\* If the TPM has all PCRs of a selection, a quote is over all of them, in
\* order.
LEMMA ValuesOfSelection ==
    ASSUME NEW s \in Seq(Indices), IsAscending(s), NEW pcrs,
           Elements(s) \subseteq Pcrs
    PROVE  ValuesIn(pcrs, Elements(s) \cap Pcrs)
             = [k \in DOMAIN s |-> pcrs[s[k]]]
  <1>1. Elements(s) \cap Pcrs = Elements(s) /\ Elements(s) \in SUBSET Indices
    BY DEF Elements
  <1>2. s \in Seq(Nat)
    BY IndicesAreNaturals
  <1>3. Ascending(Elements(s)) = s
    <2>1. /\ Ascending(Elements(s)) \in Seq(Indices)
          /\ IsAscending(Ascending(Elements(s)))
          /\ Elements(Ascending(Elements(s))) = Elements(s)
      BY <1>1, AscendingFits
    <2>2. Ascending(Elements(s)) \in Seq(Nat)
      BY <2>1, IndicesAreNaturals
    <2> QED
      BY <1>2, <2>1, <2>2, AscendingIsUnique
  <1> QED
    BY <1>1, <1>3 DEF ValuesIn

\* If it does not, the digest is over fewer values than the selection has.
LEMMA ShortDigest ==
    ASSUME NEW s \in Seq(Indices), IsAscending(s), NEW pcrs,
           DOMAIN ValuesIn(pcrs, Elements(s) \cap Pcrs) = DOMAIN s
    PROVE  Elements(s) \subseteq Pcrs
  <1> DEFINE S == Elements(s)
             t == Ascending(S \cap Pcrs)
  <1>1. S \in SUBSET Indices /\ S \cap Pcrs \in SUBSET Indices
    BY DEF Elements
  <1>2. /\ t \in Seq(Indices) /\ IsAscending(t) /\ Elements(t) = S \cap Pcrs
    BY <1>1, AscendingFits
  <1>3. DOMAIN t = DOMAIN s
    BY DEF ValuesIn
  <1> HIDE DEF t
  <1>4. Len(t) = Len(s)
    BY <1>2, <1>3
  <1>5. s \in Seq(Nat) /\ t \in Seq(Nat)
    BY <1>2, IndicesAreNaturals
  <1>6. IsFiniteSet(S) /\ Cardinality(S) = Len(s)
    BY <1>5, AscendingCounts
  <1>7. Cardinality(S \cap Pcrs) = Len(t)
    BY <1>2, <1>5, AscendingCounts
  <1> HIDE DEF S
  <1>8. S \cap Pcrs = S
    BY <1>4, <1>6, <1>7, FS_Subset
  <1> QED
    BY <1>8 DEF S

\* A set that matches is a reference for every PCR of the selection.
LEMMA MatchSatisfies ==
    ASSUME NEW s \in Seq(Indices), IsAscending(s), NEW pcrs \in Counts,
           NEW i \in DOMAIN ReferenceSets, NEW from,
           Match(ReferenceSets, s, i, from,
                 ValuesIn(pcrs, Elements(s) \cap Pcrs))
    PROVE  Satisfies(pcrs, i, Elements(s))
  <1> DEFINE digest == ValuesIn(pcrs, Elements(s) \cap Pcrs)
  <1>1. /\ ~Incomplete(ReferenceSets, s, i, from)
        /\ From(i, from) = 0 \/ s = <<>>
        /\ digest = [k \in DOMAIN s |-> ReferenceSets[i][s[k]]]
    BY DEF Match
  <1>2. DOMAIN digest = DOMAIN s
    BY <1>1
  <1>3. Elements(s) \subseteq Pcrs
    BY <1>2, ShortDigest
  <1>4. digest = [k \in DOMAIN s |-> pcrs[s[k]]]
    BY <1>3, ValuesOfSelection
  <1> HIDE DEF digest
  <1>5. \A k \in DOMAIN s :
           /\ s[k] \in DOMAIN pcrs /\ s[k] \in DOMAIN ReferenceSets[i]
           /\ pcrs[s[k]] = ReferenceSets[i][s[k]]
    <2> SUFFICES ASSUME NEW k \in DOMAIN s
                 PROVE  /\ s[k] \in DOMAIN pcrs
                        /\ s[k] \in DOMAIN ReferenceSets[i]
                        /\ pcrs[s[k]] = ReferenceSets[i][s[k]]
      OBVIOUS
    <2>1. s[k] \in DOMAIN pcrs
      BY <1>3 DEF Elements, Counts
    <2>2. s[k] \in DOMAIN ReferenceSets[i]
      <3>1. From(i, from) = 0 /\ k \in 1 .. Len(s)
        BY <1>1
      <3>2. k \in From(i, from) + 1 .. Len(s)
        BY <3>1
      <3> QED
        BY <1>1, <3>2 DEF Incomplete
    <2>3. digest[k] = pcrs[s[k]] /\ digest[k] = ReferenceSets[i][s[k]]
      BY <1>1, <1>4
    <2> QED
      BY <2>1, <2>2, <2>3
  <1> QED
    BY <1>5 DEF Satisfies, Elements

\* A process succeeds only with a quote of its own, made when each PCR that its
\* command line names for sha256 had the value that one reference set has for
\* it: in whatever order and how often the option was given, whoever else asks
\* at the same time, and wherever the static index was.
THEOREM PositiveMeansReferenceAlways == Spec => []PositiveMeansReference
  <1>1. ASSUME VerdictInv, NEW v \in Verifiers, attestation_rc[v] = "SUCCESS"
        PROVE  judged[v] # Nothing /\ IsReference(judged[v].pcrs, Named(v))
    <2> DEFINE s == Selected(v)
               pcrs == judged[v].pcrs
               from == judged[v].from
               digest == ValuesIn(pcrs, Elements(s) \cap Pcrs)
               E == Ending(ReferenceSets, s, from, digest)
    <2>1. Judges(v)
      BY <1>1 DEF VerdictInv, JudgedInv
    <2>2. /\ judged[v] \in [pcrs : Counts, from : Nat]
          /\ Accepted(s, from, digest)
      BY <1>1, <2>1 DEF Judges
    <2>3. judged[v] # Nothing /\ pcrs \in Counts
      BY <2>2, NothingAssumption DEF Counts
    <2>4. Len(s) < MaxPcrs /\ E # {}
          /\ Match(ReferenceSets, s, First(E), from, digest)
      BY <2>2 DEF Accepted, SomeSetMatches
    <2>5. First(E) \in DOMAIN ReferenceSets
      <3>1. E \in SUBSET Nat /\ E \in SUBSET DOMAIN ReferenceSets
        BY ReferenceSetsAssumption DEF Ending
      <3> HIDE DEF E
      <3> QED
        BY <2>4, <3>1, FirstIsLeast
    <2>6. /\ s \in Seq(Indices) /\ IsAscending(s)
          /\ Elements(s) = Named(v)
      <3>1. SelectionInv
        BY <1>1 DEF VerdictInv
      <3>2. ~(Len(s) = MaxPcrs)
        BY <2>4, MaxPcrsAssumption
      <3> QED
        BY <3>1, <3>2, SelectedNames
    <2> HIDE DEF E, s, from
    <2>7. Satisfies(pcrs, First(E), Elements(s))
      BY <2>3, <2>4, <2>5, <2>6, MatchSatisfies
    <2> QED
      BY <2>3, <2>5, <2>6, <2>7 DEF IsReference
  <1>2. VerdictInv => PositiveMeansReference
    BY <1>1 DEF PositiveMeansReference
  <1> QED
    BY <1>2, VerdictAlways, PTL


\* And there was such a moment after the process had sent its request: its nonce
\* is in no quote that is older.
THEOREM PositiveIsWitnessedAlways == Spec => []PositiveIsWitnessed
  <1>1. ASSUME VerdictInv, PositiveMeansReference, NEW v \in Verifiers,
               attestation_rc[v] = "SUCCESS"
        PROVE  v \in witnessed
    <2>1. Judges(v)
      BY <1>1 DEF VerdictInv, JudgedInv
    <2> QED
      BY <1>1, <2>1 DEF Judges, IsWitness, PositiveMeansReference
  <1>2. VerdictInv /\ PositiveMeansReference => PositiveIsWitnessed
    BY <1>1 DEF PositiveIsWitnessed
  <1> QED
    BY <1>2, VerdictAlways, PositiveMeansReferenceAlways, PTL

\* A set that has the values quoted for all PCRs of the selection matches, if it
\* is read from its start.
LEMMA SatisfiesMatches ==
    ASSUME NEW s \in Seq(Indices), NEW pcrs, NEW i \in DOMAIN ReferenceSets,
           Satisfies(pcrs, i, Elements(s))
    PROVE  Match(ReferenceSets, s, i, 0, [k \in DOMAIN s |-> pcrs[s[k]]])
  <1>1. From(i, 0) = 0
    BY DEF From
  <1>2. \A k \in DOMAIN s : /\ s[k] \in DOMAIN ReferenceSets[i]
                            /\ pcrs[s[k]] = ReferenceSets[i][s[k]]
    BY DEF Satisfies, Elements
  <1>3. ~Incomplete(ReferenceSets, s, i, 0)
    <2>1. \A k \in From(i, 0) + 1 .. Len(s) : k \in DOMAIN s
      BY <1>1
    <2> QED
      BY <1>2, <2>1 DEF Incomplete
  <1>4. [k \in DOMAIN s |-> pcrs[s[k]]]
          = [k \in DOMAIN s |-> ReferenceSets[i][s[k]]]
    BY <1>2
  <1> QED
    BY <1>1, <1>3, <1>4 DEF Match

\* A set with all PCRs of the selection ends a call only as a match.
LEMMA CompleteSets ==
    ASSUME NEW s \in Seq(Indices), NEW i \in DOMAIN ReferenceSets,
           Elements(s) \subseteq DOMAIN ReferenceSets[i]
    PROVE  ~Incomplete(ReferenceSets, s, i, 0)
  <1>1. \A k \in From(i, 0) + 1 .. Len(s) : k \in DOMAIN s
    BY DEF From
  <1> QED
    BY <1>1 DEF Incomplete, Elements

\* A platform in a reference state is found to be in one: if the TPM has the PCRs
\* named, all reference sets have them, and no earlier call has left the index in
\* the middle, the verdict is positive, however the option was typed.
THEOREM ReferenceIsAcceptedAlways == Spec => []ReferenceIsAccepted
  <1>1. ASSUME VerdictInv, NEW v \in Verifiers,
               judged[v] # Nothing, judged[v].from = 0,
               Named(v) \subseteq Pcrs,
               \A i \in DOMAIN ReferenceSets :
                  Named(v) \subseteq DOMAIN ReferenceSets[i],
               IsReference(judged[v].pcrs, Named(v))
        PROVE  attestation_rc[v] = "SUCCESS"
    <2> DEFINE s == Selected(v)
               pcrs == judged[v].pcrs
               digest == ValuesIn(pcrs, Elements(s) \cap Pcrs)
               E == Ending(ReferenceSets, s, 0, digest)
    <2>1. Judges(v) /\ SelectionInv
      BY <1>1 DEF VerdictInv, JudgedInv
    <2>2. /\ s \in Seq(Indices) /\ IsAscending(s)
          /\ Elements(s) = Named(v)
      <3>1. SelectBits \in Indices /\ SelectBits \notin Pcrs
        BY ExchangeAssumption, MaxPcrsAssumption DEF Pcrs, Indices
      <3>2. Named(v) # Indices
        BY <1>1, <3>1
      <3> QED
        BY <2>1, <3>2, SelectedNames
    <2>3. Len(s) < MaxPcrs
      <3>1. s \in Seq(Nat)
        BY <2>2, IndicesAreNaturals
      <3>2. Cardinality(Elements(s)) = Len(s)
        BY <2>2, <3>1, AscendingCounts
      <3>3. IsFiniteSet(Pcrs) /\ Cardinality(Pcrs) = SelectBits
        BY ExchangeAssumption, FS_Interval DEF Pcrs
      <3>4. Cardinality(Elements(s)) <= SelectBits
        BY <1>1, <2>2, <3>3, FS_Subset
      <3> QED
        BY <3>2, <3>4, ExchangeAssumption, MaxPcrsAssumption
    <2>4. digest = [k \in DOMAIN s |-> pcrs[s[k]]]
      BY <1>1, <2>2, ValuesOfSelection
    <2>5. attestation_rc[v] = "SUCCESS" <=> Accepted(s, 0, digest)
      BY <1>1, <2>1 DEF Judges
    <2>6. PICK i \in DOMAIN ReferenceSets : Satisfies(pcrs, i, Elements(s))
      BY <1>1, <2>2 DEF IsReference
    <2> HIDE DEF s, pcrs, digest
    <2>7. Match(ReferenceSets, s, i, 0, digest)
      BY <2>2, <2>4, <2>6, SatisfiesMatches
    <2>8. \A j \in DOMAIN ReferenceSets : ~Incomplete(ReferenceSets, s, j, 0)
      BY <1>1, <2>2, CompleteSets
    <2>9. i \in E /\ E \in SUBSET DOMAIN ReferenceSets
          /\ \A j \in E : Match(ReferenceSets, s, j, 0, digest)
      BY <2>7, <2>8 DEF Ending
    <2> HIDE DEF E
    <2>10. First(E) \in E
      <3>1. E \in SUBSET Nat
        BY <2>9, ReferenceSetsAssumption
      <3> QED
        BY <2>9, <3>1, FirstIsLeast
    <2> QED
      BY <2>3, <2>5, <2>9, <2>10 DEF Accepted, SomeSetMatches, E
  <1>2. VerdictInv => ReferenceIsAccepted
    BY <1>1 DEF ReferenceIsAccepted
  <1> QED
    BY <1>2, VerdictAlways, PTL

-----------------------------------------------------------------------------
(* Types.                                                                   *)

\* The counters are within their bounds.
BoundsInv == pcr \in [Pcrs -> 0 .. MaxEvents] /\ ima_log \in 0 .. MaxEvents

LEMMA BoundsAlways == Spec => []BoundsInv
  <1> USE ExchangeAssumption DEF BoundsInv
  <1>1. Init => BoundsInv
    BY DEF Init
  <1>2. ASSUME BoundsInv, [Next]_vars PROVE BoundsInv'
    <2>1. CASE Measure
      BY <1>2, <2>1 DEF Measure
    <2>2. CASE Reboot
      BY <1>2, <2>2 DEF Reboot
    <2>3. CASE \E p \in Pcrs : Extend(p)
      <3>1. PICK p \in Pcrs : Extend(p)
        BY <2>3
      <3>2. pcr[p] < MaxEvents /\ pcr[p] \in 0 .. MaxEvents
        BY <1>2, <3>1 DEF Extend
      <3>3. pcr[p] + 1 \in 0 .. MaxEvents
        BY <3>2
      <3> QED
        BY <1>2, <3>1, <3>3 DEF Extend
    <2>4. CASE UNCHANGED <<pcr, ima_log>>
      BY <1>2, <2>4
    <2> QED
      BY <1>2, <2>1, <2>2, <2>3, <2>4
         DEF Next, vars, platformVars, PcrSelection, Send, Receive,
             ReceiveRequest, TakeQuote, ReadLog, LogsDone, Reply, Fail,
             AnswerError
  <1> QED
    BY <1>1, <1>2, PTL DEF Spec

\* Each array of PCR indices is as long as it is declared, whatever the option
\* has named; the RIM manager's index stays in the selection, wherever a call
\* ends; and the rest has its type.
THEOREM ExchangeTypeCorrect == Spec => []TypeOK
  <1>1. ASSUME SelectionInv, NEW v \in Verifiers, NEW b \in Banks
        PROVE  Len(tpm_pcr_selection[v][b]) <= MaxPcrs
    <2>1. CASE tpm_pcr_selection[v] = DefaultSelection
      BY <2>1, DefaultFits, MaxPcrsAssumption DEF DefaultSelection
    <2>2. CASE /\ asked[v] \in Arguments[v] /\ Readable(asked[v])
               /\ tpm_pcr_selection[v] = Parsed(asked[v])
      BY <2>2, SelectionsAssumption, ParsedSelectsNamed
    <2> QED
      BY <1>1, <2>1, <2>2 DEF SelectionInv
  <1>2. ASSUME SelectionInv, NEW v \in Verifiers
        PROVE  /\ asked[v] \in Arguments[v] \cup {Nothing}
               /\ pcr_selection_index[v]
                     \in 0 .. Len(tpm_pcr_selection[v]["sha256"])
    <2>1. Selected(v) \in Seq(Indices)
      BY <1>2, SelectedNames
    <2>2. /\ pcr_selection_index[v] \in Nat
          /\ pcr_selection_index[v] <= Len(Selected(v))
          /\ Len(Selected(v)) \in Nat
      BY <1>2, <2>1 DEF SelectionInv
    <2> QED
      BY <1>2, <2>2 DEF SelectionInv, Selected
  <1>3. AnswerInv /\ VerdictInv /\ BoundsInv => TypeOK
    BY <1>1, <1>2
       DEF AnswerInv, RequestInv, HandlerInv, VerdictInv, SelectionInv,
           JudgedInv, QuoteInv, PlatformIsSeen, BoundsInv, TypeOK, Indices
  <1> QED
    BY <1>3, AnswerAlways, VerdictAlways, BoundsAlways, PTL



-----------------------------------------------------------------------------
(* What Attestation makes of it.                                            *)

\* A set that the RIM manager finds equal is one whose digest Attestation finds
\* equal, from the set on at which the index lets it begin.
LEMMA MatchIsOfProtocol ==
    ASSUME NEW s \in Seq(Indices), NEW from \in 0 .. Len(s), NEW digest,
           SomeSetMatches(ReferenceSets, s, from, digest)
    PROVE  Protocol(s)!PcrsMatch(from # 0, digest)
  <1> DEFINE E == Ending(ReferenceSets, s, from, digest)
             i == First(E)
  <1>1. E # {} /\ Match(ReferenceSets, s, i, from, digest)
    BY DEF SomeSetMatches
  <1>2. i \in DOMAIN ReferenceSets
    <2>1. E \in SUBSET Nat /\ E \in SUBSET DOMAIN ReferenceSets
      BY ReferenceSetsAssumption DEF Ending
    <2> HIDE DEF E
    <2> QED
      BY <1>1, <2>1, FirstIsLeast
  <1> HIDE DEF i, E
  <1>3. /\ ~Incomplete(ReferenceSets, s, i, from)
        /\ From(i, from) = 0 \/ s = <<>>
        /\ digest = [k \in DOMAIN s |-> ReferenceSets[i][s[k]]]
    BY <1>1 DEF Match
  <1>4. Elements(s) \subseteq DOMAIN ReferenceSets[i]
    <2>1. \A k \in DOMAIN s : k \in From(i, from) + 1 .. Len(s)
      BY <1>3
    <2> QED
      BY <1>3, <2>1 DEF Incomplete, Elements
  <1>5. SetDigest(i, s) = digest
    BY <1>3, <1>4 DEF SetDigest
  <1> DEFINE sets == [j \in DOMAIN ReferenceSets |-> SetDigest(j, s)]
  <1>6. /\ DOMAIN sets = 1 .. Len(ReferenceSets) /\ sets[i] = digest
        /\ Len(ReferenceSets) \in Nat
    BY <1>2, <1>5, ReferenceSetsAssumption
  <1>7. Len(sets) = Len(ReferenceSets)
    BY <1>6
  <1>8. from # 0 => i # 1
    <2>1. s = <<>> => from = 0
      OBVIOUS
    <2> QED
      BY <1>3, <2>1 DEF From
  <1>9. i \in 1 .. Len(ReferenceSets)
    BY <1>2, ReferenceSetsAssumption
  <1> HIDE DEF sets
  <1>10. i \in (IF from # 0 THEN 2 ELSE 1) .. Len(sets)
    BY <1>6, <1>7, <1>8, <1>9
  <1> QED
    BY <1>6, <1>10 DEF Protocol!PcrsMatch, Protocol!FirstSet, sets


\* The end of the handler, for a quote of a response.
LEMMA AppraiseIsOfProtocol ==
    ASSUME SelectionInv, NEW v \in Verifiers, stage[v] = "waiting",
           attestation_rc \in
              [Verifiers -> {"SUCCESS", "ERROR", "VERIFICATION_FAILED"}],
           NEW m \in responses, Appraise(v, DecodeResponse(m).attestation_data),
           NEW s, s = Selected(v)
    PROVE  Left(v)' \in Protocol(s)!Outcomes(v, QuoteIn(m))
  <1> DEFINE q == DecodeResponse(m).attestation_data
             from == pcr_selection_index[v]
             good == OwnNonce(v, q) /\ Accepted(s, from, q.digest)
  <1>1. /\ s \in Seq(Indices) /\ from \in 0 .. Len(s)
        /\ pcr_selection_index \in [Verifiers -> Nat]
    BY DEF SelectionInv, Selected, Banks
  <1>2. /\ attestation_rc'[v] =
              IF good THEN "SUCCESS" ELSE "VERIFICATION_FAILED"
    BY DEF Appraise, Selected
  <1>3. Left(v)' = [rc |-> attestation_rc'[v],
                    stale |-> pcr_selection_index'[v] # 0]
    BY DEF Left
  <1>4. QuoteIn(m).nonce = q.nonce /\ QuoteIn(m).digest = q.digest
        /\ QuoteIn(m).attester = "attester"
    BY DEF QuoteIn
  <1> HIDE DEF q
  <1>5. CASE good
    <2>1. Protocol(s)!PcrsMatch(from # 0, q.digest)
      BY <1>1, <1>5, MatchIsOfProtocol DEF Accepted
    <2>2. Protocol(s)!Appraise(v, QuoteIn(m)) = "SUCCESS"
      BY <1>4, <1>5, <2>1
         DEF Protocol!Appraise, Protocol!Verdict, Protocol!SignedByTrusted,
             Protocol!NonceMatches, OwnNonce
    <2>3. Left(v)' \in [rc : {"SUCCESS"}, stale : BOOLEAN]
      BY <1>2, <1>3, <1>5
    <2>4. Protocol(s)!PcrsMatch(from # 0, QuoteIn(m).digest) = TRUE
      BY <1>4, <2>1 DEF Protocol!PcrsMatch
    <2>5. Protocol(s)!StaleAfter(TRUE) = BOOLEAN
      BY DEF Protocol!StaleAfter
    <2> QED
      BY <2>2, <2>3, <2>4, <2>5 DEF Protocol!Outcomes
  <1>6. CASE ~good
    <2>1. Left(v)' \in [rc : {"VERIFICATION_FAILED"}, stale : BOOLEAN]
      BY <1>2, <1>3, <1>6
    <2> QED
      BY <2>1 DEF Protocol!Outcomes, Protocol!ReferenceUnreadable
  <1> QED
    BY <1>5, <1>6

\* Every verdict, and every place a call leaves the static index in, is one that
\* Attestation reckons with: what that module abstracts from, the selections,
\* the sets that lack a PCR and the index itself, does not add to it.
THEOREM AppraisesAsProtocolAlways == Spec => AppraisesAsProtocol
  <1>1. ASSUME VerdictInv, NEW v \in Verifiers, Receive(v)
        PROVE  \A u \in Verifiers : AsProtocol(u)
    <2>1. /\ SelectionInv /\ stage[v] = "waiting"
          /\ attestation_rc \in
                [Verifiers -> {"SUCCESS", "ERROR", "VERIFICATION_FAILED"}]
          /\ pcr_selection_index \in [Verifiers -> Nat]
      BY <1>1 DEF VerdictInv, JudgedInv, Receive, SelectionInv
    <2>2. PICK m \in responses :
            \/ CannotAppraise(v)
            \/ ResponseAccepted(m) /\ ReferenceUnusable(v)
            \/ /\ ResponseAccepted(m)
               /\ Appraise(v, DecodeResponse(m).attestation_data)
      BY <1>1 DEF Receive
    <2>3. ASSUME NEW u \in Verifiers, u # v PROVE Left(u)' = Left(u)
      BY <2>1, <2>2, <2>3
         DEF Left, CannotAppraise, ReferenceUnusable, Appraise
    <2>4. CASE CannotAppraise(v)
      <3>1. Left(v)' = [rc |-> "ERROR", stale |-> pcr_selection_index[v] # 0]
        BY <2>1, <2>4 DEF CannotAppraise, Left
      <3> QED
        BY <2>3, <3>1 DEF AsProtocol, Protocol!CannotAppraise
    <2>5. CASE ResponseAccepted(m) /\ ReferenceUnusable(v)
      <3>1. Left(v)' \in [rc : {"VERIFICATION_FAILED"}, stale : BOOLEAN]
        BY <2>1, <2>5 DEF ReferenceUnusable, Left
      <3> QED
        BY <2>3, <2>5, <3>1
           DEF AsProtocol, Protocol!Outcomes, Protocol!ReferenceUnreadable
    <2>6. CASE /\ ResponseAccepted(m)
               /\ Appraise(v, DecodeResponse(m).attestation_data)
      <3>1. ASSUME NEW s, s = Selected(v)
            PROVE  Left(v)' \in Protocol(s)!Outcomes(v, QuoteIn(m))
        BY <2>1, <2>6, <3>1, AppraiseIsOfProtocol
      <3> QED
        BY <2>3, <2>6, <3>1 DEF AsProtocol, Selected
    <2> QED
      BY <2>2, <2>4, <2>5, <2>6
  <1>2. Next => (\E v \in Verifiers : Receive(v))
                  \/ UNCHANGED <<attestation_rc, pcr_selection_index>>
    BY DEF Next, verifierVars, PcrSelection, Send, ReceiveRequest, TakeQuote,
           ReadLog, LogsDone, Reply, Fail, AnswerError, Measure, Reboot, Extend
  <1>3. VerdictInv /\ [Next]_vars =>
          [\A v \in Verifiers : AsProtocol(v)]_<<attestation_rc,
                                                pcr_selection_index>>
    BY <1>1, <1>2 DEF vars, verifierVars
  <1> QED
    BY <1>3, VerdictAlways, PTL DEF Spec, AppraisesAsProtocol

=============================================================================
