--------------------------- MODULE TapCbor_proof ---------------------------
(***************************************************************************)
(* What one program encodes the other accepts and reads back, for messages *)
(* of any length: neither the NUL of a text nor the width of a number is   *)
(* in the way.                                                             *)
(***************************************************************************)
EXTENDS TapCbor, TLAPS

\* What the numbers of a request are stored in: uint16_t and uint8_t.
Below(m) == {n \in Nat : n < m}
SelectionType == [tcg_hash_alg_id : Below(65536), pcrs : Seq(Below(256))]
LogRequestType(Ids) == [identifier : Ids, start : Nat, count : Nat]
LogType(Ids, Contents) ==
    [identifier : Ids, start : Nat, count : Nat, content : Contents]

RequestType(KeyIds, Nonces, Ids) ==
    [tap_spec_version : {CHARRA_TAP_SPEC_VERSION}, hello : BOOLEAN,
     sig_key_id : KeyIds, nonce : Nonces, pcr_selections : Seq(SelectionType),
     pcr_logs : Seq(LogRequestType(Ids))]

-----------------------------------------------------------------------------
(* One item after the other.                                                *)

LEMMA TextComesBack ==
    ASSUME NEW t, NEW withNul \in BOOLEAN
    PROVE  CString(Text(t, withNul)) = t
  BY DEF CString, Text, RoomForNul

LEMMA FieldsOfSelection ==
    ASSUME NEW s \in SelectionType
    PROVE  /\ s = [tcg_hash_alg_id |-> s.tcg_hash_alg_id, pcrs |-> s.pcrs]
           /\ s.tcg_hash_alg_id \in Below(65536)
           /\ s.pcrs \in Seq(Below(256))
  <1>1. s \in [tcg_hash_alg_id : Below(65536), pcrs : Seq(Below(256))]
    BY DEF SelectionType
  <1>2. s.tcg_hash_alg_id \in Below(65536)
    BY <1>1
  <1>3. s.pcrs \in Seq(Below(256))
    BY <1>1
  <1>4. s = [tcg_hash_alg_id |-> s.tcg_hash_alg_id, pcrs |-> s.pcrs]
    BY <1>1
  <1> QED
    BY <1>2, <1>3, <1>4

LEMMA SmallRemainder ==
    ASSUME NEW m \in Nat \ {0}, NEW n \in Below(m)
    PROVE  n % m = n
  BY DEF Below

LEMMA PcrsComeBack ==
    ASSUME NEW p \in Seq(Below(256))
    PROVE  /\ Each(AsPcr, Each(UInt, p)) = p
           /\ AllAre(Array(Each(UInt, p)), IsUInt)
  <1>1. p = [k \in DOMAIN p |-> p[k]]
    OBVIOUS
  <1>2. \A k \in DOMAIN p : p[k] % 256 = p[k]
    BY SmallRemainder DEF Below
  <1>3. \A n : AsPcr(UInt(n)) = n % 256
    BY DEF AsPcr, UInt
  <1>4. Each(AsPcr, Each(UInt, p)) = [k \in DOMAIN p |-> AsPcr(UInt(p[k]))]
    BY DEF Each
  <1>5. Each(AsPcr, Each(UInt, p)) = p
    BY <1>1, <1>2, <1>3, <1>4
  <1>6. AllAre(Array(Each(UInt, p)), IsUInt)
    BY DEF AllAre, Array, Each, IsUInt, Is, UInt, ListOf
  <1> QED
    BY <1>5, <1>6

LEMMA PairBegins ==
    ASSUME NEW n, NEW list
    PROVE  Begins(Array(<<UInt(n), Array(list)>>), <<"uint", "array">>)
  BY DEF Begins, Is, ListOf, Array, UInt

LEMMA PairDecodes ==
    ASSUME NEW n, NEW list
    PROVE  DecodeSelection(Array(<<UInt(n), Array(list)>>)) =
             [tcg_hash_alg_id |-> n % 65536, pcrs |-> Each(AsPcr, list)]
  BY DEF DecodeSelection, ListOf, Array, UInt, Each, AsPcr

LEMMA SelectionComesBack ==
    ASSUME NEW s \in SelectionType
    PROVE  /\ IsSelection(EncodeSelection(s))
           /\ DecodeSelection(EncodeSelection(s)) = s
  <1> DEFINE list == Each(UInt, s.pcrs)
  <1>1. EncodeSelection(s) = Array(<<UInt(s.tcg_hash_alg_id), Array(list)>>)
    BY DEF EncodeSelection
  <1>2. AllAre(Array(list), IsUInt) /\ Each(AsPcr, list) = s.pcrs
    BY FieldsOfSelection, PcrsComeBack
  <1> HIDE DEF list
  <1>3. ListOf(EncodeSelection(s))[2] = Array(list)
    BY <1>1 DEF ListOf, Array
  <1>4. IsSelection(EncodeSelection(s))
    BY <1>1, <1>2, <1>3, PairBegins DEF IsSelection
  <1>5. s.tcg_hash_alg_id % 65536 = s.tcg_hash_alg_id
    <2>1. 65536 \in Nat \ {0}
      OBVIOUS
    <2>2. s.tcg_hash_alg_id \in Below(65536)
      BY FieldsOfSelection
    <2> QED
      BY <2>1, <2>2, SmallRemainder
  <1>6. DecodeSelection(EncodeSelection(s)) =
          [tcg_hash_alg_id |-> s.tcg_hash_alg_id % 65536,
           pcrs |-> Each(AsPcr, list)]
    BY <1>1, PairDecodes
  <1>7. DecodeSelection(EncodeSelection(s)) = s
    BY <1>2, <1>5, <1>6, FieldsOfSelection
  <1> QED
    BY <1>4, <1>7

LEMMA LogRequestComesBack ==
    ASSUME NEW Ids, NEW l \in LogRequestType(Ids)
    PROVE  /\ IsLogRequest(EncodeLogRequest(l))
           /\ DecodeLogRequest(EncodeLogRequest(l)) = l
  <1>1. IsLogRequest(EncodeLogRequest(l))
    BY DEF IsLogRequest, EncodeLogRequest, Begins, Is, ListOf, Array, Text, UInt
  <1>2. DecodeLogRequest(EncodeLogRequest(l)) =
          [identifier |-> l.identifier, start |-> l.start, count |-> l.count]
    BY TextComesBack DEF DecodeLogRequest, EncodeLogRequest, ListOf, Array, UInt
  <1> QED
    BY <1>1, <1>2 DEF LogRequestType

LEMMA LogComesBack ==
    ASSUME NEW l
    PROVE  /\ IsLog(EncodeLog(l))
           /\ DecodeLog(EncodeLog(l)) =
                [identifier |-> l.identifier, start |-> l.start,
                 count |-> l.count, content |-> l.content]
  <1>1. IsLog(EncodeLog(l))
    BY DEF IsLog, EncodeLog, Begins, Is, ListOf, Array, Text, UInt, Bytes
  <1>2. DecodeLog(EncodeLog(l)) =
          [identifier |-> l.identifier, start |-> l.start,
           count |-> l.count, content |-> l.content]
    BY TextComesBack DEF DecodeLog, EncodeLog, ListOf, Array, UInt, Bytes
  <1> QED
    BY <1>1, <1>2

LEMMA SelectionsComeBack ==
    ASSUME NEW q \in Seq(SelectionType)
    PROVE  /\ AllAre(Array(Each(EncodeSelection, q)), IsSelection)
           /\ Each(DecodeSelection, Each(EncodeSelection, q)) = q
  <1>1. \A k \in DOMAIN q : q[k] \in SelectionType
    OBVIOUS
  <1>2. \A k \in DOMAIN q : /\ IsSelection(EncodeSelection(q[k]))
                           /\ DecodeSelection(EncodeSelection(q[k])) = q[k]
    BY <1>1, SelectionComesBack
  <1>3. q = [k \in DOMAIN q |-> q[k]]
    OBVIOUS
  <1>4. Each(DecodeSelection, Each(EncodeSelection, q)) =
          [k \in DOMAIN q |-> DecodeSelection(EncodeSelection(q[k]))]
    BY DEF Each
  <1>5. AllAre(Array(Each(EncodeSelection, q)), IsSelection)
    BY <1>2 DEF AllAre, Array, ListOf, Each
  <1> QED
    BY <1>2, <1>3, <1>4, <1>5

LEMMA LogRequestsComeBack ==
    ASSUME NEW Ids, NEW q \in Seq(LogRequestType(Ids))
    PROVE  /\ AllAre(Array(Each(EncodeLogRequest, q)), IsLogRequest)
           /\ Each(DecodeLogRequest, Each(EncodeLogRequest, q)) = q
  <1>1. \A k \in DOMAIN q : q[k] \in LogRequestType(Ids)
    OBVIOUS
  <1>2. \A k \in DOMAIN q : /\ IsLogRequest(EncodeLogRequest(q[k]))
                           /\ DecodeLogRequest(EncodeLogRequest(q[k])) = q[k]
    BY <1>1, LogRequestComesBack
  <1>3. q = [k \in DOMAIN q |-> q[k]]
    OBVIOUS
  <1>4. Each(DecodeLogRequest, Each(EncodeLogRequest, q)) =
          [k \in DOMAIN q |-> DecodeLogRequest(EncodeLogRequest(q[k]))]
    BY DEF Each
  <1>5. AllAre(Array(Each(EncodeLogRequest, q)), IsLogRequest)
    BY <1>2 DEF AllAre, Array, ListOf, Each
  <1> QED
    BY <1>2, <1>3, <1>4, <1>5

LEMMA LogsComeBack ==
    ASSUME NEW Ids, NEW Contents, NEW q \in Seq(LogType(Ids, Contents))
    PROVE  /\ AllAre(Array(Each(EncodeLog, q)), IsLog)
           /\ Each(DecodeLog, Each(EncodeLog, q)) = q
  <1>1. \A k \in DOMAIN q :
          q[k] = [identifier |-> q[k].identifier, start |-> q[k].start,
                  count |-> q[k].count, content |-> q[k].content]
    <2>1. \A k \in DOMAIN q : q[k] \in LogType(Ids, Contents)
      OBVIOUS
    <2>2. \A l \in LogType(Ids, Contents) :
            l = [identifier |-> l.identifier, start |-> l.start,
                 count |-> l.count, content |-> l.content]
      BY DEF LogType
    <2> QED
      BY <2>1, <2>2
  <1>2. \A k \in DOMAIN q : /\ IsLog(EncodeLog(q[k]))
                           /\ DecodeLog(EncodeLog(q[k])) = q[k]
    BY <1>1, LogComesBack
  <1>3. q = [k \in DOMAIN q |-> q[k]]
    OBVIOUS
  <1>4. Each(DecodeLog, Each(EncodeLog, q)) =
          [k \in DOMAIN q |-> DecodeLog(EncodeLog(q[k]))]
    BY DEF Each
  <1>5. AllAre(Array(Each(EncodeLog, q)), IsLog)
    BY <1>2 DEF AllAre, Array, ListOf, Each
  <1> QED
    BY <1>2, <1>3, <1>4, <1>5

-----------------------------------------------------------------------------
(* The two messages.                                                        *)

\* What becomes of a request that is encoded, whatever its inner lists are.
LEMMA RequestItems ==
    ASSUME NEW d
    PROVE  /\ ListOf(EncodeRequest(d)) =
                <<UInt(d.tap_spec_version), Bool(d.hello), Bytes(d.sig_key_id),
                  Bytes(d.nonce),
                  Array(Each(EncodeSelection, d.pcr_selections)),
                  Array(Each(EncodeLogRequest, d.pcr_logs))>>
           /\ Is("array", EncodeRequest(d))
           /\ DecodeRequest(EncodeRequest(d)) =
                [tap_spec_version |-> d.tap_spec_version, hello |-> d.hello,
                 sig_key_id |-> d.sig_key_id, nonce |-> d.nonce,
                 pcr_selections |-> Each(DecodeSelection,
                                     Each(EncodeSelection, d.pcr_selections)),
                 pcr_logs |-> Each(DecodeLogRequest,
                               Each(EncodeLogRequest, d.pcr_logs))]
  <1> DEFINE m == EncodeRequest(d)
             sels == Each(EncodeSelection, d.pcr_selections)
             logs == Each(EncodeLogRequest, d.pcr_logs)
             items == <<UInt(d.tap_spec_version), Bool(d.hello),
                        Bytes(d.sig_key_id), Bytes(d.nonce), Array(sels),
                        Array(logs)>>
  <1>1. m = Array(items)
    BY DEF EncodeRequest
  <1> HIDE DEF m, sels, logs
  <1>2. ListOf(m) = items /\ Is("array", m)
    BY <1>1 DEF ListOf, Array, Is
  <1>3. /\ ListOf(m)[1].uint = d.tap_spec_version /\ ListOf(m)[2].bool = d.hello
        /\ ListOf(m)[3].bytes = d.sig_key_id /\ ListOf(m)[4].bytes = d.nonce
        /\ ListOf(ListOf(m)[5]) = sels /\ ListOf(ListOf(m)[6]) = logs
    BY <1>2 DEF UInt, Bool, Bytes, Array, ListOf
  <1> HIDE DEF items
  <1>4. DecodeRequest(m) =
          [tap_spec_version |-> d.tap_spec_version, hello |-> d.hello,
           sig_key_id |-> d.sig_key_id, nonce |-> d.nonce,
           pcr_selections |-> Each(DecodeSelection, sels),
           pcr_logs |-> Each(DecodeLogRequest, logs)]
    BY <1>3 DEF DecodeRequest
  <1> QED
    BY <1>2, <1>4 DEF m, sels, logs, items

LEMMA RequestIsGood ==
    ASSUME NEW a, NEW b, NEW c, NEW n, NEW sels, NEW logs, NEW m,
           Is("array", m),
           ListOf(m) = <<UInt(a), Bool(b), Bytes(c), Bytes(n), Array(sels),
                         Array(logs)>>,
           AllAre(Array(sels), IsSelection), AllAre(Array(logs), IsLogRequest)
    PROVE  IsRequest(m) /\ ListOf(m)[1].uint = a
  <1>1. /\ Is("uint", ListOf(m)[1]) /\ ListOf(m)[1].uint = a
        /\ Is("bool", ListOf(m)[2])
        /\ Is("bytes", ListOf(m)[3]) /\ Is("bytes", ListOf(m)[4])
        /\ Is("array", ListOf(m)[5]) /\ Is("array", ListOf(m)[6])
    BY DEF Is, UInt, Bool, Bytes, Array
  <1>2. /\ Len(ListOf(m)) = 6
        /\ ListOf(m)[5] = Array(sels) /\ ListOf(m)[6] = Array(logs)
    OBVIOUS
  <1>3. Begins(m, <<"uint", "bool", "bytes", "bytes", "array", "array">>)
    BY <1>1, <1>2 DEF Begins
  <1> QED
    BY <1>1, <1>2, <1>3 DEF IsRequest

\* The nonce and the logs come back whatever the rest of the request is.
LEMMA NonceAndLogsComeBack ==
    ASSUME NEW Ids, NEW d, d.pcr_logs \in Seq(LogRequestType(Ids))
    PROVE  /\ DecodeRequest(EncodeRequest(d)).nonce = d.nonce
           /\ DecodeRequest(EncodeRequest(d)).pcr_logs = d.pcr_logs
  <1> DEFINE sels == Each(DecodeSelection,
                          Each(EncodeSelection, d.pcr_selections))
             logs == Each(DecodeLogRequest, Each(EncodeLogRequest, d.pcr_logs))
  <1>1. logs = d.pcr_logs
    BY LogRequestsComeBack
  <1>2. DecodeRequest(EncodeRequest(d)) =
          [tap_spec_version |-> d.tap_spec_version, hello |-> d.hello,
           sig_key_id |-> d.sig_key_id, nonce |-> d.nonce,
           pcr_selections |-> sels, pcr_logs |-> logs]
    BY RequestItems
  <1> HIDE DEF sels, logs
  <1> QED
    BY <1>1, <1>2

\* And so do the nonce and the selections.
LEMMA NonceAndSelectionsComeBack ==
    ASSUME NEW d, d.pcr_selections \in Seq(SelectionType)
    PROVE  /\ DecodeRequest(EncodeRequest(d)).nonce = d.nonce
           /\ DecodeRequest(EncodeRequest(d)).pcr_selections = d.pcr_selections
  <1> DEFINE sels == Each(DecodeSelection,
                          Each(EncodeSelection, d.pcr_selections))
             logs == Each(DecodeLogRequest, Each(EncodeLogRequest, d.pcr_logs))
  <1>1. sels = d.pcr_selections
    BY SelectionsComeBack
  <1>2. DecodeRequest(EncodeRequest(d)) =
          [tap_spec_version |-> d.tap_spec_version, hello |-> d.hello,
           sig_key_id |-> d.sig_key_id, nonce |-> d.nonce,
           pcr_selections |-> sels, pcr_logs |-> logs]
    BY RequestItems
  <1> HIDE DEF sels, logs
  <1> QED
    BY <1>1, <1>2

LEMMA ResponseShape ==
    ASSUME NEW data, NEW signature, NEW logs, AllAre(Array(logs), IsLog)
    PROVE  LET m == Array(<<Array(<<UInt(IE_PCR_ATTESTATION),
                                    UInt(ATTESTATION_TPM2_QUOTE),
                                    Bytes(data), Bytes(signature)>>),
                            Array(logs)>>)
           IN  /\ ResponseAccepted(m)
               /\ DecodeResponse(m) =
                    [attestation_data |-> data, tpm2_signature |-> signature,
                     pcr_logs |-> Each(DecodeLog, logs)]
  <1> DEFINE q == <<UInt(IE_PCR_ATTESTATION), UInt(ATTESTATION_TPM2_QUOTE),
                    Bytes(data), Bytes(signature)>>
             items == <<Array(q), Array(logs)>>
             m == Array(items)
  <1>1. /\ ListOf(m) = items /\ Is("array", m)
        /\ ListOf(Array(q)) = q /\ Is("array", Array(q))
        /\ ListOf(Array(logs)) = logs /\ Is("array", Array(logs))
    BY DEF ListOf, Array, Is
  <1>2. /\ Is("uint", q[1]) /\ q[1].uint = IE_PCR_ATTESTATION
        /\ Is("uint", q[2]) /\ q[2].uint = ATTESTATION_TPM2_QUOTE
        /\ Is("bytes", q[3]) /\ q[3].bytes = data
        /\ Is("bytes", q[4]) /\ q[4].bytes = signature
    BY DEF Is, UInt, Bytes
  <1>3. Len(q) = 4
    OBVIOUS
  <1> HIDE DEF q
  <1>4. items[1] = Array(q) /\ items[2] = Array(logs) /\ Len(items) = 2
    OBVIOUS
  <1> HIDE DEF items
  <1>5. Begins(m, <<"array", "array">>)
    BY <1>1, <1>4 DEF Begins
  <1>6. Begins(Array(q), <<"uint", "uint", "bytes", "bytes">>)
    BY <1>1, <1>2, <1>3 DEF Begins
  <1>7. ResponseAccepted(m)
    BY <1>1, <1>2, <1>4, <1>5, <1>6 DEF ResponseAccepted
  <1>8. DecodeResponse(m) =
          [attestation_data |-> data, tpm2_signature |-> signature,
           pcr_logs |-> Each(DecodeLog, logs)]
    BY <1>1, <1>2, <1>4 DEF DecodeResponse
  <1> QED
    BY <1>7, <1>8 DEF items, q

\* What the verifier encodes the attester accepts, and it reads exactly that:
\* the NUL of the identifiers, and the widths of the numbers of a selection,
\* are not in the way.
THEOREM RequestRoundTrip ==
    ASSUME NEW KeyIds, NEW Nonces, NEW Ids,
           NEW d \in RequestType(KeyIds, Nonces, Ids)
    PROVE  /\ RequestAccepted(EncodeRequest(d))
           /\ DecodeRequest(EncodeRequest(d)) = d
  <1> DEFINE sels == Each(EncodeSelection, d.pcr_selections)
             logs == Each(EncodeLogRequest, d.pcr_logs)
  <1>1. /\ d.pcr_selections \in Seq(SelectionType)
        /\ d.pcr_logs \in Seq(LogRequestType(Ids))
        /\ d.tap_spec_version = CHARRA_TAP_SPEC_VERSION
        /\ d = [tap_spec_version |-> d.tap_spec_version, hello |-> d.hello,
                sig_key_id |-> d.sig_key_id, nonce |-> d.nonce,
                pcr_selections |-> d.pcr_selections, pcr_logs |-> d.pcr_logs]
    BY DEF RequestType
  <1>2. /\ AllAre(Array(sels), IsSelection)
        /\ Each(DecodeSelection, sels) = d.pcr_selections
    BY <1>1, SelectionsComeBack
  <1>3. /\ AllAre(Array(logs), IsLogRequest)
        /\ Each(DecodeLogRequest, logs) = d.pcr_logs
    BY <1>1, LogRequestsComeBack
  <1>4. DecodeRequest(EncodeRequest(d)) = d
    BY <1>1, <1>2, <1>3, RequestItems
  <1>5. /\ IsRequest(EncodeRequest(d))
        /\ ListOf(EncodeRequest(d))[1].uint = d.tap_spec_version
    <2> HIDE DEF sels, logs
    <2>1. /\ Is("array", EncodeRequest(d))
          /\ ListOf(EncodeRequest(d)) =
                <<UInt(d.tap_spec_version), Bool(d.hello), Bytes(d.sig_key_id),
                  Bytes(d.nonce), Array(sels), Array(logs)>>
      BY RequestItems DEF sels, logs
    <2> QED
      BY <1>2, <1>3, <2>1, RequestIsGood
  <1> QED
    BY <1>1, <1>4, <1>5 DEF RequestAccepted, SameVersion

LEMMA ResponseFieldsComeBack ==
    ASSUME NEW Ids, NEW Contents, NEW d,
           d.pcr_logs \in Seq(LogType(Ids, Contents))
    PROVE  /\ ResponseAccepted(EncodeResponse(d))
           /\ DecodeResponse(EncodeResponse(d)) =
                [attestation_data |-> d.attestation_data,
                 tpm2_signature |-> d.tpm2_signature, pcr_logs |-> d.pcr_logs]
  <1> DEFINE logs == Each(EncodeLog, d.pcr_logs)
  <1>1. AllAre(Array(logs), IsLog) /\ Each(DecodeLog, logs) = d.pcr_logs
    BY LogsComeBack
  <1>2. EncodeResponse(d) =
          Array(<<Array(<<UInt(IE_PCR_ATTESTATION),
                          UInt(ATTESTATION_TPM2_QUOTE),
                          Bytes(d.attestation_data), Bytes(d.tpm2_signature)>>),
                  Array(logs)>>)
    BY DEF EncodeResponse
  <1> HIDE DEF logs
  <1> QED
    BY <1>1, <1>2, ResponseShape

\* And the other way: what the attester encodes the verifier accepts, and it
\* reads exactly that, though these identifiers are sent without their NUL.
THEOREM ResponseRoundTrip ==
    ASSUME NEW Quotes, NEW Signatures, NEW Ids, NEW Contents,
           NEW d \in [attestation_data : Quotes, tpm2_signature : Signatures,
                      pcr_logs : Seq(LogType(Ids, Contents))]
    PROVE  /\ ResponseAccepted(EncodeResponse(d))
           /\ DecodeResponse(EncodeResponse(d)) = d
  <1>1. /\ d.pcr_logs \in Seq(LogType(Ids, Contents))
        /\ d = [attestation_data |-> d.attestation_data,
                tpm2_signature |-> d.tpm2_signature, pcr_logs |-> d.pcr_logs]
    OBVIOUS
  <1> QED
    BY <1>1, ResponseFieldsComeBack

=============================================================================
