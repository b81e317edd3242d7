------------------------------ MODULE TapCbor ------------------------------
(***************************************************************************)
(* The two TAP messages in CBOR (core/charra_tap/charra_tap_cbor.c): what  *)
(* the encoders write and what the decoders accept and make of it.         *)
(*                                                                         *)
(* A message is a tree of CBOR items.  QCBOR (external) keeps the first    *)
(* error it meets and reports it at the end, so that a decoder accepts a   *)
(* message if every item it asks for is there and of the right kind; items *)
(* that are left over in an array are skipped.  A C string is the text up  *)
(* to its first NUL.                                                       *)
(***************************************************************************)
EXTENDS Integers, Sequences

\* core/charra_tap/charra_tap_dto.h and charra_tap_types.h.
CHARRA_TAP_SPEC_VERSION == 131584  \* 0x20200
SUPPORTED_PCR_LOGS_COUNT == 2
IE_PCR_LOG == 5
IE_PCR_ATTESTATION == 9
ATTESTATION_TPM2_QUOTE == 4
TPM2_ALG_SHA256 == 11

\* The kinds of items.
UInt(n) == [uint |-> n]
Bool(b) == [bool |-> b]
Bytes(b) == [bytes |-> b]
Text(t, withNul) == [text |-> t, nul |-> withNul]
Array(s) == [array |-> s]

Is(kind, item) == kind \in DOMAIN item
ListOf(item) == item.array
Begins(item, kinds) ==
    /\ Is("array", item) /\ Len(ListOf(item)) >= Len(kinds)
    /\ \A k \in DOMAIN kinds : Is(kinds[k], ListOf(item)[k])
AllAre(item, Good(_)) == \A k \in DOMAIN ListOf(item) : Good(ListOf(item)[k])
Each(Op(_), s) == [k \in DOMAIN s |-> Op(s[k])]

-----------------------------------------------------------------------------
(* Text.                                                                    *)

\* What a C string becomes that is read beyond its buffer.
Unterminated == "unterminated"

\* Broken form: the copy gets no byte more than the text has.
NoRoom == 0

\* Both decoders copy a text into one zeroed byte more than it has.
RoomForNul == 1

\* The string that is read back.  A request's text comes with a NUL of its own
\* (strlen + 1), a response's without (strlen).
CString(item) ==
    IF item.nul \/ RoomForNul > 0 THEN item.text ELSE Unterminated

-----------------------------------------------------------------------------
(* The attestation request.                                                 *)

EncodeSelection(s) ==
    Array(<<UInt(s.tcg_hash_alg_id), Array(Each(UInt, s.pcrs))>>)
EncodeLogRequest(l) ==
    Array(<<Text(l.identifier, TRUE), UInt(l.start), UInt(l.count)>>)

EncodeRequest(d) ==
    Array(<<UInt(d.tap_spec_version), Bool(d.hello), Bytes(d.sig_key_id),
            Bytes(d.nonce), Array(Each(EncodeSelection, d.pcr_selections)),
            Array(Each(EncodeLogRequest, d.pcr_logs))>>)

IsUInt(item) == Is("uint", item)
IsSelection(item) ==
    Begins(item, <<"uint", "array">>) /\ AllAre(ListOf(item)[2], IsUInt)
IsLogRequest(item) == Begins(item, <<"text", "uint", "uint">>)
IsRequest(m) ==
    /\ Begins(m, <<"uint", "bool", "bytes", "bytes", "array", "array">>)
    /\ AllAre(ListOf(m)[5], IsSelection) /\ AllAre(ListOf(m)[6], IsLogRequest)

SameVersion(n) == n = CHARRA_TAP_SPEC_VERSION

RequestAccepted(m) == IsRequest(m) /\ SameVersion(ListOf(m)[1].uint)

\* The numbers of a selection are stored in a uint16_t and in uint8_t.
AsPcr(item) == item.uint % 256
DecodeSelection(item) ==
    [tcg_hash_alg_id |-> ListOf(item)[1].uint % 65536,
     pcrs |-> Each(AsPcr, ListOf(ListOf(item)[2]))]
DecodeLogRequest(item) ==
    [identifier |-> CString(ListOf(item)[1]),
     start |-> ListOf(item)[2].uint, count |-> ListOf(item)[3].uint]

DecodeRequest(m) ==
    LET i == ListOf(m)
    IN  [tap_spec_version |-> i[1].uint, hello |-> i[2].bool,
         sig_key_id |-> i[3].bytes, nonce |-> i[4].bytes,
         pcr_selections |-> Each(DecodeSelection, ListOf(i[5])),
         pcr_logs |-> Each(DecodeLogRequest, ListOf(i[6]))]

-----------------------------------------------------------------------------
(* The attestation response.                                                *)

EncodeLog(l) ==
    Array(<<UInt(IE_PCR_LOG), Text(l.identifier, FALSE), UInt(l.start),
            UInt(l.count), Bytes(l.content)>>)

EncodeResponse(d) ==
    Array(<<Array(<<UInt(IE_PCR_ATTESTATION), UInt(ATTESTATION_TPM2_QUOTE),
                    Bytes(d.attestation_data), Bytes(d.tpm2_signature)>>),
            Array(Each(EncodeLog, d.pcr_logs))>>)

IsLog(item) ==
    /\ Begins(item, <<"uint", "text", "uint", "uint", "bytes">>)
    /\ ListOf(item)[1].uint = IE_PCR_LOG
ResponseAccepted(m) ==
    /\ Begins(m, <<"array", "array">>)
    /\ Begins(ListOf(m)[1], <<"uint", "uint", "bytes", "bytes">>)
    /\ ListOf(ListOf(m)[1])[1].uint = IE_PCR_ATTESTATION
    /\ ListOf(ListOf(m)[1])[2].uint = ATTESTATION_TPM2_QUOTE
    /\ AllAre(ListOf(m)[2], IsLog)

DecodeLog(item) ==
    LET i == ListOf(item)
    IN  [identifier |-> CString(i[2]), start |-> i[3].uint,
         count |-> i[4].uint, content |-> i[5].bytes]

DecodeResponse(m) ==
    LET quote == ListOf(ListOf(m)[1])
    IN  [attestation_data |-> quote[3].bytes,
         tpm2_signature |-> quote[4].bytes,
         pcr_logs |-> Each(DecodeLog, ListOf(ListOf(m)[2]))]

=============================================================================
