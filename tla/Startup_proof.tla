--------------------------- MODULE Startup_proof ---------------------------
(***************************************************************************)
(* What the options asked for and what the configuration variables hold    *)
(* agree after every option (Agree), and as long as no option has failed   *)
(* the configuration is usable (Fit); main then only reads it.  The        *)
(* properties of an open endpoint follow from that agreement.              *)
(***************************************************************************)
EXTENDS Startup, FiniteSetTheorems, TLAPS

\* Each flag is set exactly when an option asked for it.
Agree(c, a) ==
    /\ c.use_dtls_psk <=> "psk" \in a.dtls
    /\ c.use_dtls_rpk <=> "rpk" \in a.dtls
    /\ c.dtls_rpk_verify_peer_public_key <=> a.verify

\* The union holds what the format says, or nothing yet.
KeyFits(c, a) ==
    \/ /\ a.key = "none" /\ c.attestation_key = NULL
    \/ /\ a.key = "FILE" /\ c.attestation_key_format = "FILE"
       /\ c.attestation_key = CtxPath
    \/ /\ a.key = "HANDLE" /\ c.attestation_key_format = "HANDLE"
       /\ c.attestation_key.low = a.handle % HandleModulus

Fit(c, a) == c.timeout > 0 /\ KeyFits(c, a)

StartupInv ==
    /\ TypeOK
    /\ Agree(conf, asked)
    /\ stage # "exited" => Fit(conf, asked) /\ exit = "none"
    /\ stage \in {"setup", "transport", "running"} => RequiredGiven
    /\ stage \in {"transport", "running"} =>
         ~(conf.use_dtls_psk /\ conf.use_dtls_rpk)
    /\ stage = "running" => endpoint = Protection(conf)
    /\ stage \in {"options", "setup", "transport"} => peer = "none"
    /\ peer = "unknown" => ~conf.dtls_rpk_verify_peer_public_key
    /\ AttesterSuccess

\* Any option keeps the invariant if what it leaves agrees with what it asked
\* for, and fits unless it fails.
LEMMA OptionKeeps ==
    ASSUME NEW c \in Conf, NEW a \in Asked, NEW rc \in {0, 1, -1},
           StartupInv, Handled(c, a, rc), Agree(c, a),
           rc = 0 => Fit(c, a), rc = 1 => a.help
    PROVE  StartupInv'
<1>1. TypeOK'
  BY MaxOptionsAssumption DEF StartupInv, TypeOK, Handled, Exit, ParserExit,
     ExitCode
<1>2. stage = "options" /\ peer = "none"
  BY DEF StartupInv, Handled
<1>3. stage' \in {"options", "exited"} /\ peer' = "none" /\ exit = "none"
  BY <1>2 DEF StartupInv, Handled, Exit
<1>4. Agree(conf', asked')
  BY DEF Handled
<1>5. stage' # "exited" => Fit(conf', asked') /\ exit' = "none"
  BY <1>2, <1>3 DEF Handled, Exit
<1>6. AttesterSuccess'
  BY <1>3 DEF Handled, Exit, ParserExit, AttesterSuccess
<1> QED
  BY <1>1, <1>3, <1>4, <1>5, <1>6 DEF StartupInv

\* It holds of the configuration the programs start with.
LEMMA InitInv == Init => StartupInv
<1> SUFFICES ASSUME Init PROVE StartupInv
  OBVIOUS
<1>1. conf \in Conf
  BY PathAssumption, ModulusAssumption DEF Init, Conf, Union, NULL
<1>2. asked \in Asked
  BY DEF Init, Asked
<1>3. TypeOK
  BY <1>1, <1>2, MaxOptionsAssumption DEF Init, TypeOK, ExitCode
<1>4. Agree(conf, asked) /\ Fit(conf, asked)
  BY ModulusAssumption DEF Init, Agree, Fit, KeyFits
<1> QED
  BY <1>3, <1>4 DEF Init, StartupInv, AttesterSuccess

\* The options of both programs.
LEMMA CommonOptionsKeep ==
    ASSUME StartupInv,
           \/ Help \/ UnknownOption \/ Setting \/ Psk \/ Rpk
           \/ \E f \in Paths : \/ RpkPrivateKey(f) \/ RpkPublicKey(f)
                               \/ RpkPeerPublicKey(f)
           \/ \E b \in BOOLEAN : RpkVerifyPeer(b)
    PROVE  StartupInv'
<1>1. conf \in Conf /\ asked \in Asked /\ Agree(conf, asked)
  BY DEF StartupInv, TypeOK
<1>2. ASSUME stage = "options" PROVE Fit(conf, asked)
  BY <1>2 DEF StartupInv
<1>3. CASE Help
  <2> DEFINE a == [asked EXCEPT !.help = TRUE]
  <2>1. a \in Asked /\ Agree(conf, a) /\ a.help
    BY <1>1 DEF Asked, Agree
  <2>2. Handled(conf, a, 1)
    BY <1>3 DEF Help
  <2> HIDE DEF a
  <2> QED
    BY <1>1, <2>1, <2>2, OptionKeeps
<1>4. CASE UnknownOption
  BY <1>4, <1>1, OptionKeeps DEF UnknownOption
<1>5. CASE Setting
  BY <1>5, <1>1, <1>2, OptionKeeps DEF Setting, Handled
<1>6. CASE Psk
  <2> DEFINE c == [conf EXCEPT !.use_dtls_psk = TRUE]
             a == [asked EXCEPT !.dtls = @ \cup {"psk"}]
  <2>1. c \in Conf /\ a \in Asked /\ Agree(c, a)
    BY <1>1 DEF Conf, Asked, Agree
  <2>2. Fit(conf, asked) => Fit(c, a)
    BY <1>1 DEF Conf, Asked, Fit, KeyFits
  <2>3. Handled(c, a, 0)
    BY <1>6 DEF Psk
  <2> QED
    BY <2>1, <2>2, <2>3, <1>2, OptionKeeps DEF Handled
<1>7. CASE Rpk
  <2>1. WithRpk(conf) \in Conf /\ AskedRpk \in Asked /\ Agree(WithRpk(conf), AskedRpk)
    BY <1>1 DEF Conf, Asked, Agree, WithRpk, AskedRpk
  <2>2. Fit(conf, asked) => Fit(WithRpk(conf), AskedRpk)
    BY <1>1 DEF Conf, Asked, Fit, KeyFits, WithRpk, AskedRpk
  <2> QED
    BY <1>7, <2>1, <2>2, <1>2, OptionKeeps DEF Rpk, Handled
<1>8. CASE \E f \in Paths : \/ RpkPrivateKey(f) \/ RpkPublicKey(f)
                            \/ RpkPeerPublicKey(f)
  <2>1. PICK f \in Paths : \/ RpkPrivateKey(f) \/ RpkPublicKey(f)
                          \/ RpkPeerPublicKey(f)
    BY <1>8
  <2> DEFINE Named(c) ==
        c \in Conf /\ Agree(c, AskedRpk) /\ (Fit(conf, asked) => Fit(c, AskedRpk))
  <2>2. AskedRpk \in Asked /\ Named(WithRpk(conf))
    BY <1>1 DEF Conf, Asked, Agree, Fit, KeyFits, WithRpk, AskedRpk
  <2>3. Named([WithRpk(conf) EXCEPT !.dtls_rpk_private_key_path = f])
    BY <1>1 DEF Conf, Asked, Agree, Fit, KeyFits, WithRpk, AskedRpk
  <2>4. Named([WithRpk(conf) EXCEPT !.dtls_rpk_public_key_path = f])
    BY <1>1 DEF Conf, Asked, Agree, Fit, KeyFits, WithRpk, AskedRpk
  <2>5. Named([WithRpk(conf) EXCEPT !.dtls_rpk_peer_public_key_path = f])
    BY <1>1 DEF Conf, Asked, Agree, Fit, KeyFits, WithRpk, AskedRpk
  <2>6. stage = "options"
    BY <2>1 DEF RpkPrivateKey, RpkPublicKey, RpkPeerPublicKey, Handled
  <2>7. \E c \in Conf, rc \in {0, -1} : Named(c) /\ Handled(c, AskedRpk, rc)
    BY <2>1, <2>2, <2>3, <2>4, <2>5
    DEF RpkPrivateKey, RpkPublicKey, RpkPeerPublicKey
  <2> QED
    BY <2>2, <2>6, <2>7, <1>2, OptionKeeps
<1>9. CASE \E b \in BOOLEAN : RpkVerifyPeer(b)
  <2>1. PICK b \in BOOLEAN : RpkVerifyPeer(b)
    BY <1>9
  <2> DEFINE c == [conf EXCEPT !.dtls_rpk_verify_peer_public_key = b]
             a == [asked EXCEPT !.dtls = @ \cup {"verify-peer"}, !.verify = b]
  <2>2. c \in Conf /\ a \in Asked /\ Agree(c, a)
    BY <1>1 DEF Conf, Asked, Agree
  <2>3. Fit(conf, asked) => Fit(c, a)
    BY <1>1 DEF Conf, Asked, Fit, KeyFits
  <2>4. Handled(c, a, 0)
    BY <2>1 DEF RpkVerifyPeer
  <2> QED
    BY <2>2, <2>3, <2>4, <1>2, OptionKeeps DEF Handled
<1> QED
  BY <1>3, <1>4, <1>5, <1>6, <1>7, <1>8, <1>9

\* The list that --pcr-log makes of pcr_logs.
WithFormat(logs, format) ==
    LET index == LogIndex(logs, format)
    IN  [i \in DOMAIN logs \cup {index} |->
            IF i = index THEN format ELSE logs[i]]

LEMMA ListType ==
    ASSUME NEW logs \in Seq(Formats), NEW format \in Formats
    PROVE  /\ WithFormat(logs, format) \in Seq(Formats)
           /\ LogIndex(logs, format) \in DOMAIN WithFormat(logs, format)
<1> DEFINE index == LogIndex(logs, format)
<1>1. /\ Len(logs) \in Nat /\ DOMAIN logs = 1 .. Len(logs)
      /\ \A i \in DOMAIN logs : logs[i] \in Formats
  OBVIOUS
<1>2. index \in 1 .. Len(logs) + 1
  BY <1>1 DEF LogIndex
<1> HIDE DEF index
<1>3. \/ DOMAIN logs \cup {index} = 1 .. Len(logs)
      \/ DOMAIN logs \cup {index} = 1 .. Len(logs) + 1
  BY <1>1, <1>2
<1>4. \E n \in Nat : DOMAIN logs \cup {index} = 1 .. n
  BY <1>1, <1>3
<1>5. \E n \in Nat : WithFormat(logs, format) \in [1 .. n -> Formats]
  BY <1>1, <1>4 DEF WithFormat, index
<1>6. WithFormat(logs, format) \in Seq(Formats)
  BY <1>5
<1>7. LogIndex(logs, format) \in DOMAIN WithFormat(logs, format)
  BY DEF WithFormat
<1> QED
  BY <1>6, <1>7

\* The options only the verifier has.
LEMMA VerifierOptionsKeep ==
    ASSUME StartupInv,
           \/ \E f \in Paths : AttestationPublicKey(f) \/ PcrFile(f)
           \/ \E n \in Timeouts : Timeout(n)
           \/ \E format \in Formats : PcrLog(format)
    PROVE  StartupInv'
<1>1. conf \in Conf /\ asked \in Asked /\ Agree(conf, asked)
  BY DEF StartupInv, TypeOK
<1>2. ASSUME stage = "options" PROVE Fit(conf, asked)
  BY <1>2 DEF StartupInv
<1>3. CASE \E f \in Paths : AttestationPublicKey(f) \/ PcrFile(f)
  <2> DEFINE Named(c) ==
        c \in Conf /\ Agree(c, asked) /\ (Fit(conf, asked) => Fit(c, asked))
  <2>1. /\ Named(conf)
        /\ Named([conf EXCEPT !.attestation_public_key = TRUE])
        /\ Named([conf EXCEPT !.reference_pcr_file = TRUE])
    BY <1>1 DEF Conf, Agree, Fit, KeyFits
  <2>2. \E c \in Conf, rc \in {0, -1} : Named(c) /\ Handled(c, asked, rc)
    BY <1>3, <2>1 DEF AttestationPublicKey, PcrFile
  <2>3. stage = "options"
    BY <1>3 DEF AttestationPublicKey, PcrFile, Handled
  <2> QED
    BY <1>1, <1>2, <2>2, <2>3, OptionKeeps
<1>4. CASE \E n \in Timeouts : Timeout(n)
  <2>1. PICK n \in Timeouts : Timeout(n)
    BY <1>4
  <2> DEFINE c == [conf EXCEPT !.timeout = Stored(n)]
             rc == IF Usable(n) THEN 0 ELSE -1
  <2>2. Stored(n) \in 0 .. TimeoutModulus - 1
    BY ModulusAssumption, NumberAssumption DEF Stored
  <2>3. c \in Conf /\ Agree(c, asked)
    BY <1>1, <2>2 DEF Conf, Agree
  <2>4. rc = 0 /\ Fit(conf, asked) => Fit(c, asked)
    BY <1>1, <2>2 DEF Conf, Fit, KeyFits, Usable
  <2>5. Handled(c, asked, rc) /\ rc \in {0, -1}
    BY <2>1 DEF Timeout
  <2> HIDE DEF c, rc
  <2>6. stage = "options"
    BY <2>5 DEF Handled
  <2> QED
    BY <1>1, <1>2, <2>3, <2>4, <2>5, <2>6, OptionKeeps
<1>5. CASE \E format \in Formats : PcrLog(format)
  <2>1. PICK format \in Formats : PcrLog(format)
    BY <1>5
  <2> DEFINE logs == WithFormat(conf.pcr_logs, format)
             c == [conf EXCEPT !.pcr_logs = logs]
             a == [asked EXCEPT !.logs = @ \cup {format}]
  <2>2. logs \in Seq(Formats)
    BY <1>1, <2>1, ListType DEF Conf
  <2>5. c \in Conf /\ a \in Asked /\ Agree(c, a) /\ Agree(conf, a)
    <3> HIDE DEF logs
    <3> QED
      BY <1>1, <2>1, <2>2 DEF Conf, Asked, Agree
  <2>6. Fit(conf, asked) => Fit(c, a) /\ Fit(conf, a)
    BY <1>1 DEF Conf, Asked, Fit, KeyFits
  <2>7. Handled(c, a, 0) \/ Handled(conf, a, -1)
    BY <2>1 DEF PcrLog, WithFormat
  <2>8. stage = "options"
    BY <2>7 DEF Handled
  <2> HIDE DEF c, a
  <2> QED
    BY <1>1, <1>2, <2>5, <2>6, <2>7, <2>8, OptionKeeps
<1> QED
  BY <1>3, <1>4, <1>5

\* The options only the attester has.
LEMMA AttesterOptionsKeep ==
    ASSUME StartupInv,
           \/ \E f \in Paths : KeyContext(f)
           \/ \E h \in Handles : KeyHandle(h)
           \/ KeyUnknown
    PROVE  StartupInv'
<1>1. conf \in Conf /\ asked \in Asked /\ Agree(conf, asked)
  BY DEF StartupInv, TypeOK
<1>2. ASSUME stage = "options" PROVE Fit(conf, asked)
  BY <1>2 DEF StartupInv
<1>3. CASE \E f \in Paths : KeyContext(f)
  <2> DEFINE c == [conf EXCEPT !.attestation_key_format = "FILE"]
             d == [c EXCEPT !.attestation_key = CtxPath]
             a == [asked EXCEPT !.key = "FILE"]
  <2>1. /\ c \in Conf /\ a \in Asked /\ Agree(c, a)
        /\ d \in Conf /\ Agree(d, a)
    BY <1>1 DEF Conf, Asked, Agree, Union, CtxPath
  <2>2. Fit(conf, asked) => Fit(d, a)
    BY <1>1 DEF Conf, Asked, Fit, KeyFits
  <2>3. Handled(d, a, 0) \/ Handled(c, a, -1)
    BY <1>3 DEF KeyContext
  <2>4. stage = "options"
    BY <2>3 DEF Handled
  <2> HIDE DEF c, d, a
  <2> QED
    BY <1>1, <1>2, <2>1, <2>2, <2>3, <2>4, OptionKeeps
<1>4. CASE \E h \in Handles : KeyHandle(h)
  <2>1. PICK h \in Handles : KeyHandle(h)
    BY <1>4
  <2> DEFINE u == WithHandle(conf.attestation_key, h)
             c == [conf EXCEPT !.attestation_key_format = "HANDLE",
                               !.attestation_key = u]
             a == [asked EXCEPT !.key = "HANDLE", !.handle = h]
  <2>2. u \in Union /\ u.low = h % HandleModulus
    BY <1>1, <2>1, ModulusAssumption, NumberAssumption
    DEF Conf, Union, WithHandle
  <2>3. Handled(c, a, 0)
    BY <2>1 DEF KeyHandle
  <2> HIDE DEF u
  <2>4. c \in Conf /\ a \in Asked /\ Agree(c, a)
    BY <1>1, <2>1, <2>2 DEF Conf, Asked, Agree
  <2>5. Fit(conf, asked) => Fit(c, a)
    BY <1>1, <2>2 DEF Conf, Asked, Fit, KeyFits
  <2>6. stage = "options"
    BY <2>3 DEF Handled
  <2> HIDE DEF c, a
  <2> QED
    BY <1>2, <2>3, <2>4, <2>5, <2>6, OptionKeeps
<1>5. CASE KeyUnknown
  <2> DEFINE c == [conf EXCEPT !.attestation_key_format = "UNKNOWN"]
  <2>1. c \in Conf /\ Agree(c, asked)
    BY <1>1 DEF Conf, Agree
  <2>2. Handled(c, asked, -1)
    BY <1>5 DEF KeyUnknown
  <2> HIDE DEF c
  <2> QED
    BY <1>1, <2>1, <2>2, OptionKeeps
<1> QED
  BY <1>3, <1>4, <1>5

\* main, the peers and the file system.
LEMMA MainKeeps ==
    ASSUME StartupInv,
           \/ EndOfOptions
           \/ Abort \/ NewContext \/ OpenPsk \/ OpenRpk \/ OpenUdp
           \/ \E k \in Keys : Connect(k)
           \/ Interrupt \/ IoFails
           \/ \E f \in Paths, k \in Keys \cup {Absent} : FileChanges(f, k)
    PROVE  StartupInv'
<1>1. CASE EndOfOptions
  <2>1. TypeOK' /\ AttesterSuccess'
    BY <1>1 DEF StartupInv, TypeOK, EndOfOptions, Exit, ParserExit, ExitCode,
       AttesterSuccess
  <2> QED
    BY <1>1, <2>1 DEF StartupInv, EndOfOptions, Exit, Agree, Fit, KeyFits,
       RequiredGiven, AttesterSuccess
<1>2. CASE Abort \/ NewContext
  <2>1. TypeOK' /\ AttesterSuccess'
    BY <1>2 DEF StartupInv, TypeOK, Abort, NewContext, EndMain, Exit, Step,
       KeptInMain, ExitCode, AttesterSuccess
  <2> QED
    BY <1>2, <2>1 DEF StartupInv, Abort, NewContext, EndMain, Exit, Step,
       KeptInMain, Agree, Fit, KeyFits, RequiredGiven
<1>3. CASE OpenPsk \/ OpenRpk \/ OpenUdp
  <2>1. TypeOK' /\ AttesterSuccess'
    BY <1>3 DEF StartupInv, TypeOK, OpenPsk, OpenRpk, OpenUdp, Open, EndMain,
       Exit, Step, KeptInMain, ExitCode, AttesterSuccess
  <2>2. stage' = "running" => endpoint' = Protection(conf')
    BY <1>3 DEF OpenPsk, OpenRpk, OpenUdp, Open, EndMain, Exit, Step, KeptInMain
  <2>3. /\ stage = "transport" /\ stage' \in {"running", "exited"}
        /\ stage' = "running" => exit' = exit
        /\ UNCHANGED <<program, conf, asked, peer>>
    BY <1>3 DEF OpenPsk, OpenRpk, OpenUdp, Open, EndMain, Exit, Step, KeptInMain
  <2> QED
    BY <2>1, <2>2, <2>3 DEF StartupInv, Agree, Fit, KeyFits, RequiredGiven
<1>4. CASE \E k \in Keys : Connect(k)
  <2>1. TypeOK'
    BY <1>4 DEF StartupInv, TypeOK, Connect
  <2>2. peer' = "unknown" => ~conf.dtls_rpk_verify_peer_public_key
    BY <1>4 DEF Connect, Accepts
  <2> QED
    BY <1>4, <2>1, <2>2 DEF StartupInv, Connect, Agree, Fit, KeyFits,
       RequiredGiven, AttesterSuccess, Protection
<1>5. CASE Interrupt
  <2>1. asked' \in Asked /\ asked'.interrupted /\ Agree(conf, asked')
    BY <1>5 DEF StartupInv, TypeOK, Interrupt, Asked, Agree
  <2>2. TypeOK'
    BY <1>5, <2>1 DEF StartupInv, TypeOK, Interrupt, Exit, ExitCode
  <2> QED
    BY <1>5, <2>1, <2>2 DEF StartupInv, Interrupt, Exit, AttesterSuccess, Agree
<1>6. CASE IoFails
  <2>1. TypeOK' /\ AttesterSuccess'
    BY <1>6 DEF StartupInv, TypeOK, IoFails, EndMain, Exit, KeptInMain,
       ExitCode, AttesterSuccess
  <2> QED
    BY <1>6, <2>1 DEF StartupInv, IoFails, EndMain, Exit, KeptInMain, Agree
<1>7. CASE \E f \in Paths, k \in Keys \cup {Absent} : FileChanges(f, k)
  <2>1. TypeOK'
    BY <1>7 DEF StartupInv, TypeOK, FileChanges
  <2> QED
    BY <1>7, <2>1 DEF StartupInv, FileChanges, Agree, Fit, KeyFits,
       RequiredGiven, AttesterSuccess, Protection
<1> QED
  BY <1>1, <1>2, <1>3, <1>4, <1>5, <1>6, <1>7

\* Every step keeps the invariant.
LEMMA NextInv == StartupInv /\ [Next]_vars => StartupInv'
<1> SUFFICES ASSUME StartupInv, [Next]_vars PROVE StartupInv'
  OBVIOUS
<1>1. CASE UNCHANGED vars
  BY <1>1 DEF vars, StartupInv, TypeOK, Agree, Fit, KeyFits, RequiredGiven,
     AttesterSuccess, Protection
<1>2. CASE Next
  BY <1>2, CommonOptionsKeep, VerifierOptionsKeep, AttesterOptionsKeep, MainKeeps
  DEF Next
<1> QED
  BY <1>1, <1>2

\* The invariant holds in every reachable state, and with it the types of all
\* variables.
THEOREM StartupInvariant == Spec => []StartupInv
<1> QED
  BY InitInv, NextInv, PTL DEF Spec

\* Every variable keeps its type: the time limit its width, the log list its
\* formats, the key union its words.
THEOREM StartupTypeCorrect == Spec => []TypeOK
<1>1. StartupInv => TypeOK
  BY DEF StartupInv
<1> QED
  BY <1>1, StartupInvariant, PTL

\* An open endpoint has exactly the protection the options asked for.
THEOREM ProtectedAsAskedAlways == Spec => []ProtectedAsAsked
<1>1. StartupInv => ProtectedAsAsked
  BY DEF StartupInv, Agree, ProtectedAsAsked, Running, Protection
<1> QED
  BY <1>1, StartupInvariant, PTL

\* A running attester reads the key it was given, in the form it was given.
THEOREM KeyAsAskedAlways == Spec => []KeyAsAsked
<1>1. StartupInv => KeyAsAsked
  BY DEF StartupInv, Fit, KeyFits, RequiredGiven, KeyAsAsked, Running, TypeOK,
     Program
<1> QED
  BY <1>1, StartupInvariant, PTL

\* A running verifier has a time limit above 0.
THEOREM TimeoutPositiveAlways == Spec => []TimeoutPositive
<1>1. StartupInv => TimeoutPositive
  BY DEF StartupInv, Fit, TimeoutPositive, Running
<1> QED
  BY <1>1, StartupInvariant, PTL

\* An attester that reports success printed its help or was interrupted.
THEOREM AttesterSuccessAlways == Spec => []AttesterSuccess
<1>1. StartupInv => AttesterSuccess
  BY DEF StartupInv
<1> QED
  BY <1>1, StartupInvariant, PTL

\* A peer with another key than the reference was accepted only on demand.
THEOREM UnknownPeerOnlyIfAskedAlways == Spec => []UnknownPeerOnlyIfAsked
<1>1. StartupInv => UnknownPeerOnlyIfAsked
  BY DEF StartupInv, Agree, UnknownPeerOnlyIfAsked
<1> QED
  BY <1>1, StartupInvariant, PTL

-----------------------------------------------------------------------------

\* A list without doubles is not longer than there are formats.
LEMMA RoomForAll ==
    ASSUME NEW logs \in Seq(Formats),
           \A i, j \in DOMAIN logs : logs[i] = logs[j] => i = j
    PROVE  Len(logs) <= SUPPORTED_PCR_LOGS_COUNT
<1>1. Len(logs) \in Nat /\ DOMAIN logs = 1 .. Len(logs)
  OBVIOUS
<1>2. logs \in Injection(1 .. Len(logs), Formats)
  BY <1>1 DEF Injection, IsInjective
<1>3. Cardinality(1 .. Len(logs)) <= Cardinality(Formats)
  BY <1>2, FormatsAssumption, FS_Injection
<1>4. 1 \in Int /\ Len(logs) \in Int
  BY <1>1
<1>5. Cardinality(1 .. Len(logs)) =
        IF 1 > Len(logs) THEN 0 ELSE Len(logs) - 1 + 1
  BY ONLY <1>4, FS_Interval
<1>6. Cardinality(Formats) \in Nat
  BY FormatsAssumption, FS_CardinalityType
<1> QED
  BY <1>1, <1>3, <1>5, <1>6, FormatsAssumption

\* --pcr-log keeps the list free of doubles, and never fails for want of room.
LEMMA PcrLogKeepsLogs ==
    ASSUME TypeOK, LogsAsAsked, NEW format \in Formats, PcrLog(format)
    PROVE  LogsAsAsked'
<1> DEFINE old == conf.pcr_logs
           index == LogIndex(old, format)
           new == WithFormat(old, format)
<1>1. /\ conf \in Conf /\ asked \in Asked
      /\ old \in Seq(Formats) /\ Len(old) \in Nat
      /\ DOMAIN old = 1 .. Len(old)
  BY DEF TypeOK, Conf
<1>2. \A i, j \in DOMAIN old : old[i] = old[j] => i = j
  BY DEF LogsAsAsked
<1>3. \/ index \in DOMAIN old /\ old[index] = format
      \/ index \notin DOMAIN old /\ \A i \in DOMAIN old : old[i] # format
  BY <1>1 DEF LogIndex
<1>4. new = [i \in DOMAIN old \cup {index} |->
               IF i = index THEN format ELSE old[i]]
  BY DEF WithFormat
<1>5. new \in Seq(Formats) /\ index \in DOMAIN new
  BY <1>1, ListType
<1> HIDE DEF index, new
<1>6. \A i, j \in DOMAIN new : new[i] = new[j] => i = j
  BY <1>2, <1>3, <1>4
<1>7. {new[i] : i \in DOMAIN new} = {old[i] : i \in DOMAIN old} \cup {format}
  BY <1>3, <1>4
<1>8. index <= SUPPORTED_PCR_LOGS_COUNT
  <2>1. Len(new) <= SUPPORTED_PCR_LOGS_COUNT
    BY <1>5, <1>6, RoomForAll
  <2>2. Len(new) \in Nat /\ DOMAIN new = 1 .. Len(new)
    BY <1>5
  <2> QED
    BY <1>5, <2>1, <2>2, FormatsAssumption
<1>9. Handled([conf EXCEPT !.pcr_logs = new],
              [asked EXCEPT !.logs = @ \cup {format}], 0)
  BY <1>1, <1>5, <1>8, FormatsAssumption DEF PcrLog, WithFormat, index, new
<1>10. conf'.pcr_logs = new /\ asked'.logs = asked.logs \cup {format}
  BY <1>1, <1>9 DEF Handled, Conf, Asked
<1> QED
  BY <1>6, <1>7, <1>10 DEF LogsAsAsked

\* No other step touches the list, or what was asked for.
LEMMA LogsStep == TypeOK /\ LogsAsAsked /\ [Next]_vars => LogsAsAsked'
<1> SUFFICES ASSUME TypeOK, LogsAsAsked, [Next]_vars PROVE LogsAsAsked'
  OBVIOUS
<1> DEFINE Kept == conf'.pcr_logs = conf.pcr_logs /\ asked'.logs = asked.logs
<1>1. conf \in Conf /\ asked \in Asked
  BY DEF TypeOK
<1>2. ASSUME Kept PROVE LogsAsAsked'
  BY <1>2 DEF LogsAsAsked
<1>3. CASE \E format \in Formats : PcrLog(format)
  BY <1>3, PcrLogKeepsLogs
<1>4. CASE Help \/ UnknownOption \/ Setting \/ Psk \/ Rpk \/ KeyUnknown
  <2>1. Kept
    BY <1>1, <1>4 DEF Help, UnknownOption, Setting, Psk, Rpk, KeyUnknown,
       Handled, WithRpk, AskedRpk, Conf, Asked
  <2> QED
    BY <2>1, <1>2
<1>5. CASE \E f \in Paths :
             \/ RpkPrivateKey(f) \/ RpkPublicKey(f) \/ RpkPeerPublicKey(f)
             \/ AttestationPublicKey(f) \/ PcrFile(f) \/ KeyContext(f)
  <2>1. Kept
    BY <1>1, <1>5 DEF RpkPrivateKey, RpkPublicKey, RpkPeerPublicKey,
       AttestationPublicKey, PcrFile, KeyContext, Handled, WithRpk, AskedRpk,
       Conf, Asked
  <2> QED
    BY <2>1, <1>2
<1>6. CASE \/ \E b \in BOOLEAN : RpkVerifyPeer(b)
           \/ \E n \in Timeouts : Timeout(n)
           \/ \E h \in Handles : KeyHandle(h)
  <2>1. Kept
    BY <1>1, <1>6 DEF RpkVerifyPeer, Timeout, KeyHandle, Handled, Conf, Asked
  <2> QED
    BY <2>1, <1>2
<1>7. CASE \/ EndOfOptions \/ Abort \/ NewContext
           \/ OpenPsk \/ OpenRpk \/ OpenUdp \/ IoFails
           \/ \E k \in Keys : Connect(k)
           \/ \E f \in Paths, k \in Keys \cup {Absent} : FileChanges(f, k)
           \/ UNCHANGED vars
  <2>1. UNCHANGED <<conf, asked>>
    BY <1>7 DEF EndOfOptions, Abort, NewContext, OpenPsk, OpenRpk, OpenUdp,
       IoFails, Connect, FileChanges, KeptInMain, vars
  <2> QED
    BY <2>1, <1>2
<1>8. CASE Interrupt
  <2>1. Kept
    BY <1>1, <1>8 DEF Interrupt, Asked
  <2> QED
    BY <2>1, <1>2
<1> QED
  BY <1>3, <1>4, <1>5, <1>6, <1>7, <1>8 DEF Next

\* The logs that are asked for are those of the command line, each once,
\* however often and in whatever order they were named; there is always room.
THEOREM LogsAsAskedAlways == Spec => []LogsAsAsked
<1>1. Init => LogsAsAsked
  BY DEF Init, LogsAsAsked
<1> QED
  BY <1>1, LogsStep, StartupTypeCorrect, PTL DEF Spec

=============================================================================
