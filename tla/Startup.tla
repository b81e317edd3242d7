------------------------------ MODULE Startup ------------------------------
(***************************************************************************)
(* From the command line to an open endpoint: the option loop of both      *)
(* programs (util/cli), the checks of main before the network is opened    *)
(* (verifier.c, attester.c), the DTLS set-up and the check of a peer's raw *)
(* public key (coap_util.c).                                               *)
(*                                                                         *)
(* Options are handled one at a time and each may overwrite what an        *)
(* earlier one stored; the first that fails ends the process.  Files named *)
(* by options are looked at when the option is parsed, read when the       *)
(* endpoint is opened or a peer connects, and may change in between.       *)
(***************************************************************************)
EXTENDS Integers, Sequences, FiniteSets

CONSTANTS
    Paths,           \* files that options may name
    DefaultPath,     \* where the RPK keys are looked for without options
    Keys,            \* public keys
    Absent,          \* the content of a file that is not there
    Timeouts,        \* numbers given to --timeout
    DefaultTimeout,  \* 30 seconds
    TimeoutModulus,  \* attestation_response_timeout is a uint16_t: 65536
    Handles,         \* numbers given to --attestation-key handle:
    HandleModulus,   \* tpm2_handle is an ESYS_TR: 2^32
    Formats,         \* formats of PCR logs: ima, tcg-boot
    SUPPORTED_PCR_LOGS_COUNT,
    MaxOptions       \* bound: options on one command line

ASSUME PathAssumption == DefaultPath \in Paths
ASSUME KeyAssumption == Absent \notin Keys
ASSUME ModulusAssumption == /\ TimeoutModulus \in Nat \ {0}
                            /\ HandleModulus \in Nat \ {0}
                            /\ DefaultTimeout \in 1 .. TimeoutModulus - 1
ASSUME NumberAssumption == Timeouts \subseteq Nat /\ Handles \subseteq Nat
ASSUME FormatsAssumption ==
    /\ IsFiniteSet(Formats) /\ SUPPORTED_PCR_LOGS_COUNT \in Nat
    /\ Cardinality(Formats) <= SUPPORTED_PCR_LOGS_COUNT
ASSUME MaxOptionsAssumption == MaxOptions \in Nat

VARIABLES
    program,   \* "verifier" or "attester"
    stage,     \* "options", "setup", "transport", "running" or "exited"
    exit,      \* what main returned
    conf,      \* the configuration variables the options write
    endpoint,  \* the session or endpoint: "none", "udp", "psk" or "rpk"
    contents,  \* what each file holds now
    options,   \* options handled
    asked,     \* history: what the options asked for
    peer       \* history: how the last RPK peer was accepted

vars == <<program, stage, exit, conf, endpoint, contents, options, asked,
          peer>>

Program == {"verifier", "attester"}
ExitCode == {"none", "SUCCESS", "ERROR", "CLI_ERROR", "COAP_ERROR"}

\* attestation_key is a union: a pointer fills both its words, a handle only
\* the low one.  ctx_path is NULL when both are 0.
NULL == [low |-> 0, high |-> 0]
CtxPath == [low |-> 1, high |-> 1]
Union == [low : Nat, high : {0, 1}]

Conf == [use_dtls_psk : BOOLEAN, use_dtls_rpk : BOOLEAN,
         dtls_rpk_private_key_path : Paths, dtls_rpk_public_key_path : Paths,
         dtls_rpk_peer_public_key_path : Paths,
         dtls_rpk_verify_peer_public_key : BOOLEAN,
         reference_pcr_file : BOOLEAN, attestation_public_key : BOOLEAN,
         timeout : 0 .. TimeoutModulus - 1, pcr_logs : Seq(Formats),
         attestation_key_format : {"FILE", "HANDLE", "UNKNOWN"},
         attestation_key : Union]

\* What the command line said, whatever the program made of it.
Asked == [dtls : SUBSET {"psk", "rpk", "verify-peer"},
          verify : BOOLEAN, logs : SUBSET Formats,
          key : {"none", "FILE", "HANDLE"}, handle : Handles \cup {0},
          help : BOOLEAN,
          interrupted : BOOLEAN]

TypeOK ==
    /\ program \in Program
    /\ stage \in {"options", "setup", "transport", "running", "exited"}
    /\ exit \in ExitCode
    /\ conf \in Conf
    /\ endpoint \in {"none", "udp", "psk", "rpk"}
    /\ contents \in [Paths -> Keys \cup {Absent}]
    /\ options \in 0 .. MaxOptions
    /\ asked \in Asked
    /\ peer \in {"none", "known", "unknown"}

Init ==
    /\ program \in Program
    /\ stage = "options" /\ exit = "none" /\ endpoint = "none"
    /\ conf = [use_dtls_psk |-> FALSE, use_dtls_rpk |-> FALSE,
               dtls_rpk_private_key_path |-> DefaultPath,
               dtls_rpk_public_key_path |-> DefaultPath,
               dtls_rpk_peer_public_key_path |-> DefaultPath,
               dtls_rpk_verify_peer_public_key |-> TRUE,
               reference_pcr_file |-> FALSE, attestation_public_key |-> FALSE,
               timeout |-> DefaultTimeout, pcr_logs |-> <<>>,
               attestation_key_format |-> "FILE", attestation_key |-> NULL]
    /\ contents \in [Paths -> Keys \cup {Absent}]
    /\ options = 0
    /\ asked = [dtls |-> {}, verify |-> TRUE, logs |-> {}, key |-> "none",
                handle |-> 0, help |-> FALSE, interrupted |-> FALSE]
    /\ peer = "none"

-----------------------------------------------------------------------------
(* The option loop (charra_parse_command_line_*_arguments).                 *)

Exit(rc) == stage' = "exited" /\ exit' = rc

\* What main returns when the parser says rc: 1 after the help message, -1
\* after an error.
ParserExit(rc) == IF rc = 1 THEN "SUCCESS"
                  ELSE IF program = "verifier" THEN "CLI_ERROR" ELSE "ERROR"

\* One option: c is what it leaves in the configuration, a what it asked for.
Handled(c, a, rc) ==
    /\ stage = "options" /\ options < MaxOptions
    /\ options' = options + 1
    /\ conf' = c /\ asked' = a
    /\ IF rc = 0 THEN UNCHANGED <<stage, exit>> ELSE Exit(ParserExit(rc))
    /\ UNCHANGED <<program, endpoint, contents, peer>>

Help == Handled(conf, [asked EXCEPT !.help = TRUE], 1)

\* An option that is not known, or whose argument cannot be read as what it
\* should be (0 or 1, yaml:FILE, FORMAT:START,COUNT, FORMAT:VALUE).
UnknownOption == Handled(conf, asked, -1)

\* Options that only store a number or a name nothing below depends on:
\* verbose, the log levels and the port; --ip, --pcr-selection and
\* --hash-algorithm; the attester's --pcr-log.
CommonSettings == {"verbose", "log-level", "coap-log-level", "port"}
VerifierSettings == {"ip", "pcr-selection", "hash-algorithm"}
AttesterSettings == {"pcr-log"}

Setting ==
    \E s \in CommonSettings \cup
             (IF program = "verifier" THEN VerifierSettings
              ELSE AttesterSettings) :
        \E rc \in IF s = "verbose" THEN {0} ELSE {0, -1} :
            Handled(conf, asked, rc)

\* --psk, --psk-key; --psk-identity of the verifier, --psk-hint of the attester.
Psk == Handled([conf EXCEPT !.use_dtls_psk = TRUE],
               [asked EXCEPT !.dtls = @ \cup {"psk"}], 0)

\* Mutated form: naming a file does not enable RPK.
WithRpkOnlyByName(c) == c

\* What --rpk does, and each option that names a file first of all.
WithRpk(c) == [c EXCEPT !.use_dtls_rpk = TRUE]
AskedRpk == [asked EXCEPT !.dtls = @ \cup {"rpk"}]

Rpk == Handled(WithRpk(conf), AskedRpk, 0)

Exists(f) == contents[f] # Absent

RpkPrivateKey(f) ==
    IF Exists(f)
    THEN Handled([WithRpk(conf) EXCEPT !.dtls_rpk_private_key_path = f],
                 AskedRpk, 0)
    ELSE Handled(WithRpk(conf), AskedRpk, -1)

RpkPublicKey(f) ==
    IF Exists(f)
    THEN Handled([WithRpk(conf) EXCEPT !.dtls_rpk_public_key_path = f],
                 AskedRpk, 0)
    ELSE Handled(WithRpk(conf), AskedRpk, -1)

RpkPeerPublicKey(f) ==
    IF Exists(f)
    THEN Handled([WithRpk(conf) EXCEPT !.dtls_rpk_peer_public_key_path = f],
                 AskedRpk, 0)
    ELSE Handled(WithRpk(conf), AskedRpk, -1)

\* --rpk-verify-peer=0 or 1.
RpkVerifyPeer(b) ==
    Handled([conf EXCEPT !.dtls_rpk_verify_peer_public_key = b],
            [asked EXCEPT !.dtls = @ \cup {"verify-peer"}, !.verify = b], 0)

\* Mutated form: the number is not cut.
StoredWide(n) == n

\* --timeout: the number is cut to 16 bits, then looked at.
Stored(n) == n % TimeoutModulus

\* Mutated form: the number itself is looked at.
UsableAsGiven(n) == n # 0

Usable(n) == Stored(n) # 0

Timeout(n) ==
    /\ program = "verifier"
    /\ Handled([conf EXCEPT !.timeout = Stored(n)], asked,
               IF Usable(n) THEN 0 ELSE -1)

AttestationPublicKey(f) ==
    /\ program = "verifier"
    /\ IF Exists(f)
       THEN Handled([conf EXCEPT !.attestation_public_key = TRUE], asked, 0)
       ELSE Handled(conf, asked, -1)

PcrFile(f) ==
    /\ program = "verifier"
    /\ IF Exists(f)
       THEN Handled([conf EXCEPT !.reference_pcr_file = TRUE], asked, 0)
       ELSE Handled(conf, asked, -1)

\* Mutated form: a format that is there already gets another entry.
AlwaysNew(logs, format) == Len(logs) + 1

\* charra_calculate_index_and_update_length: the entry a format has, or the
\* first free one; index SUPPORTED_PCR_LOGS_COUNT when there is none.
LogIndex(logs, format) ==
    IF \E i \in DOMAIN logs : logs[i] = format
    THEN CHOOSE i \in DOMAIN logs : logs[i] = format
    ELSE Len(logs) + 1

\* The verifier's --pcr-log, well formed.
PcrLog(format) ==
    /\ program = "verifier"
    /\ LET index == LogIndex(conf.pcr_logs, format)
           a == [asked EXCEPT !.logs = @ \cup {format}]
       IN  IF index > SUPPORTED_PCR_LOGS_COUNT THEN Handled(conf, a, -1)
           ELSE Handled([conf EXCEPT !.pcr_logs =
                           [i \in DOMAIN @ \cup {index} |->
                              IF i = index THEN format ELSE @[i]]], a, 0)

\* --attestation-key context:f.  The format is stored before the file is
\* looked for.
KeyContext(f) ==
    /\ program = "attester"
    /\ LET c == [conf EXCEPT !.attestation_key_format = "FILE"]
           a == [asked EXCEPT !.key = "FILE"]
       IN  IF Exists(f)
           THEN Handled([c EXCEPT !.attestation_key = CtxPath], a, 0)
           ELSE Handled(c, a, -1)

\* What the union holds after tpm2_handle has been assigned.
WithHandle(u, h) == [u EXCEPT !.low = h % HandleModulus]

\* --attestation-key handle:h.
KeyHandle(h) ==
    /\ program = "attester"
    /\ Handled([conf EXCEPT !.attestation_key_format = "HANDLE",
                            !.attestation_key = WithHandle(@, h)],
               [asked EXCEPT !.key = "HANDLE", !.handle = h], 0)

\* Any other format.
KeyUnknown ==
    /\ program = "attester"
    /\ Handled([conf EXCEPT !.attestation_key_format = "UNKNOWN"], asked, -1)

\* Mutated form: the attester does not insist on a key.
RequiredOfVerifier ==
    program = "verifier" =>
        conf.reference_pcr_file /\ conf.attestation_public_key

\* charra_check_required_options of either program.
RequiredGiven ==
    IF program = "verifier"
    THEN conf.reference_pcr_file /\ conf.attestation_public_key
    ELSE conf.attestation_key # NULL

EndOfOptions ==
    /\ stage = "options"
    /\ IF RequiredGiven THEN stage' = "setup" /\ UNCHANGED exit
       ELSE Exit(ParserExit(-1))
    /\ UNCHANGED <<program, conf, endpoint, contents, options, asked, peer>>

-----------------------------------------------------------------------------
(* main, from the end of the options to its loop.                           *)

Step(s) == stage' = s /\ UNCHANGED exit
KeptInMain == UNCHANGED <<program, conf, contents, options, asked, peer>>

\* Mutated form: the attester, too, returns what the parser left.
EndMainWithResult(result) == Exit(result) /\ UNCHANGED endpoint

\* An early end of main: the verifier returns what it has put in result, the
\* attester EXIT_FAILURE, whatever the reason (label error).
EndMain(result) ==
    /\ Exit(IF program = "verifier" THEN result ELSE "ERROR")
    /\ UNCHANGED endpoint

\* Both kinds of DTLS, or PSK and a libcoap without DTLS: the verifier's
\* result is still the parser's 0.
Abort ==
    /\ stage = "setup" /\ conf.use_dtls_psk
    /\ EndMain("SUCCESS")
    /\ KeptInMain

NewContext ==
    /\ stage = "setup" /\ ~(conf.use_dtls_psk /\ conf.use_dtls_rpk)
    /\ \/ Step("transport") /\ UNCHANGED endpoint
       \/ EndMain("COAP_ERROR")
    /\ KeptInMain

\* The endpoint e is there, or libcoap could not create it.
Open(e, rc) == \/ Step("running") /\ endpoint' = e
               \/ EndMain(rc)

\* The protection that is tried: PSK, else RPK, else none.
Protection(c) == IF c.use_dtls_psk THEN "psk"
                 ELSE IF c.use_dtls_rpk THEN "rpk" ELSE "udp"

OpenPsk ==
    /\ stage = "transport" /\ Protection(conf) = "psk"
    /\ Open("psk", "ERROR")
    /\ KeptInMain

\* charra_coap_setup_dtls_pki_for_rpk reads both files again.
OpenRpk ==
    /\ stage = "transport" /\ Protection(conf) = "rpk"
    /\ IF /\ Exists(conf.dtls_rpk_public_key_path)
          /\ Exists(conf.dtls_rpk_private_key_path)
       THEN Open("rpk", "ERROR") ELSE EndMain("ERROR")
    /\ KeptInMain

OpenUdp ==
    /\ stage = "transport" /\ Protection(conf) = "udp"
    /\ Open("udp", "COAP_ERROR")
    /\ KeptInMain

\* Mutated form: a reference file that cannot be read accepts every peer.
AcceptsUnread(k) ==
    conf.dtls_rpk_verify_peer_public_key =>
        contents[conf.dtls_rpk_peer_public_key_path] \in {k, Absent}

\* verify_rpk_peer_callback, or no callback at all: is a peer that shows key k
\* accepted?  The reference file is read at every connection.
Accepts(k) ==
    conf.dtls_rpk_verify_peer_public_key =>
        contents[conf.dtls_rpk_peer_public_key_path] = k

Connect(k) ==
    /\ stage = "running" /\ endpoint = "rpk" /\ Accepts(k)
    /\ peer' = IF contents[conf.dtls_rpk_peer_public_key_path] = k
               THEN "known" ELSE "unknown"
    /\ UNCHANGED <<program, stage, exit, conf, endpoint, contents, options,
                   asked>>

\* The attester's loop ends: SIGINT, or coap_io_process fails.  (What the
\* verifier does once it has a session is module Attestation.)
Interrupt ==
    /\ stage = "running" /\ program = "attester"
    /\ asked' = [asked EXCEPT !.interrupted = TRUE]
    /\ Exit("SUCCESS")
    /\ UNCHANGED <<program, conf, endpoint, contents, options, peer>>

IoFails ==
    /\ stage = "running" /\ program = "attester"
    /\ EndMain("ERROR")
    /\ KeptInMain

\* Somebody writes or removes a file.
FileChanges(f, k) ==
    /\ stage # "exited"
    /\ contents' = [contents EXCEPT ![f] = k]
    /\ UNCHANGED <<program, stage, exit, conf, endpoint, options, asked, peer>>

Next ==
    \/ Help \/ UnknownOption \/ Setting \/ Psk \/ Rpk
    \/ \E f \in Paths :
         \/ RpkPrivateKey(f) \/ RpkPublicKey(f) \/ RpkPeerPublicKey(f)
         \/ AttestationPublicKey(f) \/ PcrFile(f) \/ KeyContext(f)
    \/ \E b \in BOOLEAN : RpkVerifyPeer(b)
    \/ \E n \in Timeouts : Timeout(n)
    \/ \E format \in Formats : PcrLog(format)
    \/ \E h \in Handles : KeyHandle(h)
    \/ KeyUnknown
    \/ EndOfOptions
    \/ Abort \/ NewContext \/ OpenPsk \/ OpenRpk \/ OpenUdp
    \/ \E k \in Keys : Connect(k)
    \/ Interrupt \/ IoFails
    \/ \E f \in Paths, k \in Keys \cup {Absent} : FileChanges(f, k)

Spec == Init /\ [][Next]_vars

-----------------------------------------------------------------------------
(* Properties.                                                              *)

Running == stage = "running"

\* A session or endpoint is open only with the protection the command line
\* asked for: never without DTLS when a PSK or RPK option was given, and never
\* with one kind of key when the other was asked for.
ProtectedAsAsked ==
    Running => CASE endpoint = "psk" -> asked.dtls \cap {"psk", "rpk"} = {"psk"}
                 [] endpoint = "rpk" -> asked.dtls \cap {"psk", "rpk"} = {"rpk"}
                 [] OTHER -> asked.dtls \cap {"psk", "rpk"} = {}

\* The entries of pcr_logs are the formats asked for, each once, so that there
\* is always room for one more ("This should never happen").
LogsAsAsked ==
    /\ {conf.pcr_logs[i] : i \in DOMAIN conf.pcr_logs} = asked.logs
    /\ \A i, j \in DOMAIN conf.pcr_logs :
         conf.pcr_logs[i] = conf.pcr_logs[j] => i = j

\* A running attester reads the union attestation_key as what was last stored
\* in it: no path is read from a handle, no handle from a path, and neither
\* from the NULL it began with.
KeyAsAsked ==
    Running /\ program = "attester" =>
        \/ /\ asked.key = "FILE" /\ conf.attestation_key_format = "FILE"
           /\ conf.attestation_key = CtxPath
        \/ /\ asked.key = "HANDLE" /\ conf.attestation_key_format = "HANDLE"
           /\ conf.attestation_key.low = asked.handle % HandleModulus

\* A running verifier has a time limit, 0 never being one (Attestation's
\* TimeAssumption), however large the number it was given.
TimeoutPositive == Running /\ program = "verifier" => conf.timeout > 0

\* A peer whose key is not the one in the reference file was accepted only
\* because the last --rpk-verify-peer said so.
UnknownPeerOnlyIfAsked == peer = "unknown" => ~asked.verify

\* An attester that reports success printed its help or was interrupted.
AttesterSuccess ==
    program = "attester" /\ exit = "SUCCESS" => asked.help \/ asked.interrupted

\* The help of --rpk-verify-peer: "Implicitly enables DTLS-RPK".
VerifyPeerEnablesRpk ==
    Running /\ "verify-peer" \in asked.dtls => endpoint # "udp"
=============================================================================
