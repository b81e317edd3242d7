# CHARRA in TLA+

CHARRA is a challenge-response remote attestation over CoAP: a *verifier* sends
a nonce and a selection of PCRs, an *attester* lets its TPM sign both, and the
verifier checks the signature, the nonce and the PCR digest against a file of
reference values. This directory holds TLA+ models of the two programs, the
TLC configurations that check them, and machine-checked proofs about them.
Source paths below are relative to `src/` of the repository.

## The system

| Component | State | Operations | Works with |
|---|---|---|---|
| Verifier process (`verifier.c`) | `last_request`, `attestation_rc`, `processing_response`, the 16-bit `response_wait_time`, `result` | set-up, create and send the request, wait loop, every exit | libcoap calls its response handler from inside `coap_io_process` |
| Response handler (`verifier.c`, `charra_util.c`, `crypto_util.c`) | the response, ESAPI objects, a key handle, local verdicts | decode, load key, check signature, magic, nonce, PCRs, clean up | the RIM manager, the TPM, `last_request` |
| RIM manager (`charra_rim_mgr.c`) | static `pcr_selection_index`, `pcr_set_index`; the values read | one call, one token after the other | libyaml, `crypto_util.c`; called by the response handler |
| Request handler of the attester (`attester.c`) | its locals, the request, the quote, one key handle | decode, open TPM, load key, quote, read logs, reply, clean up | the TPM, key files, log files, libcoap |
| Start-up (`util/cli`, `main` of both, `coap_util.c`) | the configuration variables, the union `attestation_key` | one option after the other, required options, DTLS set-up, peer check | files named by options, libcoap |
| PCR selection (`cli_util_verifier.c`, `charra_helper.c`) | selection and length per bank | option, request, bitmap | verifier, attester, RIM manager |
| TAP messages in CBOR (`charra_tap_cbor.c`) | a decoder position, allocated lists | marshal, unmarshal | both programs |
| PCR logs (`parser_util.c`, `io_util.c`) | file buffers | read one log | request handler |
| TPM and network (external) | PCRs, transient keys; messages in flight | extend, quote, flush; lose, duplicate, delay | everything |

What is hard about it: neither program has threads, but a verifier runs its
handler from within a loop that it also has to leave in time; messages are lost,
duplicated and left over from other processes; PCRs change while an attestation
is under way; the RIM manager keeps static state between calls; every handler
step has a failure path into a shared clean-up; times and numbers are cut to the
width of the variables they are stored in; and a command line is a sequence of
operations that overwrite each other. `PROJECT.json` lists these hazards line by
line, each with the property that would catch it or the reason there is none.

What makes each component correct:

* the protocol: a positive verdict has a witness, a state of the trusted
  platform between request and exit;
* the verifier's loop: it ends, not before and not after the time it was given;
* the RIM manager: a match is a match of one single set, and the static indices
  never leave the arrays;
* the attester: nothing stays allocated in the TPM, its clean-up touches only
  what exists, and taking the handler apart does not change what it promises;
* the response handler: SUCCESS at the end of a call is earned by every check,
  keys are flushed on every path, and taking it apart changes nothing;
* what travels: the PCRs named on the command line are those quoted and compared,
  the logs asked for are those sent back, and a log explains its quote;
* start-up: what runs is what the command line asked for.

## The modules

| Module | Models | Its role |
|---|---|---|
| `ChallengeResponse` | nothing in particular | the promise: one challenge, at most one verdict, positive only with a witness |
| `Attestation` | `verifier.c`, the network, attesters as one step, PCRs | the protocol; implements `ChallengeResponse` |
| `AttesterHandler` | `coap_attest_handler` of `attester.c` and what it calls | extends `Attestation`, replaces its one-step `Answer`; implements `Attestation` |
| `RimMgr` | `charra_rim_mgr.c` | the automata behind `ReferenceCheck`; what `Attestation` abstracts to `PcrsMatch` and `stale` |
| `VerifierHandler` | `coap_attest_handler` of `verifier.c` and what it calls | extends `Attestation`, replaces its one-step `Receive`; implements `Attestation` |
| `TapCbor` | `charra_tap_cbor.c` | pure: encoders and decoders of the two messages |
| `PcrSelectionOption` | the argument of `--pcr-selection` in `cli_util_verifier.c` | pure: what an option leaves in the arrays, and what it names |
| `Exchange` | `--pcr-selection`, the request, the bitmap, the quote, the logs, the response, the comparison | the data that `Attestation` leaves out, with `TapCbor` on the way; its verdicts are `Attestation`'s |
| `Startup` | `util/cli`, both `main` functions up to their loops, DTLS set-up | what `Attestation` presupposes, a positive timeout above all |
| `ReferenceCheck` | one call of `charra_rim_mgr.c` as a function | pure: what `Exchange` uses and `RimMgr` computes |
| `CharraError` | `charra_error.h` | result codes |
| `MC...` | | values of the constants for TLC |
| `..._proof` | | the theorems |

### Attestation

A verifier process is an element of `Verifiers`; it runs once, as the program
does. `pc` is where `main` is, `result` what it returns. Everything before
`coap_send_large` is `Abort` (no request exists yet), `SendFails` or `Send`. One
pass of the wait loop is one action, because `coap_io_process` runs the response
handler inside itself and the comparison with the time limit follows before
anything else can happen: `Wait` (nothing of interest arrives), `Receive` (a
quote arrives and the handler runs), `ReceiveError`, `IoError`, `GiveUp` (libcoap
has nothing pending any more). `EndOfPass` is the common end: add up in 16 bits,
compare, test `coap_io_pending`. `Receive` and `ReceiveError` may leave something
pending or not; a second response then overwrites `attestation_rc`.

`Outcomes` is the set of codes the handler can leave, with the state it leaves
in the RIM manager's static index (`stale`): an error before the checks; a
reference file that cannot be used; or the verdict of signature, nonce and PCRs.
The order of checks cannot be observed, since all are made before the verdict.
A PCR digest is a model value, and a reference file the sequence of the digests
of its sets. A stale index makes the first set unusable. A match leaves the index
behind the last PCR of the selection, and with an empty selection that is its
start: `StaleAfter` allows both.

Messages stay in their sets, so a message is received never, once, several times
or late; one addressed to a process that has ended may reach another process
(`Reaches`), as a reused address would do. An attester is any element of
`Attesters`; each signs with its own key, and verifiers know that of `Trusted`.
`seen[v]` is a history variable: the states of the trusted platform's PCRs while
`v` waits. The response handler has early exits that jump over the declarations
of what its clean-up reads: for an error response, and for a quote that cannot be
unmarshalled or is too long. What follows is undefined, and a choice here: it
does no harm (`ReceiveError`, `Receive` with an error before the checks), or the
process dies (`ReceiveErrorCrash`, `ReceiveCrash`).

### AttesterHandler

The same system, with `Answer` replaced by the steps of the handler: `ReadRequest`,
`OpenTpm`, `LoadKey`, `TakeQuote`, `ReadLogs`, `Reply`, then `CleanUp` or `Crash`.
Each step has the failures of the code, which jump to the clean-up. `local` says
of each pointer whether it is not initialised, null, allocated or freed; `key`
and `transient` follow the key handle and the TPM's slots; `made` holds every
quote made, sent or not. `Stop` and `Restart` are the ends and starts of the
process; a key in the TPM survives them. Reading an uninitialised pointer does
no harm or ends the process; freeing a freed one likewise.

### VerifierHandler

`Receive` and `ReceiveError` replaced by a call of one step after the other:
`ReadQuote`, `QuoteUnreadable` or `ReadError`, `OpenTpm`, `LoadKey`, `VerifySignature`,
`VerifyWithMbedtls`, `UnmarshalQuote`, `CheckNonce`, `CheckPcrs`, `Conclude`,
then `CleanUp` or `Crash`. Each leaves its own code in `attestation_rc`, which is
therefore SUCCESS several times before the verdict; a failed check of the
signature, the nonce or the PCRs goes on, every other failure jumps to the
clean-up. `local` says of `res`, `esys_ctx` and `tcti_ctx` whether they are
initialized by then. Whether that is with NULL or with an object is left out, the
clean-up being right for both. An error response without data skips the
initialisers of all three; one that is no CBOR, and a quote that cannot be
unmarshalled or whose attestation data or signature is too long, skip those of
the contexts (`verifier.c:563-585` jump over 591-592). Processes may use one
TPM (`TpmOf`), and a public key that one of them has loaded takes a slot from the
others until it is flushed; `refused` counts the flushes the TPM has refused.

A pass of the wait loop is one action of `Attestation` and a whole call here.
`CleanUp` is the action that stands for it; until then the abstract process shows
what it was `before` the call (`SeenOutside`), since nobody reads
`attestation_rc` or the static index in between.

### TapCbor

A message is a tree of items (numbers, booleans, byte strings, texts, arrays);
QCBOR's bytes are external. Decoders skip items that are left over, as
`QCBORDecode_ExitArray` does, cut the numbers of a selection to 16 and 8 bits,
refuse a request of another version, and copy a text into one zeroed byte more
than it has: a request sends identifiers with their NUL, a response without.

### PcrSelectionOption

An argument is a sequence of banks with their lists. `Parsed` is the loop over it, a
fold that starts with every bank cleared and overwrites the bank of each list
(`Fill`). A list becomes the ascending sequence of its elements (`Ordered`), since
the code marks each PCR in an array of flags and then reads that array; `all`
stores 32 ones. `NamedIn` is what the user has named: the elements of the last list
of a bank.

### Exchange

The state of several verifiers and one attester as far as data goes. `PcrSelection`
is one `--pcr-selection` option, with what `PcrSelectionOption` makes of it, or a
start that is refused. `Send` encodes the request,
`ReceiveRequest` decodes it and makes bits of the PCRs (an index beyond
`sizeofSelect` is lost there), `TakeQuote` hashes the PCRs in ascending order,
`ReadLog` reads one file after the other, `Reply` encodes. `Receive` decodes and
compares the digest with the reference sets, which are tried one after the other
from the static index on. Meanwhile the kernel writes to its log and extends the
PCR (`Measure`, `Extend`), and the platform restarts (`Reboot`). The value of a PCR
is the number of events in it; a digest is the sequence of values that is hashed,
so equal digests mean equal values. Signatures, resources and the clock are in the
other modules. `judged` and `witnessed` are history: the quote a verdict is about,
and the processes for which the platform has been in a reference state since
their request.

`Protocol(s)` is `Attestation` over the data of `Exchange`: the digest of a reference
set is that of its values for selection `s`, and an index that is not 0 is a stale
one. `AppraisesAsProtocol` says that a step of `Exchange` leaves a process with a
verdict and an index that `Outcomes` has for a response that is there.

### RimMgr

One action per document header, entry, end of document and end of stream, so
that every `goto` of the token automata has its action; a file is abstracted to
what the automata tell apart of it (see the module's header). The static indices
are variables that `Call` does not initialise. `served` and `atCall` are history.
`ReferenceCheck` is the same call as a function of the sets, the selection, the
quoted values and the index found; `CallIsFunction` says that the automata compute
it, and `Exchange` uses it.

### Startup

One action per option, in any order and number (`MaxOptions` bounds TLC only),
then the checks and branches of `main` up to its loop, then connections of RPK
peers. The two programs share the option loop and differ where the guard says
`program = ...`. Files are `Absent` or hold a key and change at any time. The
union `attestation_key` is two words, of which a handle overwrites one.

## What is checked

| Run | Instance | Shows | States |
|---|---|---|---|
| `attestation` | 2 processes, 2 platforms, 2 nonces, 2 digests | `TypeOK`, `WitnessInv`, `PositiveIsWitnessed`, `KeepsPromise` | 805 000 |
| `clock` | 1 process, timeout 30 s, slices of 0, 1 and 2 s, 16 bits | `DeadlineHonoured`, `NoEarlyTimeout`, `Termination` | 20 000 |
| `long_timeout` | the same with 66 s, slices of 0 and 2 s | `NoEarlyTimeout`, `Termination` | 577 000 |
| `long_deadline` | as `long_timeout` | `DeadlineHonoured` is violated | |
| `rim` | every file of up to 2 sets of up to 2 entries, 5 selections, 2 calls | `TypeOK`, `RimSound`, `RimAgrees`, `CallIsFunction` | 1 020 000 |
| `rim_twice` | 3 plain files, 2 calls | `AnySetMatches` is violated | |
| `attester` | 1 process, 1 attester, 2 TPM slots, key file | `HandlerTypeOK`, `KeysAccounted`, `CrashOnlyAfterFailure`, `ImplementsAttestation` | 300 000 |
| `attester_cleanup` | as `attester` | `FreesHeapObjects` is violated | |
| `verifier_handler` | 2 processes on one TPM with 1 slot, 1 platform, 2 nonces, 2 digests | `HandlerTypeOK`, `KeysAccounted`, `NoEarlySuccess`, `DiesBeforeTpm`, `ImplementsAttestation` | 736 000 |
| `exchange` | 2 processes, 7 options for one of them, 2 PCRs in the TPM, 2 reference sets, 2 logs | `TypeOK`, `PositiveMeansReference`, `PositiveIsWitnessed`, `ReferenceIsAccepted`, `LogCoversQuote`, `LogsNamed`, `AppraisesAsProtocol` | 823 000 |
| `startup` | command lines of up to 5 options, 2 files, 2 keys | `ProtectedAsAsked`, `KeyAsAsked`, `LogsAsAsked`, `TimeoutPositive`, `UnknownPeerOnlyIfAsked`, `AttesterSuccess`, `TypeOK` | 130 000 |
| `startup_verify_peer` | up to 3 options | `VerifyPeerEnablesRpk` is violated | |

Every property of a passing run has a mutant in `PROJECT.json`: an operator of
the module, next to the one it stands in for, that a plausible mistake in the
code would give, and under which TLC finds the property violated.

### Bounds

* *Processes and platforms.* Two processes are what a left-over or foreign quote
  needs: one to make it and one to be given it. One is sent to the platform that
  is not trusted. Two digests are one in the reference file and one outside.
  The proofs lift these bounds.
* *Time.* In `attestation` a pass takes nothing or all the time there is
  (`TimeoutMs = 1`): the run is about messages, not about the clock. The runs
  about the clock have one process, the real slice of 2000 ms and the real
  width; a response may also come at once or keep the handler busy for a second.
  `GiveUpMs` is libcoap's last retransmission timer, 31 times the timeout, since
  `--timeout` sets the acknowledgement timeout too (four retransmissions with
  doubled intervals, and the wait for the last).
* *Nonces.* Two draws of 20 random bytes are taken to differ (`Drawn`), and so
  are the digests of different PCR values (`DigestMatches`). What `malloc` leaves
  in a buffer for a PCR value is taken to be none (`Garbage`): the images build on
  glibc, which writes its links over the start of a freed buffer.
* *Reference files.* Two sets with two entries are enough for a set that matches
  after one that does not, an incomplete one before or after, and every order of
  two entries. `MaxPcrs` is 3 instead of 32, so that a selection that is refused
  is small.
* *Response handler.* Two processes and one slot are a process that finds the TPM
  full because of another. Two quotes or error responses in all (`FewMessages`, a
  constraint) are enough for two calls in one process and for a left-over quote
  in the other; a process makes at most two passes (`GiveUpMs = 2`, slices of one
  millisecond). `TimeoutMs = 3` is never reached: the clock is the matter of
  `clock`. Nonces and processes are symmetric: both processes ask the same
  platform on the same TPM, and a permutation changes no property.
* *Exchange.* `MaxPcrs = 3`, `SelectBits = 2` and `ImaPcr = 1` keep what matters of
  32, 24 and 10: a PCR in a TPM that has a log and one that has none, one that
  can be named but not quoted, one that is out of range. The options are out of
  order, doubled, `all`, of another bank alone or beside, out of range, of an
  unknown bank, and unreadable; the other process has the static selection. One
  PCR has different values in the two sets, the other is missing in one. One event
  per PCR (`MaxEvents`) and one response (`MaxResponses`: responses stay where they
  are, so this is one in a whole behaviour, which may be received by either
  process and more than once) are enough for a log read at the wrong moment and
  for a response to another's request. Second responses are the matter of
  `attestation` and `verifier_handler`; the theorems about `Exchange` hold for any
  number. `PositiveMeansReference` speaks of the PCRs named for SHA-256: other banks
  are ignored, as `CHANGELOG.md` says.
* *Start-up.* The moduli are 8 instead of 2^16 and 2^32, with numbers on both
  sides of them. Five options are two to enable each kind of DTLS or set a key,
  and one more for each of their interactions; the proofs hold for any number.

Deadlock is checked except where the system ends by itself: the last call of
`RimMgr` has returned, the program of `Startup` has exited.

### Fairness

Only `Termination` needs it: a process that waits makes passes (`Wait`) and, once
libcoap's timers have run out, the last one (`GiveUp`). Both are the process's
own: `coap_io_process` is called with a slice of 2000 ms and returns when it is
over, and libcoap ends an unanswered exchange by its own timer. A pass of 0 ms
changes nothing, so weak fairness of `Wait` says that from time to time a pass
takes a millisecond or more; that fails only if messages cut every single pass
short for ever, which is the one thing the network is assumed not to do. Nothing
else is assumed of it, nor of the attester, the TPM or the user.

### Disagreements found

1. `verifier.c:425`: with `--timeout` of 66 s or more the 16-bit sum wraps and
   the limit is never reached, against the help text (`long_deadline`).
2. `charra_rim_mgr.c:34`: the static index is not reset after a match or an error
   inside a set; the next call of the process skips the first set, against the
   comment in `charra_rim_mgr.h` (`rim_twice`). A verifier gets there when a
   second response arrives in one wait; it then reports a failure, never a false
   success (`RimSound`, `PositiveIsWitnessed`).
3. `attester.c:465`: the clean-up frees pointers that early errors leave
   uninitialised, against its comment (`attester_cleanup`). The verifier's clean-up
   at `verifier.c:779` has the same comment and the same early exits, on error
   responses and on quotes it cannot read (lines 543-585); `verifier_handler` shows
   how far that goes, and no further (`DiesBeforeTpm`).
4. `cli_util_common.c:208`: `--rpk-verify-peer` does not enable RPK, against the
   help text (`startup_verify_peer`).

## What is proved

TLAPS checks the following for every value of the constants that satisfies the
assumptions in the modules (all named, all about the shape of the constants).

* **Attestation.** `TypeOK`. `PositiveIsWitnessed` is not inductive; `WitnessInv`
  is, given `TypeOK`. Its parts are the argument: no two requests share a nonce
  (`NoncesDiffer`); a message carries the nonce of the process it belongs to, no
  matter who delivers it to whom (`MessagesAreOwn`); while that process waits,
  the trusted platform's quotes show only states that it has seen
  (`QuotesAreSeen`); so a code of SUCCESS, in `attestation_rc` or `result`, has a
  witness (`SuccessIsSeen`). A stale RIM index only takes reference sets away.
  `AttestationKeepsPromise` is the refinement: with `WitnessInv` each step maps to
  a step of `ChallengeResponse` or to none. `NoEarlyTimeout` rests on the sum
  never exceeding the time elapsed, whatever the modulus. `DeadlineHonoured`
  is proved under the condition that the limit fits the counter: `TimeoutMs + t`
  is at most `WaitModulus` for every `t` a pass can take.
* **RimMgr.** The invariant says that the index is in range, and that the part of
  `reference_pcrs` a call has filled holds values of the set being read, for the
  selected PCRs in order. A call with a stale index starts with garbage
  in the first places; garbage never equals a quoted value, so such a set does
  not match. `RimAgrees` and `CallIsFunction` hold for regular files and every index
  a call finds, under `SelectionAssumption` (selections are ascending, as the
  option stores them). `AgreeInv` says that no set read so far decides the call,
  and which part of the current one has been used (`Undecided`, `Reading`); at the
  end of a set it therefore decides as the definitions say.
* **AttesterHandler.** `LocalsInv` says for each step what its pointers are;
  `KeysInv` counts keys; `MadeInv` says that what is sent has been made, and that
  the request being handled is one that was sent. With it
  `HandlerImplementsAttestation` maps `TakeQuote` to `Answer` and each of the
  handler's other steps to a stutter, `quotes` being replaced by `made`: a quote
  that is never sent is a lost message of the atomic attester.
  The witness is carried over (`HandlerWitness`): the theorems about `Attestation`
  are instantiated with `made` for `quotes`. `HandlerTypeOK` includes that a TPM
  never holds more keys than it has slots.
* **VerifierHandler.** `HandlerInv` says for each step which locals are set, which
  checks have been made and what of the response they mean. From it follow
  `NoEarlySuccess`, `DiesBeforeTpm`, and, with the abstract variables read at
  the beginning of a call, `HandlerImplementsAttestation`: `CleanUp` maps to `Receive`
  or `ReceiveError`, `Crash` to `ReceiveCrash` or `ReceiveErrorCrash`, every other
  step of the handler to a stutter. For `DiesBeforeTpm` the invariant has two cases
  at the clean-up: all locals are initialized, or the call was `TurnedAway`, with
  no key, and with both contexts as they were when it began. The witness is carried over here, too. `KeysAccounted` is
  about a cardinality: a step adds or takes one process.
* **Startup.** `StartupInv` relates the configuration to what was asked for at
  every stage: the DTLS flags, the union and its format, the timeout's width.
  `LogsAsAsked` follows from `FormatsAssumption`, that `pcr_logs` has an entry for
  every format: a list without doubles is no longer than that.
* **TapCbor.** `RequestRoundTrip` and `ResponseRoundTrip`: what one program encodes
  the other accepts and reads back unchanged, for lists of any length. The
  numbers have to fit the widths the code gives them; a request has to be of the
  one version.
* **PcrSelectionOption.** `ParsedIsLast` is the closed form of the option's loop: in
  each bank the last list for it, and nothing without one. There is no induction
  in it: `IsFold` says what the fold's function satisfies, `FilledFolds` that the
  closed form satisfies it too, and `FoldsAgree` that two functions which do
  differ nowhere, since there would be a shortest prefix on which they do.
  Ascending sequences exist for every finite set of numbers and are unique, by a
  smallest counterexample as well (`AscendingExists`, `AscendingIsUnique`). With them
  `ParsedSelectsNamed`: what is stored fits the array, and is the PCRs named in
  order, or has `MaxPcrs` entries, which the RIM manager refuses.
* **Exchange.** `TypeOK`, `PositiveMeansReference`, `PositiveIsWitnessed` and
  `ReferenceIsAccepted` rest on `VerdictInv`. None of them is inductive: a verdict depends on a digest that was
  computed earlier, from a request that was made earlier still. `SelectionInv` says
  that what is stored is what was made of the last option, and that it does not
  change once the process waits; `QuoteInv` follows it through request, handler
  and response, so that a quote with a process's nonce is over those of its PCRs
  that the TPM has (`RequestsAsk`, `HandlerAsks`, `ResponsesQuote`); `JudgedInv` says that
  a verdict is the RIM manager's answer for such a quote. A digest over fewer
  values than the selection has is never that of a set (`ShortDigest`), and one
  over all of them has them in the order of the selection (`ValuesOfSelection`,
  because ascending sequences are unique), so a match is about the PCRs named
  (`MatchSatisfies`) and a state of the reference file matches (`SatisfiesMatches`).
  Freshness is part of the same invariant: whoever waits while the platform is in a
  reference state has been witnessed (`PlatformIsSeen`), a quote that shows such a
  state was made while its process waited (`IsWitness` in `QuotesSelected`), and a
  witness is never lost, not by a restart either (`WitnessIsKept`).
  `NothingAssumption` says that the value for "nothing" is none of the values whose
  place it takes, `SelectionsAssumption` that the static selection is in order.
* **Exchange, as Attestation's handler.** `AppraisesAsProtocolAlways`: a set that the
  RIM manager finds equal is one whose digest is equal, at or after the set at
  which `Attestation` begins (`MatchIsOfProtocol`); every other answer is a failed
  check, with an index that `Attestation` leaves open. So what `Attestation`
  abstracts from (selections, sets that lack a PCR, the index itself) adds no
  positive verdict.
* **Exchange, logs.** `LogCoversQuote` and `LogsNamed`. The invariant follows a log list
  from the process that asks (`RequestInv`) through the handler (`HandlerInv`) into
  the response (`ResponseInv`), with the round trips at both ends. A log explains
  a quote because it is read later, only grows while the platform runs, and is
  never behind its PCR (`PlatformInv`). `LogRequestsAssumption` is what `Startup`
  proves as `LogsAsAsked`.

## What is only model-checked

* `Termination`: liveness is beyond the prover.

Every invariant, every action property and every refinement that a passing run
checks is also a theorem, `DeadlineHonoured` under the condition named above.

## What is not modelled, and why

* *Messages that neither program encodes*: a quote may be unreadable or too long for
  the response handler, whoever made it, and requests and responses may be
  answered by errors. Apart from that, `Exchange` has the messages of the two
  programs only: `LogsNamed` is about responses that an attester of this program
  has encoded, and the lengths by which the decoders copy are those of its
  messages.
* *Contents of PCR logs*: the verifier logs their length and nothing else.
* *The arithmetic of signatures and hashes, padding schemes*: external, modelled by
  what is decided. The verifier also verifies with mbedTLS and checks the TPM's
  magic value; neither enters the verdict, and the model says so (`Verdict`,
  `VerifyWithMbedtls`, `UnmarshalQuote`).
* *The bytes of CBOR and the text of options and files*: QCBOR, libyaml and
  `strtoul` are external; the models begin with items, tokens and numbers.
* *Memory that is lost*: what a decoder has allocated for a message that is then
  refused stays allocated. No model counts memory.
* *The verifier drawing its nonce from a TPM, primary keys, NVRAM, the growable
  vector*: compiled in, not called in the repository's configuration.
* *Logging, help texts, container scripts*: output, wording, and no part of the
  two programs.

## Plan

The components that decide anything are modelled, and what the runs check of them
is proved, liveness aside. What is left are compositions:

1. `Startup`'s `TimeoutPositive` as `Attestation`'s assumption on time, and its
   `LogsAsAsked` as `Exchange`'s on the logs, so that neither has to be read side by
   side with the other.
2. The two handlers in one system: each implements `Attestation` with the other
   side in one step.
3. `RimMgr` inside `VerifierHandler`'s `CheckPcrs`, by way of `CallIsFunction` and
   `MatchIsOfProtocol`.

## Running

    tlc -config MCAttestation.cfg MCAttestation
    tlapm Attestation_proof.tla

and likewise for the other modules. The longest run takes
about three minutes.
