------------------------------- MODULE RimMgr -------------------------------
(***************************************************************************)
(* The reference integrity measurement manager (core/charra_rim_mgr.c):    *)
(* reads the sets of reference PCRs of a YAML file one after the other and *)
(* compares the composite digest of each with the quoted one.  Its three   *)
(* indices are static variables of the file: they outlive a call.          *)
(*                                                                         *)
(* A file is a sequence of documents.  libyaml (external) turns it into    *)
(* tokens; what the token automata of parse_document and parse_pcr_mapping *)
(* tell apart of a document is                                             *)
(*   header   "sha256", a proper prefix of it, another algorithm, or       *)
(*            "junk": a token that is not expected there                   *)
(*   entries  the key/value pairs of the inner mapping; Bad is a key that  *)
(*            is no PCR index, or a value that is no 0x digest, Junk a     *)
(*            token that is neither key nor scalar                         *)
(*   closed   nothing follows the mapping but the ... token                *)
(* A composite digest is the sequence of the values that are hashed.       *)
(***************************************************************************)
EXTENDS Integers, Sequences, CharraError

CONSTANTS
    Files,       \* the reference files
    Selections,  \* tpm_pcr_selection[1]: the selected PCR indices, ascending
    Values,      \* PCR values
    Bad, Junk,   \* what an entry may hold instead of an index or a value
    Garbage,     \* what malloc leaves in reference_pcrs: no PCR value, since
                 \* the allocator writes over the start of a freed buffer
    MaxCalls,    \* calls in the life of a process
    MaxPcrs      \* TPM2_MAX_PCRS: 32

EntryType == [index: Nat \cup {Bad, Junk}, value: Values \cup {Bad}]
DocumentType == [header: {"sha256", "prefix", "other", "junk"},
                 entries: Seq(EntryType), closed: BOOLEAN]

ASSUME RimAssumption ==
    /\ Garbage \notin Values /\ Bad \notin Values
    /\ Bad \notin Nat /\ Junk \notin Nat
    /\ MaxCalls \in Nat
    /\ MaxPcrs \in Nat
    /\ \A s \in Selections : s \in Seq(Nat)
    /\ Files \subseteq Seq(DocumentType)

\* The option parser sorts what is not too long for a call anyway.
ASSUME SelectionAssumption ==
    \A s \in Selections : Len(s) < MaxPcrs =>
        \A i, j \in 1 .. Len(s) : i < j => s[i] < s[j]

VARIABLES
    file, selection, quoted,   \* the arguments: the same for every call
    state,                     \* "idle", "stream" or "mapping"
    doc, entry,                \* the document and the entry read next
    pcr_selection_index,       \* static: the position in selection
    pcr_set_index,             \* static: counts the sets tried
    reference_pcrs,            \* the values read so far, by position
    rc,                        \* what the last call returned
    calls,                     \* the number of calls begun
    atCall,                    \* history: pcr_selection_index when it began
    served                     \* history: the file was opened, hashing worked

args == <<file, selection, quoted>>
past == <<atCall, served>>
statics == <<pcr_selection_index, pcr_set_index>>
vars == <<args, state, doc, entry, statics, reference_pcrs, rc, calls, past>>

SelLen == Len(selection)
Uninitialised(n) == [i \in 1 .. n |-> Garbage]

Init ==
    /\ file \in Files
    /\ selection \in Selections
    /\ quoted \in [1 .. Len(selection) -> Values]
    /\ state = "idle" /\ doc = 1 /\ entry = 1
    /\ pcr_selection_index = 0 /\ pcr_set_index = 0
    /\ reference_pcrs = <<>>
    /\ rc = "ERROR" /\ calls = 0
    /\ atCall = 0 /\ served = FALSE

\* The call returns; what it has allocated is freed.
End(code) ==
    /\ rc' = code
    /\ state' = "idle" /\ doc' = 1 /\ entry' = 1
    /\ reference_pcrs' = <<>>
    /\ UNCHANGED <<args, calls, atCall>>
Return(code) == End(code) /\ UNCHANGED served

\* charra_check_pcr_digest_against_reference up to the loop over the tokens.
\* The static indices are not touched.
Call ==
    /\ state = "idle" /\ calls < MaxCalls
    /\ SelLen < MaxPcrs
    /\ calls' = calls + 1
    /\ state' = "stream"
    /\ reference_pcrs' = Uninitialised(SelLen)
    /\ atCall' = pcr_selection_index /\ served' = TRUE
    /\ UNCHANGED <<args, doc, entry, statics, rc>>

\* A selection that is too long, or a file that cannot be served, ends it.
CallRefused ==
    /\ state = "idle" /\ calls < MaxCalls
    /\ calls' = calls + 1
    /\ rc' = IF SelLen >= MaxPcrs THEN "BAD_ARGUMENT" ELSE "ERROR"
    /\ atCall' = pcr_selection_index /\ served' = FALSE
    /\ UNCHANGED <<args, state, doc, entry, statics, reference_pcrs>>

\* parse_document before the inner mapping.  The algorithm is compared over the
\* length of the scalar that was read, so a prefix will do.
HeaderOK(d) == d.header \in {"sha256", "prefix"}

Document ==
    /\ state = "stream" /\ doc <= Len(file)
    /\ IF HeaderOK(file[doc])
       THEN /\ state' = "mapping" /\ entry' = 1
            /\ UNCHANGED <<args, doc, statics, reference_pcrs, rc, calls,
                           past>>
       ELSE Return("ERROR") /\ UNCHANGED statics

\* parse_pcr_mapping, one key and its value.  Nothing but the tokens' types is
\* looked at once every selected PCR has been found; a value is looked at only
\* if its key is the next selected PCR, so the entries must be in order.
Skipped == pcr_selection_index >= SelLen
IsNext(e) == ~Skipped /\ e.index = selection[pcr_selection_index + 1]
Unparseable(e) ==
    \/ e.index = Junk
    \/ ~Skipped /\ e.index = Bad
    \/ IsNext(e) /\ e.value = Bad

\* Broken form: the index advances for the key and for the value.
AdvanceTwice == pcr_selection_index + 2
Advance == pcr_selection_index + 1

Entry ==
    /\ state = "mapping" /\ entry <= Len(file[doc].entries)
    /\ LET e == file[doc].entries[entry]
       IN  \/ /\ Unparseable(e)
              /\ Return("ERROR") /\ UNCHANGED statics
           \/ /\ ~Unparseable(e) /\ IsNext(e)
              /\ reference_pcrs' = [reference_pcrs EXCEPT
                                      ![pcr_selection_index + 1] = e.value]
              /\ pcr_selection_index' = Advance
              /\ entry' = entry + 1
              /\ UNCHANGED <<args, state, doc, pcr_set_index, rc, calls, past>>
           \/ /\ ~Unparseable(e) /\ ~IsNext(e)
              /\ entry' = entry + 1
              /\ UNCHANGED <<args, state, doc, statics, reference_pcrs, rc,
                             calls, past>>

\* Broken forms: an incomplete set is compared too; the index stays where the
\* set that did not match has left it.
AlwaysComplete == TRUE
IndexKept == pcr_selection_index

\* handle_end_of_pcr_set looks for missing PCRs first.
Complete == pcr_selection_index >= SelLen
IndexAfterMismatch == 0

\* compute_and_check_PCR_digest: the digest of the values read is the quoted
\* one (different values are taken to have different digests).
DigestMatches == reference_pcrs = quoted

\* The rest of parse_document, then handle_end_of_pcr_set: an incomplete set
\* ends the call; a set that does not match makes room for the next one.
EndOfDocument ==
    /\ state = "mapping" /\ entry > Len(file[doc].entries)
    /\ \/ /\ ~file[doc].closed \/ ~Complete
          /\ Return("ERROR") /\ UNCHANGED statics
       \/ /\ file[doc].closed /\ Complete    \* the digest cannot be computed
          /\ End("ERROR") /\ served' = FALSE /\ UNCHANGED statics
       \/ /\ file[doc].closed /\ Complete /\ DigestMatches
          /\ Return("SUCCESS") /\ UNCHANGED statics
       \/ /\ file[doc].closed /\ Complete /\ ~DigestMatches
          /\ pcr_selection_index' = IndexAfterMismatch
          /\ pcr_set_index' = pcr_set_index + 1
          /\ state' = "stream" /\ doc' = doc + 1
          /\ UNCHANGED <<args, entry, reference_pcrs, rc, calls, past>>

\* The end of the stream: no set matched.
EndOfStream ==
    /\ state = "stream" /\ doc > Len(file)
    /\ Return("VERIFICATION_FAILED") /\ UNCHANGED statics

Next ==
    \/ Call \/ CallRefused
    \/ Document \/ Entry \/ EndOfDocument \/ EndOfStream

Spec == Init /\ [][Next]_vars

-----------------------------------------------------------------------------
(* Properties.                                                              *)

\* The index never leaves the arrays it is used on.
TypeOK ==
    /\ state \in {"idle", "stream", "mapping"}
    /\ doc \in 1 .. Len(file) + 1
    /\ entry \in Nat \ {0}
    /\ pcr_selection_index \in 0 .. SelLen
    /\ atCall \in 0 .. SelLen
    /\ pcr_set_index \in Nat
    /\ reference_pcrs \in Seq(Values \cup {Garbage})
    /\ state # "idle" => Len(reference_pcrs) = SelLen
    /\ rc \in {"SUCCESS", "ERROR", "BAD_ARGUMENT", "VERIFICATION_FAILED"}
    /\ calls \in 0 .. MaxCalls
    /\ served \in BOOLEAN

Returned == state = "idle" /\ calls > 0

\* Entry i of d holds value x for PCR p.
Holds(d, p, x) ==
    \E i \in 1 .. Len(d.entries) : d.entries[i] = [index |-> p, value |-> x]

\* No call, whatever the file looks like and whatever an earlier call has left
\* in the static indices, finds a match that no single set of the file holds:
\* values of two sets, or values that were never read, are never mixed.
RimSound ==
    Returned /\ rc = "SUCCESS" =>
        \E d \in 1 .. Len(file) : \A i \in 1 .. SelLen :
            Holds(file[d], selection[i], quoted[i])

\* A file as the header asks for: entries in order, every one readable.
Regular(d) ==
    /\ HeaderOK(d) /\ d.closed
    /\ \A i \in 1 .. Len(d.entries) :
          d.entries[i].index \in Nat /\ d.entries[i].value # Bad
    /\ \A i, j \in 1 .. Len(d.entries) :
          i < j => d.entries[i].index < d.entries[j].index
RegularFile == \A d \in 1 .. Len(file) : Regular(file[d])

\* What set d should give a call that is past the first k selected PCRs.
Lacking(d, k) ==
    \E i \in k + 1 .. SelLen :
        \A j \in 1 .. Len(d.entries) : d.entries[j].index # selection[i]
Matching(d, k) ==
    k = 0 /\ \A i \in 1 .. SelLen : Holds(d, selection[i], quoted[i])

\* The sets of the file that end a call begun with a static index of k, and
\* what the first of them makes the call return.
StartOf(d, k) == IF d = 1 THEN k ELSE 0
Decisive(k) ==
    {d \in 1 .. Len(file) : \/ Lacking(file[d], StartOf(d, k))
                            \/ Matching(file[d], StartOf(d, k))}
Expected(k) ==
    IF Decisive(k) = {} THEN "VERIFICATION_FAILED"
    ELSE LET d == CHOOSE x \in Decisive(k) : \A y \in Decisive(k) : x <= y
         IN  IF Lacking(file[d], StartOf(d, k)) THEN "ERROR" ELSE "SUCCESS"

\* For a regular file a call gives just what its sets say: the first set that
\* matches decides, unless an incomplete one comes before it; and a call that
\* finds the index not reset gets nothing from the first set.
RimAgrees ==
    Returned /\ served /\ RegularFile
        => rc = Expected(atCall)

\* And the call leaves the index where the next one, and the other models, take
\* it to be: after a regular file, verdict and index are a function of the sets
\* and of the index found, whichever tokens it took to compute them.
Check == INSTANCE ReferenceCheck
SetOf(d) ==
    [p \in {d.entries[i].index : i \in DOMAIN d.entries} |->
        CHOOSE x \in Values : Holds(d, p, x)]
Sets == [d \in DOMAIN file |-> SetOf(file[d])]
CallIsFunction ==
    Returned /\ served /\ RegularFile =>
        /\ rc = "SUCCESS"
              <=> Check!SomeSetMatches(Sets, selection, atCall, quoted)
        /\ pcr_selection_index
              = Check!IndexLeft(Sets, selection, atCall, quoted)

\* "Check if any of the sets produces the same digest" (charra_rim_mgr.h):
\* a regular file whose sets are complete and one of which matches is found to
\* match, in every call.
AnySetMatches ==
    Returned /\ served /\ RegularFile
    /\ (\A d \in 1 .. Len(file) : ~Lacking(file[d], 0))
    /\ (\E d \in 1 .. Len(file) : Matching(file[d], 0))
        => rc = "SUCCESS"

=============================================================================
