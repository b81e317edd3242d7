---------------------------- MODULE RimMgr_proof ----------------------------
(***************************************************************************)
(* Proofs about RimMgr, for every set of files and selections: the index   *)
(* stays within the arrays, and a match is never made of values that are   *)
(* not in one set of the file, whatever the static index was at the call.  *)
(***************************************************************************)
EXTENDS RimMgr, SequenceTheorems, TLAPS

\* The arguments do not change.
ArgsOK ==
    /\ file \in Files
    /\ selection \in Selections
    /\ quoted \in [1 .. SelLen -> Values]

\* Inside a document the positions below some k hold what malloc left, because
\* they were skipped, and all others below the index hold values of this very
\* document.  (Between documents the index is 0, unless none was read yet.)
SetIsOwn ==
    /\ state = "stream" =>
         \/ pcr_selection_index = 0
         \/ /\ doc = 1
            /\ \A i \in 1 .. SelLen : reference_pcrs[i] = Garbage
    /\ state = "mapping" =>
         /\ doc <= Len(file)
         /\ \E k \in 0 .. pcr_selection_index :
              /\ \A i \in 1 .. k : reference_pcrs[i] = Garbage
              /\ \A i \in k + 1 .. pcr_selection_index :
                   Holds(file[doc], selection[i], reference_pcrs[i])
    /\ state = "idle" => doc = 1
    /\ state # "idle" => calls > 0
    /\ RimSound
    /\ calls = 0 => rc = "ERROR"

RimInv == TypeOK /\ ArgsOK /\ SetIsOwn

-----------------------------------------------------------------------------

\* The arguments are sequences.
LEMMA ArgsShape ==
    ASSUME ArgsOK
    PROVE  /\ file \in Seq(DocumentType) /\ Len(file) \in Nat
           /\ selection \in Seq(Nat) /\ SelLen \in Nat
  BY RimAssumption DEF ArgsOK, SelLen

\* What the assumption about Files says of one entry of one document.
LEMMA EntryShape ==
    ASSUME ArgsOK, NEW d \in 1 .. Len(file),
           NEW i \in 1 .. Len(file[d].entries)
    PROVE  /\ file[d].entries[i].index \in Nat \cup {Bad, Junk}
           /\ file[d].entries[i].value \in Values \cup {Bad}
           /\ file[d].entries[i] = [index |-> file[d].entries[i].index,
                                    value |-> file[d].entries[i].value]
  <1>1. file \in Seq(DocumentType)
    BY RimAssumption DEF ArgsOK
  <1>2. file[d] \in DocumentType
    BY <1>1, ElementOfSeq
  <1>3. file[d].entries \in Seq(EntryType)
    BY <1>2 DEF DocumentType
  <1>4. file[d].entries[i] \in EntryType
    BY <1>3, ElementOfSeq
  <1> QED
    BY <1>4 DEF EntryType

\* Init establishes the invariant.
LEMMA RimInit == Init => RimInv
  <1> SUFFICES ASSUME Init PROVE RimInv
    OBVIOUS
  <1>1. ArgsOK
    BY DEF Init, ArgsOK, SelLen
  <1>2. TypeOK
    <2>1. /\ doc \in 1 .. Len(file) + 1 /\ entry \in Nat \ {0}
          /\ pcr_selection_index \in 0 .. SelLen
          /\ atCall \in 0 .. SelLen /\ pcr_set_index \in Nat
      BY <1>1, ArgsShape DEF Init
    <2>2. reference_pcrs \in Seq(Values \cup {Garbage})
      BY DEF Init
    <2>3. calls \in 0 .. MaxCalls
      BY RimAssumption DEF Init
    <2> QED
      BY <2>1, <2>2, <2>3 DEF Init, TypeOK
  <1>3. SetIsOwn
    BY DEF Init, SetIsOwn, RimSound, Returned
  <1> QED
    BY <1>1, <1>2, <1>3 DEF RimInv

\* What every return has in common: only a match needs a witness.
LEMMA EndKeeps ==
    ASSUME RimInv, state # "idle", UNCHANGED statics, NEW code,
           code \in {"ERROR", "SUCCESS", "VERIFICATION_FAILED"},
           End(code), served' \in BOOLEAN,
           code = "SUCCESS" =>
              \E d \in 1 .. Len(file) : \A i \in 1 .. SelLen :
                 Holds(file[d], selection[i], quoted[i])
    PROVE  RimInv'
  <1>1. UNCHANGED <<file, selection, quoted, calls, atCall>>
    BY DEF End, args
  <1>2. TypeOK'
    BY <1>1 DEF RimInv, TypeOK, ArgsOK, End, statics, SelLen
  <1>3. ArgsOK'
    BY <1>1 DEF RimInv, ArgsOK, SelLen
  <1>4. RimSound'
    BY <1>1 DEF RimSound, Returned, End, Holds, SelLen
  <1>5. SetIsOwn'
    BY <1>1, <1>4 DEF RimInv, SetIsOwn, End
  <1> QED
    BY <1>2, <1>3, <1>5 DEF RimInv

LEMMA ReturnKeeps ==
    ASSUME RimInv, state # "idle", UNCHANGED statics, NEW code,
           code \in {"ERROR", "SUCCESS", "VERIFICATION_FAILED"},
           Return(code),
           code = "SUCCESS" =>
              \E d \in 1 .. Len(file) : \A i \in 1 .. SelLen :
                 Holds(file[d], selection[i], quoted[i])
    PROVE  RimInv'
  <1>1. End(code) /\ served' \in BOOLEAN
    BY DEF Return, RimInv, TypeOK
  <1> QED BY <1>1, EndKeeps

\* Every step keeps it.
LEMMA RimStep == RimInv /\ [Next]_vars => RimInv'
  <1> SUFFICES ASSUME RimInv, [Next]_vars PROVE RimInv'
    OBVIOUS
  <1>1. CASE Call
    <2>1. TypeOK'
      BY <1>1, ArgsShape, RimAssumption
      DEF RimInv, TypeOK, Call, args, statics, SelLen, Uninitialised
    <2>2. ArgsOK'
      BY <1>1 DEF RimInv, ArgsOK, Call, args, SelLen
    <2>3. SetIsOwn'
      BY <1>1 DEF RimInv, TypeOK, SetIsOwn, RimSound, Returned, Call, args,
                  statics, SelLen, Uninitialised
    <2> QED BY <2>1, <2>2, <2>3 DEF RimInv
  <1>2. CASE CallRefused
    <2>1. TypeOK'
      <3>1. rc' \in {"ERROR", "BAD_ARGUMENT"}
        BY <1>2 DEF CallRefused
      <3>2. calls' \in 0 .. MaxCalls
        BY <1>2, RimAssumption DEF RimInv, TypeOK, CallRefused
      <3>3. /\ atCall' = pcr_selection_index /\ served' = FALSE
            /\ UNCHANGED <<file, selection, state, doc, entry,
                           pcr_selection_index, pcr_set_index, reference_pcrs>>
        BY <1>2 DEF CallRefused, args, statics
      <3> QED
        BY <3>1, <3>2, <3>3 DEF RimInv, TypeOK, SelLen
    <2>2. ArgsOK'
      BY <1>2 DEF RimInv, ArgsOK, CallRefused, args, SelLen
    <2>3. SetIsOwn'
      BY <1>2 DEF RimInv, TypeOK, SetIsOwn, RimSound, Returned, CallRefused,
                  args, statics
    <2> QED BY <2>1, <2>2, <2>3 DEF RimInv
  <1>3. CASE Document
    <2>1. CASE HeaderOK(file[doc])
      <3>1. TypeOK' /\ ArgsOK'
        BY <1>3, <2>1
        DEF RimInv, TypeOK, ArgsOK, Document, args, statics, past, SelLen
      <3>2. doc' <= Len(file')
        BY <1>3, <2>1 DEF Document, args
      <3>3. \E k \in 0 .. pcr_selection_index :
              /\ \A i \in 1 .. k : reference_pcrs[i] = Garbage
              /\ \A i \in k + 1 .. pcr_selection_index :
                   Holds(file[doc], selection[i], reference_pcrs[i])
        <4>1. CASE pcr_selection_index = 0
          <5>1. /\ 0 \in 0 .. pcr_selection_index
                /\ \A i \in 1 .. 0 : reference_pcrs[i] = Garbage
                /\ \A i \in 0 + 1 .. pcr_selection_index :
                     Holds(file[doc], selection[i], reference_pcrs[i])
            BY <4>1
          <5> QED BY <5>1
        <4>2. CASE pcr_selection_index # 0
          <5> pcr_selection_index \in 0 .. SelLen /\ SelLen \in Nat
            BY RimAssumption DEF RimInv, TypeOK, ArgsOK, SelLen
          <5> \A i \in 1 .. SelLen : reference_pcrs[i] = Garbage
            BY <4>2, <1>3 DEF RimInv, SetIsOwn, Document
          <5> WITNESS pcr_selection_index \in 0 .. pcr_selection_index
          <5> QED OBVIOUS
        <4> QED BY <4>1, <4>2
      <3>4. SetIsOwn'
        BY <1>3, <2>1, <3>2, <3>3
        DEF RimInv, SetIsOwn, RimSound, Returned, Document, args, statics,
            past, Holds, SelLen
      <3> QED BY <3>1, <3>4 DEF RimInv
    <2>2. CASE ~HeaderOK(file[doc])
      BY <1>3, <2>2, ReturnKeeps DEF Document
    <2> QED BY <2>1, <2>2
  <1>4. CASE Entry
    <2> DEFINE e == file[doc].entries[entry]
    <2>1. CASE Unparseable(e)
      BY <1>4, <2>1, ReturnKeeps DEF Entry
    <2>2. CASE ~Unparseable(e) /\ IsNext(e)
      <3>1. /\ pcr_selection_index \in 0 .. SelLen /\ SelLen \in Nat
            /\ ~(pcr_selection_index >= SelLen)
            /\ e.index = selection[pcr_selection_index + 1]
            /\ e.value # Bad
        BY <2>2, RimAssumption
        DEF RimInv, TypeOK, ArgsOK, SelLen, IsNext, Skipped, Unparseable
      <3>2. /\ doc \in 1 .. Len(file)
            /\ entry \in 1 .. Len(file[doc].entries)
        BY <1>4, RimAssumption DEF RimInv, TypeOK, SetIsOwn, Entry, ArgsOK
      <3>3. /\ e.value \in Values
            /\ e = [index |-> e.index, value |-> e.value]
        BY <3>1, <3>2, EntryShape DEF RimInv
      <3>4. /\ reference_pcrs' =
                 [reference_pcrs EXCEPT ![pcr_selection_index + 1] = e.value]
            /\ pcr_selection_index' = pcr_selection_index + 1
            /\ entry' = entry + 1
            /\ UNCHANGED <<args, state, doc, pcr_set_index, rc, calls, past>>
        BY <1>4, <2>2 DEF Entry, Advance
      <3>5. /\ Len(reference_pcrs) = SelLen
            /\ reference_pcrs \in Seq(Values \cup {Garbage})
        BY <1>4 DEF RimInv, TypeOK, Entry
      <3>6. TypeOK' /\ ArgsOK'
        BY <3>1, <3>2, <3>3, <3>4, <3>5
        DEF RimInv, TypeOK, ArgsOK, args, past, SelLen
      <3>7. Holds(file[doc], selection[pcr_selection_index + 1], e.value)
        BY <3>1, <3>2, <3>3 DEF Holds
      <3>8. PICK k \in 0 .. pcr_selection_index :
              /\ \A i \in 1 .. k : reference_pcrs[i] = Garbage
              /\ \A i \in k + 1 .. pcr_selection_index :
                   Holds(file[doc], selection[i], reference_pcrs[i])
        BY <1>4 DEF RimInv, SetIsOwn, Entry
      <3>9. \A i \in 1 .. SelLen :
              reference_pcrs'[i] = IF i = pcr_selection_index + 1 THEN e.value
                                   ELSE reference_pcrs[i]
        BY <3>1, <3>4, <3>5
      <3>10. /\ k \in 0 .. pcr_selection_index'
             /\ \A i \in 1 .. k : reference_pcrs'[i] = Garbage
             /\ \A i \in k + 1 .. pcr_selection_index' :
                  Holds(file[doc], selection[i], reference_pcrs'[i])
        BY <3>1, <3>4, <3>7, <3>8, <3>9
      <3>11. SetIsOwn'
        BY <1>4, <3>2, <3>4, <3>10
        DEF RimInv, SetIsOwn, RimSound, Returned, Entry, args, past, Holds,
            SelLen
      <3> QED BY <3>6, <3>11 DEF RimInv
    <2>3. CASE ~Unparseable(e) /\ ~IsNext(e)
      <3>1. /\ entry' = entry + 1
            /\ UNCHANGED <<args, state, doc, statics, reference_pcrs, rc,
                           calls, past>>
        BY <1>4, <2>3 DEF Entry
      <3>2. TypeOK' /\ ArgsOK'
        BY <3>1 DEF RimInv, TypeOK, ArgsOK, args, statics, past, SelLen
      <3>3. SetIsOwn'
        BY <3>1 DEF RimInv, SetIsOwn, RimSound, Returned, args, statics, past,
                    Holds, SelLen
      <3> QED BY <3>2, <3>3 DEF RimInv
    <2> QED BY <2>1, <2>2, <2>3
  <1>5. CASE EndOfDocument
    <2>0. state # "idle"
      BY <1>5 DEF EndOfDocument
    <2>1. CASE Return("ERROR") /\ UNCHANGED statics
      BY <2>0, <2>1, ReturnKeeps
    <2>2. CASE End("ERROR") /\ served' = FALSE /\ UNCHANGED statics
      BY <2>0, <2>2, EndKeeps
    <2>3. CASE /\ Complete /\ reference_pcrs = quoted
               /\ Return("SUCCESS") /\ UNCHANGED statics
      <3>1. pcr_selection_index = SelLen
        BY <2>3, RimAssumption DEF Complete, RimInv, TypeOK, ArgsOK, SelLen
      <3>2. PICK k \in 0 .. pcr_selection_index :
              /\ \A i \in 1 .. k : reference_pcrs[i] = Garbage
              /\ \A i \in k + 1 .. pcr_selection_index :
                   Holds(file[doc], selection[i], reference_pcrs[i])
        BY <1>5 DEF RimInv, SetIsOwn, EndOfDocument, DigestMatches
      <3>3. SelLen \in Nat
        BY RimAssumption DEF RimInv, ArgsOK, SelLen
      <3>4. k = 0
        <4> SUFFICES ASSUME k # 0 PROVE FALSE
          OBVIOUS
        <4>1. 1 \in 1 .. k /\ 1 \in 1 .. SelLen
          BY <3>1, <3>3
        <4>2. quoted[1] = Garbage
          BY <4>1, <3>2, <2>3
        <4>3. quoted[1] \in Values
          BY <4>1 DEF RimInv, ArgsOK
        <4> QED BY <4>2, <4>3, RimAssumption
      <3>5. doc \in 1 .. Len(file)
        BY <1>5, RimAssumption
        DEF RimInv, TypeOK, SetIsOwn, EndOfDocument, ArgsOK
      <3>6. \A i \in 1 .. SelLen : Holds(file[doc], selection[i], quoted[i])
        BY <3>1, <3>2, <3>3, <3>4, <2>3
      <3>7. \E d \in 1 .. Len(file) : \A i \in 1 .. SelLen :
               Holds(file[d], selection[i], quoted[i])
        BY <3>5, <3>6
      <3> QED BY <2>0, <2>3, <3>7, ReturnKeeps
    <2>4. CASE /\ pcr_selection_index' = IndexAfterMismatch
               /\ pcr_set_index' = pcr_set_index + 1
               /\ state' = "stream" /\ doc' = doc + 1
               /\ UNCHANGED <<args, entry, reference_pcrs, rc, calls, past>>
      <3>1. /\ pcr_selection_index' = 0
            /\ pcr_set_index' = pcr_set_index + 1
            /\ state' = "stream" /\ doc' = doc + 1
            /\ UNCHANGED <<args, entry, reference_pcrs, rc, calls, past>>
            /\ state = "mapping"
        BY <1>5, <2>4 DEF EndOfDocument, IndexAfterMismatch
      <3>2. doc \in 1 .. Len(file) /\ Len(file) \in Nat /\ SelLen \in Nat
        BY <3>1, RimAssumption DEF RimInv, TypeOK, SetIsOwn, ArgsOK, SelLen
      <3>3. TypeOK' /\ ArgsOK'
        BY <3>1, <3>2 DEF RimInv, TypeOK, ArgsOK, args, past, SelLen
      <3>4. SetIsOwn'
        BY <3>1 DEF RimInv, SetIsOwn, RimSound, Returned, args, past
      <3> QED BY <3>3, <3>4 DEF RimInv
    <2> QED
      BY <1>5, <2>1, <2>2, <2>3, <2>4 DEF EndOfDocument, DigestMatches
  <1>6. CASE EndOfStream
    BY <1>6, ReturnKeeps DEF EndOfStream
  <1>7. CASE UNCHANGED vars
    <2>1. UNCHANGED <<file, selection, quoted, state, doc, entry,
                      pcr_selection_index, pcr_set_index, reference_pcrs, rc,
                      calls, atCall, served>>
      BY <1>7 DEF vars, args, statics, past
    <2>2. TypeOK' /\ ArgsOK'
      BY <2>1 DEF RimInv, TypeOK, ArgsOK, SelLen
    <2>3. SetIsOwn'
      BY <2>1 DEF RimInv, SetIsOwn, RimSound, Returned, Holds, SelLen
    <2> QED BY <2>2, <2>3 DEF RimInv
  <1> QED
    BY <1>1, <1>2, <1>3, <1>4, <1>5, <1>6, <1>7 DEF Next

-----------------------------------------------------------------------------

\* The invariant holds in every reachable state.
LEMMA RimAlways == Spec => []RimInv
  BY RimInit, RimStep, PTL DEF Spec

\* pcr_selection_index never leaves reference_pcrs and the selection, in any
\* call of a process, for any file.
THEOREM IndexInRange == Spec => []TypeOK
  <1>1. RimInv => TypeOK
    BY DEF RimInv
  <1> QED
    BY RimAlways, <1>1, PTL

\* No call finds a match that is not in one set of the file.
THEOREM MatchIsInOneSet == Spec => []RimSound
  <1>1. RimInv => RimSound
    BY DEF RimInv, SetIsOwn
  <1> QED
    BY RimAlways, <1>1, PTL

-----------------------------------------------------------------------------
(* For a regular file a call gives just what its sets say.                  *)

\* The static index with which the set being read was begun.
Begun == StartOf(doc, atCall)

\* Entries 1 to entry - 1 of the set have been read: the positions up to the
\* index, but for those that were skipped, have their values from them, and the
\* PCR the index stands at is not among them.
Reading ==
    LET es == file[doc].entries
    IN  /\ doc <= Len(file) /\ entry <= Len(es) + 1
        /\ Begun <= pcr_selection_index
        /\ \A i \in Begun + 1 .. pcr_selection_index :
             \E j \in 1 .. entry - 1 :
                es[j] = [index |-> selection[i], value |-> reference_pcrs[i]]
        /\ pcr_selection_index < SelLen =>
             \A j \in 1 .. entry - 1 :
                es[j].index # selection[pcr_selection_index + 1]

\* In a call: the sets before this one have not decided it.
Undecided ==
    /\ \A d \in 1 .. doc - 1 : d \notin Decisive(atCall)
    /\ \A i \in 1 .. Begun : reference_pcrs[i] = Garbage
    /\ state = "stream" => pcr_selection_index = Begun
    /\ state = "mapping" => Reading

AgreeInv ==
    /\ RimAgrees
    /\ state # "idle" => served /\ SelLen < MaxPcrs
    /\ state # "idle" /\ RegularFile => Undecided

\* The index a set is begun with is in range.
LEMMA BegunInRange ==
    ASSUME RimInv
    PROVE  /\ SelLen \in Nat /\ Len(file) \in Nat /\ doc \in 1 .. Len(file) + 1
           /\ Begun \in 0 .. SelLen /\ atCall \in 0 .. SelLen
           /\ pcr_selection_index \in 0 .. SelLen
  BY ArgsShape DEF RimInv, TypeOK, Begun, StartOf

\* Once the whole set has been read, it is complete if the index is at its end,
LEMMA CompleteIsNotLacking ==
    ASSUME RimInv, Reading, entry > Len(file[doc].entries)
    PROVE  Complete <=> ~Lacking(file[doc], Begun)
  <1> DEFINE es == file[doc].entries
  <1>1. /\ SelLen \in Nat /\ Begun \in 0 .. SelLen
        /\ pcr_selection_index \in 0 .. SelLen
    BY BegunInRange
  <1>2. doc \in 1 .. Len(file)
    BY BegunInRange DEF Reading
  <1>3. es \in Seq(EntryType)
    <2>1. file \in Seq(DocumentType)
      BY ArgsShape DEF RimInv
    <2>2. file[doc] \in DocumentType
      BY <1>2, <2>1, ElementOfSeq
    <2> QED
      BY <2>2 DEF DocumentType
  <1>4. Len(es) \in Nat /\ entry - 1 = Len(es)
    BY <1>3 DEF Reading, RimInv, TypeOK
  <1>5. CASE Complete
    <2>1. pcr_selection_index = SelLen
      BY <1>1, <1>5 DEF Complete
    <2>2. \A i \in Begun + 1 .. SelLen : \E j \in 1 .. Len(es) :
             es[j] = [index |-> selection[i], value |-> reference_pcrs[i]]
      BY <2>1, <1>4 DEF Reading
    <2>3. \A i \in Begun + 1 .. SelLen :
             \E j \in 1 .. Len(es) : es[j].index = selection[i]
      <3> TAKE i \in Begun + 1 .. SelLen
      <3>1. PICK j \in 1 .. Len(es) :
               es[j] = [index |-> selection[i], value |-> reference_pcrs[i]]
        BY <2>2
      <3>2. es[j].index = selection[i]
        BY <3>1
      <3> QED
        BY <3>2
    <2> QED
      BY <1>5, <2>3 DEF Lacking
  <1>6. CASE ~Complete
    <2>1. /\ pcr_selection_index + 1 \in Begun + 1 .. SelLen
          /\ \A j \in 1 .. Len(es) :
               es[j].index # selection[pcr_selection_index + 1]
      BY <1>1, <1>4, <1>6 DEF Reading, Complete
    <2> QED
      BY <1>6, <2>1 DEF Lacking
  <1> QED
    BY <1>5, <1>6

\* and then the digests are the same if the set holds what was quoted.
LEMMA DigestMatchesIsMatching ==
    ASSUME RimInv, Reading, entry > Len(file[doc].entries),
           Regular(file[doc]), Complete, state = "mapping",
           \A i \in 1 .. Begun : reference_pcrs[i] = Garbage
    PROVE  DigestMatches <=> Matching(file[doc], Begun)
  <1> DEFINE es == file[doc].entries
  <1>1. /\ SelLen \in Nat /\ Begun \in 0 .. SelLen
        /\ pcr_selection_index = SelLen
    BY BegunInRange DEF Complete
  <1>2. doc \in 1 .. Len(file)
    BY BegunInRange DEF Reading
  <1>3. es \in Seq(EntryType)
    <2>1. file \in Seq(DocumentType)
      BY ArgsShape DEF RimInv
    <2>2. file[doc] \in DocumentType
      BY <1>2, <2>1, ElementOfSeq
    <2> QED
      BY <2>2 DEF DocumentType
  <1>4. Len(es) \in Nat /\ entry - 1 = Len(es)
    BY <1>3 DEF Reading, RimInv, TypeOK
  <1>5. \A i \in Begun + 1 .. SelLen : \E j \in 1 .. Len(es) :
           es[j] = [index |-> selection[i], value |-> reference_pcrs[i]]
    BY <1>1, <1>4 DEF Reading
  <1>6. \A i, j \in 1 .. Len(es) : es[i].index = es[j].index => i = j
    <2>1. \A i \in 1 .. Len(es) : es[i].index \in Nat
      BY DEF Regular
    <2>2. \A i, j \in 1 .. Len(es) : i < j => es[i].index < es[j].index
      BY DEF Regular
    <2> QED
      BY <1>4, <2>1, <2>2
  <1>7. /\ quoted \in [1 .. SelLen -> Values]
        /\ reference_pcrs \in Seq(Values \cup {Garbage})
        /\ Len(reference_pcrs) = SelLen
    BY DEF RimInv, TypeOK, ArgsOK
  <1>8. ASSUME DigestMatches PROVE Matching(file[doc], Begun)
    <2>1. Begun = 0
      <3> SUFFICES ASSUME Begun # 0 PROVE FALSE
        OBVIOUS
      <3>1. 1 \in 1 .. Begun /\ 1 \in 1 .. SelLen
        BY <1>1
      <3>2. quoted[1] = Garbage
        BY <3>1, <1>8 DEF DigestMatches
      <3> QED
        BY <3>1, <3>2, <1>7, RimAssumption
    <2>2. \A i \in 1 .. SelLen : Holds(file[doc], selection[i], quoted[i])
      BY <2>1, <1>5, <1>8 DEF Holds, DigestMatches
    <2> QED
      BY <2>1, <2>2 DEF Matching
  <1>9. ASSUME Matching(file[doc], Begun) PROVE DigestMatches
    <2>1. Begun = 0
      BY <1>9 DEF Matching
    <2>2. ASSUME NEW i \in 1 .. SelLen PROVE reference_pcrs[i] = quoted[i]
      <3>1. PICK j \in 1 .. Len(es) :
               es[j] = [index |-> selection[i], value |-> reference_pcrs[i]]
        BY <2>1, <1>5, <1>1
      <3>2. PICK k \in 1 .. Len(es) :
               es[k] = [index |-> selection[i], value |-> quoted[i]]
        BY <1>9 DEF Matching, Holds
      <3>3. j = k
        BY <3>1, <3>2, <1>6
      <3> QED
        BY <3>1, <3>2, <3>3
    <2>3. reference_pcrs = [i \in 1 .. SelLen |-> reference_pcrs[i]]
      BY <1>7, <1>9
    <2>4. quoted = [i \in 1 .. SelLen |-> quoted[i]]
      BY <1>7
    <2> QED
      BY <2>2, <2>3, <2>4 DEF DigestMatches
  <1> QED
    BY <1>8, <1>9

\* The first set that decides a call decides what it is to return.
LEMMA FirstDecides ==
    ASSUME RimInv, \A d \in 1 .. doc - 1 : d \notin Decisive(atCall),
           doc \in Decisive(atCall)
    PROVE  Expected(atCall) =
             IF Lacking(file[doc], Begun) THEN "ERROR" ELSE "SUCCESS"
  <1> DEFINE D == Decisive(atCall)
             first == CHOOSE x \in D : \A y \in D : x <= y
  <1>1. /\ Len(file) \in Nat /\ doc \in 1 .. Len(file) + 1
        /\ D \subseteq 1 .. Len(file)
    BY BegunInRange DEF Decisive
  <1> HIDE DEF D
  <1>2. doc \in D /\ \A y \in D : doc <= y
    BY <1>1 DEF D
  <1>3. \A x \in D : (\A y \in D : x <= y) => x = doc
    BY <1>1, <1>2
  <1>4. first = doc
    BY <1>2, <1>3
  <1>5. D # {}
    BY <1>2
  <1> QED
    BY <1>4, <1>5 DEF Expected, Begun, D

\* A call that ends there is as expected.
LEMMA EndAgrees ==
    ASSUME RimInv, AgreeInv, NEW code, End(code), served' \in BOOLEAN,
           state # "idle", served' /\ RegularFile => code = Expected(atCall)
    PROVE  AgreeInv'
  <1>1. UNCHANGED <<file, selection, quoted, calls, atCall>>
    BY DEF End, args
  <1>2. RegularFile' <=> RegularFile
    BY <1>1 DEF RegularFile, Regular, HeaderOK
  <1>3. Expected(atCall)' = Expected(atCall)
    <2>1. Decisive(atCall)' = Decisive(atCall)
      BY <1>1 DEF Decisive, Lacking, Matching, Holds, StartOf, SelLen
    <2>2. \A d : Lacking(file[d], StartOf(d, atCall))'
                   <=> Lacking(file[d], StartOf(d, atCall))
      BY <1>1 DEF Lacking, StartOf, SelLen
    <2> QED
      BY <2>1, <2>2 DEF Expected
  <1>4. state' = "idle" /\ rc' = code
    BY DEF End
  <1> QED
    BY <1>2, <1>3, <1>4 DEF AgreeInv, RimAgrees, Returned

\* A step inside a call leaves what was decided before.
LEMMA InsideAgrees ==
    ASSUME UNCHANGED <<args, atCall, served>>, state # "idle",
           state' # "idle", AgreeInv,
           RegularFile /\ Undecided => Undecided'
    PROVE  AgreeInv'
  <1>1. UNCHANGED <<file, selection>>
    BY DEF args
  <1>2. RegularFile' <=> RegularFile
    BY <1>1 DEF RegularFile, Regular, HeaderOK
  <1> QED
    BY <1>1, <1>2 DEF AgreeInv, RimAgrees, Returned, SelLen

\* A call begins, or is refused.
LEMMA CallAgrees ==
    ASSUME RimInv, AgreeInv, Call PROVE AgreeInv'
  <1>1. /\ SelLen < MaxPcrs /\ state' = "stream" /\ served' = TRUE
        /\ reference_pcrs' = Uninitialised(SelLen)
        /\ atCall' = pcr_selection_index
        /\ UNCHANGED <<file, selection, quoted, doc, pcr_selection_index>>
    BY DEF Call, args, statics
  <1>2. doc = 1
    BY DEF Call, RimInv, SetIsOwn
  <1>3. /\ SelLen \in Nat /\ pcr_selection_index \in 0 .. SelLen
        /\ Begun' = pcr_selection_index
    BY <1>1, <1>2, BegunInRange DEF Begun, StartOf
  <1>4. \A i \in 1 .. SelLen : reference_pcrs'[i] = Garbage
    BY <1>1 DEF Uninitialised
  <1>5. \A i \in 1 .. Begun' : reference_pcrs'[i] = Garbage
    BY <1>3, <1>4
  <1>6. Undecided'
    BY <1>1, <1>2, <1>3, <1>5 DEF Undecided
  <1> QED
    BY <1>1, <1>6 DEF AgreeInv, RimAgrees, Returned, SelLen

LEMMA CallRefusedAgrees ==
    ASSUME AgreeInv, CallRefused PROVE AgreeInv'
  BY DEF CallRefused, AgreeInv, RimAgrees, Returned

\* A document of a regular file is entered.
LEMMA DocumentAgrees ==
    ASSUME RimInv, AgreeInv, Document PROVE AgreeInv'
  <1>1. doc \in 1 .. Len(file) /\ state = "stream"
    BY BegunInRange DEF Document
  <1>2. CASE HeaderOK(file[doc])
    <2>1. /\ state' = "mapping" /\ entry' = 1
          /\ UNCHANGED <<file, selection, quoted, doc, pcr_selection_index,
                         reference_pcrs, atCall, served>>
      BY <1>2 DEF Document, args, statics, past
    <2>2. Begun' = Begun
      BY <2>1 DEF Begun, StartOf
    <2>3. ASSUME Undecided PROVE Undecided'
      <3>1. pcr_selection_index = Begun /\ Begun \in 0 .. SelLen
        BY <1>1, <2>3, BegunInRange DEF Undecided
      <3>2. Decisive(atCall)' = Decisive(atCall)
        BY <2>1 DEF Decisive, Lacking, Matching, Holds, StartOf, SelLen
      <3>3. file[doc].entries \in Seq(EntryType)
        <4>1. file \in Seq(DocumentType)
          BY ArgsShape DEF RimInv
        <4>2. file[doc] \in DocumentType
          BY <1>1, <4>1, ElementOfSeq
        <4> QED
          BY <4>2 DEF DocumentType
      <3>4. 1 <= Len(file[doc].entries) + 1
        BY <3>3
      <3>5. Reading'
        BY <1>1, <2>1, <2>2, <3>1, <3>4 DEF Reading
      <3> QED
        BY <2>1, <2>2, <2>3, <3>2, <3>5 DEF Undecided
    <2>4. UNCHANGED <<args, atCall, served>>
      BY <2>1 DEF args
    <2> QED
      BY <1>1, <2>1, <2>3, <2>4, InsideAgrees
  <1>3. CASE ~HeaderOK(file[doc])
    <2>1. ~RegularFile
      BY <1>1, <1>3 DEF RegularFile, Regular
    <2>2. End("ERROR") /\ served' \in BOOLEAN
      BY <1>3 DEF Document, Return, RimInv, TypeOK
    <2> QED
      BY <1>1, <2>1, <2>2, EndAgrees
  <1> QED
    BY <1>2, <1>3

\* The end of the stream: no set has decided.
LEMMA EndOfStreamAgrees ==
    ASSUME RimInv, AgreeInv, EndOfStream PROVE AgreeInv'
  <1>1. /\ state = "stream" /\ End("VERIFICATION_FAILED") /\ served' \in BOOLEAN
    BY DEF EndOfStream, Return, RimInv, TypeOK
  <1>2. doc = Len(file) + 1 /\ Len(file) \in Nat
    BY BegunInRange DEF EndOfStream
  <1>3. ASSUME RegularFile PROVE Expected(atCall) = "VERIFICATION_FAILED"
    <2>1. \A d \in 1 .. doc - 1 : d \notin Decisive(atCall)
      BY <1>1, <1>3 DEF AgreeInv, Undecided
    <2>2. Decisive(atCall) \subseteq 1 .. Len(file)
      BY DEF Decisive
    <2>3. Decisive(atCall) = {}
      BY <1>2, <2>1, <2>2
    <2> QED
      BY <2>3 DEF Expected
  <1> QED
    BY <1>1, <1>3, EndAgrees

\* The end of a set: it decides, or makes room for the next one.
LEMMA EndOfDocumentAgrees ==
    ASSUME RimInv, AgreeInv, EndOfDocument PROVE AgreeInv'
  <1>1. state = "mapping" /\ entry > Len(file[doc].entries)
    BY DEF EndOfDocument
  <1>2. doc \in 1 .. Len(file) /\ Len(file) \in Nat
    BY <1>1, BegunInRange DEF RimInv, SetIsOwn
  <1>3. served' = served => served' \in BOOLEAN
    BY DEF RimInv, TypeOK
  <1>4. ASSUME RegularFile
        PROVE  /\ Undecided /\ file[doc].closed
               /\ Complete <=> ~Lacking(file[doc], Begun)
               /\ Complete => (DigestMatches <=> Matching(file[doc], Begun))
    <2>1. Undecided /\ Reading /\ Regular(file[doc])
      BY <1>1, <1>2, <1>4 DEF AgreeInv, Undecided, RegularFile
    <2> QED
      BY <1>1, <2>1, CompleteIsNotLacking, DigestMatchesIsMatching
      DEF Regular, Undecided
  <1>5. doc \in Decisive(atCall) <=> \/ Lacking(file[doc], Begun)
                                     \/ Matching(file[doc], Begun)
    BY <1>2 DEF Decisive, Begun
  <1>6. CASE /\ ~file[doc].closed \/ ~Complete
             /\ Return("ERROR") /\ UNCHANGED statics
    <2>1. RegularFile => Expected(atCall) = "ERROR"
      BY <1>4, <1>5, <1>6, FirstDecides DEF Undecided
    <2> QED
      BY <1>1, <1>3, <1>6, <2>1, EndAgrees DEF Return
  <1>7. CASE End("ERROR") /\ served' = FALSE /\ UNCHANGED statics
    BY <1>1, <1>7, EndAgrees
  <1>8. CASE /\ Complete /\ DigestMatches
             /\ Return("SUCCESS") /\ UNCHANGED statics
    <2>1. RegularFile => Expected(atCall) = "SUCCESS"
      BY <1>4, <1>5, <1>8, FirstDecides DEF Undecided
    <2> QED
      BY <1>1, <1>3, <1>8, <2>1, EndAgrees DEF Return
  <1>9. CASE /\ Complete /\ ~DigestMatches
             /\ pcr_selection_index' = IndexAfterMismatch
             /\ state' = "stream" /\ doc' = doc + 1
             /\ UNCHANGED <<args, entry, reference_pcrs, rc, calls, past>>
    <2>1. UNCHANGED <<file, selection, quoted, atCall, served>>
      BY <1>9 DEF args, past
    <2>2. ASSUME RegularFile, Undecided PROVE Undecided'
      <3>1. doc \notin Decisive(atCall)
        BY <1>4, <1>5, <1>9, <2>2
      <3>2. Decisive(atCall)' = Decisive(atCall)
        BY <2>1 DEF Decisive, Lacking, Matching, Holds, StartOf, SelLen
      <3>3. \A d \in 1 .. doc' - 1 : d \notin Decisive(atCall)
        BY <1>2, <1>9, <2>2, <3>1 DEF Undecided
      <3>4. Begun' = 0 /\ pcr_selection_index' = 0
        BY <1>2, <1>9 DEF Begun, StartOf, IndexAfterMismatch
      <3> QED
        BY <1>9, <3>2, <3>3, <3>4 DEF Undecided
    <2> QED
      BY <1>1, <1>9, <2>1, <2>2, InsideAgrees DEF args
  <1> QED
    BY <1>6, <1>7, <1>8, <1>9 DEF EndOfDocument

\* An entry of a regular set: the next selected PCR is found, or goes on being
\* looked for.
LEMMA EntryAgrees ==
    ASSUME RimInv, AgreeInv, Entry PROVE AgreeInv'
  <1> DEFINE es == file[doc].entries
             e == es[entry]
             idx == pcr_selection_index
  <1>1. /\ state = "mapping" /\ SelLen < MaxPcrs
        /\ entry \in 1 .. Len(es)
    BY DEF Entry, AgreeInv, RimInv, TypeOK
  <1>2. doc \in 1 .. Len(file) /\ Len(file) \in Nat
    BY <1>1, BegunInRange DEF RimInv, SetIsOwn
  <1>3. CASE Unparseable(e)
    <2>1. End("ERROR") /\ served' \in BOOLEAN
      BY <1>3 DEF Entry, Return, RimInv, TypeOK
    <2>2. ~RegularFile
      BY <1>1, <1>2, <1>3, RimAssumption
      DEF RegularFile, Regular, Unparseable
    <2> QED
      BY <1>1, <2>1, <2>2, EndAgrees
  <1>4. CASE ~Unparseable(e)
    <2>1. /\ state' = state /\ entry' = entry + 1 /\ doc' = doc
          /\ UNCHANGED <<file, selection, quoted, atCall, served>>
      BY <1>4 DEF Entry, args, past
    <2>2. ASSUME RegularFile, Undecided PROVE Undecided'
      <3>1. /\ Reading /\ Regular(file[doc])
            /\ \A i \in 1 .. Begun : reference_pcrs[i] = Garbage
            /\ \A d \in 1 .. doc - 1 : d \notin Decisive(atCall)
        BY <1>1, <1>2, <2>2 DEF Undecided, RegularFile
      <3>2. /\ SelLen \in Nat /\ Begun \in 0 .. SelLen
            /\ idx \in 0 .. SelLen /\ Begun <= idx
            /\ Len(reference_pcrs) = SelLen
            /\ reference_pcrs \in Seq(Values \cup {Garbage})
        BY <1>1, <3>1, BegunInRange DEF Reading, RimInv, TypeOK
      <3>3. Begun' = Begun
        BY <2>1 DEF Begun, StartOf
      <3>4. Decisive(atCall)' = Decisive(atCall)
        BY <2>1 DEF Decisive, Lacking, Matching, Holds, StartOf, SelLen
      <3>5. /\ entry \in Nat \ {0} /\ Len(es) \in Nat
            /\ entry' \in Nat /\ entry' <= Len(es) + 1
            /\ entry' - 1 = entry
        <4>1. es \in Seq(EntryType)
          <5>1. file \in Seq(DocumentType)
            BY ArgsShape DEF RimInv
          <5>2. file[doc] \in DocumentType
            BY <1>2, <5>1, ElementOfSeq
          <5> QED
            BY <5>2 DEF DocumentType
        <4> QED
          BY <1>1, <2>1, <4>1
      <3>6. CASE IsNext(e)
        <4>1. /\ idx < SelLen /\ e.index = selection[idx + 1]
              /\ e = [index |-> e.index, value |-> e.value]
          BY <1>1, <1>2, <3>2, <3>6, EntryShape DEF IsNext, Skipped, RimInv
        <4>2. /\ idx' = idx + 1
              /\ reference_pcrs' = [reference_pcrs EXCEPT ![idx + 1] = e.value]
          BY <1>4, <3>6 DEF Entry, Advance
        <4>3. \A i \in 1 .. SelLen : reference_pcrs'[i] =
                 IF i = idx + 1 THEN e.value ELSE reference_pcrs[i]
          BY <3>2, <4>1, <4>2
        <4>4. \A i \in 1 .. Begun : reference_pcrs'[i] = Garbage
          BY <3>1, <3>2, <4>1, <4>3
        <4>5. ASSUME NEW i \in Begun + 1 .. idx + 1
              PROVE  \E j \in 1 .. entry : es[j] =
                       [index |-> selection[i], value |-> reference_pcrs'[i]]
          <5>1. CASE i = idx + 1
            <6>1. reference_pcrs'[i] = e.value
              BY <3>2, <4>1, <4>3, <5>1
            <6>2. es[entry] =
                    [index |-> selection[i], value |-> reference_pcrs'[i]]
              BY <4>1, <5>1, <6>1
            <6> QED
              BY <3>5, <6>2
          <5>2. CASE i # idx + 1
            <6>1. /\ i \in Begun + 1 .. idx
                  /\ reference_pcrs'[i] = reference_pcrs[i]
              BY <3>2, <4>1, <4>3, <5>2
            <6>2. \E j \in 1 .. entry - 1 : es[j] =
                    [index |-> selection[i], value |-> reference_pcrs[i]]
              BY <3>1, <6>1 DEF Reading
            <6> QED
              BY <3>5, <6>1, <6>2
          <5> QED
            BY <5>1, <5>2
        <4>6. ASSUME idx + 1 < SelLen, NEW j \in 1 .. entry
              PROVE  es[j].index # selection[idx + 2]
          <5>1. es[j].index \in Nat /\ es[entry].index \in Nat
            BY <1>1, <3>1, <3>5 DEF Regular
          <5>2. es[j].index <= es[entry].index
            BY <1>1, <3>1, <3>5, <5>1 DEF Regular
          <5>3. /\ selection \in Selections /\ Len(selection) < MaxPcrs
                /\ idx + 1 \in 1 .. Len(selection)
                /\ idx + 2 \in 1 .. Len(selection)
            BY <1>1, <3>2, <4>6 DEF RimInv, ArgsOK, SelLen
          <5>4. selection[idx + 1] < selection[idx + 2]
            BY <3>2, <5>3, SelectionAssumption
          <5>5. selection[idx + 2] \in Nat
            BY <5>3, RimAssumption
          <5> QED
            BY <4>1, <5>1, <5>2, <5>4, <5>5
        <4>7. Reading'
          BY <2>1, <3>1, <3>2, <3>3, <3>5, <4>2, <4>5, <4>6
          DEF Reading, SelLen
        <4> QED
          BY <1>1, <2>1, <3>1, <3>3, <3>4, <4>4, <4>7 DEF Undecided
      <3>7. CASE ~IsNext(e)
        <4>1. UNCHANGED <<reference_pcrs, pcr_selection_index>>
          BY <1>4, <3>7 DEF Entry, statics
        <4>2. idx < SelLen => e.index # selection[idx + 1]
          BY <3>2, <3>7 DEF IsNext, Skipped
        <4>3. idx < SelLen =>
                \A j \in 1 .. entry : es[j].index # selection[idx + 1]
          BY <3>1, <3>5, <4>2 DEF Reading
        <4>4. \A i \in Begun + 1 .. idx : \E j \in 1 .. entry :
                 es[j] = [index |-> selection[i], value |-> reference_pcrs[i]]
          BY <3>1, <3>5 DEF Reading
        <4>5. Reading'
          BY <2>1, <3>1, <3>3, <3>5, <4>1, <4>3, <4>4 DEF Reading, SelLen
        <4> QED
          BY <1>1, <2>1, <3>1, <3>3, <3>4, <4>1, <4>5 DEF Undecided
      <3> QED
        BY <3>6, <3>7
    <2> QED
      BY <1>1, <2>1, <2>2, InsideAgrees DEF args
  <1> QED
    BY <1>3, <1>4

LEMMA AgreeStep == RimInv /\ AgreeInv /\ [Next]_vars => AgreeInv'
  <1> SUFFICES ASSUME RimInv, AgreeInv, [Next]_vars PROVE AgreeInv'
    OBVIOUS
  <1>1. CASE UNCHANGED vars
    <2>1. UNCHANGED <<file, selection, quoted, state, doc, entry,
                      pcr_selection_index, reference_pcrs, rc, calls, atCall,
                      served>>
      BY <1>1 DEF vars, args, statics, past
    <2>2. /\ RegularFile' <=> RegularFile
          /\ Decisive(atCall)' = Decisive(atCall)
      BY <2>1 DEF RegularFile, Regular, HeaderOK, Decisive, Lacking, Matching,
                  Holds, StartOf, SelLen
    <2>3. RimAgrees'
      <3>1. \A d : Lacking(file[d], StartOf(d, atCall))'
                     <=> Lacking(file[d], StartOf(d, atCall))
        BY <2>1 DEF Lacking, StartOf, SelLen
      <3>2. Expected(atCall)' = Expected(atCall)
        BY <2>2, <3>1 DEF Expected
      <3> QED
        BY <2>1, <2>2, <3>2 DEF AgreeInv, RimAgrees, Returned
    <2>4. Undecided => Undecided'
      BY <2>1, <2>2 DEF Undecided, Reading, Begun, StartOf, SelLen
    <2> QED
      BY <2>1, <2>2, <2>3, <2>4 DEF AgreeInv, SelLen
  <1>2. CASE Next
    BY <1>2, CallAgrees, CallRefusedAgrees, DocumentAgrees, EntryAgrees,
       EndOfDocumentAgrees, EndOfStreamAgrees DEF Next
  <1> QED
    BY <1>1, <1>2

\* A regular file gives every call what its sets say, whatever the length of
\* the file and of the selection and however many calls came before.
THEOREM RegularFilesAgree == Spec => []RimAgrees
  <1>1. Init => AgreeInv
    BY DEF Init, AgreeInv, RimAgrees, Returned
  <1>2. AgreeInv => RimAgrees
    BY DEF AgreeInv
  <1> QED
    BY <1>1, <1>2, AgreeStep, RimAlways, PTL DEF Spec

-----------------------------------------------------------------------------
(* After a regular file, verdict and index are a function of the sets.      *)

\* The value that a regular set has for a PCR is the one its entry holds.
LEMMA SetHolds ==
    ASSUME NEW d \in DocumentType, Regular(d), NEW p \in DOMAIN SetOf(d)
    PROVE  \A x \in Values : SetOf(d)[p] = x <=> Holds(d, p, x)
  <1> DEFINE es == d.entries
  <1>1. es \in Seq(EntryType) /\ Len(es) \in Nat /\ DOMAIN es = 1 .. Len(es)
    BY DEF DocumentType
  <1>2. PICK i \in 1 .. Len(es) : es[i].index = p
    BY <1>1 DEF SetOf
  <1>3. es[i] \in EntryType
    BY <1>1
  <1>4. es[i].value \in Values /\ es[i] = [index |-> p, value |-> es[i].value]
    BY <1>2, <1>3 DEF EntryType, Regular
  <1>5. \A j \in 1 .. Len(es) : es[j].index = p => j = i
    <2>1. \A j \in 1 .. Len(es) : es[j].index \in Nat
      BY DEF Regular
    <2>2. \A j, k \in 1 .. Len(es) : j < k => es[j].index < es[k].index
      BY DEF Regular
    <2> QED
      BY <1>1, <1>2, <2>1, <2>2
  <1>6. \A x : Holds(d, p, x) <=> x = es[i].value
    <2>1. Holds(d, p, es[i].value)
      BY <1>2, <1>4 DEF Holds
    <2>2. ASSUME NEW x, Holds(d, p, x) PROVE x = es[i].value
      <3>1. PICK j \in 1 .. Len(es) : es[j] = [index |-> p, value |-> x]
        BY <2>2 DEF Holds
      <3>2. es[j].index = p /\ es[j].value = x
        BY <3>1
      <3> QED
        BY <1>5, <3>2
    <2> QED
      BY <2>1, <2>2
  <1>7. SetOf(d)[p] = es[i].value
    <2>1. SetOf(d)[p] = CHOOSE x \in Values : Holds(d, p, x)
      BY DEF SetOf
    <2> QED
      BY <1>4, <1>6, <2>1
  <1> QED
    BY <1>6, <1>7

\* A set of the file, as a document and as a function.
LEMMA SetShape ==
    ASSUME RimInv, RegularFile, NEW d \in 1 .. Len(file)
    PROVE  /\ file[d] \in DocumentType /\ Regular(file[d])
           /\ Sets[d] = SetOf(file[d]) /\ d \in DOMAIN Sets
           /\ \A p : p \in DOMAIN Sets[d] <=>
                       \E j \in 1 .. Len(file[d].entries) :
                          file[d].entries[j].index = p
  <1>1. file \in Seq(DocumentType)
    BY ArgsShape DEF RimInv
  <1>2. file[d] \in DocumentType /\ DOMAIN file = 1 .. Len(file)
    BY <1>1, ElementOfSeq
  <1>3. DOMAIN file[d].entries = 1 .. Len(file[d].entries)
    <2>1. file[d].entries \in Seq(EntryType)
      BY <1>2 DEF DocumentType
    <2> QED
      BY <2>1
  <1>4. Sets[d] = SetOf(file[d]) /\ d \in DOMAIN Sets
    BY <1>2 DEF Sets
  <1>5. DOMAIN SetOf(file[d]) =
          {file[d].entries[j].index : j \in DOMAIN file[d].entries}
    BY DEF SetOf
  <1> QED
    BY <1>2, <1>3, <1>4, <1>5 DEF RegularFile

\* The two descriptions of a set's part in a call are the same.
LEMMA SameIncomplete ==
    ASSUME RimInv, RegularFile, NEW d \in 1 .. Len(file), NEW k
    PROVE  Check!Incomplete(Sets, selection, d, k)
             <=> Lacking(file[d], StartOf(d, k))
  BY SetShape DEF Check!Incomplete, Check!From, Lacking, StartOf, SelLen

LEMMA SameMatch ==
    ASSUME RimInv, RegularFile, NEW d \in 1 .. Len(file),
           NEW k \in 0 .. SelLen
    PROVE  Check!Match(Sets, selection, d, k, quoted)
             <=> Matching(file[d], StartOf(d, k))
  <1> DEFINE doc1 == file[d]
             from == StartOf(d, k)
  <1>1. /\ SelLen \in Nat /\ from \in 0 .. SelLen
        /\ Check!From(d, k) = from
    BY BegunInRange DEF StartOf, Check!From
  <1>2. /\ selection \in Seq(Nat) /\ DOMAIN selection = 1 .. SelLen
        /\ quoted \in [1 .. SelLen -> Values]
    BY ArgsShape DEF RimInv, ArgsOK, SelLen
  <1>3. selection = <<>> => from = 0
    BY <1>1 DEF SelLen
  <1>4. ASSUME from = 0, ~Lacking(doc1, from)
        PROVE  quoted = [i \in DOMAIN selection |-> Sets[d][selection[i]]]
                 <=> \A i \in 1 .. SelLen : Holds(doc1, selection[i], quoted[i])
    <2>1. ASSUME NEW i \in 1 .. SelLen
          PROVE  quoted[i] = Sets[d][selection[i]]
                   <=> Holds(doc1, selection[i], quoted[i])
      <3>1. selection[i] \in DOMAIN Sets[d]
        <4>1. i \in from + 1 .. SelLen
          BY <1>1, <1>4
        <4>2. \E j \in 1 .. Len(doc1.entries) :
                 doc1.entries[j].index = selection[i]
          BY <1>4, <4>1 DEF Lacking
        <4> QED
          BY <4>2, SetShape
      <3>2. quoted[i] \in Values
        BY <1>2
      <3> QED
        BY <3>1, <3>2, SetShape, SetHolds
    <2>2. quoted = [i \in DOMAIN selection |-> Sets[d][selection[i]]]
            <=> \A i \in 1 .. SelLen : quoted[i] = Sets[d][selection[i]]
      BY <1>2
    <2> QED
      BY <2>1, <2>2
  <1>5. Matching(doc1, from) => ~Lacking(doc1, from)
    <2> SUFFICES ASSUME Matching(doc1, from), NEW i \in from + 1 .. SelLen
                 PROVE  \E j \in 1 .. Len(doc1.entries) :
                           doc1.entries[j].index = selection[i]
      BY DEF Lacking
    <2>1. i \in 1 .. SelLen
      BY <1>1
    <2>2. PICK j \in 1 .. Len(doc1.entries) :
            doc1.entries[j] = [index |-> selection[i], value |-> quoted[i]]
      BY <2>1 DEF Matching, Holds
    <2>3. doc1.entries[j].index = selection[i]
      BY <2>2
    <2> QED
      BY <2>3
  <1> QED
    BY <1>1, <1>3, <1>4, <1>5, SameIncomplete DEF Check!Match, Matching

\* So the same sets end a call.
LEMMA SameSets ==
    ASSUME RimInv, RegularFile
    PROVE  Check!Ending(Sets, selection, atCall, quoted) = Decisive(atCall)
  <1>1. DOMAIN Sets = 1 .. Len(file) /\ atCall \in 0 .. SelLen
    <2>1. file \in Seq(DocumentType)
      BY ArgsShape DEF RimInv
    <2> QED
      BY <2>1, BegunInRange DEF Sets
  <1> QED
    BY <1>1, SameIncomplete, SameMatch DEF Check!Ending, Decisive

\* The first set that decides a call is the one it is at.
LEMMA FirstIsThis ==
    ASSUME RimInv, \A d \in 1 .. doc - 1 : d \notin Decisive(atCall),
           doc \in Decisive(atCall)
    PROVE  Decisive(atCall) # {} /\ Check!First(Decisive(atCall)) = doc
  <1> DEFINE D == Decisive(atCall)
  <1>1. /\ Len(file) \in Nat /\ doc \in 1 .. Len(file) + 1
        /\ D \subseteq 1 .. Len(file)
    BY BegunInRange DEF Decisive
  <1> HIDE DEF D
  <1>2. doc \in D /\ \A y \in D : doc <= y
    BY <1>1 DEF D
  <1>3. \A x \in D : (\A y \in D : x <= y) => x = doc
    BY <1>1, <1>2
  <1> QED
    BY <1>2, <1>3 DEF D, Check!First

\* The index of a set that lacks a PCR stands before the first one it lacks.
LEMMA IndexBeforeMissing ==
    ASSUME RimInv, RegularFile, Reading, entry > Len(file[doc].entries),
           ~Complete
    PROVE  Check!First(Check!Missing(Sets, selection, doc, atCall)) - 1
             = pcr_selection_index
  <1> DEFINE es == file[doc].entries
             idx == pcr_selection_index
             M == Check!Missing(Sets, selection, doc, atCall)
  <1>1. /\ SelLen \in Nat /\ Begun \in 0 .. SelLen /\ idx \in 0 .. SelLen
        /\ idx < SelLen /\ Begun <= idx
        /\ doc \in 1 .. Len(file) /\ Len(file) \in Nat
    BY BegunInRange DEF Reading, Complete
  <1>2. entry - 1 = Len(es) /\ Len(es) \in Nat
    <2>1. es \in Seq(EntryType)
      BY <1>1, SetShape DEF DocumentType
    <2> QED
      BY <2>1 DEF Reading, RimInv, TypeOK
  <1>3. \A p : p \in DOMAIN Sets[doc]
                <=> \E j \in 1 .. Len(es) : es[j].index = p
    BY <1>1, SetShape
  <1>4. selection[idx + 1] \notin DOMAIN Sets[doc]
    BY <1>1, <1>2, <1>3 DEF Reading
  <1>5. \A i \in Begun + 1 .. idx : selection[i] \in DOMAIN Sets[doc]
    <2> TAKE i \in Begun + 1 .. idx
    <2>1. PICK j \in 1 .. Len(es) :
            es[j] = [index |-> selection[i], value |-> reference_pcrs[i]]
      BY <1>2 DEF Reading
    <2>2. es[j].index = selection[i]
      BY <2>1
    <2> QED
      BY <1>3, <2>2
  <1>6. M = {i \in Begun + 1 .. SelLen : selection[i] \notin DOMAIN Sets[doc]}
    BY DEF Check!Missing, Check!From, Begun, StartOf, SelLen
  <1>7. idx + 1 \in M /\ M \subseteq idx + 1 .. SelLen
    BY <1>1, <1>4, <1>5, <1>6
  <1> HIDE DEF M
  <1>8. \A x \in M : (\A y \in M : x <= y) <=> x = idx + 1
    BY <1>1, <1>7
  <1>9. Check!First(M) = idx + 1
    BY <1>7, <1>8 DEF Check!First
  <1> QED
    BY <1>1, <1>9 DEF M

\* A call that ends there is a function of the sets.
LEMMA EndIsFunction ==
    ASSUME RimInv, NEW code, End(code), served' \in BOOLEAN,
           served' /\ RegularFile =>
             /\ code = "SUCCESS"
                   <=> Check!SomeSetMatches(Sets, selection, atCall, quoted)
             /\ pcr_selection_index'
                   = Check!IndexLeft(Sets, selection, atCall, quoted)
    PROVE  CallIsFunction'
  <1>1. UNCHANGED <<file, selection, quoted, atCall>> /\ rc' = code
    BY DEF End, args
  <1>2. RegularFile' <=> RegularFile
    BY <1>1 DEF RegularFile, Regular, HeaderOK
  <1>3. Sets' = Sets
    BY <1>1 DEF Sets
  <1> QED
    BY <1>1, <1>2, <1>3 DEF CallIsFunction

LEMMA EndOfStreamIsFunction ==
    ASSUME RimInv, AgreeInv, EndOfStream PROVE CallIsFunction'
  <1>1. /\ state = "stream" /\ End("VERIFICATION_FAILED") /\ served' \in BOOLEAN
        /\ UNCHANGED pcr_selection_index
    BY DEF EndOfStream, Return, RimInv, TypeOK, statics
  <1>2. doc = Len(file) + 1 /\ Len(file) \in Nat
    BY BegunInRange DEF EndOfStream
  <1>3. ASSUME RegularFile
        PROVE  /\ ~Check!SomeSetMatches(Sets, selection, atCall, quoted)
               /\ pcr_selection_index
                     = Check!IndexLeft(Sets, selection, atCall, quoted)
    <2>1. /\ \A d \in 1 .. doc - 1 : d \notin Decisive(atCall)
          /\ pcr_selection_index = Begun
      BY <1>1, <1>3 DEF AgreeInv, Undecided
    <2>2. Decisive(atCall) = {}
      BY <1>2, <2>1 DEF Decisive
    <2>3. Check!Ending(Sets, selection, atCall, quoted) = {}
      BY <1>3, <2>2, SameSets
    <2>4. ~Check!SomeSetMatches(Sets, selection, atCall, quoted)
      BY <2>3 DEF Check!SomeSetMatches
    <2>5. Check!IndexLeft(Sets, selection, atCall, quoted)
            = IF Sets = <<>> THEN atCall ELSE 0
      BY <2>3 DEF Check!IndexLeft
    <2>6. Sets = <<>> <=> doc = 1
      <3>1. file \in Seq(DocumentType)
        BY ArgsShape DEF RimInv
      <3>2. DOMAIN Sets = 1 .. Len(file)
        BY <3>1 DEF Sets
      <3>3. CASE Len(file) = 0
        <4>1. file = <<>>
          BY <3>1, <3>3
        <4> QED
          BY <1>2, <3>3, <4>1 DEF Sets
      <3>4. CASE Len(file) # 0
        <4>1. 1 \in DOMAIN Sets
          BY <1>2, <3>2, <3>4
        <4> QED
          BY <1>2, <3>4, <4>1
      <3> QED
        BY <3>3, <3>4
    <2> QED
      BY <1>2, <2>1, <2>4, <2>5, <2>6 DEF Begun, StartOf
  <1> QED
    BY <1>1, <1>3, EndIsFunction

LEMMA EndOfDocumentIsFunction ==
    ASSUME RimInv, AgreeInv, EndOfDocument PROVE CallIsFunction'
  <1>1. state = "mapping" /\ entry > Len(file[doc].entries)
    BY DEF EndOfDocument
  <1>2. doc \in 1 .. Len(file) /\ Len(file) \in Nat /\ atCall \in 0 .. SelLen
    BY <1>1, BegunInRange DEF RimInv, SetIsOwn
  <1>3. served \in BOOLEAN
    BY DEF RimInv, TypeOK
  <1>4. ASSUME RegularFile
        PROVE  /\ Undecided /\ Reading /\ file[doc].closed
               /\ Complete <=> ~Lacking(file[doc], Begun)
               /\ Complete => (DigestMatches <=> Matching(file[doc], Begun))
    <2>1. Undecided /\ Reading /\ Regular(file[doc])
      BY <1>1, <1>2, <1>4 DEF AgreeInv, Undecided, RegularFile
    <2> QED
      BY <1>1, <2>1, CompleteIsNotLacking, DigestMatchesIsMatching
      DEF Regular, Undecided
  <1>5. doc \in Decisive(atCall) <=> \/ Lacking(file[doc], Begun)
                                     \/ Matching(file[doc], Begun)
    BY <1>2 DEF Decisive, Begun
  \* What the functions say when this set decides.
  <1>6. ASSUME RegularFile, doc \in Decisive(atCall)
        PROVE  LET match == Check!Match(Sets, selection, doc, atCall, quoted)
               IN  /\ match <=> Matching(file[doc], Begun)
                   /\ Check!SomeSetMatches(Sets, selection, atCall, quoted)
                        <=> match
                   /\ Check!IndexLeft(Sets, selection, atCall, quoted) =
                        IF match THEN SelLen
                        ELSE Check!First(Check!Missing(Sets, selection, doc,
                                                       atCall)) - 1
    <2> DEFINE E == Check!Ending(Sets, selection, atCall, quoted)
    <2>1. E # {} /\ Check!First(E) = doc
      BY <1>4, <1>6, SameSets, FirstIsThis DEF Undecided
    <2>2. Check!Match(Sets, selection, doc, atCall, quoted)
            <=> Matching(file[doc], Begun)
      BY <1>2, <1>6, SameMatch DEF Begun
    <2> HIDE DEF E
    <2>3. Check!SomeSetMatches(Sets, selection, atCall, quoted)
            <=> Check!Match(Sets, selection, doc, atCall, quoted)
      BY <2>1 DEF Check!SomeSetMatches, E
    <2>4. Check!IndexLeft(Sets, selection, atCall, quoted) =
            IF Check!Match(Sets, selection, doc, atCall, quoted) THEN SelLen
            ELSE Check!First(Check!Missing(Sets, selection, doc, atCall)) - 1
      BY <2>1 DEF Check!IndexLeft, E, SelLen
    <2> QED
      BY <2>2, <2>3, <2>4
  <1>7. CASE /\ ~file[doc].closed \/ ~Complete
             /\ Return("ERROR") /\ UNCHANGED statics
    <2>1. UNCHANGED <<pcr_selection_index, served>> /\ End("ERROR")
      BY <1>7 DEF Return, statics
    <2>2. ASSUME RegularFile
          PROVE  /\ ~Check!SomeSetMatches(Sets, selection, atCall, quoted)
                 /\ pcr_selection_index
                       = Check!IndexLeft(Sets, selection, atCall, quoted)
      <3>1. ~Complete /\ Lacking(file[doc], Begun) /\ doc \in Decisive(atCall)
        BY <1>4, <1>5, <1>7, <2>2
      <3>2. ~Check!Match(Sets, selection, doc, atCall, quoted)
        <4>1. Check!Incomplete(Sets, selection, doc, atCall)
          BY <1>2, <2>2, <3>1, SameIncomplete DEF Begun
        <4> QED
          BY <4>1 DEF Check!Match
      <3>3. Check!First(Check!Missing(Sets, selection, doc, atCall)) - 1
              = pcr_selection_index
        BY <1>1, <1>4, <2>2, <3>1, IndexBeforeMissing
      <3> QED
        BY <1>6, <2>2, <3>1, <3>2, <3>3
    <2> QED
      BY <1>3, <2>1, <2>2, EndIsFunction
  <1>8. CASE End("ERROR") /\ served' = FALSE
    BY <1>8, EndIsFunction
  <1>9. CASE /\ Complete /\ DigestMatches
             /\ Return("SUCCESS") /\ UNCHANGED statics
    <2>1. UNCHANGED <<pcr_selection_index, served>> /\ End("SUCCESS")
      BY <1>9 DEF Return, statics
    <2>2. ASSUME RegularFile
          PROVE  /\ Check!SomeSetMatches(Sets, selection, atCall, quoted)
                 /\ pcr_selection_index
                       = Check!IndexLeft(Sets, selection, atCall, quoted)
      <3>1. Matching(file[doc], Begun) /\ doc \in Decisive(atCall)
        BY <1>4, <1>5, <1>9, <2>2
      <3>2. Check!Match(Sets, selection, doc, atCall, quoted)
        BY <1>6, <2>2, <3>1
      <3>3. pcr_selection_index = SelLen
        BY <1>9, BegunInRange DEF Complete
      <3> QED
        BY <1>6, <2>2, <3>1, <3>2, <3>3
    <2> QED
      BY <1>3, <2>1, <2>2, EndIsFunction
  <1>10. CASE state' = "stream"
    BY <1>10 DEF CallIsFunction, Returned
  <1> QED
    BY <1>7, <1>8, <1>9, <1>10 DEF EndOfDocument

LEMMA FunctionStep ==
    RimInv /\ AgreeInv /\ CallIsFunction /\ [Next]_vars => CallIsFunction'
  <1> SUFFICES ASSUME RimInv, AgreeInv, CallIsFunction, [Next]_vars
               PROVE  CallIsFunction'
    OBVIOUS
  <1>1. CASE UNCHANGED vars
    <2>1. UNCHANGED <<file, selection, quoted, state, calls, rc, atCall,
                      served, pcr_selection_index>>
      BY <1>1 DEF vars, args, statics, past
    <2>2. RegularFile' <=> RegularFile
      BY <2>1 DEF RegularFile, Regular, HeaderOK
    <2>3. Sets' = Sets
      BY <2>1 DEF Sets
    <2> QED
      BY <2>1, <2>2, <2>3 DEF CallIsFunction, Returned
  <1>2. CASE Call
    BY <1>2 DEF Call, CallIsFunction, Returned
  <1>3. CASE CallRefused
    BY <1>3 DEF CallRefused, CallIsFunction
  <1>4. CASE Document
    <2>1. doc \in 1 .. Len(file)
      BY <1>4, BegunInRange DEF Document
    <2>2. CASE HeaderOK(file[doc])
      BY <1>4, <2>2 DEF Document, CallIsFunction, Returned
    <2>3. CASE ~HeaderOK(file[doc])
      <3>1. ~RegularFile
        BY <2>1, <2>3 DEF RegularFile, Regular
      <3>2. End("ERROR") /\ served' \in BOOLEAN
        BY <1>4, <2>3 DEF Document, Return, RimInv, TypeOK
      <3> QED
        BY <3>1, <3>2, EndIsFunction
    <2> QED
      BY <2>2, <2>3
  <1>5. CASE Entry
    <2> DEFINE e == file[doc].entries[entry]
    <2>1. state = "mapping" /\ entry \in 1 .. Len(file[doc].entries)
      BY <1>5 DEF Entry, RimInv, TypeOK
    <2>2. doc \in 1 .. Len(file)
      BY <2>1, BegunInRange DEF RimInv, SetIsOwn
    <2>3. CASE Unparseable(e)
      <3>1. End("ERROR") /\ served' \in BOOLEAN
        BY <1>5, <2>3 DEF Entry, Return, RimInv, TypeOK
      <3>2. ~RegularFile
        BY <2>1, <2>2, <2>3, RimAssumption
        DEF RegularFile, Regular, Unparseable
      <3> QED
        BY <3>1, <3>2, EndIsFunction
    <2>4. CASE ~Unparseable(e)
      BY <1>5, <2>1, <2>4 DEF Entry, CallIsFunction, Returned
    <2> QED
      BY <2>3, <2>4
  <1>6. CASE EndOfDocument
    BY <1>6, EndOfDocumentIsFunction
  <1>7. CASE EndOfStream
    BY <1>7, EndOfStreamIsFunction
  <1> QED
    BY <1>1, <1>2, <1>3, <1>4, <1>5, <1>6, <1>7 DEF Next

LEMMA AgreeAlways == Spec => []AgreeInv
  <1>1. Init => AgreeInv
    BY DEF Init, AgreeInv, RimAgrees, Returned
  <1> QED
    BY <1>1, AgreeStep, RimAlways, PTL DEF Spec

\* After a regular file of any size, verdict and static index are what the
\* function says that stands for the whole call elsewhere.
THEOREM CallIsFunctionAlways == Spec => []CallIsFunction
  <1>1. Init => CallIsFunction
    BY DEF Init, CallIsFunction, Returned
  <1> QED
    BY <1>1, FunctionStep, RimAlways, AgreeAlways, PTL DEF Spec

=============================================================================
