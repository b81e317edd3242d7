--------------------------- MODULE ReferenceCheck ---------------------------
(***************************************************************************)
(* What one call of charra_check_pcr_digest_against_reference decides, as  *)
(* a function of its arguments and of the static index it finds: RimMgr    *)
(* has the automaton that computes it, Exchange only needs the answer.     *)
(*                                                                         *)
(* A reference file is a sequence of sets, a set a function from PCR       *)
(* indices to values; s is the selection, a sequence of PCR indices, from  *)
(* the static index, and digest the sequence of the values quoted.         *)
(***************************************************************************)
EXTENDS Integers, Sequences

\* Only the first set is read from where the index is.
From(i, from) == IF i = 1 THEN from ELSE 0

\* Set i lacks a selected PCR that it is still asked for.
Incomplete(sets, s, i, from) ==
    \E k \in From(i, from) + 1 .. Len(s) : s[k] \notin DOMAIN sets[i]

\* Broken form: what is not read is not compared.
MatchOfRead(sets, s, i, from, digest) ==
    /\ ~Incomplete(sets, s, i, from)
    /\ Len(digest) = Len(s)
    /\ \A k \in From(i, from) + 1 .. Len(s) : digest[k] = sets[i][s[k]]

\* A set that is not read from its start cannot match.
Match(sets, s, i, from, digest) ==
    /\ ~Incomplete(sets, s, i, from)
    /\ From(i, from) = 0 \/ s = <<>>
    /\ digest = [k \in DOMAIN s |-> sets[i][s[k]]]

\* The sets that end the call, if no set before them does.
Ending(sets, s, from, digest) ==
    {i \in DOMAIN sets : \/ Incomplete(sets, s, i, from)
                         \/ Match(sets, s, i, from, digest)}
First(S) == CHOOSE i \in S : \A j \in S : i <= j

SomeSetMatches(sets, s, from, digest) ==
    LET E == Ending(sets, s, from, digest)
    IN  E # {} /\ Match(sets, s, First(E), from, digest)

\* Where the call leaves the index: it is only reset after a mismatch.
Missing(sets, s, i, from) ==
    {k \in From(i, from) + 1 .. Len(s) : s[k] \notin DOMAIN sets[i]}
IndexLeft(sets, s, from, digest) ==
    LET E == Ending(sets, s, from, digest)
    IN  IF E = {} THEN IF sets = <<>> THEN from ELSE 0
        ELSE IF Match(sets, s, First(E), from, digest) THEN Len(s)
        ELSE First(Missing(sets, s, First(E), from)) - 1

=============================================================================
