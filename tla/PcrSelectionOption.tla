------------------------- MODULE PcrSelectionOption -------------------------
(***************************************************************************)
(* The verifier's option --pcr-selection: what is made of its argument.    *)
(*                                                                         *)
(* An argument is a sequence of banks, each with its list of PCRs; a bank  *)
(* may be there more than once.  What comes out is a sequence of PCRs for  *)
(* each bank, the first tpm_pcr_selection_len entries of its array.        *)
(***************************************************************************)
EXTENDS Integers, SequencesExt

CONSTANTS
    MaxPcrs,     \* TPM2_MAX_PCRS: 32
    AllPcrs,     \* the PCR list "all"
    Unreadable   \* a PCR list with something that is no number

\* A PCR index is a uint8_t; there is room for an index of one.
ASSUME MaxPcrsAssumption == MaxPcrs \in Nat /\ 1 < MaxPcrs /\ MaxPcrs <= 256

Banks == {"sha1", "sha256", "sha384", "sha512"}

\* A list that is read is a list of numbers without a sign.
PcrLists == Seq(Nat) \cup {AllPcrs, Unreadable}
BankType == [bank : STRING, pcrs : PcrLists]
ArgumentType == Seq(BankType)

Elements(s) == {s[k] : k \in DOMAIN s}

\* Broken form: an index that is one too big for the arrays.
InArrayOrNext(p) == p <= MaxPcrs
InArray(p) == p < MaxPcrs

\* Which banks and lists can be read.
BankKnown(b) == b \in Banks
ListReadable(l) ==
    l # AllPcrs => (l # Unreadable /\ \A p \in Elements(l) : InArray(p))
Readable(argument) ==
    \A k \in DOMAIN argument :
        BankKnown(argument[k].bank) /\ ListReadable(argument[k].pcrs)

\* Broken form: the PCRs in the order in which they were typed.
AsTyped(l) == l

\* The elements of S, each once, in ascending order.
IsAscending(s) == \A i, j \in DOMAIN s : i < j => s[i] < s[j]
Ascending(S) == CHOOSE s \in [1 .. Cardinality(S) -> S] : IsAscending(s)

\* The PCRs of the list, read off an array of flags.
Ordered(l) == Ascending(Elements(l))

\* charra_cli_verifier_parse_pcr_bank.  For "all", every entry is set to true.
BankPcrs(l) ==
    IF l = AllPcrs THEN [k \in 1 .. MaxPcrs |-> 1] ELSE Ordered(l)

\* Every bank is cleared, then the banks of the argument are filled.
Cleared == [b \in Banks |-> <<>>]
Fill(selection, bank) ==
    [selection EXCEPT ![bank.bank] = BankPcrs(bank.pcrs)]
Parsed(argument) == FoldLeft(Fill, Cleared, argument)

-----------------------------------------------------------------------------
(* What the argument means.                                                 *)

\* The last list for bank b counts.
Mentions(argument, b) == \E k \in DOMAIN argument : argument[k].bank = b
LastIn(argument, b) ==
    CHOOSE k \in DOMAIN argument :
        /\ argument[k].bank = b
        /\ \A j \in k + 1 .. Len(argument) : argument[j].bank # b
NamedIn(argument, b) ==
    IF ~Mentions(argument, b) THEN {}
    ELSE IF argument[LastIn(argument, b)].pcrs = AllPcrs THEN 0 .. MaxPcrs - 1
    ELSE Elements(argument[LastIn(argument, b)].pcrs)

=============================================================================
