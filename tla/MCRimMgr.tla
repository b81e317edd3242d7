------------------------------ MODULE MCRimMgr ------------------------------
(* Finite instances of RimMgr: every file of up to two small sets.          *)
EXTENDS RimMgr, TLC

CONSTANTS x, y  \* PCR values

\* No PCR, one PCR at either end of the file, two, and as many as the code
\* refuses (TPM2_MAX_PCRS is 3 here).
MCSelections == {<<>>, <<0>>, <<1>>, <<0, 1>>, <<0, 1, 2>>}

\* Every pair of PCR 0 or 1 and a value, a value that cannot be read, a key
\* that cannot, and a token that is neither.
MCEntries ==
    [index: {0, 1}, value: {x, y, Bad}] \cup [index: {Bad, Junk}, value: {x}]

\* What a set can hold: nothing, or up to two entries in any order.
MCContents == {<<>>} \cup {<<e>> : e \in MCEntries}
                     \cup {<<e, f>> : e \in MCEntries, f \in MCEntries}

\* Sets that are wrong outside their entries, each in one way.
MCOddDocuments ==
    LET full == <<[index |-> 0, value |-> x], [index |-> 1, value |-> y]>>
    IN  [header: {"junk", "other", "prefix"}, entries: {full}, closed: {TRUE}]
          \cup [header: {"sha256"}, entries: {full}, closed: {FALSE}]

MCDocuments ==
    [header: {"sha256"}, entries: MCContents, closed: {TRUE}]
      \cup MCOddDocuments

MCFiles == {<<>>} \cup {<<d>> : d \in MCDocuments}
                  \cup {<<d, e>> : d \in MCDocuments, e \in MCDocuments}

\* Two PCRs in order: the files the finding needs.
MCPlainFiles ==
    LET set(v) == [header |-> "sha256", closed |-> TRUE,
                   entries |-> <<[index |-> 0, value |-> v],
                                 [index |-> 1, value |-> v]>>]
    IN  {<<set(x)>>, <<set(x), set(y)>>, <<set(x), set(y), set(x)>>}

=============================================================================
