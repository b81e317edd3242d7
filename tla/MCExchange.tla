---------------------------- MODULE MCExchange ----------------------------
(* A finite instance of Exchange: two PCRs in a TPM, and one more that only  *)
(* a command line can name.                                                 *)
EXTENDS Exchange

CONSTANTS v1, v2  \* processes

Bank(bank, pcrs) == [bank |-> bank, pcrs |-> pcrs]

\* All, one of them beyond the bitmap; another bank alone; a doubled PCR; a
\* bank given twice, beside another one and out of order; an index, a list and
\* a bank that are refused.
MCArguments == v2 :> {} @@ v1 :>
    {<<Bank("sha256", AllPcrs)>>,
     <<Bank("sha384", <<0>>)>>,
     <<Bank("sha256", <<1, 1>>)>>,
     <<Bank("sha256", <<2>>), Bank("sha1", <<1>>), Bank("sha256", <<1, 0>>)>>,
     <<Bank("sha256", <<3>>)>>,
     <<Bank("sha512", Unreadable)>>,
     <<Bank("md5", <<0>>)>>}

Log(identifier, start) ==
    [identifier |-> identifier, start |-> start, count |-> 0]
MCLogRequests ==
    {v1 :> <<Log("tcg-boot", 0), Log("ima", 1)>> @@ v2 :> <<Log("ima", 1)>>}

MCVersions ==
    v1 :> {CHARRA_TAP_SPEC_VERSION, 0} @@ v2 :> {CHARRA_TAP_SPEC_VERSION}

MCDefaultPcrs == <<0>>

\* The second set lacks PCR 2.
MCReferenceSets == <<0 :> 1 @@ 1 :> 1 @@ 2 :> 0, 0 :> 1 @@ 1 :> 0>>

=============================================================================
