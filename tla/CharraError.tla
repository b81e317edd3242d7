---------------------------- MODULE CharraError ----------------------------
(***************************************************************************)
(* The return codes of CHARRA (common/charra_error.h), shared by every     *)
(* module.  A code is the name that follows CHARRA_RC_ in the source; the  *)
(* numeric values are never compared with each other by the code, only     *)
(* with the names, so they are left out.                                   *)
(***************************************************************************)

\* The codes a CHARRA function or one of the two programs returns.
CHARRA_RC ==
    {"SUCCESS", "ERROR", "CRYPTO_ERROR", "NOT_YET_IMPLEMENTED",
     "BAD_ARGUMENT", "MARSHALING_ERROR", "TPM", "VERIFICATION_FAILED",
     "NO_MATCH", "CLI_ERROR", "COAP_ERROR", "TIMEOUT"}

=============================================================================
