------------------------- MODULE ChallengeResponse -------------------------
(***************************************************************************)
(* What remote attestation promises to the one who runs a verifier, with   *)
(* no message, timer or TPM in sight: a verifier issues one challenge and  *)
(* ends at most once; it may end positively only if the platform it trusts *)
(* was in a reference state at some moment after the challenge was issued. *)
(* Attestation (verifier, network and attesters) implements it.            *)
(***************************************************************************)
CONSTANTS Verifiers,       \* verifier processes, one attestation each
          PlatformStates,  \* what the PCRs of a platform can read
          GoodStates       \* the reference states

VARIABLES phase,     \* phase[v]: "idle", "challenged" or "ended"
          verdict,   \* verdict[v]: "none", "positive" or "negative"
          platform,  \* the state of the trusted platform
          witnessed  \* witnessed[v]: its states since v's challenge

vars == <<phase, verdict, platform, witnessed>>

Init ==
    /\ phase = [v \in Verifiers |-> "idle"]
    /\ verdict = [v \in Verifiers |-> "none"]
    /\ platform \in PlatformStates
    /\ witnessed = [v \in Verifiers |-> {}]

\* v issues its challenge; only what the platform is from now on counts.
Challenge(v) ==
    /\ phase[v] = "idle"
    /\ phase' = [phase EXCEPT ![v] = "challenged"]
    /\ witnessed' = [witnessed EXCEPT ![v] = {platform}]
    /\ UNCHANGED <<verdict, platform>>

\* The platform changes its state: every open challenge witnesses it.
Change(d) ==
    /\ platform' = d
    /\ witnessed' = [v \in Verifiers |->
                        IF phase[v] = "challenged" THEN witnessed[v] \cup {d}
                                                   ELSE witnessed[v]]
    /\ UNCHANGED <<phase, verdict>>

\* v ends.  A positive verdict needs a witnessed reference state.
End(v, r) ==
    /\ phase[v] = "challenged"
    /\ r = "positive" => witnessed[v] \cap GoodStates # {}
    /\ phase' = [phase EXCEPT ![v] = "ended"]
    /\ verdict' = [verdict EXCEPT ![v] = r]
    /\ UNCHANGED <<platform, witnessed>>

\* v gives up before it has challenged anyone.
GiveUpEarly(v) ==
    /\ phase[v] = "idle"
    /\ phase' = [phase EXCEPT ![v] = "ended"]
    /\ verdict' = [verdict EXCEPT ![v] = "negative"]
    /\ UNCHANGED <<platform, witnessed>>

Next ==
    \/ \E v \in Verifiers : Challenge(v) \/ GiveUpEarly(v)
    \/ \E v \in Verifiers, r \in {"positive", "negative"} : End(v, r)
    \/ \E d \in PlatformStates : Change(d)

Spec == Init /\ [][Next]_vars

=============================================================================
