------------------------- MODULE BackgroundHandlers -------------------------
(* The handlers of the background worker that have no state in common:     *)
(* those of mfa-assertion, of the challenge-bound authentication, of the   *)
(* transport manager, of the approval of domains and of attestation        *)
(* headers.  No step of one part enables, disables or changes a step of    *)
(* another, so a behaviour exercises one of them: what holds of the parts  *)
(* holds of their sum, which is far smaller than their product.            *)
EXTENDS ReplayProtection, ChallengeAssertion, TransportManager, ContentScripts, Attestation

VARIABLE part  \* the part this behaviour exercises

HandlersInit ==
  /\ part \in {"replay", "assertion", "transport", "approval", "attestation"}
  /\ ReplayInit /\ AssertionInit /\ TransportInit /\ Init /\ AttestationInit
  /\ part # "transport" => plugged = 0 /\ connState = 0

HandlersNext ==
  /\ UNCHANGED part
  /\ \/ /\ part = "replay" /\ ReplayNext
        /\ UNCHANGED <<assertionVars, transportVars, vars, attestationVars>>
     \/ /\ part = "assertion" /\ AssertionNext
        /\ UNCHANGED <<replayVars, transportVars, vars, attestationVars>>
     \/ /\ part = "transport" /\ TransportNext
        /\ UNCHANGED <<replayVars, assertionVars, vars, attestationVars>>
     \/ /\ part = "approval" /\ Next
        /\ UNCHANGED <<replayVars, assertionVars, transportVars, attestationVars>>
     \/ /\ part = "attestation" /\ AttestationNext
        /\ UNCHANGED <<replayVars, assertionVars, transportVars, vars>>

handlersVars == <<part, replayVars, assertionVars, transportVars, vars, attestationVars>>

(* The fairness is that of the parts: what is awaited of Chrome settles.   *)
(* Nothing is awaited in the initial states, so it asks nothing of a part  *)
(* that rests.                                                             *)
HandlersFairness == TransportFairness /\ AssertionFairness
HandlersSpec == HandlersInit /\ [][HandlersNext]_handlersVars /\ HandlersFairness

(* The types of the five parts.                                            *)
TypesOK ==
  /\ ReplayTypeOK /\ AssertionTypeOK /\ TransportTypeOK /\ TypeOK /\ AttestationTypeOK
=============================================================================
