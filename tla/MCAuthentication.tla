-------------------------- MODULE MCAuthentication --------------------------
(***************************************************************************)
(* LinkEncryption and Onboarding for TLC: the two halves of what happens   *)
(* between connecting and reading.  They share no variable, so one run     *)
(* explores them side by side, the other one at rest.                      *)
(***************************************************************************)
EXTENDS LinkEncryption, Onboarding

VARIABLE part

authVars == <<linkVars, onboardVars, part>>

AuthInit ==
    /\ LinkInit /\ OnboardInit
    /\ \/ /\ part = "link"
          /\ setting = CHOOSE s \in Settings : TRUE
          /\ token = "other" /\ report = "final"     \* at rest, and nobody's to onboard
       \/ part = "onboarding"

OnLink(A) == part = "link" /\ A /\ UNCHANGED <<onboardVars, part>>
OnToken(A) == part = "onboarding" /\ A /\ UNCHANGED <<linkVars, part>>

AuthNext == OnLink(LinkNext) \/ OnToken(OnboardNext)

(* Polls go on (the timer), a pending pair() returns or times out, and once the *)
(* machine is willing requests stop failing.                                    *)
LinkFairness ==
    \A a \in Addresses :
        /\ WF_authVars(OnLink(OpenLink(a)))
        /\ WF_authVars(OnLink(PrepareLink(a)))
        /\ WF_authVars(OnLink(AuthRefused(a)))
        /\ WF_authVars(OnLink(CloseLink(a)))
        /\ WF_authVars(OnLink(OpRetried(a)))
        /\ SF_authVars(OnLink(PairSucceeds(a)))

(* Polls go on for ever, every operation ends, and the machine decides. *)
OnboardFairness ==
    /\ WF_authVars(OnToken(Step))
    /\ WF_authVars(OnToken(Settle))

AuthSpec == AuthInit /\ [][AuthNext]_authVars /\ LinkFairness /\ OnboardFairness

(* The types of both modules. *)
AuthTypeOK == LinkTypeOK /\ OnboardTypeOK
=============================================================================
