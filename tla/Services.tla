------------------------------ MODULE Services ------------------------------
(***************************************************************************)
(* The components that share no state with the others.  A behaviour runs   *)
(* one of them and leaves the others in their initial states, so that the  *)
(* numbers of their states add up instead of multiplying.                  *)
(***************************************************************************)
EXTENDS Avatars, Registration, OAuthFlow, Profiles, Reports, RateLimiter

VARIABLE part  \* the component that runs

Parts == {"avatars", "registration", "flow", "profile", "reports", "limiter"}

ServiceInit ==
  /\ part \in Parts
  /\ Init /\ RegistrationInit /\ FlowInit /\ ProfileInit /\ ReportInit /\ LimiterInit
  /\ part = "profile" \/ ~profile.named

ServiceNext ==
  \/ /\ part = "avatars" /\ Next
     /\ UNCHANGED <<part, registrationVars, flowVars, profileVars, reportVars, limiterVars>>
  \/ /\ part = "registration" /\ RegistrationNext
     /\ UNCHANGED <<part, vars, flowVars, profileVars, reportVars, limiterVars>>
  \/ /\ part = "flow" /\ FlowNext
     /\ UNCHANGED <<part, vars, registrationVars, profileVars, reportVars, limiterVars>>
  \/ /\ part = "profile" /\ ProfileNext
     /\ UNCHANGED <<part, vars, registrationVars, flowVars, reportVars, limiterVars>>
  \/ /\ part = "reports" /\ ReportNext
     /\ UNCHANGED <<part, vars, registrationVars, flowVars, profileVars, limiterVars>>
  \/ /\ part = "limiter" /\ LimiterNext
     /\ UNCHANGED <<part, vars, registrationVars, flowVars, profileVars, reportVars>>

serviceVars ==
  <<part, vars, registrationVars, flowVars, profileVars, reportVars, limiterVars>>

ServiceSpec == ServiceInit /\ [][ServiceNext]_serviceVars

\* Rows, requests, cookies and maps of these components have the shape the code gives them; the
\* nullable columns hold NULL or a value that was given, never a marker of the request body.
ServiceTypeOK ==
  /\ TypeOK /\ RegistrationTypeOK /\ FlowTypeOK /\ ProfileTypeOK /\ ReportTypeOK /\ LimiterTypeOK
=============================================================================
