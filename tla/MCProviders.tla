----------------------------- MODULE MCProviders ----------------------------
(* Instances for TLC: the two components that answer for an outside        *)
(* service, the circuit breaker for Codohue and account mail for Resend.   *)
(* A behaviour is one of either; the variables of the other stay put.      *)
EXTENDS Naturals

CONSTANTS
  Callers, Threshold, Cooldown, Slack, MaxErrors,
  Mails, Hooks, MaxRetries, MaxReports, MaxBlips

ASSUME ThresholdAssumption == Threshold \in Nat \ {0}
ASSUME CooldownAssumption == Cooldown \in Nat \ {0}
ASSUME BreakerBounds == Slack \in Nat /\ MaxErrors \in Nat

VARIABLES
  service,
  failures, openedAt, call, clock, serving, errors, outage,
  send, tries, queued, delivery, suppressed, reports, unanswered, hook, blips, heard,
  unmatched, lifted

B == INSTANCE CircuitBreaker WITH MaxFailures <- MaxErrors, failed <- errors
Mail == INSTANCE EmailDelivery WITH MaxFaults <- MaxBlips, faults <- blips

breakerVars == <<failures, openedAt, call, clock, serving, errors, outage>>
mailVars == <<send, tries, queued, delivery, suppressed, reports, unanswered,
              hook, blips, heard, unmatched, lifted>>
serviceVars == <<service, breakerVars, mailVars>>

ServiceInit ==
  /\ B!Init
  /\ Mail!Init
  /\ (service = "breaker" /\ ~suppressed) \/ (service = "mail" /\ serving)

Calling(A) == service = "breaker" /\ A /\ UNCHANGED <<service, mailVars>>
Mailing(A) == service = "mail" /\ A /\ UNCHANGED <<service, breakerVars>>

ServiceNext == Calling(B!Next) \/ Mailing(Mail!Next)

\* The fairness of the two specifications, of the component that runs.
ServiceSpec ==
  /\ ServiceInit /\ [][ServiceNext]_serviceVars
  /\ WF_serviceVars(Calling(B!Tick))
  /\ \A c \in Callers :
       WF_serviceVars(Calling(B!Allow(c))) /\ WF_serviceVars(Calling(B!Observe(c)))
  /\ \A h \in Hooks : WF_serviceVars(Mailing(Mail!Post(h) \/ Mail!Serve(h)))

(* The properties of CircuitBreaker and EmailDelivery, stated and          *)
(* explained there.                                                        *)
TrialsSpaced == B!TrialsSpaced
Recovers == B!Recovers
MailsAccounted == Mail!MailsAccounted
BouncesSuppress == Mail!BouncesSuppress
=============================================================================
