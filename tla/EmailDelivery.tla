---------------------------- MODULE EmailDelivery ----------------------------
(***************************************************************************)
(* The account mail sent to one address and the delivery reports the       *)
(* provider posts back.  A mail is handed to the provider first, in a few  *)
(* attempts under one idempotency key, and recorded afterwards; its        *)
(* reports may come before the record, late, out of order and more than    *)
(* once, until one is answered 2xx.  A permanent bounce or a complaint     *)
(* suppresses the address.                                                 *)
(***************************************************************************)
EXTENDS Naturals, FiniteSets

CONSTANTS
  Mails,         \* mails to the address
  Hooks,         \* goroutines that serve the webhook
  MaxRetries,    \* resendMaxRetries
  MaxReports,    \* bound: reports the provider makes
  MaxFaults      \* bound: statements of the webhook that fail and answers
                 \* that are lost

VARIABLES
  send,          \* how far each mail is; unlogged: it will have no row
  tries,         \* attempts to send it that failed and are repeated
  queued,        \* what the provider has taken, by idempotency key
  delivery,      \* its row in email_deliveries
  suppressed,    \* is the address in email_suppressions?
  reports,       \* what the provider has reported, whether or not answered
  unanswered,    \* reports the provider still posts
  hook,          \* where each webhook request is
  faults,        \* failures so far (bounded by MaxFaults)
  heard,         \* outcomes that found the mail's row (history)
  unmatched,     \* reports that named nobody and were given up on (history)
  lifted         \* has an operator lifted the suppression? (history)

sending == <<send, tries, queued>>
vars == <<sending, delivery, suppressed, reports, unanswered, hook, faults, heard,
          unmatched, lifted>>

\* transient: a bounce that does not condemn the address.
Kinds == {"delivered", "bounced", "transient"}

\* What ParseResendWebhook makes of a payload.  dated: its time has one of the
\* layouts parseWebhookTime knows; named: it has a recipient.
Report == [mail : Mails, kind : Kinds, id : 1..MaxReports, dated : BOOLEAN, named : BOOLEAN]
Outcome == [status : Kinds \cup {"sent"}, at : 0..MaxReports]
NoReport == [pc |-> "idle"]
Hook == [pc : {"apply", "suppress"}, report : Report] \cup {NoReport}

TypeOK ==
  /\ send \in [Mails -> {"none", "checked", "unlogged", "sent", "recorded"}]
  /\ tries \in [Mails -> 0..MaxRetries]
  /\ queued \subseteq [mail : Mails, call : 0..MaxRetries]
  /\ delivery \in [Mails -> Outcome]
  /\ suppressed \in BOOLEAN /\ lifted \in BOOLEAN
  /\ reports \subseteq Report
  /\ unanswered \subseteq reports
  /\ unmatched \subseteq reports
  /\ hook \in [Hooks -> Hook]
  /\ faults \in 0..MaxFaults
  /\ heard \in [Mails -> SUBSET Outcome]

Sent == [status |-> "sent", at |-> 0]

Init ==
  /\ send = [m \in Mails |-> "none"]
  /\ tries = [m \in Mails |-> 0]
  /\ queued = {}
  /\ delivery = [m \in Mails |-> Sent]
  /\ suppressed \in BOOLEAN   \* by an earlier mail
  /\ reports = {}
  /\ unanswered = {}
  /\ hook = [h \in Hooks |-> NoReport]
  /\ faults = 0
  /\ heard = [m \in Mails |-> {}]
  /\ unmatched = {}
  /\ lifted = FALSE

\* GetEmailDeliveryByProviderMessageID finds the row.
Recorded(m) == send[m] = "recorded"

\* The mail has left, whatever the sender was told of it.
Left(m) == \E k \in queued : k.mail = m

-----------------------------------------------------------------------------
(* AccountMailService.deliver, through the SuppressionGate and the mailer. *)

\* A check that fails counts as "not suppressed".
Check(m) ==
  /\ send[m] = "none"
  /\ \/ suppressed /\ send' = [send EXCEPT ![m] = "unlogged"]
     \/ send' = [send EXCEPT ![m] = "checked"]
  /\ UNCHANGED <<tries, queued, delivery, suppressed, reports, unanswered, hook,
                 faults, heard, unmatched, lifted>>

\* Mutant: every attempt has a key of its own.
KeyPerAttempt(m) == [mail |-> m, call |-> tries[m]]

\* One idempotency key for the call, whatever the attempt.
Key(m) == [mail |-> m, call |-> 0]

\* The provider takes a mail once under one key.
Accept(m) == queued' = queued \cup {Key(m)}

Finish(m, outcome) ==
  /\ send' = [send EXCEPT ![m] = outcome]
  /\ tries' = [tries EXCEPT ![m] = 0]

\* Send of the mailer tries again, up to MaxRetries times.
Retry(m) ==
  IF tries[m] < MaxRetries
  THEN tries' = [tries EXCEPT ![m] = @ + 1] /\ UNCHANGED send
  ELSE Finish(m, "unlogged")

\* postEmail: accepted and answered; accepted with an answer nobody can read,
\* or refused, which ends the call; or a fault of the transport, the provider
\* or its rate limit, after which nobody knows whether it was accepted.
PostEmail(m) ==
  \/ Accept(m) /\ Finish(m, "sent")
  \/ (Accept(m) \/ UNCHANGED queued) /\ Finish(m, "unlogged")
  \/ (Accept(m) \/ UNCHANGED queued) /\ Retry(m)

HandOver(m) ==
  /\ send[m] = "checked"
  /\ PostEmail(m)
  /\ UNCHANGED <<delivery, suppressed, reports, unanswered, hook, faults, heard,
                 unmatched, lifted>>

\* CreateEmailDelivery, through RecordSend.
CreateDelivery(m) == send' = [send EXCEPT ![m] = "recorded"]

\* A failure is logged, the mail has left.
Record(m) ==
  /\ send[m] = "sent"
  /\ CreateDelivery(m) \/ send' = [send EXCEPT ![m] = "unlogged"]
  /\ UNCHANGED <<tries, queued, delivery, suppressed, reports, unanswered, hook, faults, heard,
                 unmatched, lifted>>

-----------------------------------------------------------------------------
(* The provider (external).                                                *)

\* Whom a report names matters to the ones that suppress.
MakeReport(m) ==
  /\ Left(m)
  /\ Cardinality(reports) < MaxReports
  /\ \E kind \in Kinds, dated, named \in BOOLEAN :
       LET new == [mail |-> m, kind |-> kind, id |-> Cardinality(reports) + 1,
                   dated |-> dated, named |-> named]
       IN (kind = "bounced" \/ named) /\ reports' = reports \cup {new} /\ unanswered' = unanswered \cup {new}
  /\ UNCHANGED <<sending, delivery, suppressed, hook, faults, heard, unmatched, lifted>>

\* A report is posted until it is answered 2xx.
Begin(h, e) ==
  /\ hook[h].pc = "idle"
  /\ hook' = [hook EXCEPT ![h] = [pc |-> "apply", report |-> e]]
  /\ UNCHANGED <<sending, delivery, suppressed, reports, unanswered, heard, unmatched,
                 lifted>>

Post(h) == (\E e \in unanswered : Begin(h, e)) /\ UNCHANGED faults

\* The provider did not get the answer.
Repost(h) ==
  /\ faults < MaxFaults
  /\ faults' = faults + 1
  /\ \E e \in reports \ unanswered : Begin(h, e)

-----------------------------------------------------------------------------
(* HandleResendEvent.                                                      *)

Acknowledge(h) ==
  /\ unanswered' = unanswered \ {hook[h].report}
  /\ hook' = [hook EXCEPT ![h] = NoReport]

\* The time of the report, or of its arrival.
OccurredAt(e) == IF e.dated THEN e.id ELSE Cardinality(reports)

Suppresses(e) == e.kind = "bounced"

\* Mutant: the row is written whatever time it holds.
WriteAnyway(e) ==
  LET outcome == [status |-> e.kind, at |-> OccurredAt(e)] IN
  IF Recorded(e.mail)
  THEN /\ heard' = [heard EXCEPT ![e.mail] = @ \cup {outcome}]
       /\ delivery' = [delivery EXCEPT ![e.mail] = outcome]
  ELSE UNCHANGED <<heard, delivery>>

\* ApplyEmailDeliveryEvent: a report older than the one applied is ignored.
Write(e) ==
  LET outcome == [status |-> e.kind, at |-> OccurredAt(e)] IN
  IF Recorded(e.mail)
  THEN /\ heard' = [heard EXCEPT ![e.mail] = @ \cup {outcome}]
       /\ delivery' = IF delivery[e.mail].at <= outcome.at
                      THEN [delivery EXCEPT ![e.mail] = outcome] ELSE delivery
  ELSE UNCHANGED <<heard, delivery>>

\* Mutant: a report that did not apply is done with.
ApplyOrStop(h) ==
  LET e == hook[h].report IN
  /\ hook[h].pc = "apply"
  /\ Write(e)
  /\ IF Suppresses(e) /\ delivery' # delivery
     THEN hook' = [hook EXCEPT ![h].pc = "suppress"] /\ UNCHANGED unanswered
     ELSE Acknowledge(h)
  /\ UNCHANGED <<sending, suppressed, reports, faults, unmatched, lifted>>

\* Whether the report applied decides nothing: it is suppressed all the same.
Apply(h) ==
  LET e == hook[h].report IN
  /\ hook[h].pc = "apply"
  /\ Write(e)
  /\ IF Suppresses(e)
     THEN hook' = [hook EXCEPT ![h].pc = "suppress"] /\ UNCHANGED unanswered
     ELSE Acknowledge(h)
  /\ UNCHANGED <<sending, suppressed, reports, faults, unmatched, lifted>>

\* recipientsFor: the recipients the report names, or the one recorded at the
\* send.
HasRecipient(e) == e.named \/ Recorded(e.mail)

\* SuppressEmail: a row that is there already is written again.
SuppressEmail == suppressed' = TRUE

\* A look-up that fails is no different from one that finds nothing.
Suppress(h) ==
  LET e == hook[h].report IN
  /\ hook[h].pc = "suppress"
  /\ \/ /\ HasRecipient(e)
        /\ SuppressEmail
        /\ UNCHANGED <<unmatched, faults>>
     \/ /\ ~e.named
        /\ \/ ~Recorded(e.mail) /\ UNCHANGED faults
           \/ faults < MaxFaults /\ faults' = faults + 1
        /\ unmatched' = unmatched \cup {e}
        /\ UNCHANGED suppressed
  /\ Acknowledge(h)
  /\ UNCHANGED <<sending, delivery, reports, heard, lifted>>

\* A statement fails: 5xx, and the provider will post again.
Fault(h) ==
  /\ hook[h].pc # "idle"
  /\ faults < MaxFaults
  /\ faults' = faults + 1
  /\ hook' = [hook EXCEPT ![h] = NoReport]
  /\ UNCHANGED <<sending, delivery, suppressed, reports, unanswered, heard, unmatched,
                 lifted>>

\* DeleteEmailSuppression, by an operator.
Unsuppress ==
  /\ suppressed
  /\ suppressed' = FALSE
  /\ lifted' = TRUE
  /\ UNCHANGED <<sending, delivery, reports, unanswered, hook, faults, heard, unmatched>>

Serve(h) == Apply(h) \/ Suppress(h)

Next ==
  \/ \E m \in Mails : Check(m) \/ HandOver(m) \/ Record(m) \/ MakeReport(m)
  \/ \E h \in Hooks : Post(h) \/ Repost(h) \/ Serve(h) \/ Fault(h)
  \/ Unsuppress

Spec == Init /\ [][Next]_vars

\* The provider posts what was not answered 2xx, and requests are served.
FairSpec ==
  /\ Spec
  /\ \A h \in Hooks : WF_vars(Post(h) \/ Serve(h))

-----------------------------------------------------------------------------
(* A mail leaves at most once, however often sending it is tried again,    *)
(* and the delivery log shows the newest of the outcomes that found its    *)
(* row, in whatever order they arrived and however often.                  *)
MailsAccounted ==
  \A m \in Mails :
    /\ \A j, k \in queued : (j.mail = m /\ k.mail = m) => j = k
    /\ heard[m] # {} =>
         /\ delivery[m] \in heard[m]
         /\ \A o \in heard[m] : o.at <= delivery[m].at

(* Every permanent bounce ends in a suppression, whether or not it found   *)
(* the mail's row and whichever statement failed on the way; only a report *)
(* that names no recipient can be given up on.                             *)
BouncesSuppress ==
  \A i \in 1..MaxReports :
    (\E e \in reports : e.id = i /\ Suppresses(e)) ~>
      (suppressed \/ lifted \/ \E e \in unmatched : e.id = i)

(* "a delivery report lost to a database blip is a suppression we never    *)
(* make": the webhook gives up on a bounce, answering 2xx, only if the     *)
(* mail it is about was never recorded.                                    *)
GivenUpOnlyIfUnknown ==
  [][\A e \in unmatched' \ unmatched : ~Recorded(e.mail)]_vars
=============================================================================
