\* Breaker: two callers, three failed requests.  Mail: one mail sent
\* in up to two attempts, two webhook requests, two reports, one failure.
SPECIFICATION ServiceSpec
CONSTANTS
  Callers = {a, b}
  Threshold = 2
  Cooldown = 2
  Slack = 1
  MaxErrors = 3
  Mails = {m1}
  Hooks = {h1, h2}
  MaxRetries = 1
  MaxReports = 2
  MaxBlips = 1
INVARIANTS TrialsSpaced MailsAccounted
PROPERTIES Recovers BouncesSuppress
CHECK_DEADLOCK FALSE
