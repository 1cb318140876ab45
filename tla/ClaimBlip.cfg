\* One mail whose bounce names no recipient, one failing look-up.
SPECIFICATION Spec
CONSTANTS
  Mails = {m1}
  Hooks = {h1}
  MaxRetries = 1
  MaxReports = 1
  MaxFaults = 1
PROPERTIES GivenUpOnlyIfUnknown
CHECK_DEADLOCK FALSE
