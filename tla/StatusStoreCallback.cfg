\* One message and one callback; nothing fails.
CONSTANTS
  m1 = m1  c1 = c1
  None = None
  Msgs = {m1}
  Routes = {"email", "slack", "twilio", "fcm", "drop", "error", "dummy"}
  Callbacks = {c1}
  MaxMessageRetries = 1
  MaxFaults = 0
  MaxCrashes = 0
  SMTPServer = TRUE
  TwilioNumbers = TRUE
  PersistDroppedMsgs = TRUE
SPECIFICATION Spec
INVARIANT CallbackApplied
\* The process goes on without messages: nothing is left to do here.
CHECK_DEADLOCK FALSE
