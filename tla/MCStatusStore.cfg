\* One message through any of the vendors, one retry, a callback, a
\* failing statement and a crash.
CONSTANTS
  m1 = m1  c1 = c1
  None = None
  Msgs = {m1}
  Routes = {"email", "slack", "twilio", "fcm", "drop", "error", "dummy"}
  Callbacks = {c1}
  MaxMessageRetries = 1
  MaxFaults = 1
  MaxCrashes = 1
  SMTPServer = TRUE
  TwilioNumbers = TRUE
  PersistDroppedMsgs = TRUE
SPECIFICATION FairSpec
INVARIANT TypeOK
PROPERTIES RecordIsFinal ImplementsRegister EveryOutcomeRecorded
\* The process goes on without messages: nothing is left to do here.
CHECK_DEADLOCK FALSE
