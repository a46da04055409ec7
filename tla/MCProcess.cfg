\* One vendor, two applications; the signal may come at any moment.
CONSTANTS
  Vendors = {sms}
  Apps = {app1, app2}
SPECIFICATION FairSpec
INVARIANTS TypeOK ReadyHasKeys GracefulExit
PROPERTIES ShutdownEnds AdoptsKeys
\* The process is to end.
CHECK_DEADLOCK FALSE
