\* One message of each kind, one retry, full as soon as one message is there;
\* fairness of the vendors, the loop and the clients.
CONSTANTS
  i1 = i1  o1 = o1  e1 = e1
  sms = sms  error = error  dummy = dummy
  None = None
  Msgs = {i1, o1, e1}
  Kind <- MCKind
  Vendors = {sms, error, dummy}
  Dummy = dummy
  Storing = {error, dummy}
  VendorOf <- MCVendorOf
  MaxMessageRetries = 1
  MaxQueueLength = 0
  SenderDryRun = FALSE
SPECIFICATION FairSpec
INVARIANTS TypeOK OnePlace RetryBudget SendFollowsRoute
PROPERTIES SuccessIsFinal NoResurrection UsesPools EventuallyGone BackPressureClears ImplementsTracker
