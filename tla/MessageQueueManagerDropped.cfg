\* A message of an incident that is claimed.
CONSTANTS
  i1 = i1  o1 = o1  e1 = e1
  sms = sms  error = error  dummy = dummy
  None = None
  Msgs = {i1}
  Kind <- MCKind
  Vendors = {sms, error, dummy}
  Dummy = dummy
  Storing = {error, dummy}
  VendorOf <- MCVendorOf
  MaxMessageRetries = 1
  MaxQueueLength = 1
  SenderDryRun = FALSE
SPECIFICATION Spec
INVARIANT DroppedNeverDelivered
