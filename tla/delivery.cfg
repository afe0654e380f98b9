SPECIFICATION FairSpec
CONSTANTS
  retry = retry  check = check
  email = email  telegram = telegram  alice = alice  bob = bob
  Notification = {1, 2, 3}
  Pass = {retry, check}
  Retry = retry
  Scope <- MCScope
  Keys <- MCKeys
  Limit = 3
  MaxDeliveryAttempts = 2
  MaxFaults = 1
INVARIANTS SentWasSent NotGivenUpEarly OneRecipient TwiceOnlyWhenDisturbed
PROPERTIES OneOutbox EveryAlertSettles
CHECK_DEADLOCK FALSE
