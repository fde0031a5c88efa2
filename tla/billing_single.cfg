\* One task at a time, nothing fails.
SPECIFICATION FairSpec
CONSTANTS
  pro = pro
  free = free
  Workers = {w1}
  PullJobs = {"force_sync", "sweep"}
  Plans = {pro, free}
  Free = free
  ErpReports <- MCReports
  Missing = Missing
  MaxRetries = 2
  Faults = {}
  MaxFaults = 0
  MaxChanges = 2
  MaxDeliveries = 2
  MaxFresh = 1
  SenderWaits = TRUE
INVARIANTS
  LayersAgree
PROPERTIES
  ImplementsLedger
  PublishedNeverRollsBack
  EventuallyInSync
CHECK_DEADLOCK FALSE
