\* One task at a time, nothing fails; two reconciliations in a row.
SPECIFICATION RecSpec
CONSTANTS
  pro = pro
  free = free
  Workers = {w1}
  PullJobs = {"force_sync"}
  Plans = {pro, free}
  Free = free
  ErpReports <- MCReports
  EdgePayloads = {}
  Missing = Missing
  MaxRetries = 1
  Faults = {}
  MaxFaults = 0
  MaxChanges = 1
  MaxDeliveries = 1
  MaxFresh = 2
  MaxVersion = 4
  SenderWaits = TRUE
INVARIANT
  Idempotent
CHECK_DEADLOCK FALSE
