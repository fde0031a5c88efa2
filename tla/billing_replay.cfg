SPECIFICATION Spec
CONSTANTS
  pro = pro
  free = free
  Workers = {w1, w2}
  PullJobs = {"sweep"}
  Plans = {pro, free}
  Free = free
  ErpReports <- MCReports
  Missing = Missing
  MaxRetries = 1
  Faults = {}
  MaxFaults = 0
  MaxChanges = 1
  MaxDeliveries = 2
  MaxFresh = 2
  SenderWaits = FALSE
INVARIANT
  NoReprocessing
CHECK_DEADLOCK FALSE
