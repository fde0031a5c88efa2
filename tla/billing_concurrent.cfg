\* Two tasks at a time, one failure of any kind.
SPECIFICATION Spec
CONSTANTS
  pro = pro
  free = free
  Workers = {w1, w2}
  PullJobs = {"force_sync"}
  Plans = {pro, free}
  Free = free
  ErpReports <- MCTrialReports
  Missing = Missing
  MaxRetries = 1
  Faults = {"redis", "db", "crash", "flush", "body"}
  MaxFaults = 1
  MaxChanges = 1
  MaxDeliveries = 2
  MaxFresh = 1
  SenderWaits = TRUE
INVARIANTS
  TypeOK
  
  PlanWasReported
  AppliedOncePerFailure
  NoEventLost
SYMMETRY MCSymmetry
CHECK_DEADLOCK FALSE
