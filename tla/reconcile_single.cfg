\* One task at a time; one deadline may strike.
SPECIFICATION RecSpec
CONSTANTS
  pro = pro
  free = free
  Workers = {w1}
  PullJobs = {"force_sync"}
  Plans = {pro, free}
  Free = free
  ErpReports <- MCReports
  EdgePayloads <- MCEdges
  Missing = Missing
  MaxRetries = 1
  Faults = {"timeout", "crash"}
  MaxFaults = 1
  MaxChanges = 1
  MaxDeliveries = 1
  MaxFresh = 1
  MaxVersion = 4
  SenderWaits = TRUE
INVARIANTS
  RecTypeOK
  NoChangeUnconfirmed
  CorrectionFollowsErp
PROPERTIES
  VersionNeverRollsBack
CHECK_DEADLOCK FALSE
