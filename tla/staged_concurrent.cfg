\* Two tasks at a time, one failure of any kind.
SPECIFICATION FairSpec
CONSTANTS
  Workers = {w1, w2}
  Statuses = {"active", "past_due"}
  MaxContracts = 1
  MaxConfirmations = 2
  Faults = {"redis", "db", "crash"}
  MaxFaults = 1
INVARIANTS
  TypeOK
  ExpiredNotResolved
PROPERTY
  NothingStaysStaged
CHECK_DEADLOCK FALSE
