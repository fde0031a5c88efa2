\* Two tasks at a time, nothing fails.
SPECIFICATION Spec
CONSTANTS
  Workers = {w1, w2}
  Statuses = {"active", "past_due"}
  MaxContracts = 2
  MaxConfirmations = 1
  Faults = {}
  MaxFaults = 0
INVARIANT
  OneStagedContract
CHECK_DEADLOCK FALSE
