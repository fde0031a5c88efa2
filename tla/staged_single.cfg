\* One task at a time, nothing fails.
SPECIFICATION FairSpec
CONSTANTS
  Workers = {w1}
  Statuses = {"active", "past_due"}
  MaxContracts = 3
  MaxConfirmations = 2
  Faults = {}
  MaxFaults = 0
INVARIANTS
  OneStagedContract
PROPERTIES
  ImplementsSlot
  ResolvedIsGone
CHECK_DEADLOCK FALSE
