\* Two tasks, one site with one node, few requests.
SPECIFICATION OutageSpec
CONSTANTS
  Tasks = {t1, t2}
  Nodes = {n1}
  Domains = {d1}
  Missing = Missing
  MaxRequests = 2
  DegradedAfter = 1
  OfflineAfter = 1
  StaleAfter = 2
  Ids = {1, 2}
  Issues = {1, 2, 3}
  Conns = {c1, c2}
SYMMETRY MCSymmetry
INVARIANTS
  TypeOK
  OneMissWindow
  TicketsBounded
PROPERTY
  RevokedReturns
CHECK_DEADLOCK FALSE
