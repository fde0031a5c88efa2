\* Each part at the bounds that make its races happen; see the README.
SPECIFICATION ControlSpec
CONSTANTS
  Missing = Missing
  r1 = r1
  r2 = r2
  \* mesh
  Workers = {r1, r2}
  a = a
  b = b
  B = B
  Addresses = {a, b}
  V4 = {a}
  Net = net
  Threshold24 = 1
  RowIds = {1}
  RecIds = {1}
  MaxCalls = 3
  Tenants = {t1, t2}
  Spellings = {a, b, B}
  Canonical <- MCCanonical
  \* anomalies
  Scanners = {r1, r2}
  Sites = {site}
  Sources = {a}
  Networks = {n1, n2}
  MaxOpen = 2
  Unscoped = Unscoped
  \* accounts
  Requests = {r1, r2}
  Roles = {analyst, admin}
  Secrets = {secret}
  Challenges = {jti}
  Devices = {device}
  MaxFailures = 1
  NoSecret = NoSecret
  \* enrolment
  Clients = {r1, r2}
  ClientAddresses = {a}
  EnvAddresses = {}
  Links = {l1, l2, l3}
  NoRow = NoRow
  \* portal and themes
  Processes = {r1, r2}
  Files = {png, svg}
  Unset = Unset
  ThemeNames = {"Default", "dark"}
  MaxThemes = 3
  \* registry and calls
  Operators = {r1, r2}
  MaxRows = 4
  Pullers = {r1, r2}
  Calls = {c1}
  \* locks
  Editors = {r1, r2, r3}
  MaxVersion = 3
  Nobody = Nobody
  \* routing
  Canvases = {canvas1}
  x = x
  y = y
  z = z
  RouteNodes = {x, y, z}
  Payloads <- MCPayloads
  \* fanout
  Sockets = {r1, r2}
  \* feed
  FeedAddresses = {a}
  MaxTenants = 3
  \* envelopes and reference data
  Pushers = {r1, r2}
  Envelopes = {e1, e2}
  Writers = {r1, r2}
  RecordKeys = {k1}
  MaxBumps = 3
  \* agreements
  Callers = {r1, r2}
  Versions = {v1, v2}
  Known = {v1}
  \* signals and tally
  MaxLeft = 4
  MaxAge = 7
  MaxOutcomes = 2
  \* defense
  DefenseTasks = {r1, r2}
  SettingKeys = {k1}
  SettingIds = {1, 2}
  MaxAsked = 3
SYMMETRY MCSymmetry
INVARIANTS
  ControlTypeOK
  LockoutHolds
  
  ListedIsServed
  
  FewDoubles
  
PROPERTIES
  
  TokensFollowAccount
CHECK_DEADLOCK FALSE
