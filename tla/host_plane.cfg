\* Each part at the bounds that make its races happen; see the README.
SPECIFICATION HostSpec
CONSTANTS
  r1 = r1
  r2 = r2
  \* conversion and plan
  Importers = {r1, r2}
  Categories = {category}
  Posts = {post}
  CategoryOf <- MCCategoryOf
  Media = {m1}
  ShownIn <- MCShownIn
  NameOf <- MCNameOf
  Imported = Imported
  Old = Old
  Articles = {x1}
  Pictures = {p1, p2}
  Cap = 1
  \* tunnels
  Handlers = {r1, r2}
  Keys = {key1, key2}
  MaxPeers = 2
  NoFile = NoFile
  \* deployments
  Jobs = {r1, r2}
  WpSites = {wp}
  MaxSource = 2
  \* backups
  Threads = {r1, r2}
  BackupIds = {backup}
  \* files and manager
  Entries = {entry}
  SshKeys = {ssh1, ssh2}
  Remark = Remark
  Nameservers = {ns1, ns2}
  Metrics = {cpu, ram}
  DefaultLevel = 1
  FileWorkers = {r1, r2}
  Paths = {"p", "q"}
  Contents = {"a"}
  \* services
  Units = {unit1}
  HostUsers = {user1}
  MountPoints = {root, boot, home}
  Root = root
  Protected = {root, boot}
  \* network
  HostAddresses = {h1, h2}
  NoAddress = NoAddress
  \* zone and bind
  Consoles = {c1, c2}
  Texts = {x, y}
  MaxDay = 3
  PerDay = 3
  FirstSerials = {0, 1, 3, 7}
  InName = {1}
  NotLoaded = NotLoaded
  BindEditors = {r1, r2}
  NameZones = {"z1"}
  NotifyIps = {"i1"}
  \* config and bench
  Directives = {d1, d2}
  Values = {1, 2}
  ConfigFiles <- MCFiles
  NoValue = NoValue
  BenchEditors = {r1, r2}
  Switches = {"pause", "resume", "disable"}
  SharedKeys = {"pause_scheduler"}
  \* mail
  MailThreads = {r1, r2}
  Lower = {low}
  Upper = {up}
  Targets = {to1, to2}
  Owners = {"o1", "o2"}
  Names = {"n1"}
  Replies = {"x", "y"}
  \* servers
  Uvicorns = {r1, r2}
  Machines = {"10.0.0.1"}
  ServerIds = {"i1", "i2"}
SYMMETRY MCSymmetry
INVARIANTS
  HostTypeOK
  
  
  
  

  
  
  
CHECK_DEADLOCK FALSE
