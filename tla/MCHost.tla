--------------------------------- MODULE MCHost ---------------------------------
(* What the console does to the host and to other servers, one part at a time, as  *)
(* in MCControl: the parts share no state.                                       *)
EXTENDS SiteConversion, Tunnels, Deployments, HostFiles, HostServices,
        ZoneEditor, ConfigEditor, HostMail, WebServers, TLC

CONSTANTS r1, r2

VARIABLE focus

HostParts ==
  {"conversion", "plan", "tunnels", "deployments", "backups", "files", "manager",
   "services", "network", "zone", "bind", "config", "bench", "aliases", "boxes",
   "replies", "web"}

hostVars ==
  <<focus, convVars, planVars, tunnelVars, deployVars, backupVars, filesVars, managerVars,
    servicesVars, networkVars, zoneVars, bindVars, configVars, benchVars, aliasVars,
    boxVars, replyVars, webVars>>

(* The parts that start in several ways do so when they are followed.            *)
HostInit ==
  /\ focus \in HostParts
  /\ ConvInit /\ TunnelsInit /\ DeployInit /\ BackupInit /\ BenchInit /\ BoxInit /\ WebInit
  /\ PlanInit /\ (focus = "plan" \/ oldSite.cms = "wordpress")
  /\ FilesInit /\ (focus = "files" \/ keysFile = <<>>)
  /\ IF focus = "manager"
     THEN ManagerInit /\ holder # "root" /\ disk["q"] = Absent
          /\ \A p \in Paths : disk[p] = Absent \/ disk[p].owner # Service
     ELSE /\ holder = "root" /\ disk = [p \in Paths |-> Absent]
          /\ fileTask = [w \in FileWorkers |-> NoFileTask]
  /\ ServicesInit /\ (focus = "services" \/ \A u \in Units : ~unit[u].fcgiwrap)
  /\ NetworkInit /\ (focus = "network" \/ iface.address = CHOOSE h \in HostAddresses : TRUE)
  /\ ZoneInit
  /\ focus = "zone" \/ zone = [serial |-> CHOOSE n \in FirstSerials : TRUE,
                               text |-> CHOOSE t \in Texts : TRUE]
  /\ BindInit /\ (focus = "bind" \/ \A n \in NameZones : ~blocks[n].noted)
  /\ ConfigInit /\ (focus = "config" \/ file = <<>>)
  /\ AliasInit /\ (focus = "aliases" \/ virtual = {})
  /\ ReplyInit /\ (focus = "replies" \/ active = "none")

Only(part) ==
  /\ focus = part /\ UNCHANGED focus
  /\ part # "conversion" => UNCHANGED convVars
  /\ part # "plan" => UNCHANGED planVars
  /\ part # "tunnels" => UNCHANGED tunnelVars
  /\ part # "deployments" => UNCHANGED deployVars
  /\ part # "backups" => UNCHANGED backupVars
  /\ part # "files" => UNCHANGED filesVars
  /\ part # "manager" => UNCHANGED managerVars
  /\ part # "services" => UNCHANGED servicesVars
  /\ part # "network" => UNCHANGED networkVars
  /\ part # "zone" => UNCHANGED zoneVars
  /\ part # "bind" => UNCHANGED bindVars
  /\ part # "config" => UNCHANGED configVars
  /\ part # "bench" => UNCHANGED benchVars
  /\ part # "aliases" => UNCHANGED aliasVars
  /\ part # "boxes" => UNCHANGED boxVars
  /\ part # "replies" => UNCHANGED replyVars
  /\ part # "web" => UNCHANGED webVars

HostNext ==
  \/ Only("conversion") /\ ConvNext
  \/ Only("plan") /\ PlanNext
  \/ Only("tunnels") /\ TunnelsNext
  \/ Only("deployments") /\ DeployNext
  \/ Only("backups") /\ BackupNext
  \/ Only("files") /\ FilesNext
  \/ Only("manager") /\ ManagerNext
  \/ Only("services") /\ ServicesNext
  \/ Only("network") /\ NetworkNext
  \/ Only("zone") /\ ZoneNext
  \/ Only("bind") /\ BindNext
  \/ Only("config") /\ ConfigNext
  \/ Only("bench") /\ BenchNext
  \/ Only("aliases") /\ AliasNext
  \/ Only("boxes") /\ BoxNext
  \/ Only("replies") /\ ReplyNext
  \/ Only("web") /\ WebNext

HostSpec == HostInit /\ [][HostNext]_hostVars

-------------------------------------------------------------------------------
(* Every file, table, unit and local of the part that is followed keeps its type. *)
HostTypeOK ==
  CASE focus = "conversion" -> ConvTypeOK
    [] focus = "plan" -> PlanTypeOK
    [] focus = "tunnels" -> TunnelsTypeOK
    [] focus = "deployments" -> DeployTypeOK
    [] focus = "backups" -> BackupTypeOK
    [] focus = "files" -> FilesTypeOK
    [] focus = "manager" -> ManagerTypeOK
    [] focus = "services" -> ServicesTypeOK
    [] focus = "network" -> NetworkTypeOK
    [] focus = "zone" -> ZoneTypeOK
    [] focus = "bind" -> BindTypeOK
    [] focus = "config" -> ConfigTypeOK
    [] focus = "bench" -> BenchTypeOK
    [] focus = "aliases" -> AliasTypeOK
    [] focus = "boxes" -> BoxTypeOK
    [] focus = "replies" -> ReplyTypeOK
    [] focus = "web" -> WebTypeOK

(* What an administrator has written is what is served: by the secondary name      *)
(* servers, by BIND, by the service whose file was edited, by the scheduler of     *)
(* the bench.                                                                   *)
WrittenIsServed == SerialCoversChange /\ AskedIsRun /\ AskedIsRead /\ PauseIsShown

(* What an answer says of the files, aliases, replies and servers it is about is    *)
(* so, a plan that is called valid has all the old site has, and what a request    *)
(* must not touch is still there.                                              *)
AnsweredIsSo ==
  /\ AnswersHold /\ AliasesServed /\ NoStaleReply /\ ActedAsSaid /\ CountedAreHere
  /\ ValidMeansComplete /\ OriginalKept /\ ProtectedStay

-------------------------------------------------------------------------------
MCCategoryOf == [post \in Posts |-> CHOOSE c \in Categories : TRUE]
MCShownIn == [post \in Posts |-> CHOOSE m \in Media : TRUE]
MCNameOf == [m \in Media |-> "name"]

MCLine(key, act) == [key |-> key, active |-> act, value |-> CHOOSE v \in Values : TRUE]
MCFiles ==
  {<<>>} \union {<<MCLine(k, act)>> : k \in Directives, act \in BOOLEAN}
         \union {<<MCLine(k, act), MCLine(k, TRUE)>> : k \in Directives, act \in BOOLEAN}

(* Two requests, jobs or processes at once: which is which makes no difference.   *)
MCSymmetry == Permutations({r1, r2})
===============================================================================
