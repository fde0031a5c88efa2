------------------------------ MODULE HostServices -----------------------------
(* What the host console does to the services, users and mounts of the host by    *)
(* running a command for each: nothing is kept between two requests, so that an     *)
(* advice may be followed when the unit it was given for is another already, and a  *)
(* request of two commands may stop after the first.                              *)
EXTENDS FiniteSets

CONSTANTS
  Units,
  HostUsers,
  MountPoints,        \* mount points
  Root,
  Protected     \* the paths disk_unmount refuses

ASSUME ServicesAssumption == Root \in Protected /\ Protected \subseteq MountPoints

VARIABLES
  unit,         \* unit -> [loaded, fcgiwrap, enabled, state, why]
  advice,       \* unit -> what the last analysis recommended for it
  login,        \* user -> absent, made without a password, or usable
  mounted       \* path -> mounted, or the spelling under which it was unmounted
servicesVars == <<unit, advice, login, mounted>>

ServicesInit ==
  /\ unit \in [Units -> [loaded : {TRUE}, fcgiwrap : BOOLEAN, enabled : {TRUE},
                         state : {"active"}, why : {"none"}]]
  /\ advice = [u \in Units |-> "none"]
  /\ login = [h \in HostUsers |-> "absent"]
  /\ mounted = [p \in MountPoints |-> "mounted"]

Becomes(u, field, value) == unit' = [unit EXCEPT ![u] = [@ EXCEPT ![field] = value]]

-------------------------------------------------------------------------------
(* The system: a unit fails, for itself or for another, its file is deleted.       *)
Fails(u) ==
  /\ unit[u].state = "active"
  /\ \E why \in {"dependency", "error"} :
       unit' = [unit EXCEPT ![u] = [@ EXCEPT !.state = "failed", !.why = why]]
  /\ UNCHANGED <<advice, login, mounted>>

Uninstalled(u) ==
  /\ Becomes(u, "loaded", FALSE)
  /\ UNCHANGED <<advice, login, mounted>>

(* service_action: start and restart, stop, enable and disable.                    *)
ServiceAction(u, action) ==
  /\ unit[u].loaded
  /\ CASE action = "restart" -> Becomes(u, "state", "active")
       [] action = "stop"    -> Becomes(u, "state", "inactive")
       [] action = "enable"  -> Becomes(u, "enabled", TRUE)
       [] action = "disable" -> Becomes(u, "enabled", FALSE)
  /\ UNCHANGED <<advice, login, mounted>>

(* _classify_failed_unit: a wrapper counts as superseded whether or not a pool      *)
(* serves its site, and whatever its journal says.                                *)
Classified(row) ==
  IF ~row.loaded THEN "reset-failed"
  ELSE IF row.fcgiwrap THEN "disable-and-reset"
  ELSE IF row.why = "dependency" THEN "investigate" ELSE "restart"

SafeToAutofix == {"reset-failed", "disable-and-reset"}

FailedAnalysis ==
  /\ advice' = [u \in Units |-> IF unit[u].state = "failed" THEN Classified(unit[u]) ELSE "none"]
  /\ UNCHANGED <<unit, login, mounted>>

(* fix_failed_service does what it is asked, analysed or not; a disable that fails  *)
(* is passed over.  Neither command stops a unit.                                 *)
FixFailed(u, action) ==
  LET cleared == IF unit[u].state = "failed" THEN "inactive" ELSE unit[u].state IN
  /\ \E enabled \in {unit[u].enabled, FALSE} :
       /\ action = "reset-failed" \/ ~unit[u].loaded => enabled = unit[u].enabled
       /\ unit' = [unit EXCEPT ![u] = [@ EXCEPT !.state = cleared, !.enabled = enabled]]
  /\ UNCHANGED <<advice, login, mounted>>

-------------------------------------------------------------------------------
(* create_user: the account, then its password; there is no way back from the first. *)
CreateUser(h) ==
  /\ login[h] = "absent"
  /\ \E outcome \in {"made", "usable"} : login' = [login EXCEPT ![h] = outcome]
  /\ UNCHANGED <<unit, advice, mounted>>

DeleteUser(h) ==
  /\ login[h] # "absent"
  /\ login' = [login EXCEPT ![h] = "absent"]
  /\ UNCHANGED <<unit, advice, mounted>>

(* disk_mount and disk_unmount: the path is compared as it is spelled, without its   *)
(* last slashes, which leaves nothing of the root's; mount itself reads "/boot/."    *)
(* as "/boot".                                                                   *)
Spellings == {"plain", "slash", "dot"}
RefusedPlain(path, spelling) == path \in Protected /\ spelling = "plain" /\ path # Root
Refused(path, spelling) == path \in Protected \ {Root} /\ spelling # "dot"

DiskMount(p) ==
  /\ mounted[p] # "mounted"
  /\ mounted' = [mounted EXCEPT ![p] = "mounted"]
  /\ UNCHANGED <<unit, advice, login>>

DiskUnmount(p, spelling) ==
  /\ mounted[p] = "mounted" /\ ~Refused(p, spelling)
  /\ mounted' = [mounted EXCEPT ![p] = spelling]
  /\ UNCHANGED <<unit, advice, login>>

ServicesNext ==
  \/ \E u \in Units :
       \/ Fails(u) \/ Uninstalled(u)
       \/ \E action \in {"restart", "stop", "enable", "disable"} : ServiceAction(u, action)
       \/ \E action \in SafeToAutofix : FixFailed(u, action)
  \/ FailedAnalysis
  \/ \E h \in HostUsers : CreateUser(h) \/ DeleteUser(h)
  \/ \E p \in MountPoints : DiskMount(p) \/ \E spelling \in Spellings : DiskUnmount(p, spelling)

ServicesSpec == ServicesInit /\ [][ServicesNext]_servicesVars

-------------------------------------------------------------------------------
ServicesTypeOK ==
  /\ unit \in [Units -> [loaded : BOOLEAN, fcgiwrap : BOOLEAN, enabled : BOOLEAN,
                         state : {"active", "inactive", "failed"},
                         why : {"none", "dependency", "error"}]]
  /\ advice \in [Units -> {"none", "investigate", "restart"} \union SafeToAutofix]
  /\ login \in [HostUsers -> {"absent", "made", "usable"}]
  /\ mounted \in [MountPoints -> {"mounted"} \union Spellings]

(* A protected path other than the root is only ever unmounted under a spelling with *)
(* a dot, and the safe advice is for units that are gone or wrappers, even when it   *)
(* is followed late.                                                             *)
ProtectedStay ==
  /\ \A p \in Protected \ {Root} : mounted[p] \in {"mounted", "dot"}
  /\ \A u \in Units : advice[u] \in SafeToAutofix => unit[u].fcgiwrap \/ ~unit[u].loaded

-------------------------------------------------------------------------------
(* The network of the host as the console changes it: an interface, its address     *)
(* and the default route, the restart of networking, and the nftables counters      *)
(* kept per address.  A handler blocks its process from end to end; what comes in   *)
(* between is the network itself.                                                *)
CONSTANTS
  HostAddresses,  \* addresses an administrator or a lease may give the interface
  NoAddress

ASSUME NetworkAssumption == NoAddress \notin HostAddresses

VARIABLES
  iface,        \* [up, address, route]
  accounted,    \* _ipacct_ips: the addresses the table was last set up for
  table,        \* addresses with a counter rule, or NoAddress when there is no table
  cache,        \* [data, fresh]
  answer        \* the last answer: addresses the host had, those counted, from the cache?

networkVars == <<iface, accounted, table, cache, answer>>

Addresses(i) == {i.address} \ {NoAddress}

NetworkInit ==
  /\ iface \in [up : {TRUE}, address : HostAddresses, route : {TRUE}]
  /\ accounted = {} /\ table = NoAddress
  /\ cache = [data |-> {}, fresh |-> FALSE]
  /\ answer = [had |-> {}, counted |-> {}, cached |-> TRUE]

-------------------------------------------------------------------------------
(* A link that goes down takes the routes through it along.                       *)
IfaceLink(action) ==
  /\ iface' = [iface EXCEPT !.up = (action = "up"), !.route = @ /\ action = "up"]
  /\ UNCHANGED <<accounted, table, cache, answer>>

(* iface_ip: the addresses are flushed first, so that a request that fails leaves  *)
(* none, and with the address the route through it is gone.  A static request may  *)
(* bring a gateway, which is only set on a link that is up, and not checked.       *)
IfaceIP ==
  /\ \E address \in HostAddresses \union {NoAddress}, route \in BOOLEAN :
       /\ route => iface.up /\ address # NoAddress
       /\ iface' = [iface EXCEPT !.address = address, !.route = route]
  /\ UNCHANGED <<accounted, table, cache, answer>>

(* networkd, networking or NetworkManager set up what their own files say; when     *)
(* none is active nothing happens.                                               *)
RestartNetworking ==
  /\ \E address \in HostAddresses \union {NoAddress} :
       iface' = [up |-> TRUE, address |-> address, route |-> address # NoAddress]
  /\ UNCHANGED <<accounted, table, cache, answer>>

CachePasses ==
  /\ cache.fresh
  /\ cache' = [cache EXCEPT !.fresh = FALSE]
  /\ UNCHANGED <<iface, accounted, table, answer>>

-------------------------------------------------------------------------------
SetUpOnce(current) == accounted = {} /\ current # {}

(* _get_ipacct sets its table up anew whenever the addresses are others.           *)
MustSetUp(current) == current # accounted

(* nft may refuse any of the calls, which nobody looks at; a table that is missing  *)
(* is read as no counters.                                                        *)
Rules(current) == {NoAddress} \union SUBSET current
CountedBytes(rules) == IF rules = NoAddress THEN {} ELSE rules

GetSysinfo ==
  LET current == Addresses(iface) IN
  /\ IF MustSetUp(current)
     THEN accounted' = current /\ table' \in Rules(current)
     ELSE UNCHANGED <<accounted, table>>
  /\ IF cache.fresh
     THEN /\ answer' = [had |-> current, counted |-> cache.data, cached |-> TRUE]
          /\ UNCHANGED cache
     ELSE /\ answer' = [had |-> current, counted |-> CountedBytes(table'), cached |-> FALSE]
          /\ cache' = [data |-> CountedBytes(table'), fresh |-> TRUE]
  /\ UNCHANGED iface

(* Whoever loads another ruleset on the host removes the table.                    *)
RulesetReloaded ==
  /\ table' = NoAddress
  /\ UNCHANGED <<iface, accounted, cache, answer>>

NetworkNext ==
  \/ \E action \in {"up", "down"} : IfaceLink(action)
  \/ IfaceIP \/ RestartNetworking \/ CachePasses \/ GetSysinfo \/ RulesetReloaded

NetworkSpec == NetworkInit /\ [][NetworkNext]_networkVars

-------------------------------------------------------------------------------
NetworkTypeOK ==
  /\ iface \in [up : BOOLEAN, address : HostAddresses \union {NoAddress}, route : BOOLEAN]
  /\ iface.route => iface.up /\ iface.address # NoAddress
  /\ accounted \subseteq HostAddresses
  /\ table \in {NoAddress} \union SUBSET HostAddresses
  /\ cache \in [data : SUBSET HostAddresses, fresh : BOOLEAN]

(* Counters are shown for no address the host has not got, except from a cache     *)
(* that has not run out: the table never outlives the addresses it was made for.   *)
CountedAreHere == ~answer.cached => answer.counted \subseteq answer.had
===============================================================================
