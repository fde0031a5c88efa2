----------------------------- MODULE ConfigEditor ------------------------------
(* The editor of a service's configuration: single settings are written into the  *)
(* lines of the file, the whole file may be replaced, and the service is told to  *)
(* reload or, for the database, restarted.  Nothing but BIND's options is checked  *)
(* before it is written.                                                         *)
EXTENDS Naturals, Sequences

CONSTANTS
  Directives,     \* names of settings
  Values,
  NoValue,        \* the service's own default
  ConfigFiles   \* what the file may be at first: sequences of lines

ASSUME ConfigAssumption ==
  /\ NoValue \notin Values
  /\ ConfigFiles \subseteq Seq([key : Directives, active : BOOLEAN, value : Values])

VARIABLES
  file,      \* lines, of which some are commented out
  sound,     \* what was written by hand, if anything, is accepted by the service
  effective, \* setting -> value the service runs with
  alive,     \* the service runs
  asked      \* setting -> the last value the editor reported as written

configVars == <<file, sound, effective, alive, asked>>

(* The line of a setting that counts is the last one that is active.             *)
ValueIn(lines, key) ==
  LET at == {i \in DOMAIN lines : lines[i].key = key /\ lines[i].active}
  IN  IF at = {} THEN NoValue ELSE lines[CHOOSE i \in at : \A j \in at : j <= i].value
Reading(lines) == [key \in Directives |-> ValueIn(lines, key)]

ConfigInit ==
  /\ file \in ConfigFiles
  /\ sound = TRUE /\ alive = TRUE
  /\ effective = Reading(file)
  /\ asked = [key \in Directives |-> NoValue]

(* The first line that names the setting, be it commented out, becomes an active   *)
(* line with the value; a setting that no line names gets one at the end.        *)
FirstLine(lines, key, i) ==
  lines[i].key = key /\ \A j \in 1 .. i - 1 : lines[j].key # key
WithValueCommented(line, v) == [line EXCEPT !.value = v]
WithValue(line, v) == [line EXCEPT !.value = v, !.active = TRUE]

UpdateConfigLines(lines, key, v) ==
  IF \E i \in DOMAIN lines : lines[i].key = key
  THEN [i \in DOMAIN lines |->
          IF FirstLine(lines, key, i) THEN WithValue(lines[i], v) ELSE lines[i]]
  ELSE Append(lines, [key |-> key, active |-> TRUE, value |-> v])

(* A reload of a file that is not sound leaves the service as it is; a restart     *)
(* ends it.                                                                       *)
Reload(lines, ok, restart) ==
  IF ok THEN effective' = Reading(lines) /\ alive' = TRUE
  ELSE UNCHANGED effective /\ alive' = (alive /\ ~restart)

PostConfig(key, v, reload, restart) ==
  /\ file' = UpdateConfigLines(file, key, v)
  /\ asked' = [asked EXCEPT ![key] = v]
  /\ IF reload THEN Reload(file', sound, restart) ELSE UNCHANGED <<effective, alive>>
  /\ UNCHANGED sound

PutConfigRaw(lines, ok, reload, restart) ==
  /\ file' = lines /\ sound' = ok
  /\ asked' = [key \in Directives |-> NoValue]
  /\ IF reload THEN Reload(lines, ok, restart) ELSE UNCHANGED <<effective, alive>>

(* save_bind9_options: the file is built anew and checked first.                  *)
SaveBind9Options(lines, reload) ==
  /\ file' = lines /\ sound' = TRUE
  /\ asked' = Reading(lines)
  /\ IF reload THEN Reload(lines, TRUE, FALSE) ELSE UNCHANGED <<effective, alive>>

ConfigNext ==
  \E reload, restart \in BOOLEAN :
    \/ \E key \in Directives, v \in Values : PostConfig(key, v, reload, restart)
    \/ \E lines \in ConfigFiles :
         \/ \E ok \in BOOLEAN : PutConfigRaw(lines, ok, reload, restart)
         \/ SaveBind9Options(lines, reload)

ConfigSpec == ConfigInit /\ [][ConfigNext]_configVars

-------------------------------------------------------------------------------
ConfigTypeOK ==
  /\ file \in Seq([key : Directives, active : BOOLEAN, value : Values])
  /\ sound \in BOOLEAN /\ alive \in BOOLEAN
  /\ effective \in [Directives -> Values \union {NoValue}]
  /\ asked \in [Directives -> Values \union {NoValue}]

(* A value that the editor reports as written is the one the service would read,   *)
(* unless the file has an active line for the setting after the line it changed.   *)
Shadowed(key) ==
  \E i, j \in DOMAIN file :
    i < j /\ file[i].key = key /\ file[j].key = key /\ file[j].active
AskedIsRead ==
  \A key \in Directives :
    asked[key] # NoValue /\ ~Shadowed(key) => ValueIn(file, key) = asked[key]
-------------------------------------------------------------------------------
(* The settings of the Frappe bench: common_site_config.json, which the console      *)
(* reads, merges and writes through tee, and the scheduler of a site, switched by     *)
(* the bench command and shown from the site's file over the common one.  No handler  *)
(* yields, but there are several processes.                                          *)
CONSTANTS
  BenchEditors,    \* worker processes
  Switches,        \* what the scheduler is asked to do, of enable, disable, resume, pause
  SharedKeys       \* the settings of the common file that are changed

ASSUME BenchAssumption == "none" \notin Switches

VARIABLES
  common,       \* the common file; an empty or broken one reads as NoSettings
  siteConfig,   \* the file of the site
  benchTask,    \* worker -> the request it handles
  schedulerShown \* the last answer to a switch, and whether no other switch overlapped it

benchVars == <<common, siteConfig, benchTask, schedulerShown>>

SchedulerKeys == {"enable_scheduler", "pause_scheduler"}
SiteSettings == [SchedulerKeys -> {"unset", "0", "1"}]
NoSettings == [key \in SchedulerKeys |-> "unset"]
NoBenchTask == [pc |-> "idle", action |-> "none", new |-> NoSettings, sure |-> TRUE]

BenchInit ==
  /\ common = NoSettings /\ siteConfig = NoSettings
  /\ benchTask = [p \in BenchEditors |-> NoBenchTask]
  /\ schedulerShown = [action |-> "none", status |-> "enabled", sure |-> FALSE]

(* update_common_config: the settings sent go over those read.                       *)
UpdateCommon(p) ==
  \E key \in SharedKeys, v \in {"0", "1"} :
    /\ benchTask[p] = NoBenchTask
    /\ benchTask' = [benchTask EXCEPT ![p] =
         [NoBenchTask EXCEPT !.pc = "open", !.new = [common EXCEPT ![key] = v]]]
    /\ UNCHANGED <<common, siteConfig, schedulerShown>>

(* tee empties the file before it fills it; it may be cut off in between.             *)
TeeOpens(p) ==
  /\ benchTask[p].pc = "open"
  /\ common' = NoSettings
  /\ benchTask' = [benchTask EXCEPT ![p].pc = "fill"]
  /\ UNCHANGED <<siteConfig, schedulerShown>>

TeeFills(p) ==
  /\ benchTask[p].pc = "fill"
  /\ common' = benchTask[p].new
  /\ benchTask' = [benchTask EXCEPT ![p] = NoBenchTask]
  /\ UNCHANGED <<siteConfig, schedulerShown>>

(* scheduler_action.  Two switches that overlap cannot vouch for what they show.      *)
SwitchScheduler(p) ==
  \E action \in Switches :
    LET others == {q \in BenchEditors : benchTask[q].action # "none"} IN
    /\ benchTask[p] = NoBenchTask
    /\ benchTask' = [q \in BenchEditors |->
         IF q = p THEN [NoBenchTask EXCEPT !.pc = "bench", !.action = action, !.sure = others = {}]
         ELSE IF q \in others THEN [benchTask[q] EXCEPT !.sure = FALSE] ELSE benchTask[q]]
    /\ UNCHANGED <<common, siteConfig, schedulerShown>>

(* bench keeps a pause in the site's file.  Whether the scheduler is enabled it may    *)
(* keep elsewhere.                                                                  *)
BenchWrites(action) ==
  CASE action = "pause"  -> {[siteConfig EXCEPT !["pause_scheduler"] = "1"]}
    [] action = "resume" -> {[siteConfig EXCEPT !["pause_scheduler"] = "0"]}
    [] OTHER -> {siteConfig, [siteConfig EXCEPT !["enable_scheduler"] =
                                IF action = "enable" THEN "1" ELSE "0"]}

RunBench(p) ==
  /\ benchTask[p].pc = "bench"
  /\ siteConfig' \in BenchWrites(benchTask[p].action)
  /\ benchTask' = [benchTask EXCEPT ![p].pc = "common"]
  /\ UNCHANGED <<common, schedulerShown>>

ReadCommon(p) ==
  /\ benchTask[p].pc = "common"
  /\ benchTask' = [benchTask EXCEPT ![p].pc = "show", ![p].new = common]
  /\ UNCHANGED <<common, siteConfig, schedulerShown>>

(* Slip of Resolve: the common file wins.                                           *)
ResolveCommonFirst(key, site, shared) == IF shared[key] # "unset" THEN shared[key] ELSE site[key]
Resolve(key, site, shared) == IF site[key] # "unset" THEN site[key] ELSE shared[key]

SchedulerStatus(site, shared) ==
  IF Resolve("enable_scheduler", site, shared) = "0" THEN "disabled"
  ELSE IF Resolve("pause_scheduler", site, shared) = "1" THEN "paused" ELSE "enabled"

ShowScheduler(p) ==
  /\ benchTask[p].pc = "show"
  /\ schedulerShown' = [action |-> benchTask[p].action, sure |-> benchTask[p].sure,
                        status |-> SchedulerStatus(siteConfig, benchTask[p].new)]
  /\ benchTask' = [benchTask EXCEPT ![p] = NoBenchTask]
  /\ UNCHANGED <<common, siteConfig>>

(* A command fails or is cut off at its deadline, whatever it has done by then.        *)
BenchFails(p) ==
  /\ benchTask[p].pc \in {"open", "fill", "bench"}
  /\ siteConfig' \in {siteConfig} \union
       (IF benchTask[p].pc = "bench" THEN BenchWrites(benchTask[p].action) ELSE {})
  /\ benchTask' = [benchTask EXCEPT ![p] = NoBenchTask]
  /\ UNCHANGED <<common, schedulerShown>>

BenchNext ==
  \E p \in BenchEditors :
    \/ UpdateCommon(p) \/ TeeOpens(p) \/ TeeFills(p)
    \/ SwitchScheduler(p) \/ RunBench(p) \/ ReadCommon(p) \/ ShowScheduler(p)
    \/ BenchFails(p)

BenchSpec == BenchInit /\ [][BenchNext]_benchVars

-------------------------------------------------------------------------------
BenchTypeOK ==
  /\ common \in SiteSettings
  /\ siteConfig \in SiteSettings
  /\ benchTask \in [BenchEditors -> [pc : {"idle", "open", "fill", "bench", "common", "show"},
                                     action : Switches \union {"none"},
                                     new : SiteSettings, sure : BOOLEAN]]

(* Whatever is written to the common file meanwhile, and even while it is empty, a    *)
(* switch that no other overlapped shows a paused scheduler never as enabled and one   *)
(* that was resumed never as paused.                                                *)
PauseIsShown ==
  schedulerShown.sure =>
    /\ schedulerShown.action = "pause" => schedulerShown.status # "enabled"
    /\ schedulerShown.action = "resume" => schedulerShown.status # "paused"
===============================================================================
