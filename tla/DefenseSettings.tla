---------------------------- MODULE DefenseSettings ----------------------------
(* The settings of the host's defence, its port rules and the retirement of the old  *)
(* firewall: requests that commit one row after another and then note themselves in   *)
(* the audit trail.  No key is unique but the random ids, and any request may end      *)
(* after any commit.                                                               *)
EXTENDS Naturals, FiniteSets, FiniteSetsExt

CONSTANTS
  DefenseTasks,   \* requests in progress at once
  SettingKeys,
  SettingIds,     \* ids a row may draw: numbers
  MaxAsked        \* bound on the requests that begin

ASSUME DefenseAssumption == SettingIds \subseteq Nat \ {0} /\ MaxAsked \in Nat

VARIABLES
  settings,       \* rows [key, id, by] of frothiq_nft_settings, by the request of their value
  portRules,      \* requests whose port rule is there
  trail,          \* requests the audit trail tells of
  defence,        \* task -> the request it handles
  asked,          \* how many requests have begun
  done,           \* requests whose every change is committed
  over,           \* <<key, request>>: another that began after it was done has replaced it
  scripts         \* [running, finished]: requests whose retirement script runs, has succeeded

defenseVars == <<settings, portRules, trail, defence, asked, done, over, scripts>>

NoDefense == [pc |-> "idle", n |-> 0, todo |-> {}, key |-> "none", id |-> 0, before |-> {}]

DefenseInit ==
  /\ settings = {} /\ portRules = {} /\ trail = {} /\ asked = 0 /\ done = {} /\ over = {}
  /\ defence = [t \in DefenseTasks |-> NoDefense]
  /\ scripts = [running |-> {}, finished |-> {}]

SettingRows(k) == {row \in settings : row.key = k}
IdsOf(k) == {row.id : row \in SettingRows(k)}

(* The slip of GetSetting: a reader that takes the newest draw.                        *)
GetSettingLast(k) == (CHOOSE row \in SettingRows(k) : row.id = Max(IdsOf(k))).by
(* _get_setting takes the first row there is, as _set_setting does.                   *)
GetSetting(k) == (CHOOSE row \in SettingRows(k) : row.id = Min(IdsOf(k))).by

Begin(t, record) ==
  /\ defence[t] = NoDefense /\ asked < MaxAsked
  /\ asked' = asked + 1
  /\ defence' = [defence EXCEPT ![t] = [record EXCEPT !.n = asked + 1, !.before = done]]

UpdateSettings(t) ==
  \E keys \in SUBSET SettingKeys :
    /\ Begin(t, [NoDefense EXCEPT !.pc = IF keys = {} THEN "audit" ELSE "read", !.todo = keys])
    /\ done' = IF keys = {} THEN done \cup {asked + 1} ELSE done
    /\ UNCHANGED <<settings, portRules, trail, over, scripts>>

FindSetting(t) ==
  /\ defence[t].pc = "read"
  /\ \E k \in defence[t].todo :
       defence' = [defence EXCEPT ![t] =
         [@ EXCEPT !.pc = "write", !.key = k, !.id = IF SettingRows(k) = {} THEN 0 ELSE Min(IdsOf(k))]]
  /\ UNCHANGED <<settings, portRules, trail, asked, done, over, scripts>>

(* The row it found is updated; if it found none, another is inserted.                 *)
SetSetting(t) ==
  LET job == defence[t]
      left == job.todo \ {job.key}
  IN
  /\ job.pc = "write"
  /\ \E id \in IF job.id # 0 THEN {job.id} ELSE SettingIds \ IdsOf(job.key) :
       settings' = {row \in settings : row.key # job.key \/ row.id # id}
                     \cup {[key |-> job.key, id |-> id, by |-> job.n]}
  /\ over' = over \cup ({job.key} \X job.before)
  /\ defence' = [defence EXCEPT ![t].todo = left, ![t].pc = IF left = {} THEN "audit" ELSE "read"]
  /\ done' = IF left = {} THEN done \cup {job.n} ELSE done
  /\ UNCHANGED <<portRules, trail, asked, scripts>>

PortRuleBegin(t) ==
  /\ \E pc \in {"add", "remove"} : \E rule \in IF pc = "add" THEN {0} ELSE portRules :
       Begin(t, [NoDefense EXCEPT !.pc = pc, !.id = rule])
  /\ UNCHANGED <<settings, portRules, trail, done, over, scripts>>

(* A rule another removed meanwhile is removed once more.                             *)
PortRuleCommit(t) ==
  LET job == defence[t] IN
  /\ job.pc \in {"add", "remove"}
  /\ portRules' = IF job.pc = "add" THEN portRules \cup {job.n} ELSE portRules \ {job.id}
  /\ defence' = [defence EXCEPT ![t].pc = "audit"]
  /\ done' = done \cup {job.n}
  /\ UNCHANGED <<settings, trail, asked, over, scripts>>

Audit(t) ==
  /\ defence[t].pc = "audit"
  /\ trail' = trail \cup {defence[t].n}
  /\ defence' = [defence EXCEPT ![t] = NoDefense]
  /\ UNCHANGED <<settings, portRules, asked, done, over, scripts>>

-------------------------------------------------------------------------------
(* run_decommission starts the script whatever the gates say, and waits fifteen       *)
(* seconds; the script it no longer waits for goes on.                              *)
RunDecommission(t) ==
  /\ Begin(t, [NoDefense EXCEPT !.pc = "script"])
  /\ scripts' = [scripts EXCEPT !.running = @ \cup {asked + 1}]
  /\ UNCHANGED <<settings, portRules, trail, done, over>>

ScriptEnds ==
  /\ \E n \in scripts.running, finished \in BOOLEAN :
       scripts' = [running |-> scripts.running \ {n},
                   finished |-> scripts.finished \cup (IF finished THEN {n} ELSE {})]
  /\ UNCHANGED <<settings, portRules, trail, defence, asked, done, over>>

(* The slip of ReturnsZero: a script that is not waited for is not one that failed.     *)
ReturnsZeroOrWaits(n) == n \in scripts.finished \cup scripts.running
ReturnsZero(n) == n \in scripts.finished

NoteDecommission(t) ==
  /\ defence[t].pc = "script"
  /\ IF ReturnsZero(defence[t].n)
     THEN /\ done' = done \cup {defence[t].n}
          /\ defence' = [defence EXCEPT ![t].pc = "audit"]
     ELSE /\ defence' = [defence EXCEPT ![t] = NoDefense]
          /\ UNCHANGED done
  /\ UNCHANGED <<settings, portRules, trail, asked, over, scripts>>

RequestEnds(t) ==
  /\ defence[t] # NoDefense
  /\ defence' = [defence EXCEPT ![t] = NoDefense]
  /\ UNCHANGED <<settings, portRules, trail, asked, done, over, scripts>>

DefenseNext ==
  \/ ScriptEnds
  \/ \E t \in DefenseTasks :
       \/ UpdateSettings(t) \/ FindSetting(t) \/ SetSetting(t)
       \/ PortRuleBegin(t) \/ PortRuleCommit(t) \/ Audit(t)
       \/ RunDecommission(t) \/ NoteDecommission(t) \/ RequestEnds(t)

DefenseSpec == DefenseInit /\ [][DefenseNext]_defenseVars

-------------------------------------------------------------------------------
(* Tables, trail and tasks keep their types.                                        *)
DefenseTypeOK ==
  /\ settings \subseteq [key : SettingKeys, id : SettingIds, by : 1 .. MaxAsked]
  /\ portRules \cup trail \cup done \cup scripts.running \cup scripts.finished \subseteq 1 .. asked
  /\ asked \in 0 .. MaxAsked
  /\ over \subseteq SettingKeys \X (1 .. MaxAsked)
  /\ \A t \in DefenseTasks :
       defence[t].pc \in {"idle", "read", "write", "add", "remove", "audit", "script"}

(* Though first updates may leave two rows of a setting, none reads a value after one   *)
(* that was asked for later has been committed over it; and the trail tells of no       *)
(* change, and of no retirement, that is not complete.                              *)
LatestIsRead ==
  /\ \A k \in SettingKeys : SettingRows(k) # {} => <<k, GetSetting(k)>> \notin over
  /\ trail \subseteq done /\ trail \cap scripts.running = {}
===============================================================================
