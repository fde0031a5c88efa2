------------------------------- MODULE WebServers ------------------------------
(* The servers the console knows and acts on: a file of entries that each worker   *)
(* reads, changes and writes as a whole, and the commands sent to the machines.     *)
(* A handler never yields, so a worker runs one at a time; the workers are apart.   *)
EXTENDS FiniteSets

CONSTANTS
  Uvicorns,      \* worker processes
  Machines,      \* addresses
  ServerIds      \* ids, as many as exist at once

VARIABLES
  inventory,     \* [torn, entries]: the file, truncated while a worker writes it
  power,         \* machine -> on or off
  webTask,       \* worker -> its handler: the entries to write, or the command to send
  webReply       \* the last answer about a machine

webVars == <<inventory, power, webTask, webReply>>

Actions == {"start", "stop", "restart"}
Entry == [id : ServerIds, ip : Machines, type : {"ssh", "libvirt"}]
Self == [id |-> "self-mc2-host", ip |-> "127.0.0.1", type |-> "local"]
NoEntry == [id |-> "none", ip |-> "none", type |-> "none"]
NoWebTask == [pc |-> "idle", entries |-> {}, entry |-> NoEntry, action |-> "none"]

WebInit ==
  /\ inventory = [torn |-> FALSE, entries |-> {}]
  /\ power \in [Machines -> {"on"}]
  /\ webTask = [p \in Uvicorns |-> NoWebTask]
  /\ webReply = [of |-> "nothing", type |-> "none", ok |-> FALSE, so |-> FALSE]

(* A file that does not parse is an empty registry.                                *)
Load == IF inventory.torn THEN {} ELSE inventory.entries

Starts(p, record) ==
  /\ webTask[p] = NoWebTask
  /\ webTask' = [webTask EXCEPT ![p] = record]

(* Slip of Clash: only its own id would make an entry a duplicate.                  *)
ClashById(entry, s) == s.id = entry.id
Clash(entry, s) == s.ip = entry.ip /\ s.type = entry.type

AddServer(p) ==
  \E entry \in Entry :
    /\ ~ \E s \in Load : Clash(entry, s)
    /\ \A s \in inventory.entries \cup UNION {webTask[q].entries : q \in Uvicorns} : s.id # entry.id
    /\ Starts(p, [NoWebTask EXCEPT !.pc = "save", !.entries = Load \cup {entry}])
    /\ UNCHANGED <<inventory, power, webReply>>

RemoveServer(p) ==
  \E s \in Load :
    /\ Starts(p, [NoWebTask EXCEPT !.pc = "save", !.entries = Load \ {s}])
    /\ UNCHANGED <<inventory, power, webReply>>

(* _save_registry truncates the file, then fills it; a worker may die in between.    *)
Save(p) ==
  /\ \/ /\ webTask[p].pc = "save"
        /\ inventory' = [inventory EXCEPT !.torn = TRUE]
        /\ webTask' = [webTask EXCEPT ![p].pc = "fill"]
     \/ /\ webTask[p].pc = "fill"
        /\ inventory' = [torn |-> FALSE, entries |-> webTask[p].entries]
        /\ webTask' = [webTask EXCEPT ![p] = NoWebTask]
  /\ UNCHANGED <<power, webReply>>

WorkerDies(p) ==
  /\ webTask[p] # NoWebTask
  /\ webTask' = [webTask EXCEPT ![p] = NoWebTask]
  /\ UNCHANGED <<inventory, power, webReply>>

(* _find_server, then _execute_action: ssh has no start, libvirt all three, and the   *)
(* entry of the host itself goes the way of ssh.                                    *)
ServerAction(p) ==
  \E entry \in Load \cup {Self}, action \in Actions :
    /\ action = "start" => entry.type = "libvirt"
    /\ Starts(p, [NoWebTask EXCEPT !.pc = "run", !.entry = entry, !.action = action])
    /\ UNCHANGED <<inventory, power, webReply>>

(* Slip of Succeeded: what ssh says of a machine going down is taken of virsh too.    *)
SucceededLoose(type, rc) == rc \in {"0", "255"}
(* 255 is what ssh exits with when the machine goes down under it, and when it never   *)
(* reached it.                                                                    *)
Succeeded(type, rc) == rc = "0" \/ (type # "libvirt" /\ rc = "255")

(* Whether the machine took the command, by what the command exited with: of one that *)
(* was cut off, or ended by the machine, nobody knows.                              *)
MayHaveRun(entry, rc) ==
  IF entry = Self \/ rc = "1" THEN {FALSE}
  ELSE CASE rc = "0"   -> {TRUE}
         [] rc = "255" -> IF entry.type = "ssh" /\ power[entry.ip] = "on" THEN BOOLEAN ELSE {FALSE}
         [] OTHER      -> BOOLEAN

ExecuteAction(p) ==
  LET entry == webTask[p].entry
      action == webTask[p].action IN
  /\ webTask[p].pc = "run"
  /\ \E rc \in {"0", "1", "124", "255"} : \E ran \in MayHaveRun(entry, rc) :
       /\ rc = "0" => entry # Self
       /\ ran => (power[entry.ip] = "off") = (action = "start")
       /\ power' = IF ran THEN [power EXCEPT ![entry.ip] = IF action = "stop" THEN "off" ELSE "on"]
                   ELSE power
       /\ webReply' = [of |-> "action", type |-> entry.type, ok |-> Succeeded(entry.type, rc), so |-> ran]
  /\ webTask' = [webTask EXCEPT ![p] = NoWebTask]
  /\ UNCHANGED inventory

(* A ping, or "echo ok" through ssh, gets an answer only of a machine that is on; it   *)
(* may be lost.                                                                    *)
Answers(entry) == IF power[entry.ip] = "on" THEN BOOLEAN ELSE {FALSE}
PingCheck(entry) == Answers(entry)
SshCheck(entry) == Answers(entry)

(* server_status: a guest is up if virsh says so, any other machine if both checks     *)
(* say so; the host itself always, and is not asked.  server_vhosts asks ssh alone.  *)
ServerStatus(p) ==
  \E entry \in Load \cup {Self} :
    /\ webTask[p] = NoWebTask
    /\ \E reached \in IF entry = Self THEN {TRUE} ELSE PingCheck(entry) \cup SshCheck(entry) :
         webReply' = [of |-> "status", type |-> "none", ok |-> reached,
                      so |-> entry = Self \/ power[entry.ip] = "on"]
    /\ UNCHANGED <<inventory, power, webTask>>

WebNext ==
  \E p \in Uvicorns :
    AddServer(p) \/ RemoveServer(p) \/ Save(p) \/ WorkerDies(p)
      \/ ServerAction(p) \/ ExecuteAction(p) \/ ServerStatus(p)

WebSpec == WebInit /\ [][WebNext]_webVars

-------------------------------------------------------------------------------
(* File, machines and tasks keep their types.                                      *)
WebTypeOK ==
  /\ inventory.torn \in BOOLEAN /\ inventory.entries \subseteq Entry
  /\ power \in [Machines -> {"on", "off"}]
  /\ \A p \in Uvicorns : webTask[p].pc \in {"idle", "save", "fill", "run"}
  /\ webReply.of \in {"nothing", "action", "status"}

(* However workers overlap and writes are cut off, a machine is registered once for   *)
(* each way to reach it; and what was said done to a guest, libvirt has done.         *)
ActedAsSaid ==
  /\ \A s, other \in inventory.entries : s # other => s.id # other.id /\ ~(s.ip = other.ip /\ s.type = other.type)
  /\ webReply.of = "action" /\ webReply.type = "libvirt" /\ webReply.ok => webReply.so
==============================================================================
