------------------------------ MODULE ZoneEditor -------------------------------
(* The editor of a DNS zone: the console loads the records with their serial, and *)
(* saves them with a serial computed from the one it sends; a secondary transfers *)
(* the zone when it sees a higher serial.                                         *)
EXTENDS Naturals

CONSTANTS
  Consoles,
  Texts,         \* contents of a zone
  MaxDay,        \* bound on the days that pass
  PerDay,        \* serials a day has: 100 in the code
  FirstSerials,  \* what the zone may have at first
  InName,        \* serials whose digits also stand in the name of the primary
  NotLoaded

ASSUME ZoneAssumption ==
  MaxDay \in Nat \ {0} /\ PerDay \in Nat \ {0} /\ FirstSerials \subseteq Nat /\ NotLoaded \notin Texts

VARIABLES
  day,
  zone,        \* [serial, text]: the file of the primary, as loaded by BIND
  secondary,   \* [serial, text]: what the secondary transferred last
  loaded,      \* console -> the zone it loaded, or NotLoaded
  spoiled      \* a save was made from an old copy, changed the name for the serial, or met
               \* a serial dated ahead

zoneVars == <<day, zone, secondary, loaded, spoiled>>

ZoneInit ==
  /\ day = 1
  /\ \E t \in Texts, n \in FirstSerials : zone = [serial |-> n, text |-> t]
  /\ secondary = zone
  /\ loaded = [c \in Consoles |-> NotLoaded]
  /\ spoiled = FALSE

(* Serials of ten digits are a date and a number: the one of today counts on, any *)
(* other, were it of a day to come, starts today's numbers; a shorter one is just *)
(* counted up.  The hundredth change of a day has eleven digits, which            *)
(* named-checkzone refuses.                                                       *)
Today == day * PerDay
IncrementToday(n) == Today
Increment(n) ==
  IF n \div PerDay = day THEN n + 1
  ELSE IF n >= PerDay THEN Today ELSE n + 1
TooLong(n) == n \div PerDay = day /\ (n + 1) % PerDay = 0

GetRecords(c) ==
  /\ loaded' = [loaded EXCEPT ![c] = zone]
  /\ UNCHANGED <<day, zone, secondary, spoiled>>

(* The new serial takes the place of the first text that looks like the old one.  *)
(* What fails the check is not written; a short serial stays short (bound).       *)
SaveRecords(c, t) ==
  /\ loaded[c] # NotLoaded
  /\ LET n == loaded[c].serial
         new == IF n \in InName THEN n ELSE Increment(n)
     IN  /\ n + 1 # PerDay /\ ~TooLong(n)
         /\ zone' = [serial |-> new, text |-> t]
         /\ spoiled' = (spoiled \/ n # zone.serial \/ n \in InName \/ n \div PerDay > day)
  /\ UNCHANGED <<day, secondary, loaded>>

Transfer ==
  /\ zone.serial > secondary.serial
  /\ secondary' = zone
  /\ UNCHANGED <<day, zone, loaded, spoiled>>

NextDay ==
  /\ day < MaxDay
  /\ day' = day + 1
  /\ UNCHANGED <<zone, secondary, loaded, spoiled>>

ZoneNext ==
  \/ \E c \in Consoles : GetRecords(c) \/ \E t \in Texts : SaveRecords(c, t)
  \/ Transfer \/ NextDay

ZoneSpec == ZoneInit /\ [][ZoneNext]_zoneVars

-------------------------------------------------------------------------------
ZoneTypeOK ==
  /\ day \in 1 .. MaxDay
  /\ zone \in [serial : Nat, text : Texts]
  /\ secondary \in [serial : Nat, text : Texts]
  /\ loaded \in [Consoles -> [serial : Nat, text : Texts] \union {NotLoaded}]
  /\ spoiled \in BOOLEAN

(* The console compares the serial the server at a notified address answers with the  *)
(* one rndc tells of the primary.                                                   *)
SoaSerial(copy) == copy.serial
InSync == SoaSerial(secondary) = SoaSerial(zone)

(* As long as no console saves over another's change, the serial is found where it *)
(* stands and it is not of a day to come, a secondary shown in sync with the       *)
(* primary has its records, and none is ahead of it.                             *)
SerialCoversChange ==
  ~spoiled => /\ InSync => secondary.text = zone.text
              /\ secondary.serial <= zone.serial
-------------------------------------------------------------------------------
(* BIND's own configuration: the options, written anew from a form that knows some of  *)
(* them, and the zones, in whose blocks the addresses to notify are replaced.  Both    *)
(* are checked, copied into place and reloaded; workers overlap.                      *)
CONSTANTS
  BindEditors,   \* worker processes
  NameZones,
  NotifyIps

VARIABLES
  options,       \* named.conf.options: its notify statement, and whether a form wrote
                 \* it: all that no form knows is gone then
  blocks,        \* zone -> its block in named.conf.local: the addresses of also-notify,
                 \* whether one stands in a comment, and whether the line after that counts
  named,         \* what BIND runs of the two
  bindTask,      \* worker -> the edit it makes
  told           \* the last answer to an edit of a zone: who it asked to be notified, who
                 \* BIND was told to notify then, and whether nothing came in between

bindVars == <<options, blocks, named, bindTask, told>>

Block == [ips : SUBSET NotifyIps, noted : BOOLEAN, next : BOOLEAN]
NoBindTask == [pc |-> "idle", file |-> "none", new |-> <<>>, zone |-> "none", ips |-> {}, sure |-> TRUE]

(* What BIND makes of a file without the statement is not what the form shows of it.  *)
Runs(notify) == IF notify = "absent" THEN "yes" ELSE notify
Shown(notify) == IF notify = "absent" THEN "no" ELSE notify

BindInit ==
  /\ options = [notify |-> "absent", formed |-> FALSE]
  /\ \E noted \in BOOLEAN :
       blocks = [z \in NameZones |-> [ips |-> {}, noted |-> noted, next |-> TRUE]]
  /\ named = [notify |-> Runs(options.notify), blocks |-> blocks]
  /\ bindTask = [p \in BindEditors |-> NoBindTask]
  /\ told = [ips |-> {}, got |-> {}, sure |-> FALSE]

(* Slip of BuildNamedOptions: what is shown when nothing is written is not written.     *)
BuildNonDefault(notify) ==
  [notify |-> IF notify = "no" THEN "absent" ELSE notify, formed |-> TRUE]
BuildNamedOptions(notify) == [notify |-> notify, formed |-> TRUE]

(* save_bind9_options: whatever the form has, or leaves as it was shown, is written,    *)
(* and all else the file had is gone.  A refused check ends it here.                  *)
SaveOptions(p) ==
  \E notify \in {Shown(options.notify), "yes", "no"} :
    /\ bindTask[p] = NoBindTask
    /\ bindTask' = [bindTask EXCEPT ![p] = [NoBindTask EXCEPT !.pc = "write", !.file = "options",
                                                              !.new = BuildNamedOptions(notify)]]
    /\ UNCHANGED <<options, blocks, named, told>>

(* Slip of SetNotify: the new addresses besides the old.                            *)
SetNotifyBeside(block, ips) == [block EXCEPT !.ips = @ \cup ips]

(* Every also-notify of the block is replaced where it stands, in a comment too, and     *)
(* only a block without any gets a new one.  One taken out of a comment takes the end   *)
(* of its line with it: the next line is then in the comment.                         *)
SetNotify(block, ips) ==
  [ips   |-> IF block.noted /\ block.ips = {} THEN {} ELSE ips,
   noted |-> block.noted /\ ips # {},
   next  |-> block.next /\ ~(block.noted /\ ips = {})]

SetZoneNotify(p) ==
  \E z \in NameZones, ips \in SUBSET NotifyIps :
    /\ bindTask[p] = NoBindTask
    /\ bindTask' = [bindTask EXCEPT ![p] =
         [pc |-> "write", file |-> "blocks", zone |-> z, ips |-> ips,
          new |-> [blocks EXCEPT ![z] = SetNotify(@, ips)],
          sure |-> ~(blocks[z].noted /\ blocks[z].ips = {})]]
    /\ UNCHANGED <<options, blocks, named, told>>

(* _write_conf replaces the file, whatever another worker wrote since it was read.      *)
WriteBindConf(p) ==
  LET job == bindTask[p] IN
  /\ job.pc = "write"
  /\ options' = IF job.file = "options" THEN job.new ELSE options
  /\ blocks' = IF job.file = "blocks" THEN job.new ELSE blocks
  /\ bindTask' = [q \in BindEditors |->
       IF q = p THEN [job EXCEPT !.pc = "reload", !.new = <<>>]
       ELSE IF bindTask[q].file = "blocks" /\ job.file = "blocks" THEN [bindTask[q] EXCEPT !.sure = FALSE]
       ELSE bindTask[q]]
  /\ UNCHANGED <<named, told>>

(* rndc reload fails, too, when BIND may no longer read what is now mode 600; the     *)
(* answer to an edit of options is ok all the same, and a form may ask for no reload.  *)
RndcReload(p) ==
  LET job == bindTask[p] IN
  /\ job.pc = "reload"
  /\ \E reloaded \in BOOLEAN :
       /\ named' = IF reloaded THEN [notify |-> Runs(options.notify), blocks |-> blocks] ELSE named
       /\ told' = IF job.file = "blocks"
                  THEN [ips |-> job.ips, got |-> named'.blocks[job.zone].ips,
                        sure |-> reloaded /\ job.sure]
                  ELSE told
  /\ bindTask' = [bindTask EXCEPT ![p] = NoBindTask]
  /\ UNCHANGED <<options, blocks>>

EditFails(p) ==
  /\ bindTask[p].pc = "write"
  /\ bindTask' = [bindTask EXCEPT ![p] = NoBindTask]
  /\ UNCHANGED <<options, blocks, named, told>>

BindNext ==
  \E p \in BindEditors :
    SaveOptions(p) \/ SetZoneNotify(p) \/ WriteBindConf(p) \/ RndcReload(p) \/ EditFails(p)

BindSpec == BindInit /\ [][BindNext]_bindVars

-------------------------------------------------------------------------------
(* The files, BIND and the tasks keep their types.                                   *)
BindTypeOK ==
  /\ options \in [notify : {"absent", "yes", "no"}, formed : BOOLEAN]
  /\ blocks \in [NameZones -> Block]
  /\ named.notify \in {"yes", "no"} /\ named.blocks \in [NameZones -> Block]
  /\ \A p \in BindEditors : bindTask[p].pc \in {"idle", "write", "reload"}

(* Options once written from the form are shown as BIND runs them.  And an edit of a    *)
(* zone that was answered as reloaded, not written over by another and not made in a    *)
(* comment, left BIND notifying just who it was asked to.                             *)
AskedIsRun ==
  /\ options.formed => Shown(options.notify) = Runs(options.notify)
  /\ told.sure => told.got = told.ips
===============================================================================
