------------------------------- MODULE HostFiles -------------------------------
(* Files of the host that the console reads whole and writes back: the crontab of *)
(* a user, his authorized keys, which are removed by place or by prefix,          *)
(* resolv.conf with its backups, and the thresholds of the alerts.  One process    *)
(* does each in one go.  Then the file manager of the console, whose requests work   *)
(* as the account that owns a file; and its list of backup jobs.                  *)
EXTENDS Naturals, Sequences, FiniteSets

CONSTANTS
  Entries,      \* lines of the crontab
  SshKeys,      \* keys; all of one type begin alike
  Remark,       \* a comment line of authorized_keys
  Nameservers,
  Metrics,      \* metrics an alert is about
  DefaultLevel,
  FileWorkers,  \* requests of the file manager in progress at once, one per process
  Paths,        \* paths within one directory
  Contents      \* texts that requests write

ASSUME FilesAssumption == Remark \notin SshKeys /\ DefaultLevel \in Nat /\ Nameservers # {}

VARIABLES
  crontab,
  keysFile,     \* lines of authorized_keys
  resolv,       \* the nameservers of resolv.conf; other lines are kept
  backups,      \* contents of its backups, made in this second or earlier
  hurried,      \* a second change came in the second of the first
  thresholds,   \* metric -> level, for those in the file
  holder,       \* the account that owns the directory
  disk,         \* path -> the file there, or Absent
  fileTask      \* worker -> its request

filesVars == <<crontab, keysFile, resolv, backups, hurried, thresholds>>
resolvVars == <<resolv, backups, hurried>>
managerVars == <<holder, disk, fileTask>>

FirstServers == CHOOSE s \in Nameservers : TRUE

FilesInit ==
  /\ crontab = {} /\ keysFile \in {<<>>, <<Remark>>}
  /\ resolv = {FirstServers} /\ backups = [now |-> {}, earlier |-> {}] /\ hurried = FALSE
  /\ thresholds = <<>>

-------------------------------------------------------------------------------
AddCronEntry(e) ==
  /\ crontab' = crontab \union {e}
  /\ UNCHANGED <<keysFile, resolvVars, thresholds>>

DeleteCronEntry(e) ==
  /\ crontab' = crontab \ {e}
  /\ UNCHANGED <<keysFile, resolvVars, thresholds>>

(* authorized_keys: the place counts the lines that are no comments.             *)
KeyLines(lines) == {i \in DOMAIN lines : lines[i] # Remark}
Nth(places, n) == CHOOSE i \in places : Cardinality({j \in places : j < i}) = n
NthKey(lines, n) == Nth(KeyLines(lines), n)
OnlyLines(lines, places) == [n \in 1 .. Cardinality(places) |-> lines[Nth(places, n - 1)]]

AddSshKey(k) ==
  /\ Len(keysFile) < Cardinality(SshKeys)
  /\ keysFile' = Append(keysFile, k)
  /\ UNCHANGED <<crontab, resolvVars, thresholds>>

DeleteSshKeyAt(n) ==
  /\ n < Cardinality(KeyLines(keysFile))
  /\ keysFile' = OnlyLines(keysFile, DOMAIN keysFile \ {NthKey(keysFile, n)})
  /\ UNCHANGED <<crontab, resolvVars, thresholds>>

(* The prefix may be the whole key or only what every key of its type begins with; *)
(* comments of one word stay.                                                     *)
DeleteSshKeysLike(kinds) ==
  /\ kinds = SshKeys \/ Cardinality(kinds) = 1
  /\ keysFile' = OnlyLines(keysFile, {i \in DOMAIN keysFile : keysFile[i] \notin kinds})
  /\ UNCHANGED <<crontab, resolvVars, thresholds>>

-------------------------------------------------------------------------------
BackedAfter(old, new) == [backups EXCEPT !.now = {new}]

(* update_dns copies the file before it writes; the copy is named after the second, *)
(* so that the second change of one second replaces the copy of the first.         *)
Backed(old, new) == [backups EXCEPT !.now = {old}]

(* Slip of UpdateDns: a request without servers empties the file.                  *)
UpdateDnsUnchecked(servers) ==
  /\ backups' = Backed(resolv, servers)
  /\ hurried' = (hurried \/ backups.now # {})
  /\ resolv' = servers
  /\ UNCHANGED <<crontab, keysFile, thresholds>>

UpdateDns(servers) ==
  /\ servers # {}
  /\ backups' = Backed(resolv, servers)
  /\ hurried' = (hurried \/ backups.now # {})
  /\ resolv' = servers
  /\ UNCHANGED <<crontab, keysFile, thresholds>>

SecondPasses ==
  /\ backups' = [now |-> {}, earlier |-> backups.earlier \union backups.now]
  /\ UNCHANGED <<crontab, keysFile, resolv, hurried, thresholds>>

-------------------------------------------------------------------------------
(* _load_thresholds: what the file says over the defaults, which are all there is  *)
(* when the file cannot be read.                                                 *)
Loaded == [m \in Metrics |-> IF m \in DOMAIN thresholds THEN thresholds[m] ELSE DefaultLevel]

(* update_alert_thresholds starts from the defaults: what a request does not name   *)
(* is set back.                                                                  *)
UpdateThresholds(body) ==
  /\ thresholds' = [m \in Metrics |-> IF m \in DOMAIN body THEN body[m] ELSE DefaultLevel]
  /\ UNCHANGED <<crontab, keysFile, resolvVars>>

Bodies == UNION {[some -> {DefaultLevel, DefaultLevel + 1}] : some \in SUBSET Metrics}

FilesNext ==
  \/ \E e \in Entries : AddCronEntry(e) \/ DeleteCronEntry(e)
  \/ \E k \in SshKeys : AddSshKey(k)
  \/ \E n \in 0 .. Cardinality(SshKeys) : DeleteSshKeyAt(n)
  \/ \E kinds \in SUBSET SshKeys : DeleteSshKeysLike(kinds)
  \/ \E servers \in SUBSET Nameservers : UpdateDns(servers)
  \/ SecondPasses
  \/ \E body \in Bodies : UpdateThresholds(body)

FilesSpec == FilesInit /\ [][FilesNext]_filesVars

-------------------------------------------------------------------------------
(* The service runs as Service and uses sudo to work as another account.             *)
Service == "frappe"
HostAccounts == {"root", Service, "user"}
Private == "600"
Public == "644"
Absent == [text |-> "", mode |-> "", owner |-> ""]
Before == "before"
FileRecords == [text : Contents \union {Before}, mode : {Private, Public}, owner : HostAccounts]
NoFileTask == [op |-> "none", pc |-> "none"]
NotAlone == <<>>

ManagerInit ==
  /\ holder \in HostAccounts
  /\ disk \in [Paths -> {Absent} \cup {[text |-> Before, mode |-> m, owner |-> o] :
                                        m \in {Private, Public}, o \in HostAccounts}]
  /\ fileTask = [w \in FileWorkers |-> NoFileTask]

(* _path_owner: who owns the path, or else what it would be put into.                *)
PathOwner(p) == IF disk[p] = Absent THEN holder ELSE disk[p].owner

(* What an account may do: the directory's files, the file's bytes, and the temporary *)
(* file, which only the service and root may read.                                  *)
MayList(who) == who \in {holder, "root"}
MayWrite(who, p) == IF disk[p] = Absent THEN MayList(who) ELSE who \in {disk[p].owner, "root"}
MayReadTemporary(who) == who \in {Service, "root"}

(* A request looks up the owner first.  found remembers, for the properties, what it   *)
(* saw, for as long as it has the files for itself.                                 *)
FileIdle(w) == fileTask[w].op = "none"
BeginFile(w, op, from, to, text) ==
  /\ FileIdle(w)
  /\ fileTask' = [v \in FileWorkers |->
       IF v = w
       THEN [op |-> op, from |-> from, to |-> to, text |-> text, pc |-> "act",
             who |-> IF op = "upload" THEN holder ELSE PathOwner(from),
             perms |-> Public,
             found |-> IF \A o \in FileWorkers : FileIdle(o) THEN disk ELSE NotAlone]
       ELSE IF FileIdle(v) THEN NoFileTask ELSE [fileTask[v] EXCEPT !.found = NotAlone]]
  /\ UNCHANGED <<holder, disk>>

WriteFile(w) == \E p \in Paths, c \in Contents : BeginFile(w, "write", p, p, c)
UploadFile(w) == \E p \in Paths, c \in Contents : BeginFile(w, "upload", p, p, c)
DeletePath(w) == \E p \in Paths : BeginFile(w, "delete", p, p, "")
CopyPath(w) == \E p, q \in Paths : p # q /\ BeginFile(w, "copy", p, q, "")
MovePath(w) == \E p, q \in Paths : p # q /\ BeginFile(w, "move", p, q, "")

FileEnds(w, ok) ==
  fileTask' = [fileTask EXCEPT ![w].pc = IF ok THEN "ok" ELSE "error", ![w].perms = Public]
FileRefused(w) == FileEnds(w, FALSE) /\ UNCHANGED disk

(* A write notes the mode of the file, copies the text into it, sets the mode.        *)
StatMode(w) ==
  LET job == fileTask[w] IN
  /\ job.op = "write" /\ job.pc = "act"
  /\ fileTask' = [fileTask EXCEPT ![w].pc = "copy",
       ![w].perms = IF disk[job.to] = Absent THEN Public ELSE disk[job.to].mode]
  /\ UNCHANGED <<holder, disk>>

(* cp leaves owner and mode of what is there, and lets a file it makes be read by all. *)
CopyText(w) ==
  LET job == fileTask[w] IN
  /\ job.op = "write" /\ job.pc = "copy"
  /\ IF MayReadTemporary(job.who) /\ MayWrite(job.who, job.to)
     THEN /\ disk' = [disk EXCEPT ![job.to] =
                IF @ = Absent THEN [text |-> job.text, mode |-> Public, owner |-> job.who]
                ELSE [@ EXCEPT !.text = job.text]]
          /\ fileTask' = [fileTask EXCEPT ![w].pc = "chmod"]
     ELSE FileRefused(w)
  /\ UNCHANGED holder

(* Slip of ModeAfter: every file written can be read by all.                         *)
ModeAfterPublic(job) == Public
ModeAfter(job) == job.perms

Chmod(w) ==
  LET job == fileTask[w] IN
  /\ job.pc = "chmod"
  /\ disk' = IF disk[job.to] # Absent /\ MayWrite(job.who, job.to)
             THEN [disk EXCEPT ![job.to].mode = ModeAfter(job)] ELSE disk
  /\ FileEnds(w, TRUE)
  /\ UNCHANGED holder

(* install puts a new file in the place of the old one.                             *)
InstallUpload(w) ==
  LET job == fileTask[w] IN
  /\ job.op = "upload" /\ job.pc = "act"
  /\ IF MayReadTemporary(job.who) /\ MayList(job.who)
     THEN /\ disk' = [disk EXCEPT ![job.to] = [text |-> job.text, mode |-> Public, owner |-> job.who]]
          /\ FileEnds(w, TRUE)
     ELSE FileRefused(w)
  /\ UNCHANGED holder

(* rm -f has nothing to say about what is not there.                                *)
RemoveFile(w) ==
  LET job == fileTask[w] IN
  /\ job.op = "delete" /\ job.pc = "act"
  /\ IF disk[job.from] = Absent \/ MayList(job.who)
     THEN disk' = [disk EXCEPT ![job.from] = Absent] /\ FileEnds(w, TRUE)
     ELSE FileRefused(w)
  /\ UNCHANGED holder

(* cp -a writes into what is there, and only root can give it another owner.          *)
CopyAll(w) ==
  LET job == fileTask[w]
      source == disk[job.from]
  IN
  /\ job.op = "copy" /\ job.pc = "act"
  /\ IF /\ source # Absent
        /\ job.who \in {source.owner, "root"} \/ source.mode = Public
        /\ MayWrite(job.who, job.to)
     THEN /\ disk' = [disk EXCEPT ![job.to] =
                [source EXCEPT !.owner = IF job.who = "root" THEN @ ELSE job.who]]
          /\ FileEnds(w, TRUE)
     ELSE FileRefused(w)
  /\ UNCHANGED holder

Rename(w) ==
  LET job == fileTask[w] IN
  /\ job.op = "move" /\ job.pc = "act"
  /\ IF disk[job.from] # Absent /\ MayList(job.who)
     THEN /\ disk' = [disk EXCEPT ![job.to] = disk[job.from], ![job.from] = Absent]
          /\ FileEnds(w, TRUE)
     ELSE FileRefused(w)
  /\ UNCHANGED holder

AnswerFile(w) ==
  /\ fileTask[w].pc \in {"ok", "error"}
  /\ fileTask' = [fileTask EXCEPT ![w] = NoFileTask]
  /\ UNCHANGED <<holder, disk>>

ManagerNext ==
  \E w \in FileWorkers :
    \/ WriteFile(w) \/ UploadFile(w) \/ DeletePath(w) \/ CopyPath(w) \/ MovePath(w)
    \/ StatMode(w) \/ CopyText(w) \/ Chmod(w)
    \/ InstallUpload(w) \/ RemoveFile(w) \/ CopyAll(w) \/ Rename(w) \/ AnswerFile(w)

ManagerSpec == ManagerInit /\ [][ManagerNext]_managerVars

-------------------------------------------------------------------------------
FilesTypeOK ==
  /\ crontab \subseteq Entries
  /\ keysFile \in Seq(SshKeys \union {Remark})
  /\ resolv \in (SUBSET Nameservers) \ {{}}
  /\ \A part \in {backups.now, backups.earlier} : part \subseteq (SUBSET Nameservers) \ {{}}
  /\ hurried \in BOOLEAN
  /\ DOMAIN thresholds \subseteq Metrics /\ Loaded \in [Metrics -> Nat]

(* The resolv.conf the host came with is in place or in a backup, however often it  *)
(* was changed, as long as no two changes came within a second.                   *)
OriginalKept ==
  ~hurried => {FirstServers} \in {resolv} \union backups.now \union backups.earlier

(* Files and requests keep their types.                                            *)
ManagerTypeOK ==
  /\ holder \in HostAccounts
  /\ disk \in [Paths -> FileRecords \cup {Absent}]
  /\ \A w \in FileWorkers : FileIdle(w) \/ fileTask[w].pc \in {"act", "copy", "chmod", "ok", "error"}

(* A request that had the files for itself did what it answers: a written file has the *)
(* text asked for, and the owner and mode it had; a moved file left its place for the  *)
(* other; an error changed nothing.                                                *)
Did(job) ==
  IF job.pc = "error" THEN disk = job.found
  ELSE
    CASE job.op = "write" ->
         /\ disk[job.to].text = job.text
         /\ job.found[job.to] # Absent => disk[job.to] = [job.found[job.to] EXCEPT !.text = job.text]
    [] job.op = "upload" -> disk[job.to].text = job.text
    [] job.op = "delete" -> disk[job.from] = Absent
    [] job.op = "copy" -> disk[job.to].text = job.found[job.from].text
    [] job.op = "move" -> disk[job.from] = Absent /\ disk[job.to] = job.found[job.from]
AnswersHold ==
  \A w \in FileWorkers :
    fileTask[w].pc \in {"ok", "error"} /\ fileTask[w].found # NotAlone => Did(fileTask[w])
-------------------------------------------------------------------------------
(* The backup jobs of the host, a list read whole and written back, whose runs    *)
(* end in a thread of their own that writes the list too; and the job of a        *)
(* package upgrade, a record in memory that a thread fills.                       *)
CONSTANTS
  Threads,      \* handlers and runner threads
  BackupIds

VARIABLES
  jobsFile,     \* backup job -> result of its last run, for those listed
  runStatus,    \* backup job -> its status file
  upgrade,      \* [status, finished]: the record of the upgrade job
  thread,       \* thread -> the operation it is in the middle of
  returned      \* jobs that came back after their deletion was answered
backupVars == <<jobsFile, runStatus, upgrade, thread, returned>>

NoOp == [op |-> "none", id |-> "none", read |-> <<>>]
ListedJobs == DOMAIN jobsFile

BackupInit ==
  /\ jobsFile = <<>> /\ runStatus = [b \in BackupIds |-> "never"]
  /\ upgrade = [status |-> "idle", finished |-> FALSE]
  /\ thread = [t \in Threads |-> NoOp]
  /\ returned = {}

Enters(t, op, id, read) == thread' = [thread EXCEPT ![t] = [op |-> op, id |-> id, read |-> read]]
Leaves(t) == thread' = [thread EXCEPT ![t] = NoOp]
Calls(t) == thread[t] = NoOp

-------------------------------------------------------------------------------
(* Backup jobs.  Handlers load and save without a pause; only a runner thread can *)
(* come in between, and a handler between the thread's load and its save.        *)
CreateBackupJob(b) ==
  /\ b \notin ListedJobs /\ b \notin returned /\ runStatus[b] = "never"
  /\ jobsFile' = [j \in ListedJobs \union {b} |-> IF j = b THEN "none" ELSE jobsFile[j]]
  /\ UNCHANGED <<runStatus, upgrade, thread, returned>>

DeleteBackupJob(b) ==
  /\ b \in ListedJobs
  /\ jobsFile' = [j \in ListedJobs \ {b} |-> jobsFile[j]]
  /\ UNCHANGED <<runStatus, upgrade, thread, returned>>

(* The thread works on a copy of the job; nothing keeps a second run from starting. *)
RunBackupJob(t, b) ==
  /\ Calls(t) /\ b \in ListedJobs
  /\ Enters(t, "backup", b, <<>>)
  /\ runStatus' = [runStatus EXCEPT ![b] = "running"]
  /\ UNCHANGED <<jobsFile, upgrade, returned>>

BackupEnds(t) ==
  /\ thread[t].op = "backup"
  /\ \E result \in {"ok", "error"} :
       /\ runStatus' = [runStatus EXCEPT ![thread[t].id] = result]
       /\ Enters(t, result, thread[t].id, jobsFile)
  /\ UNCHANGED <<jobsFile, upgrade, returned>>

WithResultKept(jobs, b, result) ==
  [j \in DOMAIN jobs \union {b} |-> IF j = b THEN result ELSE jobs[j]]

(* The list as it was read, with the result of this run, if the job is on it.     *)
WithResult(jobs, b, result) == [j \in DOMAIN jobs |-> IF j = b THEN result ELSE jobs[j]]

SaveResult(t) ==
  /\ thread[t].op \in {"ok", "error"}
  /\ jobsFile' = WithResult(thread[t].read, thread[t].id, thread[t].op)
  /\ returned' = returned \union (DOMAIN thread[t].read \ ListedJobs)
  /\ Leaves(t)
  /\ UNCHANGED <<runStatus, upgrade>>

-------------------------------------------------------------------------------
(* The upgrade: one at a time under a lock.  The thread ends the status before it  *)
(* writes the time, so that another upgrade may start in between.                 *)
StartOsUpgrade(t) ==
  /\ Calls(t) /\ upgrade.status # "running"
  /\ upgrade' = [status |-> "running", finished |-> FALSE]
  /\ Enters(t, "upgrade", "none", <<>>)
  /\ UNCHANGED <<jobsFile, runStatus, returned>>

UpgradeEnds(t) ==
  /\ thread[t].op = "upgrade"
  /\ \E status \in {"done", "error"} : upgrade' = [upgrade EXCEPT !.status = status]
  /\ Enters(t, "stamp", "none", <<>>)
  /\ UNCHANGED <<jobsFile, runStatus, returned>>

StampUpgrade(t) ==
  /\ thread[t].op = "stamp"
  /\ upgrade' = [upgrade EXCEPT !.finished = TRUE]
  /\ Leaves(t)
  /\ UNCHANGED <<jobsFile, runStatus, returned>>

BackupNext ==
  \/ \E b \in BackupIds : CreateBackupJob(b) \/ DeleteBackupJob(b)
  \/ \E t \in Threads :
       \/ (\E b \in BackupIds : RunBackupJob(t, b)) \/ BackupEnds(t) \/ SaveResult(t)
       \/ StartOsUpgrade(t) \/ UpgradeEnds(t) \/ StampUpgrade(t)

BackupSpec == BackupInit /\ [][BackupNext]_backupVars

-------------------------------------------------------------------------------
Results == {"none", "ok", "error"}
BackupTypeOK ==
  /\ ListedJobs \subseteq BackupIds /\ \A b \in ListedJobs : jobsFile[b] \in Results
  /\ runStatus \in [BackupIds -> {"never", "running", "ok", "error"}]
  /\ upgrade \in [status : {"idle", "running", "done", "error"}, finished : BOOLEAN]
  /\ \A t \in Threads :
       /\ thread[t].op \in {"none", "backup", "ok", "error", "upgrade", "stamp"}
       /\ thread[t].id \in BackupIds \union {"none"}
       /\ DOMAIN thread[t].read \subseteq BackupIds
  /\ returned \subseteq BackupIds

(* A backup job that was deleted comes back only through a run that had read the   *)
(* list before the deletion: once no thread is about to save, what is listed       *)
(* anew was listed when the last thread read it.                                  *)
OnlyReaderRevives ==
  [][\A b \in BackupIds :
       b \notin ListedJobs /\ b \in ListedJobs' /\ runStatus[b] # "never"
         => \E t \in Threads : thread[t].op \in {"ok", "error"} /\ b \in DOMAIN thread[t].read]_backupVars
===============================================================================
