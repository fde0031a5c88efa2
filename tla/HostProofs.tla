------------------------------ MODULE HostProofs ------------------------------
(* Theorems about the parts of the console that act on the host and on other       *)
(* servers, each for any number of requests, and about what they promise together. *)
EXTENDS MCHost, FiniteSetTheorems, SequenceTheorems, TLAPS

-------------------------------------------------------------------------------
(* HostFiles.  The place of the n-th of a finite set of places.                     *)
LEMMA NthIsThere ==
  ASSUME NEW places \in SUBSET Nat, IsFiniteSet(places),
         NEW n \in 0 .. Cardinality(places) - 1
  PROVE  Nth(places, n) \in places
<1> DEFINE Under(i) == {j \in places : j < i}
           rank == [i \in places |-> Cardinality(Under(i))]
           C == Cardinality(places)
<1>1. C \in Nat
BY FS_CardinalityType
<1>2. \A i \in places : IsFiniteSet(Under(i)) /\ Under(i) \subseteq places \ {i}
                      /\ Cardinality(Under(i)) \in 0 .. C - 1
<2> SUFFICES ASSUME NEW i \in places
             PROVE  /\ IsFiniteSet(Under(i)) /\ Under(i) \subseteq places \ {i}
                    /\ Cardinality(Under(i)) \in 0 .. C - 1
  OBVIOUS
<2>1. Under(i) \subseteq places \ {i}
  OBVIOUS
<2>2. IsFiniteSet(places \ {i}) /\ Cardinality(places \ {i}) = C - 1
  BY FS_RemoveElement
<2>3. IsFiniteSet(Under(i)) /\ Cardinality(Under(i)) <= C - 1
  BY <2>1, <2>2, FS_Subset
<2>4. Cardinality(Under(i)) \in Nat
  BY <2>3, FS_CardinalityType
<2> HIDE DEF Under
<2> QED
  BY <1>1, <2>1, <2>3, <2>4
<1>3. \A i, j \in places : i < j => Cardinality(Under(i)) < Cardinality(Under(j))
<2> SUFFICES ASSUME NEW i \in places, NEW j \in places, i < j
             PROVE  Cardinality(Under(i)) < Cardinality(Under(j))
  OBVIOUS
<2>0. \A k \in places : k \in Nat
  OBVIOUS
<2>5. (\A k \in places : k < i => k < j) /\ ~(i < i)
  BY <2>0
<2>1. Under(i) \subseteq Under(j) /\ i \in Under(j) /\ i \notin Under(i)
  BY <2>5
<2>2. IsFiniteSet(Under(j)) /\ IsFiniteSet(Under(i))
  BY <1>2
<2> HIDE DEF Under
<2>3. Cardinality(Under(i)) <= Cardinality(Under(j))
      /\ (Cardinality(Under(i)) = Cardinality(Under(j)) => Under(i) = Under(j))
  BY <2>1, <2>2, FS_Subset
<2>4. Cardinality(Under(i)) \in Nat /\ Cardinality(Under(j)) \in Nat
  BY <2>2, FS_CardinalityType
<2> QED
  BY <2>1, <2>3, <2>4
<1> HIDE DEF Under
<1>4. \A i, j \in places : rank[i] = rank[j] => i = j
<2> SUFFICES ASSUME NEW i \in places, NEW j \in places, i # j PROVE rank[i] # rank[j]
  OBVIOUS
<2>1. i < j \/ j < i
  OBVIOUS
<2>2. Cardinality(Under(i)) \in Nat /\ Cardinality(Under(j)) \in Nat
  BY <1>1, <1>2
<2> QED
  BY <1>3, <2>1, <2>2
<1> DEFINE ranks == {rank[i] : i \in places}
<1>5. rank \in [places -> 0 .. C - 1] /\ rank \in Injection(places, ranks)
<2>1. rank \in [places -> 0 .. C - 1]
  BY <1>2
<2>2. rank \in [places -> ranks]
  BY <2>1
<2> HIDE DEF rank, ranks
<2> QED
  BY <1>4, <2>1, <2>2 DEF Injection, IsInjective
<1>6. IsFiniteSet(0 .. C - 1) /\ Cardinality(0 .. C - 1) = C
BY <1>1, FS_Interval
<1>7. ranks \subseteq 0 .. C - 1
BY <1>5
<1>8. IsFiniteSet(ranks) /\ Cardinality(places) <= Cardinality(ranks)
<2> HIDE DEF ranks, rank
<2>1. IsFiniteSet(ranks)
  BY <1>6, <1>7, FS_Subset
<2> QED
  BY <1>5, <2>1, FS_Injection
<1>9. ranks = 0 .. C - 1
<2> HIDE DEF ranks, rank
<2>1. Cardinality(ranks) <= C
  BY <1>6, <1>7, FS_Subset
<2>2. Cardinality(ranks) \in Nat
  BY <1>8, FS_CardinalityType
<2>3. Cardinality(ranks) = C
  BY <1>1, <1>8, <2>1, <2>2
<2> QED
  BY <1>6, <1>7, <2>3, FS_Subset
<1>10. PICK i \in places : n = Cardinality(Under(i))
BY <1>9
<1> QED
BY <1>10 DEF Nth, Under

(* What is left of the lines are lines.                                             *)
LEMMA LinesAreLeft ==
  ASSUME NEW S, NEW lines \in Seq(S), NEW places \in SUBSET (DOMAIN lines)
  PROVE  OnlyLines(lines, places) \in Seq(S)
<1>1. DOMAIN lines = 1 .. Len(lines) /\ Len(lines) \in Nat
BY LenProperties
<1>2. IsFiniteSet(places) /\ places \subseteq Nat
<2>1. IsFiniteSet(1 .. Len(lines))
  BY <1>1, FS_Interval
<2> QED
  BY <1>1, <2>1, FS_Subset
<1>3. Cardinality(places) \in Nat
BY <1>2, FS_CardinalityType
<1>4. \A n \in 1 .. Cardinality(places) : lines[Nth(places, n - 1)] \in S
<2> SUFFICES ASSUME NEW n \in 1 .. Cardinality(places)
             PROVE  lines[Nth(places, n - 1)] \in S
  OBVIOUS
<2>1. n - 1 \in 0 .. Cardinality(places) - 1
  BY <1>3
<2>2. Nth(places, n - 1) \in places
  BY <1>2, <2>1, NthIsThere
<2> QED
  BY <1>1, <2>2, ElementOfSeq
<1> QED
BY <1>3, <1>4, IsASeq DEF OnlyLines

FilesInv ==
  /\ FilesTypeOK
  /\ backups \in [now : SUBSET SUBSET Nameservers, earlier : SUBSET SUBSET Nameservers]
  /\ \A m \in DOMAIN thresholds : thresholds[m] \in Nat
  /\ OriginalKept

LEMMA FilesInvInit == FilesInit => FilesInv
<1> SUFFICES ASSUME FilesInit PROVE FilesInv
  OBVIOUS
<1>1. FirstServers \in Nameservers
BY FilesAssumption DEF FirstServers
<1>2. keysFile \in Seq(SshKeys \union {Remark})
<2>1. <<>> \in Seq(SshKeys \union {Remark}) /\ <<Remark>> \in Seq(SshKeys \union {Remark})
  OBVIOUS
<2> QED
  BY <2>1 DEF FilesInit
<1>3. DOMAIN thresholds = {}
BY DEF FilesInit
<1>4. Loaded \in [Metrics -> Nat]
BY <1>3, FilesAssumption DEF Loaded
<1> QED
BY <1>1, <1>2, <1>3, <1>4 DEF FilesInit, FilesInv, FilesTypeOK, OriginalKept

LEMMA FilesInvStep == FilesInv /\ [FilesNext]_filesVars => FilesInv'
<1> SUFFICES ASSUME FilesInv, [FilesNext]_filesVars PROVE FilesInv'
  OBVIOUS
<1> USE DEF FilesInv, FilesTypeOK, OriginalKept, resolvVars
<1>0. Loaded' = Loaded \/ thresholds' # thresholds
BY DEF Loaded
<1>1. ASSUME NEW e \in Entries, AddCronEntry(e) \/ DeleteCronEntry(e) PROVE FilesInv'
BY <1>1 DEF AddCronEntry, DeleteCronEntry, Loaded
<1>2. ASSUME NEW k \in SshKeys, AddSshKey(k) PROVE FilesInv'
<2>1. Append(keysFile, k) \in Seq(SshKeys \union {Remark})
  BY AppendProperties
<2> QED
  BY <1>2, <2>1 DEF AddSshKey, Loaded
<1>3. ASSUME NEW n \in 0 .. Cardinality(SshKeys), DeleteSshKeyAt(n) PROVE FilesInv'
<2>1. OnlyLines(keysFile, DOMAIN keysFile \ {NthKey(keysFile, n)}) \in Seq(SshKeys \union {Remark})
  BY LinesAreLeft
<2> QED
  BY <1>3, <2>1 DEF DeleteSshKeyAt, Loaded
<1>4. ASSUME NEW kinds \in SUBSET SshKeys, DeleteSshKeysLike(kinds) PROVE FilesInv'
<2>1. OnlyLines(keysFile, {i \in DOMAIN keysFile : keysFile[i] \notin kinds})
        \in Seq(SshKeys \union {Remark})
  BY LinesAreLeft
<2> QED
  BY <1>4, <2>1 DEF DeleteSshKeysLike, Loaded
<1>5. ASSUME NEW servers \in SUBSET Nameservers, UpdateDns(servers) PROVE FilesInv'
<2>1. /\ backups' = [now |-> {resolv}, earlier |-> backups.earlier] /\ resolv' = servers
      /\ servers # {} /\ hurried' = (hurried \/ backups.now # {})
      /\ UNCHANGED <<crontab, keysFile, thresholds, Loaded>>
  BY <1>5 DEF UpdateDns, Backed, Loaded
<2> QED
  BY <2>1
<1>6. CASE SecondPasses
BY <1>6 DEF SecondPasses, Loaded
<1>7. ASSUME NEW body \in Bodies, UpdateThresholds(body) PROVE FilesInv'
<2>1. \A m \in DOMAIN body : body[m] \in Nat
  BY FilesAssumption DEF Bodies
<2>2. thresholds' \in [Metrics -> Nat]
  BY <1>7, <2>1, FilesAssumption DEF UpdateThresholds
<2>3. Loaded' \in [Metrics -> Nat]
  BY <2>2, FilesAssumption DEF Loaded
<2> QED
  BY <1>7, <2>2, <2>3 DEF UpdateThresholds
<1>8. CASE UNCHANGED filesVars
BY <1>8 DEF filesVars, Loaded
<1> QED
BY <1>1, <1>2, <1>3, <1>4, <1>5, <1>6, <1>7, <1>8 DEF FilesNext

LEMMA FilesInvariant == FilesSpec => []FilesInv
BY FilesInvInit, FilesInvStep, PTL DEF FilesSpec

-------------------------------------------------------------------------------
(* The backup jobs.                                                                 *)
Lists == UNION {[some -> Results] : some \in SUBSET BackupIds}
Operations ==
  [op : {"none", "backup", "ok", "error", "upgrade", "stamp"}, id : BackupIds \union {"none"},
   read : Lists]

BackupInv ==
  /\ jobsFile \in Lists
  /\ runStatus \in [BackupIds -> {"never", "running", "ok", "error"}]
  /\ upgrade \in [status : {"idle", "running", "done", "error"}, finished : BOOLEAN]
  /\ thread \in [Threads -> Operations]
  /\ returned \subseteq BackupIds

LEMMA ListsAreFunctions ==
  /\ <<>> \in Lists
  /\ \A list \in Lists : /\ DOMAIN list \subseteq BackupIds
                         /\ \A b \in DOMAIN list : list[b] \in Results
  /\ \A some \in SUBSET BackupIds : \A list \in [some -> Results] : list \in Lists
<1>1. <<>> \in [{} -> Results]
  OBVIOUS
<1> QED
BY <1>1 DEF Lists

LEMMA BackupInvInit == BackupInit => BackupInv
BY ListsAreFunctions DEF BackupInit, BackupInv, NoOp, Operations

LEMMA BackupInvStep == BackupInv /\ [BackupNext]_backupVars => BackupInv'
<1> SUFFICES ASSUME BackupInv, [BackupNext]_backupVars PROVE BackupInv'
  OBVIOUS
<1> USE DEF BackupInv
<1>0. NoOp \in Operations
BY ListsAreFunctions DEF NoOp, Operations
<1>1. ASSUME NEW b \in BackupIds, CreateBackupJob(b) PROVE BackupInv'
<2>1. jobsFile' \in [ListedJobs \union {b} -> Results] /\ ListedJobs \union {b} \subseteq BackupIds
  BY <1>1, ListsAreFunctions DEF CreateBackupJob, ListedJobs, Results
<2> QED
  BY <1>1, <2>1, ListsAreFunctions DEF CreateBackupJob
<1>2. ASSUME NEW b \in BackupIds, DeleteBackupJob(b) PROVE BackupInv'
<2>1. jobsFile' \in [ListedJobs \ {b} -> Results] /\ ListedJobs \ {b} \subseteq BackupIds
  BY <1>2, ListsAreFunctions DEF DeleteBackupJob, ListedJobs
<2> QED
  BY <1>2, <2>1, ListsAreFunctions DEF DeleteBackupJob
<1>3. ASSUME NEW t \in Threads, NEW b \in BackupIds, RunBackupJob(t, b) PROVE BackupInv'
<2>1. [op |-> "backup", id |-> b, read |-> <<>>] \in Operations
  BY ListsAreFunctions DEF Operations
<2> QED
  BY <1>3, <2>1 DEF RunBackupJob, Enters
<1>4. ASSUME NEW t \in Threads, BackupEnds(t) PROVE BackupInv'
<2>1. PICK result \in {"ok", "error"} :
        /\ runStatus' = [runStatus EXCEPT ![thread[t].id] = result]
        /\ thread' = [thread EXCEPT ![t] = [op |-> result, id |-> thread[t].id, read |-> jobsFile]]
  BY <1>4 DEF BackupEnds, Enters
<2>2. [op |-> result, id |-> thread[t].id, read |-> jobsFile] \in Operations
  BY DEF Operations
<2> QED
  BY <1>4, <2>1, <2>2 DEF BackupEnds
<1>5. ASSUME NEW t \in Threads, SaveResult(t) PROVE BackupInv'
<2>1. thread[t].read \in Lists /\ thread[t].op \in Results
  BY <1>5 DEF SaveResult, Operations, Results
<2>2. jobsFile' \in [DOMAIN thread[t].read -> Results] /\ DOMAIN thread[t].read \subseteq BackupIds
  BY <1>5, <2>1, ListsAreFunctions DEF SaveResult, WithResult
<2>3. jobsFile' \in Lists
  BY <2>2, ListsAreFunctions
<2> QED
  BY <1>0, <1>5, <2>2, <2>3 DEF SaveResult, Leaves
<1>6. ASSUME NEW t \in Threads, StartOsUpgrade(t) \/ UpgradeEnds(t) PROVE BackupInv'
<2>1. \A op \in {"upgrade", "stamp"} : [op |-> op, id |-> "none", read |-> <<>>] \in Operations
  BY ListsAreFunctions DEF Operations
<2>2. upgrade' \in [status : {"idle", "running", "done", "error"}, finished : BOOLEAN]
  <3>1. CASE StartOsUpgrade(t)
    BY <3>1 DEF StartOsUpgrade
  <3>2. CASE UpgradeEnds(t)
    <4>1. \E status \in {"done", "error"} : upgrade' = [status |-> status, finished |-> upgrade.finished]
      BY <3>2 DEF UpgradeEnds
    <4> QED
      BY <4>1
  <3> QED
    BY <1>6, <3>1, <3>2
<2>3. \E op \in {"upgrade", "stamp"} :
        thread' = [thread EXCEPT ![t] = [op |-> op, id |-> "none", read |-> <<>>]]
  BY <1>6 DEF StartOsUpgrade, UpgradeEnds, Enters
<2>4. UNCHANGED <<jobsFile, runStatus, returned>>
  BY <1>6 DEF StartOsUpgrade, UpgradeEnds
<2> QED
  BY <2>1, <2>2, <2>3, <2>4
<1>7. ASSUME NEW t \in Threads, StampUpgrade(t) PROVE BackupInv'
BY <1>0, <1>7 DEF StampUpgrade, Leaves
<1>8. CASE UNCHANGED backupVars
BY <1>8 DEF backupVars
<1> QED
BY <1>1, <1>2, <1>3, <1>4, <1>5, <1>6, <1>7, <1>8 DEF BackupNext

LEMMA BackupInvariant == BackupSpec => []BackupInv
BY BackupInvInit, BackupInvStep, PTL DEF BackupSpec

LEMMA BackupTypesFromInv == BackupInv => BackupTypeOK
BY ListsAreFunctions DEF BackupInv, BackupTypeOK, Operations, ListedJobs

(* Whatever runs and deletions overlap, a deleted job is listed again only by a run   *)
(* that had read the list before.                                                   *)
THEOREM ReadersRevive == BackupSpec => OnlyReaderRevives
<1> DEFINE Revives == \A b \in BackupIds :
             b \notin ListedJobs /\ b \in ListedJobs' /\ runStatus[b] # "never" =>
               \E t \in Threads : thread[t].op \in {"ok", "error"} /\ b \in DOMAIN thread[t].read
<1>1. [BackupNext]_backupVars => [Revives]_backupVars
  <2> SUFFICES ASSUME BackupNext PROVE Revives
    OBVIOUS
  <2>1. CASE UNCHANGED jobsFile
    BY <2>1 DEF ListedJobs
  <2>2. ASSUME NEW b \in BackupIds, CreateBackupJob(b) \/ DeleteBackupJob(b) PROVE Revives
    BY <2>2 DEF CreateBackupJob, DeleteBackupJob, ListedJobs
  <2>3. ASSUME NEW t \in Threads, SaveResult(t) PROVE Revives
    BY <2>3 DEF SaveResult, WithResult, ListedJobs
  <2> QED
    BY <2>1, <2>2, <2>3
    DEF BackupNext, RunBackupJob, BackupEnds, StartOsUpgrade, UpgradeEnds, StampUpgrade
<1> QED
BY <1>1, PTL DEF BackupSpec, OnlyReaderRevives

-------------------------------------------------------------------------------
Disks == [Paths -> FileRecords \cup {Absent}]
FileTask ==
  [op : {"write", "upload", "delete", "copy", "move"}, from : Paths, to : Paths,
   text : Contents \cup {""}, pc : {"act", "copy", "chmod", "ok", "error"},
   who : HostAccounts, perms : {Private, Public}, found : Disks \cup {NotAlone}]

DidOn(held, doing) ==
  IF doing.pc = "error" THEN held = doing.found
  ELSE
    CASE doing.op = "write" ->
         /\ held[doing.to].text = doing.text
         /\ doing.found[doing.to] # Absent => held[doing.to] = [doing.found[doing.to] EXCEPT !.text = doing.text]
    [] doing.op = "upload" -> held[doing.to].text = doing.text
    [] doing.op = "delete" -> held[doing.from] = Absent
    [] doing.op = "copy" -> held[doing.to].text = doing.found[doing.from].text
    [] doing.op = "move" -> held[doing.from] = Absent /\ held[doing.to] = doing.found[doing.from]

(* How far a request that has the files for itself has come.                      *)
Progress(held, doing) ==
  doing.found # NotAlone =>
    /\ doing.pc = "act" => held = doing.found
    /\ doing.pc = "copy" =>
         held = doing.found /\ doing.perms = IF held[doing.to] = Absent THEN Public ELSE held[doing.to].mode
    /\ doing.pc = "chmod" =>
         /\ held[doing.to].text = doing.text
         /\ doing.found[doing.to] # Absent =>
              /\ held[doing.to] = [doing.found[doing.to] EXCEPT !.text = doing.text]
              /\ doing.perms = doing.found[doing.to].mode
    /\ doing.pc \in {"ok", "error"} => DidOn(held, doing)

Asks(doing) ==
  /\ doing.op \in {"write", "upload"} => doing.text \in Contents
  /\ doing.pc \in {"copy", "chmod"} => doing.op = "write"
  /\ doing.op = "move" => doing.from # doing.to

ManagerInv ==
  /\ holder \in HostAccounts
  /\ disk \in Disks
  /\ fileTask \in [FileWorkers -> FileTask \cup {NoFileTask}]
  /\ \A w \in FileWorkers : ~FileIdle(w) => Asks(fileTask[w]) /\ Progress(disk, fileTask[w])
  /\ \A w, v \in FileWorkers :
       ~FileIdle(w) /\ fileTask[w].found # NotAlone /\ v # w => FileIdle(v)

LEMMA Busy ==
  ASSUME ManagerInv, NEW w \in FileWorkers
  PROVE  /\ FileIdle(w) <=> fileTask[w] = NoFileTask
         /\ ~FileIdle(w) <=> fileTask[w] \in FileTask
         /\ fileTask[w].pc # "none" <=> fileTask[w] \in FileTask
<1>1. \A doing \in FileTask : doing.op # "none" /\ doing.pc # "none"
  BY DEF FileTask
<1>2. NoFileTask.op = "none" /\ NoFileTask.pc = "none"
  BY DEF NoFileTask
<1>3. fileTask[w] \in FileTask \/ fileTask[w] = NoFileTask
  BY DEF ManagerInv
<1> QED
  BY <1>1, <1>2, <1>3 DEF FileIdle

LEMMA WorkerMoves ==
  ASSUME ManagerInv, NEW w \in FileWorkers, fileTask[w] \in FileTask, NEW doing \in FileTask,
         doing.found = fileTask[w].found, fileTask' = [fileTask EXCEPT ![w] = doing],
         UNCHANGED holder, disk' \in Disks, Asks(doing), Progress(disk', doing)
  PROVE  ManagerInv'
<1>1. fileTask' \in [FileWorkers -> FileTask \cup {NoFileTask}] /\ fileTask'[w] = doing
  BY DEF ManagerInv
<1>2. \A v \in FileWorkers : v # w => fileTask'[v] = fileTask[v]
  BY DEF ManagerInv
<1>3. ~FileIdle(w) /\ ~FileIdle(w)'
  BY <1>1, Busy DEF FileIdle, FileTask
<1>4. \A v \in FileWorkers : v # w => (FileIdle(v)' <=> FileIdle(v))
  BY <1>2 DEF FileIdle
<1>5. ASSUME NEW v \in FileWorkers, v # w, ~FileIdle(v)'
      PROVE  Asks(fileTask'[v]) /\ fileTask'[v].found = NotAlone
  BY <1>2, <1>3, <1>4, <1>5 DEF ManagerInv
<1>6. \A v \in FileWorkers : ~FileIdle(v)' => Asks(fileTask'[v]) /\ Progress(disk', fileTask'[v])
  BY <1>1, <1>5 DEF Progress
<1>7. \A u, v \in FileWorkers : ~FileIdle(u)' /\ fileTask'[u].found # NotAlone /\ v # u => FileIdle(v)'
  BY <1>1, <1>3, <1>4, <1>5 DEF ManagerInv
<1> QED
  BY <1>1, <1>6, <1>7 DEF ManagerInv

LEMMA WorkerEnds ==
  ASSUME ManagerInv, NEW w \in FileWorkers, fileTask[w] \in FileTask, NEW ok \in BOOLEAN,
         FileEnds(w, ok), UNCHANGED holder, disk' \in Disks,
         fileTask[w].found # NotAlone =>
           DidOn(disk', [fileTask[w] EXCEPT !.pc = IF ok THEN "ok" ELSE "error", !.perms = Public])
  PROVE  ManagerInv'
<1> DEFINE doing == [fileTask[w] EXCEPT !.pc = IF ok THEN "ok" ELSE "error", !.perms = Public]
<1>1. doing \in FileTask /\ doing.found = fileTask[w].found /\ doing.pc \in {"ok", "error"}
      /\ doing.op = fileTask[w].op /\ doing.text = fileTask[w].text
      /\ doing.from = fileTask[w].from /\ doing.to = fileTask[w].to
  BY DEF FileTask
<1>2. fileTask' = [fileTask EXCEPT ![w] = doing]
  BY DEF FileEnds, ManagerInv
<1>3. Asks(fileTask[w])
  BY Busy DEF ManagerInv
<1>4. Asks(doing)
  BY <1>1, <1>3 DEF Asks
<1>5. Progress(disk', doing)
  BY <1>1 DEF Progress
<1> HIDE DEF doing
<1> QED
  BY <1>1, <1>2, <1>4, <1>5, WorkerMoves

LEMMA WorkerRefused ==
  ASSUME ManagerInv, NEW w \in FileWorkers, fileTask[w] \in FileTask, FileRefused(w), UNCHANGED holder,
         fileTask[w].found # NotAlone => disk = fileTask[w].found
  PROVE  ManagerInv'
<1>1. fileTask[w].found # NotAlone =>
        DidOn(disk', [fileTask[w] EXCEPT !.pc = IF FALSE THEN "ok" ELSE "error", !.perms = Public])
  <2> DEFINE doing == [fileTask[w] EXCEPT !.pc = IF FALSE THEN "ok" ELSE "error", !.perms = Public]
  <2>1. doing.pc = "error" /\ doing.found = fileTask[w].found
    BY DEF FileTask
  <2>2. UNCHANGED disk
    BY DEF FileRefused
  <2>3. fileTask[w].found # NotAlone => DidOn(disk', doing)
    <3> HIDE DEF doing
    <3> QED
      BY <2>1, <2>2 DEF DidOn
  <2> QED
    BY <2>3
<1> QED
  BY <1>1, WorkerEnds DEF FileRefused, ManagerInv

LEMMA BeginIsKept ==
  ASSUME ManagerInv, NEW w \in FileWorkers, NEW from \in Paths, NEW to \in Paths,
         NEW op \in {"write", "upload", "delete", "copy", "move"}, NEW text \in Contents \cup {""},
         op \in {"write", "upload"} => text \in Contents, op = "move" => from # to,
         BeginFile(w, op, from, to, text)
  PROVE  ManagerInv'
<1> DEFINE doing == [op |-> op, from |-> from, to |-> to, text |-> text, pc |-> "act",
                   who |-> IF op = "upload" THEN holder ELSE PathOwner(from),
                   perms |-> Public,
                   found |-> IF \A o \in FileWorkers : FileIdle(o) THEN disk ELSE NotAlone]
<1>1. PathOwner(from) \in HostAccounts
  BY DEF PathOwner, ManagerInv, Disks, FileRecords
<1>2. doing \in FileTask /\ Asks(doing) /\ doing.pc = "act"
      /\ doing.found = IF \A o \in FileWorkers : FileIdle(o) THEN disk ELSE NotAlone
  BY <1>1 DEF ManagerInv, FileTask, Asks
<1>3. UNCHANGED <<holder, disk>>
  BY DEF BeginFile
<1>4. Progress(disk', doing)
  BY <1>2, <1>3 DEF Progress
<1> HIDE DEF doing
<1>5. fileTask' = [v \in FileWorkers |->
        IF v = w THEN doing
        ELSE IF FileIdle(v) THEN NoFileTask ELSE [fileTask[v] EXCEPT !.found = NotAlone]]
  BY DEF BeginFile, doing
<1>6. ASSUME NEW v \in FileWorkers, v # w
      PROVE  \/ FileIdle(v) /\ fileTask'[v] = NoFileTask
             \/ ~FileIdle(v) /\ fileTask'[v] \in FileTask /\ Asks(fileTask'[v])
                /\ fileTask'[v].found = NotAlone
  <2>1. CASE FileIdle(v)
    BY <1>5, <1>6, <2>1
  <2>2. CASE ~FileIdle(v)
    <3>1. fileTask[v] \in FileTask /\ Asks(fileTask[v])
      BY <2>2, Busy DEF ManagerInv
    <3>2. fileTask'[v] = [fileTask[v] EXCEPT !.found = NotAlone]
      BY <1>5, <1>6, <2>2
    <3>3. fileTask'[v] \in FileTask /\ fileTask'[v].found = NotAlone
          /\ fileTask'[v].op = fileTask[v].op /\ fileTask'[v].pc = fileTask[v].pc
          /\ fileTask'[v].text = fileTask[v].text
          /\ fileTask'[v].from = fileTask[v].from /\ fileTask'[v].to = fileTask[v].to
      BY <3>1, <3>2 DEF FileTask
    <3>4. Asks(fileTask'[v])
      BY <3>1, <3>3 DEF Asks
    <3> QED
      BY <2>2, <3>3, <3>4
  <2> QED
    BY <2>1, <2>2
<1>11. \A v \in FileWorkers : v # w /\ FileIdle(v) => FileIdle(v)'
  BY <1>5 DEF FileIdle, NoFileTask
<1>7. fileTask'[w] = doing
  BY <1>5
<1>8. fileTask' \in [FileWorkers -> FileTask \cup {NoFileTask}]
  <2>1. \A v \in FileWorkers : fileTask'[v] \in FileTask \cup {NoFileTask}
    BY <1>2, <1>6, <1>7
  <2> QED
    BY <1>5, <2>1
<1>9. \A v \in FileWorkers : ~FileIdle(v)' => Asks(fileTask'[v]) /\ Progress(disk', fileTask'[v])
  <2> SUFFICES ASSUME NEW v \in FileWorkers, ~FileIdle(v)'
               PROVE  Asks(fileTask'[v]) /\ Progress(disk', fileTask'[v])
    OBVIOUS
  <2>1. CASE v = w
    BY <1>2, <1>4, <1>7, <2>1
  <2>2. CASE v # w
    <3>1. Asks(fileTask'[v]) /\ fileTask'[v].found = NotAlone
      BY <1>6, <1>11, <2>2
    <3> QED
      BY <3>1 DEF Progress
  <2> QED
    BY <2>1, <2>2
<1>10. \A u, v \in FileWorkers : ~FileIdle(u)' /\ fileTask'[u].found # NotAlone /\ v # u => FileIdle(v)'
  <2> SUFFICES ASSUME NEW u \in FileWorkers, NEW v \in FileWorkers,
                      ~FileIdle(u)', fileTask'[u].found # NotAlone, v # u
               PROVE  FileIdle(v)'
    OBVIOUS
  <2>1. u = w
    BY <1>6, <1>11
  <2>2. FileIdle(v)
    BY <1>2, <1>7, <2>1
  <2> QED
    BY <1>11, <2>1, <2>2
<1> QED
  BY <1>3, <1>8, <1>9, <1>10 DEF ManagerInv

LEMMA WriteIsKept ==
  ASSUME ManagerInv, NEW w \in FileWorkers, StatMode(w) \/ CopyText(w) \/ Chmod(w)
  PROVE  ManagerInv'
<1> DEFINE doing == fileTask[w]
<1>1. doing \in FileTask /\ Asks(doing) /\ Progress(disk, doing) /\ disk \in Disks /\ UNCHANGED holder
  BY Busy DEF StatMode, CopyText, Chmod, ManagerInv
<1>2. doing.op = "write" /\ doing.to \in Paths /\ doing.text \in Contents
      /\ disk[doing.to] \in FileRecords \cup {Absent}
  BY <1>1 DEF StatMode, CopyText, Chmod, Asks, FileTask, Disks
<1>3. CASE StatMode(w)
  <2> DEFINE next == [doing EXCEPT !.pc = "copy",
                       !.perms = IF disk[doing.to] = Absent THEN Public ELSE disk[doing.to].mode]
  <2>1. /\ next \in FileTask /\ next.found = doing.found /\ next.pc = "copy" /\ next.op = "write"
        /\ next.text = doing.text /\ next.to = doing.to
        /\ next.perms = IF disk[doing.to] = Absent THEN Public ELSE disk[doing.to].mode
    BY <1>1, <1>2 DEF FileTask, FileRecords
  <2>2. UNCHANGED disk /\ fileTask' = [fileTask EXCEPT ![w] = next] /\ doing.pc = "act"
    BY <1>3 DEF StatMode, ManagerInv
  <2>3. Asks(next) /\ Progress(disk', next)
    BY <1>1, <1>2, <2>1, <2>2 DEF Asks, Progress
  <2> HIDE DEF next
  <2> QED
    BY <1>1, <2>1, <2>2, <2>3, WorkerMoves
<1>4. CASE CopyText(w) /\ ~FileRefused(w)
  <2> DEFINE next == [doing EXCEPT !.pc = "chmod"]
  <2>1. /\ next \in FileTask /\ next.found = doing.found /\ next.pc = "chmod" /\ next.op = "write"
        /\ next.text = doing.text /\ next.to = doing.to /\ next.perms = doing.perms
    BY <1>1, <1>2 DEF FileTask
  <2>2. /\ fileTask' = [fileTask EXCEPT ![w] = next] /\ doing.pc = "copy"
        /\ disk' = [disk EXCEPT ![doing.to] =
              IF @ = Absent THEN [text |-> doing.text, mode |-> Public, owner |-> doing.who]
              ELSE [@ EXCEPT !.text = doing.text]]
    BY <1>4 DEF CopyText, ManagerInv
  <2> DEFINE new == IF disk[doing.to] = Absent THEN [text |-> doing.text, mode |-> Public, owner |-> doing.who]
                    ELSE [disk[doing.to] EXCEPT !.text = doing.text]
  <2>3. new \in FileRecords /\ new.text = doing.text
    BY <1>1, <1>2 DEF FileRecords, FileTask
  <2>4. disk[doing.to] # Absent => new = [disk[doing.to] EXCEPT !.text = doing.text]
    OBVIOUS
  <2> HIDE DEF new
  <2>5. disk' = [disk EXCEPT ![doing.to] = new]
    BY <2>2 DEF new
  <2>6. disk' \in Disks /\ disk'[doing.to] = new
    BY <1>1, <1>2, <2>3, <2>5 DEF Disks
  <2>7. Asks(next) /\ Progress(disk', next)
    BY <1>1, <1>2, <2>1, <2>2, <2>3, <2>4, <2>6 DEF Asks, Progress
  <2> HIDE DEF next
  <2> QED
    BY <1>1, <2>1, <2>2, <2>6, <2>7, WorkerMoves
<1>5. CASE CopyText(w) /\ FileRefused(w)
  BY <1>1, <1>5, WorkerRefused DEF CopyText, Progress
<1>6. CASE Chmod(w)
  <2> DEFINE next == [doing EXCEPT !.pc = IF TRUE THEN "ok" ELSE "error", !.perms = Public]
  <2>1. /\ next.found = doing.found /\ next.pc = "ok" /\ next.op = "write"
        /\ next.text = doing.text /\ next.to = doing.to
    BY <1>1, <1>2 DEF FileTask
  <2>2. doing.pc = "chmod" /\ FileEnds(w, TRUE)
        /\ \/ disk' = disk
           \/ disk[doing.to] # Absent /\ disk' = [disk EXCEPT ![doing.to].mode = doing.perms]
    <3>1. doing.pc = "chmod" /\ FileEnds(w, TRUE)
      BY <1>6 DEF Chmod
    <3>2. disk' = IF disk[doing.to] # Absent /\ MayWrite(doing.who, doing.to)
                  THEN [disk EXCEPT ![doing.to].mode = doing.perms] ELSE disk
      BY <1>6 DEF Chmod, ModeAfter
    <3> QED
      BY <3>1, <3>2
  <2> DEFINE new == [disk[doing.to] EXCEPT !.mode = doing.perms]
  <2>7. disk[doing.to] # Absent => new \in FileRecords /\ new.text = disk[doing.to].text
    BY <1>1, <1>2 DEF FileRecords, FileTask
  <2>8. \/ disk' = disk
        \/ disk[doing.to] # Absent /\ disk' = [disk EXCEPT ![doing.to] = new]
    BY <2>2, Zenon
  <2> HIDE DEF new
  <2>3. disk' \in Disks
    BY <1>1, <1>2, <2>7, <2>8 DEF Disks
  <2>4. disk'[doing.to].text = disk[doing.to].text /\ (disk'[doing.to] = disk[doing.to] \/ disk'[doing.to] = new)
    BY <1>1, <1>2, <2>7, <2>8 DEF Disks
  <2>5. ASSUME doing.found # NotAlone, doing.found[doing.to] # Absent
        PROVE  disk'[doing.to] = [doing.found[doing.to] EXCEPT !.text = doing.text]
    <3>1. doing.found \in Disks
      BY <1>1, <2>5 DEF FileTask
    <3>2. doing.found[doing.to] \in FileRecords
      BY <1>2, <2>5, <3>1 DEF Disks
    <3>3. disk[doing.to] = [doing.found[doing.to] EXCEPT !.text = doing.text] /\ doing.perms = doing.found[doing.to].mode
      BY <1>1, <2>2, <2>5 DEF Progress
    <3>4. [[doing.found[doing.to] EXCEPT !.text = doing.text] EXCEPT !.mode = doing.found[doing.to].mode]
            = [doing.found[doing.to] EXCEPT !.text = doing.text]
      BY <3>2 DEF FileRecords
    <3>5. disk'[doing.to] = disk[doing.to] \/ disk'[doing.to] = [disk[doing.to] EXCEPT !.mode = doing.perms]
      BY <2>4 DEF new
    <3> QED
      BY <3>3, <3>4, <3>5
  <2>6. doing.found # NotAlone => DidOn(disk', next)
    <3> HIDE DEF next
    <3> QED
      BY <1>1, <2>1, <2>2, <2>4, <2>5 DEF DidOn, Progress
  <2> QED
    BY <1>1, <2>2, <2>3, <2>6, WorkerEnds
<1> QED
  BY <1>3, <1>4, <1>5, <1>6

LEMMA OthersAreKept ==
  ASSUME ManagerInv, NEW w \in FileWorkers, InstallUpload(w) \/ RemoveFile(w) \/ CopyAll(w) \/ Rename(w)
  PROVE  ManagerInv'
<1> DEFINE doing == fileTask[w]
           next == [doing EXCEPT !.pc = IF TRUE THEN "ok" ELSE "error", !.perms = Public]
           origin == disk[doing.from]
           copied == [origin EXCEPT !.owner = IF doing.who = "root" THEN @ ELSE doing.who]
           sent == [text |-> doing.text, mode |-> Public, owner |-> doing.who]
<1>1. doing \in FileTask /\ Asks(doing) /\ Progress(disk, doing) /\ disk \in Disks
      /\ doing.pc = "act" /\ UNCHANGED holder
  BY Busy DEF InstallUpload, RemoveFile, CopyAll, Rename, ManagerInv
<1>2. /\ next.found = doing.found /\ next.pc = "ok" /\ next.op = doing.op
      /\ next.text = doing.text /\ next.to = doing.to /\ next.from = doing.from
  BY <1>1 DEF FileTask
<1>3. doing.from \in Paths /\ doing.to \in Paths /\ doing.who \in HostAccounts
      /\ (doing.found # NotAlone => doing.found = disk)
  BY <1>1 DEF FileTask, Progress
<1>4. CASE FileRefused(w)
  BY <1>1, <1>3, <1>4, WorkerRefused
<1>5. CASE InstallUpload(w) /\ ~FileRefused(w)
  <2>1. doing.op = "upload" /\ disk' = [disk EXCEPT ![doing.to] = sent] /\ FileEnds(w, TRUE)
    BY <1>5 DEF InstallUpload
  <2>2. sent \in FileRecords /\ sent.text = doing.text
    BY <1>1, <1>3, <2>1 DEF Asks, FileRecords
  <2> HIDE DEF sent
  <2>3. disk' \in Disks /\ disk'[doing.to] = sent
    BY <1>1, <1>3, <2>1, <2>2 DEF Disks
  <2>4. DidOn(disk', next)
    BY <1>2, <2>1, <2>2, <2>3 DEF DidOn
  <2> QED
    BY <1>1, <2>1, <2>3, <2>4, WorkerEnds
<1>6. CASE RemoveFile(w) /\ ~FileRefused(w)
  <2>1. doing.op = "delete" /\ disk' = [disk EXCEPT ![doing.from] = Absent] /\ FileEnds(w, TRUE)
    BY <1>6 DEF RemoveFile
  <2>2. disk' \in Disks /\ disk'[doing.from] = Absent
    BY <1>1, <1>3, <2>1 DEF Disks
  <2>3. DidOn(disk', next)
    BY <1>2, <2>1, <2>2 DEF DidOn
  <2> QED
    BY <1>1, <2>1, <2>2, <2>3, WorkerEnds
<1>7. CASE CopyAll(w) /\ ~FileRefused(w)
  <2>1. doing.op = "copy" /\ disk' = [disk EXCEPT ![doing.to] = copied] /\ FileEnds(w, TRUE) /\ origin # Absent
    BY <1>7 DEF CopyAll
  <2>2. origin \in FileRecords
    BY <1>1, <1>3, <2>1 DEF Disks
  <2>3. copied \in FileRecords /\ copied.text = origin.text
    BY <1>3, <2>2 DEF FileRecords
  <2> HIDE DEF copied
  <2>4. disk' \in Disks /\ disk'[doing.to] = copied
    BY <1>1, <1>3, <2>1, <2>3 DEF Disks
  <2>5. doing.found # NotAlone => DidOn(disk', next)
    BY <1>2, <1>3, <2>1, <2>3, <2>4 DEF DidOn
  <2> QED
    BY <1>1, <2>1, <2>4, <2>5, WorkerEnds
<1>8. CASE Rename(w) /\ ~FileRefused(w)
  <2>1. doing.op = "move" /\ disk' = [disk EXCEPT ![doing.to] = disk[doing.from], ![doing.from] = Absent]
        /\ FileEnds(w, TRUE) /\ doing.from # doing.to
    BY <1>1, <1>8 DEF Rename, Asks
  <2>2. disk' \in Disks /\ disk'[doing.from] = Absent /\ disk'[doing.to] = disk[doing.from]
    BY <1>1, <1>3, <2>1 DEF Disks
  <2>3. doing.found # NotAlone => DidOn(disk', next)
    BY <1>2, <1>3, <2>1, <2>2 DEF DidOn
  <2> QED
    BY <1>1, <2>1, <2>2, <2>3, WorkerEnds
<1> QED
  BY <1>4, <1>5, <1>6, <1>7, <1>8

LEMMA AnswerIsKept ==
  ASSUME ManagerInv, NEW w \in FileWorkers, AnswerFile(w)
  PROVE  ManagerInv'
<1>1. fileTask' = [fileTask EXCEPT ![w] = NoFileTask] /\ UNCHANGED <<holder, disk>>
  BY DEF AnswerFile
<1>2. fileTask' \in [FileWorkers -> FileTask \cup {NoFileTask}]
  BY <1>1 DEF ManagerInv
<1>3. \A v \in FileWorkers : v # w => fileTask'[v] = fileTask[v]
  BY <1>1 DEF ManagerInv
<1>4. FileIdle(w)'
  BY <1>1 DEF ManagerInv, FileIdle, NoFileTask
<1>5. \A v \in FileWorkers : v # w => (FileIdle(v)' <=> FileIdle(v))
  BY <1>3 DEF FileIdle
<1>6. \A v \in FileWorkers : ~FileIdle(v)' => Asks(fileTask'[v]) /\ Progress(disk', fileTask'[v])
  BY <1>1, <1>3, <1>4, <1>5 DEF ManagerInv
<1>7. \A u, v \in FileWorkers : ~FileIdle(u)' /\ fileTask'[u].found # NotAlone /\ v # u => FileIdle(v)'
  BY <1>3, <1>4, <1>5 DEF ManagerInv
<1> QED
  BY <1>1, <1>2, <1>6, <1>7 DEF ManagerInv

LEMMA ManagerInvariant == ManagerSpec => []ManagerInv
<1>1. ManagerInit => ManagerInv
  <2> SUFFICES ASSUME ManagerInit PROVE ManagerInv
    OBVIOUS
  <2>1. disk \in Disks
    BY DEF ManagerInit, Disks, FileRecords
  <2>2. \A w \in FileWorkers : FileIdle(w)
    BY DEF ManagerInit, FileIdle, NoFileTask
  <2> QED
    BY <2>1, <2>2 DEF ManagerInit, ManagerInv
<1>2. ManagerInv /\ [ManagerNext]_managerVars => ManagerInv'
  <2> SUFFICES ASSUME ManagerInv, [ManagerNext]_managerVars PROVE ManagerInv'
    OBVIOUS
  <2>1. CASE UNCHANGED managerVars
    BY <2>1 DEF managerVars, ManagerInv, FileIdle
  <2>2. ASSUME NEW w \in FileWorkers, WriteFile(w) PROVE ManagerInv'
    BY <2>2, BeginIsKept DEF WriteFile
  <2>3. ASSUME NEW w \in FileWorkers, UploadFile(w) PROVE ManagerInv'
    BY <2>3, BeginIsKept DEF UploadFile
  <2>4. ASSUME NEW w \in FileWorkers, DeletePath(w) \/ CopyPath(w) \/ MovePath(w) PROVE ManagerInv'
    BY <2>4, BeginIsKept DEF DeletePath, CopyPath, MovePath
  <2> QED
    BY <2>1, <2>2, <2>3, <2>4, WriteIsKept, OthersAreKept, AnswerIsKept DEF ManagerNext
<1> QED
  BY <1>1, <1>2, PTL DEF ManagerSpec

LEMMA ManagerFromInv == ManagerInv => ManagerTypeOK /\ AnswersHold
<1> SUFFICES ASSUME ManagerInv PROVE ManagerTypeOK /\ AnswersHold
  OBVIOUS
<1>1. ManagerTypeOK
  BY Busy DEF ManagerInv, ManagerTypeOK, Disks, FileTask
<1>2. ASSUME NEW w \in FileWorkers, fileTask[w].pc \in {"ok", "error"}, fileTask[w].found # NotAlone
      PROVE  Did(fileTask[w])
  <2>1. Progress(disk, fileTask[w])
    BY <1>2, Busy DEF ManagerInv
  <2>2. DidOn(disk, fileTask[w])
    BY <1>2, <2>1 DEF Progress
  <2> QED
    BY <2>2 DEF Did, DidOn
<1> QED
  BY <1>1, <1>2 DEF AnswersHold

-------------------------------------------------------------------------------
(* A unit's row.                                                                    *)
UnitRow == [loaded : BOOLEAN, fcgiwrap : BOOLEAN, enabled : BOOLEAN,
            state : {"active", "inactive", "failed"}, why : {"none", "dependency", "error"}]

(* Whatever a request or the system does to a unit, it never comes back, and its kind *)
(* stays.                                                                           *)
UnitStays(u) ==
  /\ unit' \in [Units -> UnitRow]
  /\ \A v \in Units : unit'[v].fcgiwrap = unit[v].fcgiwrap /\ (unit'[v].loaded => unit[v].loaded)

LEMMA UnitBecomes ==
  ASSUME unit \in [Units -> UnitRow], NEW u \in Units, NEW row \in UnitRow,
         row.fcgiwrap = unit[u].fcgiwrap, row.loaded => unit[u].loaded,
         unit' = [unit EXCEPT ![u] = row]
  PROVE  UnitStays(u)
BY DEF UnitStays

ServicesInv == ServicesTypeOK /\ ProtectedStay

LEMMA ServicesInvInit == ServicesInit => ServicesInv
<1> SUFFICES ASSUME ServicesInit PROVE ServicesInv
  OBVIOUS
<1>1. unit \in [Units -> UnitRow]
  <2>1. \A u \in Units : unit[u] \in UnitRow
    BY DEF ServicesInit, UnitRow
  <2> QED
    BY <2>1 DEF ServicesInit
<1>2. ProtectedStay
BY ServicesAssumption DEF ServicesInit, ProtectedStay, SafeToAutofix
<1> QED
BY <1>1, <1>2 DEF ServicesInit, ServicesInv, ServicesTypeOK, UnitRow

LEMMA ServicesInvStep == ServicesInv /\ [ServicesNext]_servicesVars => ServicesInv'
<1> SUFFICES ASSUME ServicesInv, [ServicesNext]_servicesVars PROVE ServicesInv'
  OBVIOUS
<1> USE DEF ServicesInv
<1>0. unit \in [Units -> UnitRow]
BY DEF ServicesTypeOK, UnitRow
<1>1. ASSUME NEW u \in Units, UnitStays(u), UNCHANGED <<advice, login, mounted>> PROVE ServicesInv'
BY <1>1 DEF UnitStays, ServicesTypeOK, ProtectedStay, UnitRow
<1>2. ASSUME NEW u \in Units, Fails(u) PROVE ServicesInv'
<2>1. PICK why \in {"dependency", "error"} :
        unit' = [unit EXCEPT ![u] = [unit[u] EXCEPT !.state = "failed", !.why = why]]
  BY <1>2 DEF Fails
<2> DEFINE row == [unit[u] EXCEPT !.state = "failed", !.why = why]
<2>2. row \in UnitRow /\ row.fcgiwrap = unit[u].fcgiwrap /\ row.loaded = unit[u].loaded
  BY <1>0 DEF UnitRow
<2> HIDE DEF row
<2> QED
  BY <1>0, <1>1, <1>2, <2>1, <2>2, UnitBecomes DEF Fails, row
<1>3. ASSUME NEW u \in Units, Uninstalled(u) PROVE ServicesInv'
<2> DEFINE row == [unit[u] EXCEPT !["loaded"] = FALSE]
<2>1. unit' = [unit EXCEPT ![u] = row] /\ UNCHANGED <<advice, login, mounted>>
  BY <1>3 DEF Uninstalled, Becomes
<2>2. row \in UnitRow /\ row.fcgiwrap = unit[u].fcgiwrap /\ ~row.loaded
  BY <1>0 DEF UnitRow
<2> HIDE DEF row
<2> QED
  BY <1>0, <1>1, <2>1, <2>2, UnitBecomes
<1>4. ASSUME NEW u \in Units, NEW action \in {"restart", "stop", "enable", "disable"},
           ServiceAction(u, action)
    PROVE  ServicesInv'
<2>1. UNCHANGED <<advice, login, mounted>>
  BY <1>4 DEF ServiceAction
<2> DEFINE State(s) == [unit[u] EXCEPT !["state"] = s]
           Enabled(e) == [unit[u] EXCEPT !["enabled"] = e]
<2>2. \/ \E s \in {"active", "inactive"} : unit' = [unit EXCEPT ![u] = State(s)]
      \/ \E e \in BOOLEAN : unit' = [unit EXCEPT ![u] = Enabled(e)]
  BY <1>4 DEF ServiceAction, Becomes
<2>3. \A s \in {"active", "inactive"} : /\ State(s) \in UnitRow
                                        /\ State(s).fcgiwrap = unit[u].fcgiwrap
                                        /\ State(s).loaded = unit[u].loaded
  BY <1>0 DEF UnitRow
<2>4. \A e \in BOOLEAN : /\ Enabled(e) \in UnitRow
                         /\ Enabled(e).fcgiwrap = unit[u].fcgiwrap
                         /\ Enabled(e).loaded = unit[u].loaded
  BY <1>0 DEF UnitRow
<2> HIDE DEF State, Enabled
<2> QED
  BY <1>0, <1>1, <2>1, <2>2, <2>3, <2>4, UnitBecomes
<1>5. CASE FailedAnalysis
BY <1>5 DEF FailedAnalysis, Classified, ServicesTypeOK, ProtectedStay, SafeToAutofix
<1>6. ASSUME NEW u \in Units, NEW action \in SafeToAutofix, FixFailed(u, action) PROVE ServicesInv'
<2> DEFINE Row(enabled) ==
             [unit[u] EXCEPT !.state = IF unit[u].state = "failed" THEN "inactive" ELSE unit[u].state,
                             !.enabled = enabled]
<2>1. UNCHANGED <<advice, login, mounted>>
      /\ \E enabled \in {unit[u].enabled, FALSE} : unit' = [unit EXCEPT ![u] = Row(enabled)]
  BY <1>6 DEF FixFailed
<2>2. \A enabled \in BOOLEAN : /\ Row(enabled) \in UnitRow
                               /\ Row(enabled).fcgiwrap = unit[u].fcgiwrap
                               /\ Row(enabled).loaded = unit[u].loaded
  BY <1>0 DEF UnitRow
<2>3. unit[u].enabled \in BOOLEAN
  BY <1>0 DEF UnitRow
<2> HIDE DEF Row
<2> QED
  BY <1>0, <1>1, <2>1, <2>2, <2>3, UnitBecomes
<1>7. ASSUME NEW h \in HostUsers, CreateUser(h) \/ DeleteUser(h) PROVE ServicesInv'
BY <1>7 DEF CreateUser, DeleteUser, ServicesTypeOK, ProtectedStay
<1>8. ASSUME NEW p \in MountPoints, DiskMount(p) PROVE ServicesInv'
BY <1>8 DEF DiskMount, ServicesTypeOK, ProtectedStay
<1>9. ASSUME NEW p \in MountPoints, NEW spelling \in Spellings, DiskUnmount(p, spelling)
    PROVE  ServicesInv'
BY <1>9 DEF DiskUnmount, Refused, ServicesTypeOK, ProtectedStay, Spellings
<1>10. CASE UNCHANGED servicesVars
BY <1>10 DEF servicesVars, ServicesTypeOK, ProtectedStay
<1> QED
BY <1>2, <1>3, <1>4, <1>5, <1>6, <1>7, <1>8, <1>9, <1>10 DEF ServicesNext

LEMMA ServicesInvariant == ServicesSpec => []ServicesInv
BY ServicesInvInit, ServicesInvStep, PTL DEF ServicesSpec

-------------------------------------------------------------------------------
(* The table has counters of the addresses it was last set up for, and no others.    *)
NetworkInv ==
  /\ NetworkTypeOK /\ CountedAreHere
  /\ table # NoAddress => table \subseteq accounted

LEMMA NetworkInvInit == NetworkInit => NetworkInv
<1> SUFFICES ASSUME NetworkInit PROVE NetworkInv
  OBVIOUS
<1>1. iface \in [up : BOOLEAN, address : HostAddresses \union {NoAddress}, route : BOOLEAN]
      /\ iface.up /\ iface.address \in HostAddresses
BY DEF NetworkInit
<1>2. cache \in [data : SUBSET HostAddresses, fresh : BOOLEAN]
BY DEF NetworkInit
<1>3. CountedAreHere
BY DEF NetworkInit, CountedAreHere
<1> QED
BY <1>1, <1>2, <1>3, NetworkAssumption DEF NetworkInit, NetworkInv, NetworkTypeOK

LEMMA NetworkInvStep == NetworkInv /\ [NetworkNext]_networkVars => NetworkInv'
<1> SUFFICES ASSUME NetworkInv, [NetworkNext]_networkVars PROVE NetworkInv'
  OBVIOUS
<1> USE DEF NetworkInv, CountedAreHere
<1>1. ASSUME NEW action \in {"up", "down"}, IfaceLink(action) PROVE NetworkInv'
BY <1>1 DEF IfaceLink, NetworkTypeOK
<1>2. CASE IfaceIP
<2>1. PICK address \in HostAddresses \union {NoAddress}, route \in BOOLEAN :
        /\ route => iface.up /\ address # NoAddress
        /\ iface' = [up |-> iface.up, address |-> address, route |-> route]
  BY <1>2 DEF IfaceIP, NetworkTypeOK
<2>2. UNCHANGED <<accounted, table, cache, answer>>
  BY <1>2 DEF IfaceIP
<2> QED
  BY <2>1, <2>2 DEF NetworkTypeOK
<1>3. CASE RestartNetworking
<2>1. PICK address \in HostAddresses \union {NoAddress} :
        iface' = [up |-> TRUE, address |-> address, route |-> address # NoAddress]
  BY <1>3 DEF RestartNetworking
<2>2. UNCHANGED <<accounted, table, cache, answer>>
  BY <1>3 DEF RestartNetworking
<2>3. (address # NoAddress) \in BOOLEAN
  OBVIOUS
<2>4. /\ iface' \in [up : BOOLEAN, address : HostAddresses \union {NoAddress}, route : BOOLEAN]
      /\ iface'.up = TRUE /\ iface'.address = address /\ iface'.route = (address # NoAddress)
  BY <2>1, <2>3, Zenon
<2>5. iface'.route => iface'.up /\ iface'.address # NoAddress
  BY <2>4
<2> QED
  BY <2>2, <2>4, <2>5 DEF NetworkTypeOK
<1>4. CASE CachePasses \/ RulesetReloaded
<2>1. \/ cache' = [data |-> cache.data, fresh |-> FALSE] /\ table' = table
      \/ cache' = cache /\ table' = NoAddress
  BY <1>4 DEF CachePasses, RulesetReloaded, NetworkTypeOK
<2>2. UNCHANGED <<iface, accounted, answer>>
  BY <1>4 DEF CachePasses, RulesetReloaded
<2>5. cache \in [data : SUBSET HostAddresses, fresh : BOOLEAN]
  BY DEF NetworkTypeOK
<2>6. [data |-> cache.data, fresh |-> FALSE] \in [data : SUBSET HostAddresses, fresh : BOOLEAN]
  BY <2>5
<2>3. cache' \in [data : SUBSET HostAddresses, fresh : BOOLEAN]
  BY <2>1, <2>5, <2>6
<2>4. /\ table' \in {NoAddress} \union SUBSET HostAddresses
      /\ table' # NoAddress => table' \subseteq accounted
  BY <2>1 DEF NetworkTypeOK
<2> QED
  BY <2>2, <2>3, <2>4 DEF NetworkTypeOK
<1>5. CASE GetSysinfo
<2> DEFINE current == Addresses(iface)
<2>1. current \subseteq HostAddresses
  BY DEF Addresses, NetworkTypeOK
<2>2. /\ accounted' = current
      /\ table' \in {NoAddress} \union SUBSET HostAddresses
      /\ table' # NoAddress => table' \subseteq current
      /\ UNCHANGED iface
  BY <1>5, <2>1 DEF GetSysinfo, MustSetUp, Rules, NetworkTypeOK
<2>3. CountedBytes(table') \subseteq current
  BY <2>2 DEF CountedBytes
<2>4. CASE cache.fresh
  BY <1>5, <2>1, <2>2, <2>4 DEF GetSysinfo, NetworkTypeOK
<2>5. CASE ~cache.fresh
  <3>1. /\ answer' = [had |-> current, counted |-> CountedBytes(table'), cached |-> FALSE]
        /\ cache' = [data |-> CountedBytes(table'), fresh |-> TRUE]
    BY <1>5, <2>5 DEF GetSysinfo
  <3>2. cache' \in [data : SUBSET HostAddresses, fresh : BOOLEAN] /\ CountedAreHere'
    BY <2>1, <2>3, <3>1
  <3> QED
    BY <2>1, <2>2, <3>2 DEF NetworkTypeOK
<2> QED
  BY <2>4, <2>5
<1>6. CASE UNCHANGED networkVars
BY <1>6 DEF networkVars, NetworkTypeOK
<1> QED
BY <1>1, <1>2, <1>3, <1>4, <1>5, <1>6 DEF NetworkNext

LEMMA NetworkInvariant == NetworkSpec => []NetworkInv
BY NetworkInvInit, NetworkInvStep, PTL DEF NetworkSpec

-------------------------------------------------------------------------------
(* The first serial of a day is above all those of the days before.                 *)
LEMMA NewDayIsAbove ==
  ASSUME NEW n \in Nat, NEW per \in Nat \ {0}, NEW today \in Nat, n \div per < today
  PROVE  n < today * per
<1> DEFINE q == n \div per
<1>1. q \in Nat /\ n = q * per + (n % per) /\ (n % per) \in 0 .. per - 1
  OBVIOUS
<1> HIDE DEF q
<1>2. q + 1 <= today
BY <1>1 DEF q
<1>3. (q + 1) * per <= today * per
BY <1>1, <1>2
<1>4. (q + 1) * per = q * per + per
BY <1>1
<1>5. q * per \in Nat /\ today * per \in Nat
BY <1>1
<1> QED
BY <1>1, <1>3, <1>4, <1>5

LEMMA IncrementIsAbove ==
  ASSUME NEW n \in Nat, day \in Nat, PerDay \in Nat \ {0}, n \div PerDay <= day
  PROVE  Increment(n) > n
<1>1. n \div PerDay \in Nat
  OBVIOUS
<1>2. CASE n \div PerDay = day
BY <1>2 DEF Increment
<1>3. CASE n \div PerDay < day
<2>1. n < day * PerDay /\ day * PerDay \in Nat
  BY <1>3, NewDayIsAbove
<2> QED
  BY <1>1, <1>3, <2>1 DEF Increment, Today
<1> QED
BY <1>1, <1>2, <1>3

ZoneInv == ZoneTypeOK /\ SerialCoversChange

LEMMA ZoneInvInit == ZoneInit => ZoneInv
<1> SUFFICES ASSUME ZoneInit PROVE ZoneInv
  OBVIOUS
<1>1. PICK t \in Texts, n \in FirstSerials : zone = [serial |-> n, text |-> t]
BY DEF ZoneInit
<1>2. zone \in [serial : Nat, text : Texts] /\ zone.serial \in Nat
BY <1>1, ZoneAssumption
<1>3. SerialCoversChange
BY <1>2 DEF ZoneInit, SerialCoversChange
<1>4. day \in 1 .. MaxDay
BY ZoneAssumption DEF ZoneInit
<1>5. loaded \in [Consoles -> [serial : Nat, text : Texts] \union {NotLoaded}]
BY DEF ZoneInit
<1> QED
BY <1>2, <1>3, <1>4, <1>5 DEF ZoneInit, ZoneInv, ZoneTypeOK

LEMMA ZoneInvStep == ZoneInv /\ [ZoneNext]_zoneVars => ZoneInv'
<1> SUFFICES ASSUME ZoneInv, [ZoneNext]_zoneVars PROVE ZoneInv'
  OBVIOUS
<1> USE DEF ZoneInv, SerialCoversChange, InSync, SoaSerial
<1>0. /\ zone.serial \in Nat /\ zone.text \in Texts
      /\ secondary.serial \in Nat /\ secondary.text \in Texts
      /\ day \in Nat /\ PerDay \in Nat \ {0} /\ MaxDay \in Nat
BY ZoneAssumption DEF ZoneTypeOK
<1>1. ASSUME NEW c \in Consoles, GetRecords(c) PROVE ZoneInv'
BY <1>1 DEF GetRecords, ZoneTypeOK
<1>2. ASSUME NEW c \in Consoles, NEW t \in Texts, SaveRecords(c, t) PROVE ZoneInv'
<2> DEFINE n == loaded[c].serial
           new == IF n \in InName THEN n ELSE Increment(n)
<2>1. n \in Nat
  BY <1>2 DEF SaveRecords, ZoneTypeOK
<2>2. /\ zone' = [serial |-> new, text |-> t]
      /\ spoiled' = (spoiled \/ n # zone.serial \/ n \in InName \/ n \div PerDay > day)
      /\ UNCHANGED <<day, secondary, loaded>>
  BY <1>2 DEF SaveRecords
<2>3. n \div PerDay \in Nat
  BY <1>0, <2>1
<2>4. Increment(n) \in Nat
  BY <1>0, <2>1 DEF Increment, Today
<2>10. n \div PerDay <= day => Increment(n) > n
  BY <1>0, <2>1, IncrementIsAbove
<2>11. ~(n \div PerDay > day) => n \div PerDay <= day
  BY <1>0, <2>3
<2> DEFINE ahead == n \div PerDay > day
           late == n \div PerDay <= day
<2> HIDE DEF ahead, late
<2>5. ~spoiled' => ~spoiled /\ n = zone.serial /\ new = Increment(n) /\ Increment(n) > n
  <3>1. ~spoiled' => ~spoiled /\ n = zone.serial /\ n \notin InName /\ ~ahead
    BY <2>2, Zenon DEF ahead
  <3>2. ~ahead => late
    BY <2>11 DEF ahead, late
  <3>3. late => Increment(n) > n
    BY <2>10 DEF late
  <3> QED
    BY <3>1, <3>2, <3>3
<2> HIDE DEF n
<2>6. new \in Nat
  BY <2>1, <2>4
<2> HIDE DEF new
<2>7. zone' \in [serial : Nat, text : Texts] /\ zone'.serial = new /\ zone'.text = t
  BY <2>2, <2>6
<2>8. spoiled' \in BOOLEAN
  BY <2>2
<2>9. ZoneTypeOK'
  BY <2>2, <2>7, <2>8 DEF ZoneTypeOK
<2> QED
  BY <1>0, <2>1, <2>2, <2>4, <2>5, <2>6, <2>7, <2>9
<1>3. CASE Transfer
BY <1>0, <1>3 DEF Transfer, ZoneTypeOK
<1>4. CASE NextDay
BY <1>0, <1>4 DEF NextDay, ZoneTypeOK
<1>5. CASE UNCHANGED zoneVars
BY <1>5 DEF zoneVars, ZoneTypeOK
<1> QED
BY <1>1, <1>2, <1>3, <1>4, <1>5 DEF ZoneNext

-------------------------------------------------------------------------------
(* The edits in progress.  One of a zone that is sure has the addresses asked for in   *)
(* what it will write, and, once it is written, in the file.                         *)
WritesOptions(doing) ==
  /\ doing.pc \in {"write", "reload"} /\ doing.file = "options"
  /\ doing.pc = "write" => doing.new \in [notify : {"yes", "no"}, formed : {TRUE}]
EditsZone(doing) ==
  /\ doing.pc \in {"write", "reload"} /\ doing.file = "blocks"
  /\ doing.zone \in NameZones /\ doing.ips \subseteq NotifyIps
  /\ doing.pc = "write" => doing.new \in [NameZones -> Block]
  /\ doing.sure => IF doing.pc = "write" THEN doing.new[doing.zone].ips = doing.ips
                 ELSE blocks[doing.zone].ips = doing.ips

BindInv ==
  /\ options \in [notify : {"absent", "yes", "no"}, formed : BOOLEAN]
  /\ blocks \in [NameZones -> Block]
  /\ named \in [notify : {"yes", "no"}, blocks : [NameZones -> Block]]
  /\ DOMAIN bindTask = BindEditors
  /\ \A p \in BindEditors :
       bindTask[p] = NoBindTask \/ WritesOptions(bindTask[p]) \/ EditsZone(bindTask[p])
  /\ options.formed => options.notify # "absent"
  /\ told.sure => told.got = told.ips

LEMMA BindInvInit == BindInit => BindInv
<1> SUFFICES ASSUME BindInit PROVE BindInv
  OBVIOUS
<1>1. options \in [notify : {"absent", "yes", "no"}, formed : BOOLEAN] /\ ~options.formed
      /\ options.notify = "absent"
BY DEF BindInit
<1>2. blocks \in [NameZones -> Block]
<2>1. PICK noted \in BOOLEAN :
        blocks = [z \in NameZones |-> [ips |-> {}, noted |-> noted, next |-> TRUE]]
  BY DEF BindInit
<2>2. [ips |-> {}, noted |-> noted, next |-> TRUE] \in Block
  BY DEF Block
<2> QED
  BY <2>1, <2>2
<1>3. named \in [notify : {"yes", "no"}, blocks : [NameZones -> Block]]
BY <1>1, <1>2 DEF BindInit, Runs
<1>4. ~told.sure
BY DEF BindInit
<1> QED
BY <1>1, <1>2, <1>3, <1>4 DEF BindInit, BindInv

LEMMA BindInvStep == BindInv /\ [BindNext]_bindVars => BindInv'
<1> SUFFICES ASSUME BindInv, [BindNext]_bindVars PROVE BindInv'
  OBVIOUS
<1> USE DEF BindInv
<1>0. \A p \in BindEditors :
        bindTask[p] = NoBindTask \/ WritesOptions(bindTask[p]) \/ EditsZone(bindTask[p])
  OBVIOUS
<1>1. ASSUME NEW p \in BindEditors, NEW doing, doing = NoBindTask \/ WritesOptions(doing) \/ EditsZone(doing),
             bindTask' = [bindTask EXCEPT ![p] = doing], UNCHANGED <<options, blocks>>,
             named' \in [notify : {"yes", "no"}, blocks : [NameZones -> Block]],
             told'.sure => told'.got = told'.ips
      PROVE  BindInv'
  <2>1. \A q \in BindEditors : bindTask'[q] = IF q = p THEN doing ELSE bindTask[q]
    BY <1>1
  <2>2. \A q \in BindEditors :
          bindTask'[q] = NoBindTask \/ WritesOptions(bindTask'[q]) \/ EditsZone(bindTask'[q])
    BY <1>0, <1>1, <2>1
  <2>3. \A q \in BindEditors :
          (bindTask[q] = NoBindTask \/ WritesOptions(bindTask[q]) \/ EditsZone(bindTask[q]))'
    BY <1>1, <2>2 DEF WritesOptions, EditsZone
  <2> QED
    BY <1>1, <2>3
<1>2. ASSUME NEW p \in BindEditors, SaveOptions(p) PROVE BindInv'
  <2>1. PICK notify \in {Shown(options.notify), "yes", "no"} :
          bindTask' = [bindTask EXCEPT ![p] = [NoBindTask EXCEPT !.pc = "write", !.file = "options",
                                                              !.new = BuildNamedOptions(notify)]]
    BY <1>2 DEF SaveOptions
  <2> DEFINE doing == [NoBindTask EXCEPT !.pc = "write", !.file = "options", !.new = BuildNamedOptions(notify)]
  <2>2. notify \in {"yes", "no"}
    BY DEF Shown
  <2>3. BuildNamedOptions(notify) \in [notify : {"yes", "no"}, formed : {TRUE}]
    BY <2>2 DEF BuildNamedOptions
  <2>4. WritesOptions(doing)
    BY <2>3 DEF WritesOptions, NoBindTask
  <2> HIDE DEF doing
  <2>5. bindTask' = [bindTask EXCEPT ![p] = doing]
    BY <2>1 DEF doing
  <2> QED
    BY <1>1, <1>2, <2>4, <2>5 DEF SaveOptions
<1>3. ASSUME NEW p \in BindEditors, SetZoneNotify(p) PROVE BindInv'
  <2>1. PICK z \in NameZones, ips \in SUBSET NotifyIps :
          /\ bindTask' = [bindTask EXCEPT ![p] =
               [pc |-> "write", file |-> "blocks", zone |-> z, ips |-> ips,
                new |-> [blocks EXCEPT ![z] = SetNotify(@, ips)],
                sure |-> ~(blocks[z].noted /\ blocks[z].ips = {})]]
          /\ UNCHANGED <<options, blocks, named, told>>
    BY <1>3 DEF SetZoneNotify
  <2> DEFINE new == [blocks EXCEPT ![z] = SetNotify(blocks[z], ips)]
             sure == ~(blocks[z].noted /\ blocks[z].ips = {})
             doing == [pc |-> "write", file |-> "blocks", zone |-> z, ips |-> ips, new |-> new, sure |-> sure]
  <2>2. SetNotify(blocks[z], ips) \in Block
    BY DEF SetNotify, Block
  <2>3. new \in [NameZones -> Block] /\ new[z] = SetNotify(blocks[z], ips)
    BY <2>2
  <2>4. sure => new[z].ips = ips
    BY <2>3 DEF SetNotify
  <2> HIDE DEF new, sure
  <2>5. EditsZone(doing)
    BY <2>3, <2>4 DEF EditsZone
  <2>6. bindTask' = [bindTask EXCEPT ![p] = doing]
    BY <2>1 DEF new, sure
  <2> HIDE DEF doing
  <2> QED
    BY <1>1, <2>1, <2>5, <2>6
<1>4. ASSUME NEW p \in BindEditors, WriteBindConf(p) PROVE BindInv'
  <2> DEFINE doing == bindTask[p]
             mine == [doing EXCEPT !.pc = "reload", !.new = <<>>]
  <2>0. WritesOptions(doing) \/ EditsZone(doing)
    BY <1>4 DEF WriteBindConf, NoBindTask
  <2>1. /\ doing.pc = "write"
        /\ options' = IF doing.file = "options" THEN doing.new ELSE options
        /\ blocks' = IF doing.file = "blocks" THEN doing.new ELSE blocks
        /\ DOMAIN bindTask' = BindEditors
        /\ bindTask'[p] = mine
        /\ \A q \in BindEditors \ {p} :
             bindTask'[q] = IF bindTask[q].file = "blocks" /\ doing.file = "blocks"
                            THEN [bindTask[q] EXCEPT !.sure = FALSE] ELSE bindTask[q]
        /\ UNCHANGED <<named, told>>
    BY <1>4 DEF WriteBindConf
  <2>2. options' \in [notify : {"absent", "yes", "no"}, formed : BOOLEAN]
        /\ (options'.formed => options'.notify # "absent")
    BY <2>0, <2>1 DEF WritesOptions, EditsZone
  <2>3. blocks' \in [NameZones -> Block]
    BY <2>0, <2>1 DEF WritesOptions, EditsZone
  <2>4. (WritesOptions(bindTask[p]) \/ EditsZone(bindTask[p]))'
    <3>1. /\ mine.pc = "reload" /\ mine.file = doing.file /\ mine.zone = doing.zone
          /\ mine.ips = doing.ips /\ mine.sure = doing.sure
      BY <2>0 DEF WritesOptions, EditsZone
    <3> HIDE DEF mine
    <3>2. CASE WritesOptions(doing)
      BY <2>1, <3>1, <3>2 DEF WritesOptions
    <3>3. CASE EditsZone(doing)
      BY <2>1, <3>1, <3>3 DEF EditsZone
    <3> QED
      BY <2>0, <3>2, <3>3
  <2>5. ASSUME NEW q \in BindEditors \ {p}
        PROVE  (bindTask[q] = NoBindTask \/ WritesOptions(bindTask[q]) \/ EditsZone(bindTask[q]))'
    <3>1. CASE bindTask[q] = NoBindTask
      BY <2>1, <3>1 DEF NoBindTask
    <3>2. CASE WritesOptions(bindTask[q])
      <4>1. bindTask'[q] = bindTask[q]
        BY <2>1, <3>2 DEF WritesOptions
      <4> QED
        BY <3>2, <4>1 DEF WritesOptions
    <3>3. CASE EditsZone(bindTask[q])
      <4>1. CASE doing.file = "blocks"
        <5> DEFINE other == [bindTask[q] EXCEPT !.sure = FALSE]
        <5>1. bindTask'[q] = other
          BY <2>1, <3>3, <4>1 DEF EditsZone
        <5>2. /\ other.pc = bindTask[q].pc /\ other.file = bindTask[q].file /\ ~other.sure
              /\ other.zone = bindTask[q].zone /\ other.ips = bindTask[q].ips
              /\ other.new = bindTask[q].new
          BY <3>3 DEF EditsZone
        <5> HIDE DEF other
        <5> QED
          BY <3>3, <5>1, <5>2 DEF EditsZone
      <4>2. CASE doing.file # "blocks"
        <5>1. bindTask'[q] = bindTask[q] /\ blocks' = blocks
          BY <2>1, <4>2
        <5> QED
          BY <3>3, <5>1 DEF EditsZone
      <4> QED
        BY <4>1, <4>2
    <3> QED
      BY <1>0, <3>1, <3>2, <3>3
  <2> QED
    BY <2>1, <2>2, <2>3, <2>4, <2>5
<1>5. ASSUME NEW p \in BindEditors, RndcReload(p) PROVE BindInv'
  <2> DEFINE doing == bindTask[p]
  <2>1. PICK reloaded \in BOOLEAN :
          /\ named' = IF reloaded THEN [notify |-> Runs(options.notify), blocks |-> blocks] ELSE named
          /\ told' = IF doing.file = "blocks"
                     THEN [ips |-> doing.ips, got |-> named'.blocks[doing.zone].ips,
                           sure |-> reloaded /\ doing.sure]
                     ELSE told
    BY <1>5 DEF RndcReload
  <2>2. /\ doing.pc = "reload" /\ bindTask' = [bindTask EXCEPT ![p] = NoBindTask]
        /\ UNCHANGED <<options, blocks>>
    BY <1>5 DEF RndcReload
  <2>3. WritesOptions(doing) \/ EditsZone(doing)
    BY <2>2 DEF NoBindTask
  <2>4. Runs(options.notify) \in {"yes", "no"}
    BY DEF Runs
  <2>5. named' \in [notify : {"yes", "no"}, blocks : [NameZones -> Block]]
    BY <2>1, <2>4
  <2>6. reloaded => named'.blocks = blocks
    BY <2>1
  <2>7. told'.sure => told'.got = told'.ips
    BY <2>1, <2>2, <2>3, <2>6 DEF WritesOptions, EditsZone
  <2> QED
    BY <1>1, <2>2, <2>5, <2>7
<1>6. ASSUME NEW p \in BindEditors, EditFails(p) PROVE BindInv'
BY <1>1, <1>6 DEF EditFails
<1>7. CASE UNCHANGED bindVars
BY <1>7 DEF bindVars, WritesOptions, EditsZone
<1> QED
BY <1>2, <1>3, <1>4, <1>5, <1>6, <1>7 DEF BindNext

LEMMA BindInvariant == BindSpec => []BindInv
BY BindInvInit, BindInvStep, PTL DEF BindSpec

LEMMA BindFromInv == BindInv => BindTypeOK /\ AskedIsRun
<1> SUFFICES ASSUME BindInv PROVE BindTypeOK /\ AskedIsRun
  OBVIOUS
<1>1. ASSUME NEW p \in BindEditors PROVE bindTask[p].pc \in {"idle", "write", "reload"}
  <2>1. bindTask[p] = NoBindTask \/ WritesOptions(bindTask[p]) \/ EditsZone(bindTask[p])
    BY DEF BindInv
  <2>2. NoBindTask.pc = "idle"
    BY DEF NoBindTask
  <2> QED
    BY <2>1, <2>2 DEF WritesOptions, EditsZone
<1>2. options.formed => Shown(options.notify) = Runs(options.notify)
BY DEF BindInv, Shown, Runs
<1> QED
BY <1>1, <1>2 DEF BindInv, BindTypeOK, AskedIsRun

LEMMA ZoneInvariant == ZoneSpec => []ZoneInv
BY ZoneInvInit, ZoneInvStep, PTL DEF ZoneSpec

-------------------------------------------------------------------------------
(* Of the lines about a thing there is a first one and a last one.                  *)
LEMMA OneIsFirst ==
  ASSUME NEW S \in SUBSET Nat, S # {}
  PROVE  \E m \in S : \A k \in S : m <= k
<1> DEFINE Segment(k) == S \cap (0 .. k)
           R == StrictSubsetOrdering(Nat)
<1>1. \A k \in S : Segment(k) \in FiniteSubsetsOf(Nat)
  <2> SUFFICES ASSUME NEW k \in S PROVE Segment(k) \in FiniteSubsetsOf(Nat)
    OBVIOUS
  <2>1. k \in Int /\ 0 \in Int /\ Segment(k) \in SUBSET (0 .. k) /\ Segment(k) \subseteq Nat
    OBVIOUS
  <2>2. IsFiniteSet(Segment(k))
    BY <2>1, FS_Interval, FS_Subset
  <2> QED
    BY <2>1, <2>2 DEF FiniteSubsetsOf
<1>2. IsWellFoundedOn(R, FiniteSubsetsOf(Nat))
BY FS_StrictSubsetOrderingWellFounded
<1> DEFINE T == {Segment(k) : k \in S}
<1>3. T \subseteq FiniteSubsetsOf(Nat) /\ T # {}
BY <1>1
<1>4. \E u \in T : \A v \in T : <<v, u>> \notin R
<2> HIDE DEF T, R
<2> QED
  BY <1>2, <1>3, WFMin
<1>5. PICK m \in S : \A k \in S : <<Segment(k), Segment(m)>> \notin R
BY <1>4
<1>6. ASSUME NEW k \in S PROVE m =< k
<2>1. SUFFICES ASSUME k < m PROVE FALSE
  OBVIOUS
<2>2. /\ Segment(k) \subseteq Segment(m) /\ Segment(k) # Segment(m)
      /\ Segment(k) \in SUBSET Nat /\ Segment(m) \in SUBSET Nat
  BY <2>1
<2> QED
  BY <1>5, <2>2 DEF StrictSubsetOrdering
<1> QED
BY <1>6

LEMMA OneIsLast ==
  ASSUME NEW n \in Nat, NEW S \in SUBSET (1 .. n), S # {}
  PROVE  \E m \in S : \A k \in S : k <= m
<1> DEFINE Mirror == {n - k : k \in S}
<1>1. Mirror \in SUBSET Nat /\ Mirror # {}
  <2>1. \A k \in S : n - k \in Nat
    OBVIOUS
  <2> QED
    BY <2>1
<1>2. PICK least \in Mirror : \A k \in Mirror : least <= k
BY <1>1, OneIsFirst
<1>3. PICK m \in S : least = n - m
BY <1>2
<1>4. \A k \in S : n - m <= n - k /\ k \in Nat /\ m \in Nat
BY <1>2, <1>3
<1> QED
BY <1>4

Line == [key : Directives, active : BOOLEAN, value : Values]
Counting(lines, key) == {i \in DOMAIN lines : lines[i].key = key /\ lines[i].active}

(* The value of a setting is that of its last active line.                          *)
LEMMA LastLineCounts ==
  ASSUME NEW lines \in Seq(Line), NEW key
  PROVE  /\ Counting(lines, key) = {} => ValueIn(lines, key) = NoValue
         /\ Counting(lines, key) # {} =>
              \E i \in Counting(lines, key) : /\ \A j \in Counting(lines, key) : j <= i
                                              /\ ValueIn(lines, key) = lines[i].value
<1>1. CASE Counting(lines, key) = {}
BY <1>1 DEF ValueIn, Counting
<1>2. CASE Counting(lines, key) # {}
<2>1. Len(lines) \in Nat /\ DOMAIN lines = 1 .. Len(lines)
  BY LenProperties
<2>2. Counting(lines, key) \in SUBSET (1 .. Len(lines))
  BY <2>1 DEF Counting
<2>3. \E i \in Counting(lines, key) : \A j \in Counting(lines, key) : j <= i
  BY <1>2, <2>1, <2>2, OneIsLast
<2> DEFINE last == CHOOSE i \in Counting(lines, key) : \A j \in Counting(lines, key) : j <= i
<2>4. last \in Counting(lines, key) /\ \A j \in Counting(lines, key) : j <= last
  BY <2>3
<2>5. ValueIn(lines, key) = lines[last].value
  BY <1>2 DEF ValueIn, Counting
<2> QED
  BY <1>2, <2>4, <2>5
<1> QED
BY <1>1, <1>2

(* What is read of a file are values.                                               *)
LEMMA ReadingIsTyped ==
  ASSUME NEW lines \in Seq(Line)
  PROVE  Reading(lines) \in [Directives -> Values \union {NoValue}]
<1>1. \A key \in Directives : ValueIn(lines, key) \in Values \union {NoValue}
  <2> SUFFICES ASSUME NEW key \in Directives PROVE ValueIn(lines, key) \in Values \union {NoValue}
    OBVIOUS
  <2>1. CASE Counting(lines, key) = {}
    BY <2>1, LastLineCounts
  <2>2. CASE Counting(lines, key) # {}
    <3>1. PICK i \in Counting(lines, key) : ValueIn(lines, key) = lines[i].value
      BY <2>2, LastLineCounts
    <3>2. lines[i] \in Line
      BY ElementOfSeq, LenProperties DEF Counting
    <3> QED
      BY <3>1, <3>2 DEF Line
  <2> QED
    BY <2>1, <2>2
<1> QED
BY <1>1 DEF Reading

(* A setting whose active lines are in the same places and say the same is the same.  *)
LEMMA SameLinesSameValue ==
  ASSUME NEW lines \in Seq(Line), NEW others \in Seq(Line), NEW key,
         Counting(others, key) = Counting(lines, key),
         \A i \in Counting(lines, key) : others[i].value = lines[i].value
  PROVE  ValueIn(others, key) = ValueIn(lines, key)
<1>1. CASE Counting(lines, key) = {}
BY <1>1, LastLineCounts
<1>2. CASE Counting(lines, key) # {}
<2>1. PICK i \in Counting(lines, key) :
        (\A j \in Counting(lines, key) : j <= i) /\ ValueIn(lines, key) = lines[i].value
  BY <1>2, LastLineCounts
<2>2. PICK k \in Counting(lines, key) :
        (\A j \in Counting(lines, key) : j <= k) /\ ValueIn(others, key) = others[k].value
  BY <1>2, LastLineCounts
<2>3. Counting(lines, key) \subseteq Nat
  BY LenProperties DEF Counting
<2>4. i = k
  BY <2>1, <2>2, <2>3
<2> QED
  BY <2>1, <2>2, <2>4
<1> QED
BY <1>1, <1>2

(* The last active line of a setting, if there is one, is what is read.              *)
LEMMA OnlyLineCounts ==
  ASSUME NEW lines \in Seq(Line), NEW key, NEW i, Counting(lines, key) = {i}
  PROVE  ValueIn(lines, key) = lines[i].value
<1>1. PICK k \in Counting(lines, key) : ValueIn(lines, key) = lines[k].value
BY LastLineCounts
<1> QED
BY <1>1

(* An update leaves lines.                                                          *)
LEMMA UpdateIsTyped ==
  ASSUME NEW lines \in Seq(Line), NEW key \in Directives, NEW v \in Values
  PROVE  UpdateConfigLines(lines, key, v) \in Seq(Line)
<1> DEFINE changed == [i \in DOMAIN lines |->
                         IF FirstLine(lines, key, i) THEN WithValue(lines[i], v) ELSE lines[i]]
<1>1. \A line \in Line : WithValue(line, v) \in Line
BY DEF WithValue, Line
<1>2. DOMAIN lines = 1 .. Len(lines) /\ Len(lines) \in Nat
BY LenProperties
<1>3. \A i \in 1 .. Len(lines) : lines[i] \in Line
BY ElementOfSeq
<1>4. changed \in Seq(Line)
<2>1. \A i \in 1 .. Len(lines) :
        (IF FirstLine(lines, key, i) THEN WithValue(lines[i], v) ELSE lines[i]) \in Line
  BY <1>1, <1>3
<2> QED
  BY <1>2, <2>1, IsASeq
<1>5. Append(lines, [key |-> key, active |-> TRUE, value |-> v]) \in Seq(Line)
BY AppendProperties DEF Line
<1> QED
BY <1>4, <1>5 DEF UpdateConfigLines

(* An update sets the first line of the setting, or adds one, and leaves all others.   *)
ChangedAt(lines, new, key, v, at) ==
  /\ at \in DOMAIN new /\ new[at].key = key /\ new[at].active /\ new[at].value = v
  /\ DOMAIN lines \subseteq DOMAIN new /\ DOMAIN new = DOMAIN lines \union {at}
  /\ \A i \in DOMAIN lines \ {at} : new[i] = lines[i]
  /\ at \in DOMAIN lines => lines[at].key = key
  /\ \A i \in DOMAIN lines : lines[i].key = key => at <= i

LEMMA UpdateChangesOne ==
  ASSUME NEW lines \in Seq(Line), NEW key \in Directives, NEW v \in Values, NEW new,
         new = UpdateConfigLines(lines, key, v)
  PROVE  \E at : ChangedAt(lines, new, key, v, at)
<1> DEFINE line == [key |-> key, active |-> TRUE, value |-> v]
           About == {i \in DOMAIN lines : lines[i].key = key}
<1>1. DOMAIN lines = 1 .. Len(lines) /\ Len(lines) \in Nat
BY LenProperties
<1>2. CASE About # {}
<2>1. About \in SUBSET Nat
  BY <1>1
<2>2. PICK at \in About : \A i \in About : at <= i
  BY <1>2, <2>1, OneIsFirst
<2>3. \A i \in DOMAIN lines : FirstLine(lines, key, i) <=> i = at
  <3>1. \A i \in DOMAIN lines : i \in Nat
    BY <1>1
  <3>2. FirstLine(lines, key, at)
    BY <1>1, <2>2, <3>1 DEF FirstLine
  <3>3. ASSUME NEW i \in DOMAIN lines, FirstLine(lines, key, i) PROVE i = at
    <4>1. i \in About /\ at <= i
      BY <2>2, <3>3 DEF FirstLine
    <4>2. ~(at < i)
      BY <1>1, <2>2, <3>3 DEF FirstLine
    <4> QED
      BY <3>1, <4>1, <4>2
  <3> QED
    BY <3>2, <3>3
<2>4. new = [i \in DOMAIN lines |->
               IF FirstLine(lines, key, i) THEN WithValue(lines[i], v) ELSE lines[i]]
  BY <1>2 DEF UpdateConfigLines
<2>5. lines[at] \in Line /\ lines[at].key = key
  BY <1>1, ElementOfSeq
<2> DEFINE set == WithValue(lines[at], v)
<2>6. set.key = key /\ set.active /\ set.value = v
  BY <2>5 DEF WithValue, Line
<2> HIDE DEF set
<2>7. /\ DOMAIN new = DOMAIN lines /\ new[at] = set
      /\ \A i \in DOMAIN lines \ {at} : new[i] = lines[i]
  BY <2>3, <2>4 DEF set
<2> QED
  BY <2>2, <2>6, <2>7 DEF ChangedAt
<1>3. CASE About = {}
<2>1. new = Append(lines, line)
  BY <1>3 DEF UpdateConfigLines
<2>2. line \in Line
  BY DEF Line
<2>3. /\ DOMAIN new = 1 .. Len(lines) + 1
      /\ new[Len(lines) + 1] = line
      /\ \A i \in 1 .. Len(lines) : new[i] = lines[i]
  <3>1. new \in Seq(Line) /\ Len(new) = Len(lines) + 1
    BY <2>1, <2>2, AppendProperties
  <3> QED
    BY <2>1, <2>2, <3>1, AppendProperties, LenProperties
<2> HIDE DEF line
<2>4. DOMAIN new = DOMAIN lines \union {Len(lines) + 1} /\ Len(lines) + 1 \notin DOMAIN lines
  BY <1>1, <2>3
<2> QED
  BY <1>1, <1>3, <2>3, <2>4 DEF line, ChangedAt
<1> QED
BY <1>2, <1>3

ConfigInv == ConfigTypeOK /\ AskedIsRead

LEMMA ConfigInvInit == ConfigInit => ConfigInv
<1> SUFFICES ASSUME ConfigInit PROVE ConfigInv
  OBVIOUS
<1>1. file \in Seq(Line)
BY ConfigAssumption DEF ConfigInit, Line
<1>2. effective \in [Directives -> Values \union {NoValue}]
BY <1>1, ReadingIsTyped DEF ConfigInit
<1> QED
BY <1>1, <1>2 DEF ConfigInit, ConfigInv, ConfigTypeOK, AskedIsRead, Line

LEMMA ConfigInvStep == ConfigInv /\ [ConfigNext]_configVars => ConfigInv'
<1> SUFFICES ASSUME ConfigInv, [ConfigNext]_configVars PROVE ConfigInv'
  OBVIOUS
<1>0. /\ file \in Seq(Line) /\ sound \in BOOLEAN /\ alive \in BOOLEAN
      /\ effective \in [Directives -> Values \union {NoValue}]
      /\ asked \in [Directives -> Values \union {NoValue}]
      /\ AskedIsRead
BY DEF ConfigInv, ConfigTypeOK, Line
<1>1. ASSUME NEW lines \in Seq(Line), NEW ok \in BOOLEAN, NEW restart \in BOOLEAN,
           Reload(lines, ok, restart) \/ UNCHANGED <<effective, alive>>
    PROVE  effective' \in [Directives -> Values \union {NoValue}] /\ alive' \in BOOLEAN
BY <1>0, <1>1, ReadingIsTyped DEF Reload
<1>2. ASSUME file' \in Seq(Line), sound' \in BOOLEAN, alive' \in BOOLEAN,
           effective' \in [Directives -> Values \union {NoValue}],
           asked' \in [Directives -> Values \union {NoValue}], AskedIsRead'
    PROVE  ConfigInv'
BY <1>2 DEF ConfigInv, ConfigTypeOK, Line
<1>3. ASSUME NEW key \in Directives, NEW v \in Values, NEW reload \in BOOLEAN,
           NEW restart \in BOOLEAN, PostConfig(key, v, reload, restart)
    PROVE  ConfigInv'
<2>1. /\ file' = UpdateConfigLines(file, key, v)
      /\ asked' = [asked EXCEPT ![key] = v]
      /\ Reload(file', sound, restart) \/ UNCHANGED <<effective, alive>>
      /\ UNCHANGED sound
  BY <1>3 DEF PostConfig
<2>2. file' \in Seq(Line)
  BY <1>0, <2>1, UpdateIsTyped
<2>3. PICK at : ChangedAt(file, file', key, v, at)
  <3>1. \A new : new = UpdateConfigLines(file, key, v) => \E at : ChangedAt(file, new, key, v, at)
    BY <1>0, UpdateChangesOne
  <3> QED
    BY <2>1, <3>1
<2> USE DEF ChangedAt
<2>4. \A i \in DOMAIN file' : i \in Nat
  BY <2>2, LenProperties
<2>5. ASSUME NEW k \in Directives, asked'[k] # NoValue, ~Shadowed(k)'
      PROVE  ValueIn(file', k) = asked'[k]
  <3>1. CASE k = key
    <4>1. Counting(file', key) = {at}
      <5>1. at \in Counting(file', key)
        BY <2>3 DEF Counting
      <5>2. ASSUME NEW i \in Counting(file', key), i # at PROVE FALSE
        <6>1. i \in DOMAIN file /\ file[i].key = key /\ file'[i].active /\ file'[i].key = key
          BY <2>3, <5>2 DEF Counting
        <6>2. at < i
          BY <2>3, <2>4, <5>2, <6>1
        <6>3. Shadowed(k)'
          BY <2>3, <3>1, <6>1, <6>2 DEF Shadowed
        <6> QED
          BY <2>5, <6>3
      <5> QED
        BY <5>1, <5>2
    <4>2. ValueIn(file', key) = file'[at].value
      BY <2>2, <4>1, OnlyLineCounts
    <4> QED
      BY <1>0, <2>1, <2>3, <3>1, <4>2
  <3>2. CASE k # key
    <4>1. Counting(file', k) = Counting(file, k)
      BY <2>3, <3>2 DEF Counting
    <4>2. \A i \in Counting(file, k) : file'[i] = file[i]
      BY <2>3, <3>2 DEF Counting
    <4>3. ValueIn(file', k) = ValueIn(file, k)
      BY <1>0, <2>2, <4>1, <4>2, SameLinesSameValue
    <4>4. Shadowed(k) => Shadowed(k)'
      BY <2>3, <3>2 DEF Shadowed
    <4>5. asked'[k] = asked[k]
      BY <1>0, <2>1, <3>2
    <4> QED
      BY <1>0, <2>5, <4>3, <4>4, <4>5 DEF AskedIsRead
  <3> QED
    BY <3>1, <3>2
<2>6. AskedIsRead'
  BY <2>5 DEF AskedIsRead
<2>7. asked' \in [Directives -> Values \union {NoValue}]
  BY <1>0, <2>1
<2> QED
  BY <1>0, <1>1, <1>2, <2>1, <2>2, <2>6, <2>7
<1>4. ASSUME NEW lines \in ConfigFiles, NEW ok \in BOOLEAN, NEW reload \in BOOLEAN,
           NEW restart \in BOOLEAN, PutConfigRaw(lines, ok, reload, restart)
    PROVE  ConfigInv'
<2>1. lines \in Seq(Line)
  BY ConfigAssumption DEF Line
<2>2. /\ file' = lines /\ sound' = ok /\ asked' = [k \in Directives |-> NoValue]
      /\ Reload(lines, ok, restart) \/ UNCHANGED <<effective, alive>>
  BY <1>4 DEF PutConfigRaw
<2>3. AskedIsRead'
  BY <2>2 DEF AskedIsRead
<2>4. asked' \in [Directives -> Values \union {NoValue}]
  BY <2>2
<2> QED
  BY <1>1, <1>2, <2>1, <2>2, <2>3, <2>4
<1>5. ASSUME NEW lines \in ConfigFiles, NEW reload \in BOOLEAN, SaveBind9Options(lines, reload)
    PROVE  ConfigInv'
<2>1. lines \in Seq(Line)
  BY ConfigAssumption DEF Line
<2>2. /\ file' = lines /\ sound' = TRUE /\ asked' = Reading(lines)
      /\ Reload(lines, TRUE, FALSE) \/ UNCHANGED <<effective, alive>>
  BY <1>5 DEF SaveBind9Options
<2>3. AskedIsRead'
  BY <2>2 DEF AskedIsRead, Reading
<2>4. asked' \in [Directives -> Values \union {NoValue}]
  BY <2>1, <2>2, ReadingIsTyped
<2> QED
  BY <1>1, <1>2, <2>1, <2>2, <2>3, <2>4
<1>6. CASE UNCHANGED configVars
BY <1>6 DEF configVars, ConfigInv, ConfigTypeOK, AskedIsRead, Shadowed
<1> QED
BY <1>3, <1>4, <1>5, <1>6 DEF ConfigNext

LEMMA ConfigInvariant == ConfigSpec => []ConfigInv
BY ConfigInvInit, ConfigInvStep, PTL DEF ConfigSpec

-------------------------------------------------------------------------------
(* A switch that no other overlapped is the only one, and from the command on the file *)
(* of the site says what it asked for.                                              *)
Switching(p) == benchTask[p].pc \in {"bench", "common", "show"}
SiteSays(site, action) ==
  /\ action = "pause" => site["pause_scheduler"] = "1"
  /\ action = "resume" => site["pause_scheduler"] = "0"

BenchInv ==
  /\ BenchTypeOK /\ PauseIsShown
  /\ \A p \in BenchEditors : Switching(p) <=> benchTask[p].action # "none"
  /\ \A p, q \in BenchEditors :
       p # q /\ Switching(p) /\ benchTask[p].sure => ~Switching(q)
  /\ \A p \in BenchEditors :
       benchTask[p].pc \in {"common", "show"} /\ benchTask[p].sure => SiteSays(siteConfig, benchTask[p].action)

BenchTask == [pc : {"idle", "open", "fill", "bench", "common", "show"},
              action : Switches \union {"none"}, new : SiteSettings, sure : BOOLEAN]

LEMMA SettingsAreTyped ==
  /\ NoSettings \in SiteSettings
  /\ NoBenchTask \in BenchTask
  /\ \A settings \in SiteSettings : \A key, v \in STRING :
       v \in {"unset", "0", "1"} => [settings EXCEPT ![key] = v] \in SiteSettings
<1>1. NoSettings \in SiteSettings
BY DEF NoSettings, SiteSettings
<1>2. NoBenchTask \in BenchTask
BY <1>1 DEF NoBenchTask, BenchTask
<1> QED
BY <1>1, <1>2 DEF SiteSettings

LEMMA BenchInvInit == BenchInit => BenchInv
<1> SUFFICES ASSUME BenchInit PROVE BenchInv
  OBVIOUS
<1>1. \A p \in BenchEditors : benchTask[p] = NoBenchTask
BY DEF BenchInit
<1>2. NoBenchTask.pc = "idle" /\ NoBenchTask.action = "none"
BY DEF NoBenchTask
<1>3. \A p \in BenchEditors : benchTask[p].pc = "idle" /\ benchTask[p].action = "none"
BY <1>1, <1>2
<1>4. BenchTypeOK
BY SettingsAreTyped DEF BenchInit, BenchTypeOK, BenchTask
<1>5. PauseIsShown
BY DEF BenchInit, PauseIsShown
<1> QED
BY <1>3, <1>4, <1>5 DEF BenchInv, Switching

LEMMA BenchInvStep == BenchInv /\ [BenchNext]_benchVars => BenchInv'
<1> SUFFICES ASSUME BenchInv, [BenchNext]_benchVars PROVE BenchInv'
  OBVIOUS
<1>0. /\ common \in SiteSettings /\ siteConfig \in SiteSettings
      /\ benchTask \in [BenchEditors -> BenchTask] /\ PauseIsShown
      /\ \A p \in BenchEditors : Switching(p) <=> benchTask[p].action # "none"
      /\ \A p, q \in BenchEditors :
           p # q /\ Switching(p) /\ benchTask[p].sure => ~Switching(q)
      /\ \A p \in BenchEditors :
           benchTask[p].pc \in {"common", "show"} /\ benchTask[p].sure => SiteSays(siteConfig, benchTask[p].action)
BY DEF BenchInv, BenchTypeOK, BenchTask
<1>a. NoBenchTask.pc = "idle" /\ NoBenchTask.action = "none" /\ NoBenchTask \in BenchTask
BY SettingsAreTyped DEF NoBenchTask
(* A step of one worker that is no switch, or goes on being one, or ends it.          *)
<1>1. ASSUME NEW p \in BenchEditors, NEW task \in BenchTask,
           benchTask' = [benchTask EXCEPT ![p] = task],
           common' \in SiteSettings, siteConfig' \in SiteSettings, PauseIsShown',
           task.pc \in {"bench", "common", "show"} <=> task.action # "none",
           task.pc \in {"bench", "common", "show"} =>
             Switching(p) /\ task.sure = benchTask[p].sure /\ task.action = benchTask[p].action,
           siteConfig' = siteConfig \/ Switching(p),
           task.pc \in {"common", "show"} /\ task.sure => SiteSays(siteConfig', task.action)
    PROVE  BenchInv'
<2>1. \A q \in BenchEditors : benchTask'[q] = IF q = p THEN task ELSE benchTask[q]
  BY <1>0, <1>1
<2>2. BenchTypeOK'
  BY <1>0, <1>1 DEF BenchTypeOK, BenchTask
<2>3. \A q \in BenchEditors : (Switching(q) <=> benchTask[q].action # "none")'
  BY <1>0, <1>1, <2>1 DEF Switching
<2>4. \A q \in BenchEditors : Switching(q)' => Switching(q) /\ benchTask'[q].sure = benchTask[q].sure
  BY <1>0, <1>1, <2>1 DEF Switching
<2>5. ASSUME NEW q \in BenchEditors, benchTask'[q].pc \in {"common", "show"}, benchTask'[q].sure
      PROVE  SiteSays(siteConfig', benchTask'[q].action)
  <3>1. CASE q = p
    BY <1>1, <2>1, <2>5, <3>1
  <3>2. CASE q # p
    <4>1. benchTask'[q] = benchTask[q] /\ SiteSays(siteConfig, benchTask[q].action)
      BY <1>0, <2>1, <2>5, <3>2
    <4>2. ~Switching(p)
      BY <1>0, <2>5, <3>2, <4>1 DEF Switching
    <4> QED
      BY <1>1, <4>1, <4>2 DEF SiteSays
  <3> QED
    BY <3>1, <3>2
<2>6. \A q, r \in BenchEditors :
        (q # r /\ Switching(q) /\ benchTask[q].sure => ~Switching(r))'
  BY <1>0, <2>4
<2> QED
  BY <1>1, <2>2, <2>3, <2>5, <2>6 DEF BenchInv
<1>2. UNCHANGED schedulerShown => PauseIsShown'
BY <1>0 DEF PauseIsShown
<1>3. ASSUME NEW p \in BenchEditors PROVE benchTask[p] \in BenchTask
BY <1>0
<1>4. ASSUME NEW p \in BenchEditors, UpdateCommon(p) PROVE BenchInv'
<2>1. PICK key \in SharedKeys, v \in {"0", "1"} :
        benchTask' = [benchTask EXCEPT ![p] =
          [NoBenchTask EXCEPT !.pc = "open", !.new = [common EXCEPT ![key] = v]]]
  BY <1>4 DEF UpdateCommon
<2> DEFINE new == [common EXCEPT ![key] = v]
           task == [NoBenchTask EXCEPT !.pc = "open", !.new = new]
<2>2. new \in SiteSettings
  BY <1>0 DEF SiteSettings
<2> HIDE DEF new
<2>3. task \in BenchTask /\ task.pc = "open" /\ task.action = "none"
  BY <2>2, <1>a DEF NoBenchTask, BenchTask
<2>4. benchTask' = [benchTask EXCEPT ![p] = task]
  BY <2>1 DEF new
<2> HIDE DEF task
<2>5. UNCHANGED <<common, siteConfig, schedulerShown>>
  BY <1>4 DEF UpdateCommon
<2> QED
  BY <1>0, <1>1, <1>2, <2>3, <2>4, <2>5
<1>5. ASSUME NEW p \in BenchEditors, TeeOpens(p) PROVE BenchInv'
<2> DEFINE task == [benchTask[p] EXCEPT !.pc = "fill"]
<2>1. task \in BenchTask /\ task.pc = "fill" /\ task.action = benchTask[p].action
  BY <1>3 DEF BenchTask
<2>2. benchTask' = [benchTask EXCEPT ![p] = task] /\ benchTask[p].pc = "open"
  BY <1>5 DEF TeeOpens
<2>3. task.action = "none"
  BY <1>0, <2>1, <2>2 DEF Switching
<2> HIDE DEF task
<2>4. UNCHANGED <<siteConfig, schedulerShown>> /\ common' \in SiteSettings
  BY <1>5, SettingsAreTyped DEF TeeOpens
<2> QED
  BY <1>0, <1>1, <1>2, <2>1, <2>2, <2>3, <2>4
<1>6. ASSUME NEW p \in BenchEditors, TeeFills(p) PROVE BenchInv'
<2>1. UNCHANGED <<siteConfig, schedulerShown>> /\ common' \in SiteSettings
      /\ benchTask' = [benchTask EXCEPT ![p] = NoBenchTask]
  BY <1>3, <1>6 DEF TeeFills, BenchTask
<2> QED
  BY <1>0, <1>1, <1>2, <1>a, <2>1
<1>7. ASSUME NEW p \in BenchEditors, SwitchScheduler(p) PROVE BenchInv'
<2> DEFINE others == {q \in BenchEditors : benchTask[q].action # "none"}
<2>1. PICK action \in Switches :
        benchTask' = [q \in BenchEditors |->
          IF q = p THEN [NoBenchTask EXCEPT !.pc = "bench", !.action = action, !.sure = others = {}]
          ELSE IF q \in others THEN [benchTask[q] EXCEPT !.sure = FALSE] ELSE benchTask[q]]
  BY <1>7 DEF SwitchScheduler
<2>2. UNCHANGED <<common, siteConfig, schedulerShown>> /\ benchTask[p] = NoBenchTask
  BY <1>7 DEF SwitchScheduler
<2> DEFINE alone == others = {}
           mine == [NoBenchTask EXCEPT !.pc = "bench", !.action = action, !.sure = alone]
<2>3. benchTask'[p] = mine
  BY <2>1
<2>12. /\ mine \in BenchTask /\ mine.pc = "bench" /\ mine.action = action
       /\ mine.sure = alone /\ action # "none"
  <3>1. alone \in BOOLEAN
    OBVIOUS
  <3> HIDE DEF alone
  <3> QED
    BY <3>1, SettingsAreTyped, BenchAssumption DEF NoBenchTask, BenchTask
<2>4. \A q \in BenchEditors \ {p} :
        /\ benchTask'[q] \in BenchTask
        /\ benchTask'[q].pc = benchTask[q].pc /\ benchTask'[q].action = benchTask[q].action
        /\ Switching(q) => ~benchTask'[q].sure
  <3> SUFFICES ASSUME NEW q \in BenchEditors \ {p}
               PROVE  /\ benchTask'[q] \in BenchTask
                      /\ benchTask'[q].pc = benchTask[q].pc
                      /\ benchTask'[q].action = benchTask[q].action
                      /\ Switching(q) => ~benchTask'[q].sure
    OBVIOUS
  <3> DEFINE doubted == [benchTask[q] EXCEPT !.sure = FALSE]
  <3>1. /\ doubted \in BenchTask /\ doubted.pc = benchTask[q].pc
        /\ doubted.action = benchTask[q].action /\ ~doubted.sure
    BY <1>3 DEF BenchTask
  <3>2. benchTask'[q] = IF q \in others THEN doubted ELSE benchTask[q]
    BY <2>1
  <3>3. Switching(q) => q \in others
    BY <1>0
  <3> HIDE DEF doubted, others
  <3> QED
    BY <1>3, <3>1, <3>2, <3>3
<2>5. BenchTypeOK'
  <3>1. benchTask' \in [BenchEditors -> BenchTask]
    BY <2>1, <2>3, <2>4, <2>12
  <3> QED
    BY <1>0, <2>2, <3>1 DEF BenchTypeOK, BenchTask
<2>6. alone => \A q \in BenchEditors : ~Switching(q)
  BY <1>0
<2> HIDE DEF alone, others, mine
<2>8. \A q \in BenchEditors : (Switching(q) <=> benchTask[q].action # "none")'
  BY <1>0, <2>3, <2>4, <2>12 DEF Switching
<2>9. \A q \in BenchEditors \ {p} : Switching(q)' <=> Switching(q)
  BY <2>4 DEF Switching
<2>10. ASSUME NEW q \in BenchEditors, Switching(q)', benchTask'[q].sure
       PROVE  q = p /\ \A r \in BenchEditors \ {p} : ~Switching(r)'
  BY <2>3, <2>4, <2>6, <2>12, <2>9, <2>10
<2>11. \A q \in BenchEditors :
         (benchTask[q].pc \in {"common", "show"} /\ benchTask[q].sure => SiteSays(siteConfig, benchTask[q].action))'
  BY <2>3, <2>12, <2>10 DEF Switching
<2> QED
  BY <1>2, <2>2, <2>5, <2>8, <2>10, <2>11 DEF BenchInv
<1>8. ASSUME NEW action \in Switches, NEW new \in BenchWrites(action)
    PROVE  /\ new \in SiteSettings
           /\ action = "pause" => new["pause_scheduler"] = "1"
           /\ action = "resume" => new["pause_scheduler"] = "0"
BY <1>0, <1>8 DEF BenchWrites, SiteSettings, SchedulerKeys
<1>9. ASSUME NEW p \in BenchEditors, Switching(p)
    PROVE  benchTask[p].action \in Switches /\ benchTask[p].action # "none"
BY <1>0, <1>3, <1>9 DEF BenchTask
<1>10. ASSUME NEW p \in BenchEditors, RunBench(p) PROVE BenchInv'
<2> DEFINE task == [benchTask[p] EXCEPT !.pc = "common"]
<2>1. task \in BenchTask /\ task.pc = "common" /\ task.action = benchTask[p].action
      /\ task.sure = benchTask[p].sure
  BY <1>3 DEF BenchTask
<2>2. benchTask' = [benchTask EXCEPT ![p] = task] /\ Switching(p)
      /\ siteConfig' \in BenchWrites(benchTask[p].action) /\ UNCHANGED <<common, schedulerShown>>
  BY <1>10 DEF RunBench, Switching
<2> HIDE DEF task
<2>3. siteConfig' \in SiteSettings /\ SiteSays(siteConfig', task.action) /\ task.action # "none"
  BY <1>8, <1>9, <2>1, <2>2 DEF SiteSays
<2> QED
  BY <1>0, <1>1, <1>2, <2>1, <2>2, <2>3
<1>11. ASSUME NEW p \in BenchEditors, ReadCommon(p) PROVE BenchInv'
<2> DEFINE task == [benchTask[p] EXCEPT !.pc = "show", !.new = common]
<2>1. task \in BenchTask /\ task.pc = "show" /\ task.action = benchTask[p].action
      /\ task.sure = benchTask[p].sure
  BY <1>0, <1>3 DEF BenchTask
<2>2. benchTask' = [benchTask EXCEPT ![p] = task] /\ benchTask[p].pc = "common"
      /\ UNCHANGED <<common, siteConfig, schedulerShown>>
  BY <1>11 DEF ReadCommon
<2> HIDE DEF task
<2>3. Switching(p) /\ task.action # "none" /\ (task.sure => SiteSays(siteConfig', task.action))
  BY <1>0, <2>1, <2>2 DEF Switching, SiteSays
<2> QED
  BY <1>0, <1>1, <1>2, <2>1, <2>2, <2>3
<1>12. ASSUME NEW p \in BenchEditors, ShowScheduler(p) PROVE BenchInv'
<2>1. /\ schedulerShown' = [action |-> benchTask[p].action, sure |-> benchTask[p].sure,
                            status |-> SchedulerStatus(siteConfig, benchTask[p].new)]
      /\ benchTask[p].pc = "show" /\ UNCHANGED <<common, siteConfig>>
      /\ benchTask' = [benchTask EXCEPT ![p] = NoBenchTask]
  BY <1>12 DEF ShowScheduler
<2>2. benchTask[p].sure => SiteSays(siteConfig, benchTask[p].action)
  BY <1>0, <2>1
<2>3. PauseIsShown'
  BY <2>1, <2>2 DEF PauseIsShown, SiteSays, SchedulerStatus, Resolve
<2> QED
  BY <1>0, <1>1, <1>a, <2>1, <2>3
<1>13. ASSUME NEW p \in BenchEditors, BenchFails(p) PROVE BenchInv'
<2>1. /\ benchTask' = [benchTask EXCEPT ![p] = NoBenchTask] /\ UNCHANGED <<common, schedulerShown>>
      /\ \/ siteConfig' = siteConfig
         \/ benchTask[p].pc = "bench" /\ siteConfig' \in BenchWrites(benchTask[p].action)
  BY <1>13 DEF BenchFails
<2>2. siteConfig' \in SiteSettings /\ (siteConfig' = siteConfig \/ Switching(p))
  BY <1>0, <1>8, <1>9, <2>1 DEF Switching
<2> QED
  BY <1>0, <1>1, <1>2, <1>a, <2>1, <2>2
<1>14. CASE UNCHANGED benchVars
BY <1>0, <1>14 DEF benchVars, BenchInv, BenchTypeOK, BenchTask, PauseIsShown, Switching, SiteSays
<1> QED
BY <1>4, <1>5, <1>6, <1>7, <1>10, <1>11, <1>12, <1>13, <1>14 DEF BenchNext

LEMMA BenchInvariant == BenchSpec => []BenchInv
BY BenchInvInit, BenchInvStep, PTL DEF BenchSpec

-------------------------------------------------------------------------------
(* An address has one line, in the file and in what a request will install.          *)
OneLineEach(lines) ==
  lines \subseteq AliasLine /\ \A line, other \in lines : line[1] = other[1] => line = other
AliasTask == [pc : {"none", "install", "postmap"}, lines : {some \in SUBSET AliasLine : OneLineEach(some)}]

AliasInv ==
  /\ OneLineEach(virtual) /\ map \subseteq AliasLine /\ unmapped \in BOOLEAN
  /\ aliasTask \in [MailThreads -> AliasTask]
  /\ (\A t \in MailThreads : aliasTask[t].pc # "postmap") /\ ~unmapped => map = virtual

LEMMA AliasInvInit == AliasInit => AliasInv
<1> SUFFICES ASSUME AliasInit PROVE AliasInv
  OBVIOUS
<1>1. OneLineEach(virtual)
BY DEF AliasInit, OneLineEach, AliasLine, Spelt
<1>2. NoAliasTask \in AliasTask
BY DEF NoAliasTask, AliasTask, OneLineEach
<1> QED
BY <1>1, <1>2 DEF AliasInit, AliasInv, OneLineEach

LEMMA AliasInvStep == AliasInv /\ [AliasNext]_aliasVars => AliasInv'
<1> SUFFICES ASSUME AliasInv, [AliasNext]_aliasVars PROVE AliasInv'
  OBVIOUS
<1> USE DEF AliasInv
<1>1. ASSUME NEW t \in MailThreads, ReadAliases(t) PROVE AliasInv'
  <2>1. PICK lines :
          /\ \/ \E a \in Lower, to \in Targets :
                  lines \in CreatedAlias(a, to) \/ lines \in UpdatedAlias(a, to)
             \/ \E a \in Spelt : lines \in DeletedAlias(a)
          /\ aliasTask' = [aliasTask EXCEPT ![t] = [pc |-> "install", lines |-> lines]]
    BY <1>1 DEF ReadAliases, Prepares
  <2>3. OneLineEach(lines)
    <3>1. ASSUME NEW a \in Lower, NEW to \in Targets, lines \in CreatedAlias(a, to)
          PROVE  OneLineEach(lines)
      <4>1. lines = virtual \cup {<<a, to>>} /\ \A line \in virtual : line[1] # a
        BY <3>1 DEF CreatedAlias, Of
      <4>2. <<a, to>> \in AliasLine /\ <<a, to>>[1] = a
        BY DEF AliasLine, Spelt
      <4> QED
        BY <4>1, <4>2 DEF OneLineEach
    <3>2. ASSUME NEW a \in Lower, NEW to \in Targets, lines \in UpdatedAlias(a, to)
          PROVE  OneLineEach(lines)
      <4>1. lines = {line \in virtual : line[1] # a} \cup {<<a, to>>}
        BY <3>2 DEF UpdatedAlias, Of
      <4>2. <<a, to>> \in AliasLine /\ <<a, to>>[1] = a
        BY DEF AliasLine, Spelt
      <4> QED
        BY <4>1, <4>2 DEF OneLineEach
    <3>3. ASSUME NEW a \in Spelt, lines \in DeletedAlias(a) PROVE OneLineEach(lines)
      BY <3>3 DEF DeletedAlias, OneLineEach
    <3> QED
      BY <2>1, <3>1, <3>2, <3>3
  <2>4. [pc |-> "install", lines |-> lines] \in AliasTask
    BY <2>3 DEF AliasTask, OneLineEach
  <2>5. UNCHANGED <<virtual, map, unmapped>>
    BY <1>1 DEF ReadAliases
  <2>6. aliasTask[t].pc = "none"
    BY <1>1 DEF ReadAliases, NoAliasTask
  <2> QED
    BY <2>1, <2>4, <2>5, <2>6
<1>2. ASSUME NEW t \in MailThreads, Install(t) PROVE AliasInv'
  <2>1. aliasTask[t] \in AliasTask /\ aliasTask[t].pc = "install" /\ UNCHANGED <<map, unmapped>>
    BY <1>2 DEF Install
  <2> DEFINE installed == [aliasTask[t] EXCEPT !.pc = "postmap"]
  <2>2. installed \in AliasTask /\ installed.pc = "postmap"
    BY <2>1 DEF AliasTask
  <2>3. NoAliasTask \in AliasTask /\ NoAliasTask.pc = "none"
    BY DEF NoAliasTask, AliasTask, OneLineEach
  <2>4. CASE virtual' = aliasTask[t].lines /\ aliasTask' = [aliasTask EXCEPT ![t] = installed]
    <3>1. OneLineEach(virtual')
      BY <2>1, <2>4 DEF AliasTask
    <3> HIDE DEF installed
    <3>2. aliasTask' \in [MailThreads -> AliasTask] /\ aliasTask'[t].pc = "postmap"
      BY <2>2, <2>4
    <3> QED
      BY <2>1, <3>1, <3>2 DEF OneLineEach
  <2>5. CASE UNCHANGED virtual /\ aliasTask' = [aliasTask EXCEPT ![t] = NoAliasTask]
    BY <2>1, <2>3, <2>5
  <2> QED
    BY <1>2, <2>4, <2>5 DEF Install
<1>3. ASSUME NEW t \in MailThreads, Postmap(t) PROVE AliasInv'
  <2>1. NoAliasTask \in AliasTask
    BY DEF NoAliasTask, AliasTask, OneLineEach
  <2> QED
    BY <1>3, <2>1 DEF Postmap, Postmapped, OneLineEach
<1>4. CASE UNCHANGED aliasVars
BY <1>4 DEF aliasVars, OneLineEach
<1> QED
BY <1>1, <1>2, <1>3, <1>4 DEF AliasNext

LEMMA AliasInvariant == AliasSpec => []AliasInv
BY AliasInvInit, AliasInvStep, PTL DEF AliasSpec

LEMMA AliasFromInv == AliasInv => AliasTypeOK /\ AliasesServed
BY DEF AliasInv, AliasTypeOK, AliasesServed, AliasTask, OneLineEach

-------------------------------------------------------------------------------
(* What a request looked up is a mailbox of the domain's owner, or none.              *)
BoxTask ==
  [op : {"none", "useradd", "usermod", "chpasswd", "userdel"}, owner : Owners \cup {"none"},
   login : Logins \cup {NoLogin}, admin : BOOLEAN]
LooksAtOwn(doing) ==
  doing.login \in Logins => doing.login[1] = doing.owner /\ (doing.login[2] = "admin" => doing.admin)

BoxInv ==
  /\ account \in [Logins -> {"absent", "bare", "keyed", "changed"}]
  /\ boxTask \in [MailThreads -> BoxTask]
  /\ \A t \in MailThreads : LooksAtOwn(boxTask[t])

LEMMA NoneLooksAtNothing == NoBoxTask \in BoxTask /\ LooksAtOwn(NoBoxTask) /\ NoLogin \notin Logins
<1>1. NoLogin \notin Logins
BY MailAssumption DEF NoLogin, Logins
<1>2. NoBoxTask \in BoxTask /\ NoBoxTask.login = NoLogin
BY DEF NoBoxTask, BoxTask
<1> QED
BY <1>1, <1>2 DEF LooksAtOwn

LEMMA BoxInvInit == BoxInit => BoxInv
BY NoneLooksAtNothing DEF BoxInit, BoxInv

LEMMA PairsArePairs ==
  ASSUME NEW A, NEW B, NEW x \in A \X B
  PROVE  x = <<x[1], x[2]>> /\ x[1] \in A /\ x[2] \in B
OBVIOUS

(* A request that is handled looks at a mailbox of its owner.                         *)
LEMMA HandledLooksAtOwn ==
  ASSUME BoxInv, NEW t \in MailThreads, NEW owner \in Owners, NEW name \in Asked,
         NEW op \in {"useradd", "usermod", "chpasswd", "userdel"}, Handle(t, op, owner, name)
  PROVE  BoxInv'
<1> DEFINE whose == Resolved(owner, name)
           admin == name[2] = "admin"
           doing == [op |-> op, owner |-> owner, login |-> whose, admin |-> admin]
<1> DEFINE n == name[2]
<1>1. n \in BoxNames /\ name = <<name[1], n>> /\ (name[1] = "" \/ name[1] \in Owners)
  <2>1. name \in {""} \X BoxNames \/ name \in Owners \X BoxNames
    BY DEF Asked, Logins
  <2> DEFINE Nobody == {""}
  <2> HIDE DEF Nobody
  <2>3. name \in Nobody \X BoxNames \/ name \in Owners \X BoxNames
    BY <2>1 DEF Nobody
  <2>4. name = <<name[1], name[2]>> /\ name[2] \in BoxNames /\ (name[1] \in Nobody \/ name[1] \in Owners)
    BY <2>3, PairsArePairs
  <2>2. name = <<name[1], name[2]>> /\ name[2] \in BoxNames /\ (name[1] = "" \/ name[1] \in Owners)
    BY <2>4 DEF Nobody
  <2> QED
    BY <2>2
<1>2. whose \in {<<owner, n>>, NoLogin} /\ admin = (n = "admin")
BY <1>1 DEF Resolved
<1>3. <<owner, n>> \in Logins /\ <<owner, n>>[1] = owner /\ <<owner, n>>[2] = n
BY <1>1 DEF Logins
<1>4. admin \in BOOLEAN
OBVIOUS
<1>5. UNCHANGED account /\ boxTask' = [boxTask EXCEPT ![t] = doing]
BY DEF Handle
<1> HIDE DEF whose, admin
<1>6. doing \in BoxTask
BY <1>2, <1>3, <1>4 DEF BoxTask
<1>7. LooksAtOwn(doing)
BY <1>2, <1>3, NoneLooksAtNothing DEF LooksAtOwn
<1> HIDE DEF doing
<1> QED
BY <1>5, <1>6, <1>7 DEF BoxInv

LEMMA BoxInvStep == BoxInv /\ [BoxNext]_boxVars => BoxInv' /\ [TouchesOwn]_boxVars
<1> SUFFICES ASSUME BoxInv, [BoxNext]_boxVars PROVE BoxInv' /\ [TouchesOwn]_boxVars
  OBVIOUS
<1>1. ASSUME NEW t \in MailThreads, CreateMailbox(t) \/ ModifyMailbox(t) \/ DeleteMailbox(t)
      PROVE  BoxInv' /\ TouchesOwn
  <2>1. UNCHANGED account
    BY <1>1 DEF CreateMailbox, ModifyMailbox, DeleteMailbox, Handle
  <2>2. \A n \in BoxNames : <<"", n>> \in Asked
    BY DEF Asked
  <2>3. BoxInv'
    BY <1>1, <2>2, HandledLooksAtOwn DEF CreateMailbox, ModifyMailbox, DeleteMailbox
  <2> QED
    BY <2>1, <2>3 DEF TouchesOwn
<1>2. ASSUME NEW t \in MailThreads, NEW status \in {"absent", "bare", "keyed", "changed"},
             NEW op \in {"chpasswd", "none"},
             boxTask[t].op \in {"useradd", "usermod", "chpasswd", "userdel"},
             boxTask[t].op # op,
             \/ account' = [account EXCEPT ![boxTask[t].login] = status]
             \/ UNCHANGED account,
             \/ boxTask' = [boxTask EXCEPT ![t] = [boxTask[t] EXCEPT !.op = op]]
             \/ op = "none" /\ BoxDone(t)
      PROVE  BoxInv' /\ TouchesOwn
  <2>1. account' \in [Logins -> {"absent", "bare", "keyed", "changed"}]
    BY <1>2 DEF BoxInv
  <2> DEFINE doing == boxTask[t]
             after == [doing EXCEPT !.op = op]
  <2>2. doing \in BoxTask /\ LooksAtOwn(doing)
    BY DEF BoxInv
  <2>3. after \in BoxTask /\ after.login = doing.login /\ after.owner = doing.owner
        /\ after.admin = doing.admin /\ after.op = op
    BY <2>2 DEF BoxTask
  <2>4. LooksAtOwn(after)
    BY <2>2, <2>3 DEF LooksAtOwn
  <2>5. boxTask' = [boxTask EXCEPT ![t] = after]
        \/ (op = "none" /\ boxTask' = [boxTask EXCEPT ![t] = NoBoxTask])
    BY <1>2 DEF BoxDone
  <2>6. NoBoxTask.op = "none"
    BY DEF NoBoxTask
  <2> HIDE DEF after
  <2>7. BoxInv'
    BY <2>1, <2>3, <2>4, <2>5, NoneLooksAtNothing DEF BoxInv
  <2>8. boxTask'[t].op = op
    BY <2>3, <2>5, <2>6 DEF BoxInv
  <2>9. \A l \in Logins : account'[l] # account[l] => l = doing.login
    BY <1>2 DEF BoxInv
  <2>10. \A l \in Logins : account'[l] # account[l] =>
           boxTask[t].owner = l[1] /\ (l[2] = "admin" => boxTask[t].admin) /\ boxTask'[t] # boxTask[t]
    BY <1>2, <2>2, <2>8, <2>9 DEF LooksAtOwn
  <2> QED
    BY <2>7, <2>10 DEF TouchesOwn
<1>3. ASSUME NEW t \in MailThreads, Useradd(t) PROVE BoxInv' /\ TouchesOwn
BY <1>2, <1>3 DEF Useradd
<1>4. ASSUME NEW t \in MailThreads, Usermod(t) PROVE BoxInv' /\ TouchesOwn
<2>1. \A whose : (IF account[whose] = "keyed" THEN "changed" ELSE account[whose])
        \in {"absent", "bare", "keyed", "changed"} \/ whose \notin Logins
  BY DEF BoxInv
<2>2. boxTask[t].op = "usermod"
  BY <1>4 DEF Usermod
<2>3. CASE Exists(boxTask[t].login)
  <3>1. boxTask[t].login \in Logins
    BY <2>3 DEF Exists
  <3> QED
    BY <1>2, <1>4, <2>1, <2>2, <2>3, <3>1 DEF Usermod
<2>4. CASE ~Exists(boxTask[t].login)
  BY <1>2, <1>4, <2>2, <2>4 DEF Usermod
<2> QED
  BY <2>3, <2>4
<1>5. ASSUME NEW t \in MailThreads, Chpasswd(t) PROVE BoxInv' /\ TouchesOwn
BY <1>2, <1>5 DEF Chpasswd
<1>6. ASSUME NEW t \in MailThreads, Userdel(t) PROVE BoxInv' /\ TouchesOwn
BY <1>2, <1>6 DEF Userdel
<1>7. CASE UNCHANGED boxVars
BY <1>7 DEF boxVars, BoxInv
<1> QED
BY <1>1, <1>3, <1>4, <1>5, <1>6, <1>7 DEF BoxNext

LEMMA BoxInvariant == BoxSpec => []BoxInv
BY BoxInvInit, BoxInvStep, PTL DEF BoxSpec

LEMMA BoxFromInv == BoxInv => BoxTypeOK
BY DEF BoxInv, BoxTypeOK, BoxTask

(* Whichever form a name had, and however accounts came and went since it was looked   *)
(* up, a request on a domain changes no account but those of the domain's owner.       *)
THEOREM AccountsAreOwn == BoxSpec => OnlyOwnAccounts
BY BoxInvInit, BoxInvStep, PTL DEF BoxSpec, OnlyOwnAccounts

-------------------------------------------------------------------------------
(* The texts of the updates a request overlaps are beside it; what one that is about to *)
(* move the link finds in the file is its own text or one of those.                   *)
ReplyTask == [pc : {"none", "install", "link", "unlink", "remove"}, text : Replies \cup {NoReply},
              beside : SUBSET Replies]
Overlap(t) ==
  \A o \in MailThreads \ {t} : replyTask[o].text \in replyTask[t].beside \cup {NoReply}

ReplyInv ==
  /\ active \in {"none", "own", "vacation"} /\ vacation \in Replies \cup {NoReply}
  /\ wanted \subseteq Replies
  /\ replyTask \in [MailThreads -> ReplyTask]
  /\ \A t \in MailThreads :
       /\ replyTask[t].text # NoReply => replyTask[t].text \in wanted
       /\ replyTask[t] = NoReplyTask \/ Overlap(t)
       /\ replyTask[t].pc = "link" =>
            vacation \in {NoReply, replyTask[t].text} \cup replyTask[t].beside
  /\ NoStaleReply

LEMMA NoReplyTaskIsTyped ==
  NoReplyTask \in ReplyTask /\ NoReplyTask.pc = "none" /\ NoReplyTask.text = NoReply
BY DEF NoReplyTask, ReplyTask

LEMMA ReplyInvInit == ReplyInit => ReplyInv
BY NoReplyTaskIsTyped DEF ReplyInit, ReplyInv, NoStaleReply, Replying

LEMMA ReplyInvStep == ReplyInv /\ [ReplyNext]_replyVars => ReplyInv'
<1> SUFFICES ASSUME ReplyInv, [ReplyNext]_replyVars PROVE ReplyInv'
  OBVIOUS
<1> USE DEF ReplyInv, NoStaleReply, Replying
<1>a. \A t \in MailThreads : /\ replyTask[t] \in ReplyTask /\ replyTask[t].beside \subseteq Replies
                             /\ replyTask[t].text \in Replies \cup {NoReply}
BY DEF ReplyTask
(* A step that gives a task no new text, and may end it.                             *)
<1>1. ASSUME NEW t \in MailThreads, NEW task \in ReplyTask,
           replyTask' = [replyTask EXCEPT ![t] = task],
           task.text \in {replyTask[t].text, NoReply},
           task = NoReplyTask \/ (Overlap(t) /\ task.beside = replyTask[t].beside),
           active' \in {"none", "own", "vacation"}, vacation' \in Replies \cup {NoReply},
           wanted' \subseteq Replies, NoStaleReply',
           \A o \in MailThreads : replyTask'[o].text # NoReply => replyTask'[o].text \in wanted',
           \A o \in MailThreads \ {t} : replyTask[o].pc = "link" =>
             vacation' \in {vacation, NoReply} \cup replyTask[o].beside,
           task.pc = "link" => vacation' \in {NoReply, task.text} \cup task.beside
    PROVE  ReplyInv'
<2>1. \A o \in MailThreads : replyTask'[o] = IF o = t THEN task ELSE replyTask[o]
  BY <1>1
<2>2. ASSUME NEW o \in MailThreads PROVE replyTask'[o] = NoReplyTask \/ Overlap(o)'
  <3>1. CASE o = t
    BY <1>1, <2>1, <3>1 DEF Overlap
  <3>2. CASE o # t
    BY <1>1, <2>1, <3>2 DEF Overlap
  <3> QED
    BY <3>1, <3>2
<2>3. ASSUME NEW o \in MailThreads, replyTask'[o].pc = "link"
      PROVE  vacation' \in {NoReply, replyTask'[o].text} \cup replyTask'[o].beside
  BY <1>1, <2>1, <2>3
<2>4. replyTask' \in [MailThreads -> ReplyTask]
  BY <1>1
<2> QED
  BY <1>1, <2>2, <2>3, <2>4
<1>2. ASSUME NEW t \in MailThreads, replyTask[t].pc # "none" PROVE Overlap(t)
BY <1>2, NoReplyTaskIsTyped
<1>3. ASSUME NEW t \in MailThreads, Answered(t)
    PROVE  /\ replyTask' = [replyTask EXCEPT ![t] = NoReplyTask]
           /\ wanted' = ({replyTask[t].text} \ {NoReply}) \cup replyTask[t].beside \cup Beside(t)
           /\ wanted' \subseteq Replies
           /\ \A o \in MailThreads : replyTask'[o].text # NoReply => replyTask'[o].text \in wanted'
<2>1. Beside(t) \subseteq Replies
  BY <1>a DEF Beside
<2>2. \A o \in MailThreads : replyTask'[o] = IF o = t THEN NoReplyTask ELSE replyTask[o]
  BY <1>3 DEF Answered
<2> QED
  BY <1>3, <1>a, <2>1, <2>2, NoReplyTaskIsTyped DEF Answered, Beside
<1>4. ASSUME NEW t \in MailThreads, NEW text \in Replies, EnableReply(t, text) PROVE ReplyInv'
<2> DEFINE mine == [pc |-> "install", text |-> text, beside |-> Beside(t)]
<2>1. /\ wanted' = wanted \cup {text} /\ UNCHANGED <<active, vacation>>
      /\ replyTask[t] = NoReplyTask
      /\ replyTask' = [o \in MailThreads |->
           IF o = t THEN mine
           ELSE IF replyTask[o] = NoReplyTask THEN NoReplyTask
           ELSE [replyTask[o] EXCEPT !.beside = replyTask[o].beside \cup {text}]]
  BY <1>4 DEF EnableReply
<2>2. Beside(t) \subseteq Replies
  BY <1>a DEF Beside
<2>3. mine \in ReplyTask
  BY <2>2 DEF ReplyTask
<2>4. ASSUME NEW o \in MailThreads \ {t}, replyTask[o] # NoReplyTask
      PROVE  /\ replyTask'[o] \in ReplyTask /\ replyTask'[o].pc = replyTask[o].pc
             /\ replyTask'[o].text = replyTask[o].text
             /\ replyTask'[o].beside = replyTask[o].beside \cup {text}
  <3> DEFINE more == [replyTask[o] EXCEPT !.beside = replyTask[o].beside \cup {text}]
  <3>1. /\ more \in ReplyTask /\ more.pc = replyTask[o].pc
        /\ more.text = replyTask[o].text
        /\ more.beside = replyTask[o].beside \cup {text}
    BY <1>a DEF ReplyTask
  <3>2. replyTask'[o] = more
    BY <2>1, <2>4
  <3> HIDE DEF more
  <3> QED
    BY <3>1, <3>2
<2>5. \A o \in MailThreads \ {t} : replyTask[o] = NoReplyTask => replyTask'[o] = NoReplyTask
  BY <2>1
<2>6. /\ replyTask'[t] = mine /\ mine.pc = "install" /\ mine.text = text
      /\ mine.beside = Beside(t)
  BY <2>1
<2> HIDE DEF mine
<2>7. replyTask' \in [MailThreads -> ReplyTask]
  <3>1. \A o \in MailThreads : replyTask'[o] \in ReplyTask
    BY <2>3, <2>4, <2>5, <2>6, NoReplyTaskIsTyped
  <3> QED
    BY <2>1, <3>1
<2>8. \A o \in MailThreads \ {t} : replyTask'[o].text = replyTask[o].text /\ replyTask'[o].pc = replyTask[o].pc
  BY <2>4, <2>5
<2>9. ASSUME NEW o \in MailThreads PROVE replyTask'[o] = NoReplyTask \/ Overlap(o)'
  <3>1. CASE o = t
    BY <1>a, <2>6, <2>8, <3>1 DEF Overlap, Beside
  <3>2. CASE o # t /\ replyTask[o] # NoReplyTask
    <4>1. Overlap(o) /\ replyTask'[o].beside = replyTask[o].beside \cup {text}
      BY <2>4, <3>2
    <4>2. \A u \in MailThreads \ {o} : replyTask'[u].text \in {replyTask[u].text, text}
      BY <2>6, <2>8
    <4> QED
      BY <4>1, <4>2 DEF Overlap
  <3> QED
    BY <2>5, <3>1, <3>2
<2>10. ASSUME NEW o \in MailThreads, replyTask'[o].pc = "link"
       PROVE  vacation' \in {NoReply, replyTask'[o].text} \cup replyTask'[o].beside
  <3>1. o # t /\ replyTask[o].pc = "link"
    BY <2>6, <2>8, <2>10
  <3>2. replyTask'[o].beside = replyTask[o].beside \cup {text} /\ replyTask'[o].text = replyTask[o].text
    BY <2>4, <3>1, NoReplyTaskIsTyped
  <3> QED
    BY <2>1, <3>1, <3>2
<2>11. \A o \in MailThreads : replyTask'[o].text # NoReply => replyTask'[o].text \in wanted'
  BY <2>1, <2>6, <2>8
<2> QED
  BY <2>1, <2>7, <2>9, <2>10, <2>11
<1>5. ASSUME NEW t \in MailThreads, InstallVacation(t) PROVE ReplyInv'
<2> DEFINE task == [replyTask[t] EXCEPT !.pc = "link"]
<2>1. /\ replyTask[t].pc = "install" /\ vacation' = replyTask[t].text
      /\ replyTask' = [replyTask EXCEPT ![t] = task] /\ UNCHANGED <<active, wanted>>
  BY <1>5 DEF InstallVacation, Installed
<2>2. /\ task \in ReplyTask /\ task.pc = "link" /\ task.text = replyTask[t].text
      /\ task.beside = replyTask[t].beside
  BY <1>a DEF ReplyTask
<2> HIDE DEF task
<2>3. \A o \in MailThreads : replyTask'[o].text = replyTask[o].text
  BY <2>1, <2>2
<2>4. \A o \in MailThreads \ {t} : replyTask[o].pc = "link" =>
        vacation' \in {NoReply} \cup replyTask[o].beside
  BY <1>2, <2>1 DEF Overlap
<2>5. Overlap(t)
  BY <1>2, <2>1
<2>6. \A o \in MailThreads : replyTask'[o].text # NoReply => replyTask'[o].text \in wanted'
  BY <2>1, <2>3
<2>7. NoStaleReply'
  BY <2>1
<2> QED
  BY <1>1, <1>a, <2>1, <2>2, <2>4, <2>5, <2>6, <2>7
<1>6. ASSUME NEW t \in MailThreads, LinkVacation(t) PROVE ReplyInv'
<2>1. /\ replyTask[t].pc = "link" /\ active' = "vacation" /\ Answered(t) /\ UNCHANGED vacation
  BY <1>6 DEF LinkVacation
<2>2. vacation \in {NoReply, replyTask[t].text} \cup replyTask[t].beside
  BY <2>1
<2>3. NoStaleReply'
  BY <1>3, <2>1, <2>2
<2> QED
  BY <1>1, <1>3, <2>1, <2>3, NoReplyTaskIsTyped
<1>7. ASSUME NEW t \in MailThreads, ReplyFails(t) PROVE ReplyInv'
<2>1. /\ replyTask' = [replyTask EXCEPT ![t] = NoReplyTask]
      /\ UNCHANGED <<active, vacation, wanted>>
  BY <1>7 DEF ReplyFails
<2>2. \A o \in MailThreads : replyTask'[o] = IF o = t THEN NoReplyTask ELSE replyTask[o]
  BY <2>1
<2>3. \A o \in MailThreads : replyTask'[o].text # NoReply => replyTask'[o].text \in wanted'
  BY <2>1, <2>2, NoReplyTaskIsTyped
<2> QED
  BY <1>1, <2>1, <2>3, NoReplyTaskIsTyped
<1>8. ASSUME NEW t \in MailThreads, DisableReply(t) PROVE ReplyInv'
<2> DEFINE mine == [pc |-> "unlink", text |-> NoReply, beside |-> Beside(t)]
<2>1. /\ replyTask[t] = NoReplyTask /\ replyTask' = [replyTask EXCEPT ![t] = mine]
      /\ UNCHANGED <<active, vacation, wanted>>
  BY <1>8 DEF DisableReply
<2>2. Beside(t) \subseteq Replies
  BY <1>a DEF Beside
<2>3. mine \in ReplyTask /\ mine.pc = "unlink" /\ mine.text = NoReply /\ mine.beside = Beside(t)
  BY <2>2 DEF ReplyTask
<2> HIDE DEF mine
<2>4. \A o \in MailThreads : replyTask'[o] = IF o = t THEN mine ELSE replyTask[o]
  BY <2>1
<2>5. ASSUME NEW o \in MailThreads PROVE replyTask'[o] = NoReplyTask \/ Overlap(o)'
  <3>1. CASE o = t
    BY <1>a, <2>3, <2>4, <3>1 DEF Overlap, Beside
  <3>2. CASE o # t
    BY <2>3, <2>4, <3>2 DEF Overlap
  <3> QED
    BY <3>1, <3>2
<2>6. replyTask' \in [MailThreads -> ReplyTask]
  BY <2>1, <2>3
<2> QED
  BY <2>1, <2>3, <2>4, <2>5, <2>6
<1>9. ASSUME NEW t \in MailThreads, Unlink(t) PROVE ReplyInv'
<2> DEFINE task == [replyTask[t] EXCEPT !.pc = "remove"]
<2>1. /\ replyTask[t].pc = "unlink" /\ active' \in {active, "none"}
      /\ replyTask' = [replyTask EXCEPT ![t] = task] /\ UNCHANGED <<vacation, wanted>>
  BY <1>9 DEF Unlink
<2>2. /\ task \in ReplyTask /\ task.pc = "remove" /\ task.text = replyTask[t].text
      /\ task.beside = replyTask[t].beside
  BY <1>a DEF ReplyTask
<2> HIDE DEF task
<2>3. \A o \in MailThreads : replyTask'[o].text = replyTask[o].text
  BY <2>1, <2>2
<2>4. Overlap(t) /\ NoStaleReply'
  BY <1>2, <2>1
<2> QED
  BY <1>1, <2>1, <2>2, <2>3, <2>4
<1>10. ASSUME NEW t \in MailThreads, RemoveVacation(t) PROVE ReplyInv'
<2>1. replyTask[t].pc = "remove" /\ vacation' \in {vacation, NoReply} /\ UNCHANGED active
  BY <1>10 DEF RemoveVacation
<2>2. CASE Replying(active, vacation')
  <3>1. replyTask' = [replyTask EXCEPT ![t] = NoReplyTask] /\ UNCHANGED wanted
    BY <1>10, <2>2 DEF RemoveVacation
  <3>2. \A o \in MailThreads : replyTask'[o] = IF o = t THEN NoReplyTask ELSE replyTask[o]
    BY <3>1
  <3>3. \A o \in MailThreads : replyTask'[o].text # NoReply => replyTask'[o].text \in wanted'
    BY <3>1, <3>2, NoReplyTaskIsTyped
  <3>4. NoStaleReply'
    BY <2>1, <2>2, <3>1
  <3> QED
    BY <1>1, <2>1, <3>1, <3>3, <3>4, NoReplyTaskIsTyped
<2>3. CASE ~Replying(active, vacation')
  <3>1. Answered(t)
    BY <1>10, <2>3 DEF RemoveVacation
  <3>2. NoStaleReply'
    BY <2>1, <2>3
  <3> QED
    BY <1>1, <1>3, <2>1, <3>1, <3>2, NoReplyTaskIsTyped
<2> QED
  BY <2>2, <2>3
<1>11. CASE UNCHANGED replyVars
BY <1>11 DEF replyVars, Overlap
<1> QED
BY <1>4, <1>5, <1>6, <1>7, <1>8, <1>9, <1>10, <1>11 DEF ReplyNext

LEMMA ReplyInvariant == ReplySpec => []ReplyInv
BY ReplyInvInit, ReplyInvStep, PTL DEF ReplySpec

LEMMA ReplyFromInv == ReplyInv => ReplyTypeOK /\ NoStaleReply
BY DEF ReplyInv, ReplyTypeOK, ReplyTask

-------------------------------------------------------------------------------
WebTask == [pc : {"idle", "save", "fill", "run"}, entries : SUBSET Entry,
            entry : Entry \cup {Self, NoEntry}, action : Actions \cup {"none"}]

(* One entry for each id, and one for each way to reach a machine.                 *)
Apart(entries) ==
  \A s, other \in entries : s # other => s.id # other.id /\ ~(s.ip = other.ip /\ s.type = other.type)

(* What a worker is about to write is as sound as what is in the file.             *)
WebInv ==
  /\ inventory \in [torn : BOOLEAN, entries : SUBSET Entry] /\ Apart(inventory.entries)
  /\ power \in [Machines -> {"on", "off"}]
  /\ webTask \in [Uvicorns -> WebTask]
  /\ \A p \in Uvicorns : Apart(webTask[p].entries) /\ (webTask[p].pc = "run" => webTask[p].entry # NoEntry)
  /\ webReply.of \in {"nothing", "action", "status"}
  /\ webReply.of = "action" /\ webReply.type = "libvirt" /\ webReply.ok => webReply.so

LEMMA NoWebTaskType == NoWebTask \in WebTask /\ Apart({})
BY DEF NoWebTask, WebTask, Apart

LEMMA LoadIsSound == WebInv => Load \subseteq Entry /\ Load \subseteq inventory.entries /\ Apart(Load)
BY DEF WebInv, Load, Apart

LEMMA TaskStarts ==
  ASSUME WebInv, NEW p \in Uvicorns, NEW record \in WebTask, Starts(p, record),
         Apart(record.entries), record.pc = "run" => record.entry # NoEntry,
         UNCHANGED <<inventory, power, webReply>>
  PROVE  WebInv'
<1>1. webTask' = [webTask EXCEPT ![p] = record]
  BY DEF Starts
<1>2. webTask' \in [Uvicorns -> WebTask]
  BY <1>1 DEF WebInv
<1>3. \A q \in Uvicorns : webTask'[q] = record \/ webTask'[q] = webTask[q]
  BY <1>1 DEF WebInv
<1> QED
  BY <1>2, <1>3 DEF WebInv

LEMMA TaskEnds ==
  ASSUME WebInv, NEW p \in Uvicorns, webTask' = [webTask EXCEPT ![p] = NoWebTask]
  PROVE  /\ webTask' \in [Uvicorns -> WebTask]
         /\ \A q \in Uvicorns : Apart(webTask'[q].entries)
                                /\ (webTask'[q].pc = "run" => webTask'[q].entry # NoEntry)
<1>1. webTask' \in [Uvicorns -> WebTask]
  BY NoWebTaskType DEF WebInv
<1>2. \A q \in Uvicorns : webTask'[q] = NoWebTask \/ webTask'[q] = webTask[q]
  BY DEF WebInv
<1>3. NoWebTask.entries = {} /\ NoWebTask.pc = "idle"
  BY DEF NoWebTask
<1> QED
  BY <1>1, <1>2, <1>3, NoWebTaskType DEF WebInv

LEMMA CommandIsKept ==
  ASSUME WebInv, NEW p \in Uvicorns, ExecuteAction(p)
  PROVE  WebInv'
<1> DEFINE entry == webTask[p].entry
           action == webTask[p].action
<1>1. entry \in Entry \cup {Self} /\ webTask' = [webTask EXCEPT ![p] = NoWebTask] /\ UNCHANGED inventory
  BY DEF WebInv, WebTask, ExecuteAction
<1>2. PICK rc \in {"0", "1", "124", "255"} : \E ran \in MayHaveRun(entry, rc) :
         /\ rc = "0" => entry # Self
         /\ power' = IF ran THEN [power EXCEPT ![entry.ip] = IF action = "stop" THEN "off" ELSE "on"]
                     ELSE power
         /\ webReply' = [of |-> "action", type |-> entry.type, ok |-> Succeeded(entry.type, rc), so |-> ran]
  BY DEF ExecuteAction
<1>3. PICK ran \in MayHaveRun(entry, rc) :
         /\ rc = "0" => entry # Self
         /\ power' = IF ran THEN [power EXCEPT ![entry.ip] = IF action = "stop" THEN "off" ELSE "on"]
                     ELSE power
         /\ webReply' = [of |-> "action", type |-> entry.type, ok |-> Succeeded(entry.type, rc), so |-> ran]
  BY <1>2
<1>4. power' \in [Machines -> {"on", "off"}]
  BY <1>3 DEF WebInv
<1>5. webReply'.type = "libvirt" /\ webReply'.ok => webReply'.so
  <2>1. webReply'.type = entry.type /\ webReply'.ok = Succeeded(entry.type, rc) /\ webReply'.so = ran
    BY <1>3
  <2>2. entry.type = "libvirt" /\ Succeeded(entry.type, rc) => rc = "0" /\ entry # Self
    BY <1>1, <1>3 DEF Succeeded, Self
  <2>3. rc = "0" /\ entry # Self => MayHaveRun(entry, rc) = {TRUE}
    BY DEF MayHaveRun
  <2> QED
    BY <1>3, <2>1, <2>2, <2>3
<1>6. webReply'.of = "action"
  BY <1>3
<1> QED
  BY <1>1, <1>4, <1>5, <1>6, TaskEnds DEF WebInv

LEMMA FileIsKept ==
  ASSUME WebInv, NEW p \in Uvicorns, Save(p)
  PROVE  WebInv'
<1>1. CASE webTask[p].pc = "fill" /\ inventory' = [torn |-> FALSE, entries |-> webTask[p].entries]
           /\ webTask' = [webTask EXCEPT ![p] = NoWebTask]
  <2>1. inventory' \in [torn : BOOLEAN, entries : SUBSET Entry] /\ Apart(inventory'.entries)
    BY <1>1 DEF WebInv, WebTask
  <2> QED
    BY <1>1, <2>1, TaskEnds DEF WebInv, Save
<1>2. CASE inventory' = [inventory EXCEPT !.torn = TRUE] /\ webTask' = [webTask EXCEPT ![p].pc = "fill"]
  <2>1. inventory' \in [torn : BOOLEAN, entries : SUBSET Entry] /\ inventory'.entries = inventory.entries
    BY <1>2 DEF WebInv
  <2>2. webTask' \in [Uvicorns -> WebTask]
    BY <1>2 DEF WebInv, WebTask
  <2>3. \A q \in Uvicorns : /\ webTask'[q].entries = webTask[q].entries
                            /\ webTask'[q].entry = webTask[q].entry
                            /\ webTask'[q].pc \in {"fill", webTask[q].pc}
    BY <1>2 DEF WebInv, WebTask
  <2> QED
    BY <2>1, <2>2, <2>3 DEF WebInv, Save
<1> QED
  BY <1>1, <1>2 DEF Save

LEMMA WebInvStep == WebInv /\ [WebNext]_webVars => WebInv'
<1> SUFFICES ASSUME WebInv, [WebNext]_webVars PROVE WebInv'
  OBVIOUS
<1>1. CASE UNCHANGED webVars
  BY <1>1 DEF webVars, WebInv
<1>2. ASSUME NEW p \in Uvicorns, AddServer(p) PROVE WebInv'
  <2>1. PICK entry \in Entry :
           /\ ~ \E s \in Load : Clash(entry, s)
           /\ \A s \in inventory.entries \cup UNION {webTask[q].entries : q \in Uvicorns} : s.id # entry.id
           /\ Starts(p, [NoWebTask EXCEPT !.pc = "save", !.entries = Load \cup {entry}])
           /\ UNCHANGED <<inventory, power, webReply>>
    BY <1>2 DEF AddServer
  <2> DEFINE record == [NoWebTask EXCEPT !.pc = "save", !.entries = Load \cup {entry}]
  <2>2. record \in WebTask /\ record.entries = Load \cup {entry} /\ record.pc = "save"
    BY LoadIsSound DEF NoWebTask, WebTask
  <2>3. Apart(Load \cup {entry})
    BY <2>1, LoadIsSound DEF Apart, Clash
  <2> HIDE DEF record
  <2>4. Starts(p, record)
    BY <2>1 DEF record
  <2> QED
    BY <2>1, <2>2, <2>3, <2>4, TaskStarts
<1>3. ASSUME NEW p \in Uvicorns, RemoveServer(p) PROVE WebInv'
  <2>1. PICK s \in Load :
           /\ Starts(p, [NoWebTask EXCEPT !.pc = "save", !.entries = Load \ {s}])
           /\ UNCHANGED <<inventory, power, webReply>>
    BY <1>3 DEF RemoveServer
  <2> DEFINE record == [NoWebTask EXCEPT !.pc = "save", !.entries = Load \ {s}]
  <2>2. record \in WebTask /\ record.entries = Load \ {s} /\ record.pc = "save"
    BY LoadIsSound DEF NoWebTask, WebTask
  <2>3. Apart(Load \ {s})
    BY LoadIsSound DEF Apart
  <2> HIDE DEF record
  <2>4. Starts(p, record)
    BY <2>1 DEF record
  <2> QED
    BY <2>1, <2>2, <2>3, <2>4, TaskStarts
<1>4. ASSUME NEW p \in Uvicorns, WorkerDies(p) PROVE WebInv'
  BY <1>4, TaskEnds DEF WebInv, WorkerDies
<1>5. ASSUME NEW p \in Uvicorns, ServerAction(p) PROVE WebInv'
  <2>1. PICK entry \in Load \cup {Self}, action \in Actions :
           /\ Starts(p, [NoWebTask EXCEPT !.pc = "run", !.entry = entry, !.action = action])
           /\ UNCHANGED <<inventory, power, webReply>>
    BY <1>5 DEF ServerAction
  <2> DEFINE record == [NoWebTask EXCEPT !.pc = "run", !.entry = entry, !.action = action]
  <2>2. record \in WebTask /\ record.entries = {} /\ record.entry = entry
    BY LoadIsSound DEF NoWebTask, WebTask
  <2>3. entry # NoEntry
    BY LoadIsSound DEF NoEntry, Self, Entry
  <2> HIDE DEF record
  <2>4. Starts(p, record)
    BY <2>1 DEF record
  <2> QED
    BY <2>1, <2>2, <2>3, <2>4, NoWebTaskType, TaskStarts
<1>6. ASSUME NEW p \in Uvicorns, ServerStatus(p) PROVE WebInv'
  <2>1. webReply'.of = "status" /\ UNCHANGED <<inventory, power, webTask>>
    BY <1>6 DEF ServerStatus
  <2> QED
    BY <2>1 DEF WebInv
<1> QED
  BY <1>1, <1>2, <1>3, <1>4, <1>5, <1>6, FileIsKept, CommandIsKept DEF WebNext

LEMMA WebInvariant == WebSpec => []WebInv
<1>1. WebInit => WebInv
  BY NoWebTaskType DEF WebInit, WebInv, NoWebTask, Apart
<1> QED
  BY <1>1, WebInvStep, PTL DEF WebSpec

LEMMA WebFromInv == WebInv => WebTypeOK /\ ActedAsSaid
BY DEF WebInv, WebTypeOK, ActedAsSaid, Apart, WebTask

-------------------------------------------------------------------------------
Blogs == [categories : SUBSET (Categories \union {Imported}),
          posts : SUBSET [post : Posts, category : Categories \union {Imported},
                          shows : Media \union {Old}]]
ImporterTask ==
  [op : {"rest", "media", "next"} \union Items, todo : SUBSET (Items \union Media),
   found : BOOLEAN, bad : BOOLEAN, missed : SUBSET Items, silent : SUBSET Items,
   map : [Media -> Media \union {Old}]]

HasIn(held, item) == item \in held.categories \/ \E d \in held.posts : d.post = item

(* What an execution has done with the items it has behind it, and what it knows    *)
(* of the one it is at.                                                            *)
Behind(held, doing) ==
  /\ \A item \in Items \ doing.todo : HasIn(held, item) \/ item \in doing.silent \/ doing.bad
  /\ \A c \in Categories \ doing.todo : c \in held.categories \/ c \in doing.missed
  /\ doing.todo \subseteq Items
At(held, doing) ==
  /\ doing.op \in doing.todo
  /\ doing.found => HasIn(held, doing.op)
  /\ doing.op \in Posts => doing.todo \intersect Categories = {}

ConvInv ==
  /\ blog \in Blogs /\ files \subseteq Media
  /\ mapping \in [Media -> Media \union {Old}]
  /\ importer \in [Importers -> ImporterTask]
  /\ \A i \in Importers :
       /\ importer[i].op \in {"next"} \union Items => Behind(blog, importer[i])
       /\ importer[i].op \in Items => At(blog, importer[i])

LEMMA ImporterMoves ==
  ASSUME ConvInv, NEW i \in Importers, NEW doing \in ImporterTask,
         importer' = [importer EXCEPT ![i] = doing],
         blog' \in Blogs, blog.categories \subseteq blog'.categories, blog.posts \subseteq blog'.posts,
         files' \subseteq Media, mapping' \in [Media -> Media \union {Old}],
         doing.op \in {"next"} \union Items => Behind(blog', doing),
         doing.op \in Items => At(blog', doing)
  PROVE  ConvInv'
<1>1. importer' \in [Importers -> ImporterTask] /\ importer'[i] = doing
      /\ \A j \in Importers : j # i => importer'[j] = importer[j]
  BY DEF ConvInv
<1>2. \A item : HasIn(blog, item) => HasIn(blog', item)
  BY DEF HasIn
<1>3. ASSUME NEW j \in Importers, importer[j].op \in {"next"} \union Items
      PROVE  Behind(blog', importer[j])
  BY <1>2, <1>3 DEF Behind, ConvInv
<1>4. ASSUME NEW j \in Importers, importer[j].op \in Items
      PROVE  At(blog', importer[j])
  BY <1>2, <1>4 DEF At, ConvInv
<1> QED
  BY <1>1, <1>3, <1>4 DEF ConvInv

LEMMA AtRestType == AtRest \in ImporterTask /\ AtRest.op = "rest" /\ "rest" \notin {"next"} \union Items
                    /\ "next" \notin Items /\ "media" \notin {"next"} \union Items
BY ConversionAssumption DEF AtRest, ImporterTask, NoMap, Items

(* The blog after the script of an item has made it.                              *)
LEMMA CreatedHas ==
  ASSUME ConvInv, NEW item \in Items, NEW shown \in [Media -> Media \union {Old}],
         NEW held \in Created(item, shown)
  PROVE  /\ held \in Blogs /\ blog.categories \subseteq held.categories /\ blog.posts \subseteq held.posts
         /\ HasIn(held, item) /\ (item \in Categories => item \in held.categories)
         /\ \A d \in held.posts \ blog.posts :
              d.post = item /\ item \in Posts /\ d.category \in FiledUnder(item)
<1>1. CASE item \in Categories
  <2>1. held = [blog EXCEPT !.categories = @ \union {item}]
    BY <1>1 DEF Created
  <2> QED
    BY <1>1, <2>1 DEF ConvInv, Blogs, HasIn
<1>2. CASE item \notin Categories
  <2>1. PICK c \in FiledUnder(item) :
          held = [categories |-> blog.categories \union {c},
                  posts |-> blog.posts \union {Post(item, c, shown)}]
    BY <1>2 DEF Created
  <2>2. item \in Posts /\ CategoryOf[item] \in Categories /\ ShownIn[item] \in Media
    BY <1>2, ConversionAssumption DEF Items
  <2>3. c \in Categories \union {Imported}
    BY <2>1, <2>2 DEF FiledUnder, ConvInv, Blogs
  <2> DEFINE new == Post(item, c, shown)
  <2>4. new \in [post : Posts, category : Categories \union {Imported}, shows : Media \union {Old}]
        /\ new.post = item /\ new.category = c
    BY <2>2, <2>3 DEF Post
  <2> HIDE DEF new
  <2>5. held.categories = blog.categories \union {c} /\ held.posts = blog.posts \union {new}
    BY <2>1 DEF new
  <2>6. held \in Blogs
    <3>1. held = [categories |-> held.categories, posts |-> held.posts]
      BY <2>1
    <3> QED
      BY <2>3, <2>4, <2>5, <3>1 DEF ConvInv, Blogs
  <2> QED
    BY <1>2, <2>2, <2>4, <2>5, <2>6 DEF HasIn
<1> QED
  BY <1>1, <1>2

(* One of the two ways in which a script that an importer waits for can end.        *)
LEMMA ScriptEnds ==
  ASSUME ConvInv, NEW i \in Importers, Prints(i) \/ ScriptFails(i)
  PROVE  ConvInv'
<1> DEFINE doing == importer[i]
           item == doing.op
<1>1. item \in Items /\ doing \in ImporterTask /\ Behind(blog, doing) /\ At(blog, doing)
      /\ UNCHANGED <<files, mapping>>
  BY DEF Prints, ScriptFails, ConvInv
<1>2. \/ UNCHANGED blog
      \/ ~doing.found /\ blog' \in Created(item, doing.map)
  BY DEF Prints, ScriptFails
<1>3. doing.map \in [Media -> Media \union {Old}]
  BY <1>1 DEF ImporterTask
<1>4. blog' \in Blogs /\ blog.categories \subseteq blog'.categories /\ blog.posts \subseteq blog'.posts
  BY <1>1, <1>2, <1>3, CreatedHas DEF ConvInv
<1>5. PICK missed \in SUBSET Items, silent \in SUBSET Items, bad \in BOOLEAN :
        /\ NextItem(i, missed, silent, bad)
        /\ (HasIn(blog', item) /\ (item \in Categories => item \in blog'.categories))
           \/ (item \in missed /\ (item \in silent \/ bad))
  <2>1. CASE Prints(i)
    <3>1. NextItem(i, {}, {}, FALSE)
      BY <2>1 DEF Prints
    <3>2. HasIn(blog', item) /\ (item \in Categories => item \in blog'.categories)
      <4>1. CASE doing.found
        <5>1. UNCHANGED blog /\ HasIn(blog, item)
          BY <1>1, <2>1, <4>1 DEF Prints, At
        <5>2. item \in Categories => item \in blog.categories
          BY <5>1, ConversionAssumption DEF HasIn, ConvInv, Blogs
        <5> QED
          BY <5>1, <5>2
      <4>2. CASE ~doing.found
        BY <1>1, <1>3, <2>1, <4>2, CreatedHas DEF Prints
      <4> QED
        BY <4>1, <4>2
    <3> QED
      BY <3>1, <3>2
  <2>2. CASE ScriptFails(i)
    <3>1. PICK printed \in BOOLEAN :
            NextItem(i, {item}, IF printed THEN {} ELSE {item}, printed)
      BY <2>2 DEF ScriptFails, Counted
    <3> DEFINE missed == {item}
               silent == IF printed THEN {} ELSE {item}
    <3>2. missed \in SUBSET Items /\ silent \in SUBSET Items /\ item \in missed /\ (item \in silent \/ printed)
      BY <1>1
    <3>3. NextItem(i, missed, silent, printed)
      BY <3>1
    <3> HIDE DEF missed, silent
    <3> QED
      BY <3>2, <3>3
  <2> QED
    BY <2>1, <2>2
<1> DEFINE next == [doing EXCEPT !.op = "next", !.todo = @ \ {item}, !.found = FALSE, !.bad = @ \/ bad,
                               !.missed = @ \union missed, !.silent = @ \union silent]
<1>6. importer' = [importer EXCEPT ![i] = next]
  BY <1>5 DEF NextItem, ConvInv
<1>7. next \in ImporterTask
  BY <1>1, <1>5 DEF ImporterTask
<1>8. /\ next.op = "next" /\ next.todo = doing.todo \ {item} /\ next.missed = doing.missed \union missed
      /\ next.silent = doing.silent \union silent
  BY <1>1 DEF ImporterTask
<1>9. next.bad <=> doing.bad \/ bad
  BY <1>1, Zenon DEF ImporterTask
<1> HIDE DEF next
<1>10. Behind(blog', next)
  <2>1. \A x \in Items \ doing.todo : HasIn(blog', x) \/ x \in doing.silent \/ doing.bad
    BY <1>1, <1>4 DEF Behind, HasIn
  <2>2. \A c \in Categories \ doing.todo : c \in blog'.categories \/ c \in doing.missed
    BY <1>1, <1>4 DEF Behind
  <2>3. HasIn(blog', item) \/ item \in silent \/ bad
    BY <1>5
  <2>4. item \in Categories => item \in blog'.categories \/ item \in missed
    BY <1>5
  <2>5. ASSUME NEW x \in Items \ next.todo PROVE HasIn(blog', x) \/ x \in next.silent \/ next.bad
    <3>1. CASE x = item
      BY <1>8, <1>9, <2>3, <3>1
    <3>2. CASE x # item
      BY <1>8, <1>9, <2>1, <2>5, <3>2
    <3> QED
      BY <3>1, <3>2
  <2>6. \A c \in Categories \ next.todo : c \in blog'.categories \/ c \in next.missed
    BY <1>8, <2>2, <2>4
  <2>7. next.todo \subseteq Items
    BY <1>1, <1>8 DEF Behind
  <2> QED
    BY <2>5, <2>6, <2>7 DEF Behind
<1> QED
  BY <1>1, <1>4, <1>6, <1>7, <1>8, <1>10, AtRestType, ImporterMoves DEF ConvInv

LEMMA CopyIsKept ==
  ASSUME ConvInv, NEW i \in Importers, MigrateMedia(i) \/ SaveMapping(i) \/ ReportExecution(i)
  PROVE  ConvInv'
<1>1. CASE MigrateMedia(i)
  <2> DEFINE next == [AtRest EXCEPT !.op = "media", !.todo = Media]
  <2>1. next \in ImporterTask /\ next.op = "media"
    BY AtRestType DEF ImporterTask
  <2>2. importer' = [importer EXCEPT ![i] = next] /\ UNCHANGED <<blog, files, mapping>>
    BY <1>1 DEF MigrateMedia
  <2> HIDE DEF next
  <2> QED
    BY <2>1, <2>2, AtRestType, ImporterMoves DEF ConvInv
<1>2. CASE SaveMapping(i) \/ ReportExecution(i)
  <2>1. importer' = [importer EXCEPT ![i] = AtRest] /\ UNCHANGED <<blog, files>>
    BY <1>2 DEF SaveMapping, ReportExecution
  <2>2. mapping' \in [Media -> Media \union {Old}]
    BY <1>2 DEF SaveMapping, ReportExecution, ConvInv, ImporterTask
  <2> QED
    BY <2>1, <2>2, AtRestType, ImporterMoves DEF ConvInv
<1> QED
  BY <1>1, <1>2

LEMMA UploadIsKept ==
  ASSUME ConvInv, NEW i \in Importers, NEW m \in Media, Upload(i, m)
  PROVE  ConvInv'
<1> DEFINE doing == importer[i]
           there == {f \in files : NameOf[f] = NameOf[m]}
<1>1. doing \in ImporterTask /\ doing.op = "media" /\ files \subseteq Media /\ UNCHANGED <<blog, mapping>>
  BY DEF Upload, ConvInv
<1>2. /\ files' \in {files, files \union {m}}
      /\ \/ importer' = [importer EXCEPT ![i].todo = @ \ {m}]
         \/ \E f \in there \union {m} : importer' = [importer EXCEPT ![i].todo = @ \ {m}, ![i].map[m] = f]
  BY DEF Upload
<1>3. PICK f \in Media :
        \/ importer' = [importer EXCEPT ![i].todo = @ \ {m}]
        \/ importer' = [importer EXCEPT ![i].todo = @ \ {m}, ![i].map[m] = f]
  BY <1>1, <1>2
<1> DEFINE missing == [doing EXCEPT !.todo = @ \ {m}]
           sent == [missing EXCEPT !.map = [@ EXCEPT ![m] = f]]
           between == [importer EXCEPT ![i] = missing]
<1>4. missing \in ImporterTask /\ missing.op = "media"
  BY <1>1 DEF ImporterTask
<1>5. between \in [Importers -> ImporterTask] /\ between[i] = missing
  BY <1>4 DEF ConvInv
<1>6. \/ importer' = [importer EXCEPT ![i] = missing]
      \/ importer' = [between EXCEPT ![i].map[m] = f]
  BY <1>3
<1> HIDE DEF missing
<1>7. sent \in ImporterTask /\ sent.op = "media"
  BY <1>4 DEF ImporterTask
<1>8. [between EXCEPT ![i].map[m] = f] = [between EXCEPT ![i] = sent]
  <2> HIDE DEF between
  <2> QED
    BY <1>5
<1> HIDE DEF sent
<1>9. [between EXCEPT ![i] = sent] = [importer EXCEPT ![i] = sent]
  BY <1>4, <1>7 DEF ConvInv
<1>10. files' \subseteq Media
  BY <1>1, <1>2
<1> QED
  BY <1>1, <1>4, <1>6, <1>7, <1>8, <1>9, <1>10, AtRestType, ImporterMoves DEF ConvInv

LEMMA PlanIsKept ==
  ASSUME ConvInv, NEW i \in Importers, ExecuteMigration(i) \/ \E item \in Items : LookUp(i, item)
  PROVE  ConvInv'
<1> DEFINE doing == importer[i]
<1>1. doing \in ImporterTask /\ UNCHANGED <<blog, files, mapping>>
  BY DEF ExecuteMigration, LookUp, ConvInv
<1>2. CASE ExecuteMigration(i)
  <2> DEFINE next == [AtRest EXCEPT !.op = "next", !.todo = Items, !.map = mapping]
  <2>1. next \in ImporterTask /\ next.op = "next" /\ next.todo = Items
    BY AtRestType DEF ImporterTask, ConvInv
  <2>2. importer' = [importer EXCEPT ![i] = next]
    BY <1>2 DEF ExecuteMigration
  <2> HIDE DEF next
  <2>3. Behind(blog, next)
    BY <2>1 DEF Behind, Items
  <2> QED
    BY <1>1, <2>1, <2>2, <2>3, AtRestType, ImporterMoves DEF ConvInv
<1>3. ASSUME NEW item \in Items, LookUp(i, item) PROVE ConvInv'
  <2> DEFINE next == [doing EXCEPT !.op = item, !.found = Has(item)]
  <2>1. importer' = [importer EXCEPT ![i] = next] /\ doing.op = "next" /\ item \in MayImport(doing.todo)
    BY <1>3 DEF LookUp, ConvInv
  <2>2. Has(item) \in BOOLEAN
    BY DEF Has
  <2>3. next \in ImporterTask
    BY <1>1, <2>2, Zenon DEF ImporterTask
  <2>4. /\ next.op = item /\ next.todo = doing.todo /\ next.silent = doing.silent
        /\ next.missed = doing.missed
    BY <1>1 DEF ImporterTask
  <2>5. (next.bad <=> doing.bad) /\ (next.found => HasIn(blog, item))
    BY <1>1, Zenon DEF ImporterTask, Has, HasIn
  <2> HIDE DEF next
  <2>6. Behind(blog, doing)
    BY <2>1 DEF ConvInv
  <2>7. Behind(blog, next)
    BY <2>4, <2>5, <2>6 DEF Behind
  <2>8. At(blog, next)
    <3>1. item \in doing.todo
      BY <2>1 DEF MayImport
    <3>2. item \in Posts => doing.todo \intersect Categories = {}
      BY <2>1, ConversionAssumption DEF MayImport
    <3> QED
      BY <2>4, <2>5, <3>1, <3>2 DEF At
  <2> QED
    BY <1>1, <2>1, <2>3, <2>7, <2>8, ImporterMoves DEF ConvInv
<1> QED
  BY <1>2, <1>3

LEMMA ConvInvInit == ConvInit => ConvInv
<1> SUFFICES ASSUME ConvInit PROVE ConvInv
  OBVIOUS
<1>1. blog \in Blogs /\ files \subseteq Media /\ mapping \in [Media -> Media \union {Old}]
  BY DEF ConvInit, Blogs, NoMap
<1>2. importer \in [Importers -> ImporterTask] /\ \A i \in Importers : importer[i] = AtRest
  BY AtRestType DEF ConvInit
<1> QED
  BY <1>1, <1>2, AtRestType DEF ConvInv

LEMMA ConvInvStep == ConvInv /\ [ConvNext]_convVars => ConvInv'
<1> SUFFICES ASSUME ConvInv, [ConvNext]_convVars PROVE ConvInv'
  OBVIOUS
<1>1. CASE UNCHANGED convVars
  BY <1>1 DEF convVars, ConvInv
<1>2. CASE ConvNext
  BY <1>2, CopyIsKept, UploadIsKept, PlanIsKept, ScriptEnds DEF ConvNext
<1> QED
  BY <1>1, <1>2

LEMMA ConvFromInv == ConvInv => ConvTypeOK
BY DEF ConvInv, ConvTypeOK, Blogs, ImporterTask

(* What one step reports and makes.                                               *)
Reports ==
  /\ \A i \in Importers :
       importer[i].op = "next" /\ importer'[i] = AtRest /\ ~importer[i].bad =>
         \A item \in Items \ importer[i].silent : Has(item)
  /\ \A d \in blog'.posts \ blog.posts :
       d.category # CategoryOf[d.post] =>
         \E i \in Importers : importer[i].op = d.post /\ CategoryOf[d.post] \in importer[i].missed

LEMMA StepReports ==
  ASSUME ConvInv, ConvNext
  PROVE  Reports
<1>1. ASSUME NEW i \in Importers, importer[i].op = "next", importer'[i] = AtRest, ~importer[i].bad,
             NEW item \in Items \ importer[i].silent
      PROVE  Has(item)
  <2>1. importer \in [Importers -> ImporterTask] /\ importer[i].op # "rest" /\ importer'[i] # importer[i]
    BY <1>1, AtRestType DEF ConvInv
  <2>2. PICK j \in Importers :
          \/ MigrateMedia(j) \/ (\E m \in Media : Upload(j, m)) \/ SaveMapping(j)
          \/ ExecuteMigration(j) \/ (\E x \in Items : LookUp(j, x))
          \/ Prints(j) \/ ScriptFails(j) \/ ReportExecution(j)
    BY DEF ConvNext
  <2>3. j = i
    BY <2>1, <2>2 DEF MigrateMedia, Upload, SaveMapping, ExecuteMigration, LookUp, Prints, ScriptFails,
                      NextItem, ReportExecution
  <2>4. ~ \E x \in Items : LookUp(i, x)
    <3> SUFFICES ASSUME NEW x \in Items, LookUp(i, x) PROVE FALSE
      OBVIOUS
    <3>1. importer'[i] = [importer[i] EXCEPT !.op = x, !.found = Has(x)]
      BY <2>1 DEF LookUp
    <3>2. importer'[i].op = x
      BY <2>1, <3>1 DEF ImporterTask
    <3> QED
      BY <1>1, <3>2, AtRestType
  <2>5. ReportExecution(i)
    BY <1>1, <2>1, <2>2, <2>3, <2>4, AtRestType
       DEF MigrateMedia, Upload, SaveMapping, ExecuteMigration, Prints, ScriptFails
  <2>6. importer[i].todo = {} /\ Behind(blog, importer[i])
    BY <1>1, <2>5 DEF ReportExecution, ConvInv
  <2>7. HasIn(blog, item)
    BY <1>1, <2>6 DEF Behind
  <2> QED
    BY <2>7 DEF HasIn, Has
<1>2. ASSUME NEW d \in blog'.posts \ blog.posts, d.category # CategoryOf[d.post]
      PROVE  \E i \in Importers : importer[i].op = d.post /\ CategoryOf[d.post] \in importer[i].missed
  <2>1. PICK i \in Importers : Prints(i) \/ ScriptFails(i)
    BY <1>2 DEF ConvNext, MigrateMedia, Upload, SaveMapping, ExecuteMigration, LookUp, ReportExecution
  <2> DEFINE doing == importer[i]
  <2>2. doing.op \in Items /\ doing \in ImporterTask /\ Behind(blog, doing) /\ At(blog, doing)
    BY <2>1 DEF Prints, ScriptFails, ConvInv
  <2>3. blog' \in Created(doing.op, doing.map)
    BY <1>2, <2>1 DEF Prints, ScriptFails
  <2>4. d.post = doing.op /\ doing.op \in Posts /\ d.category \in FiledUnder(doing.op)
    BY <1>2, <2>2, <2>3, CreatedHas DEF ImporterTask
  <2>5. CategoryOf[doing.op] \in Categories
    BY <2>4, ConversionAssumption
  <2>6. CategoryOf[doing.op] \notin blog.categories
    BY <1>2, <2>4 DEF FiledUnder
  <2> QED
    BY <2>2, <2>4, <2>5, <2>6 DEF Behind, At
<1> QED
  BY <1>1, <1>2 DEF Reports

LEMMA ConvInvariant == ConvSpec => []ConvInv
BY ConvInvInit, ConvInvStep, PTL DEF ConvSpec

(* Whatever importers overlap, and wherever their scripts die: what is reported as     *)
(* imported is in Frappe, but for an item whose script died without a word, and a post *)
(* is under another category only after the script of its own failed.                 *)
THEOREM ReportsAreTrue == ConvSpec => ReportedIsImported
<1>1. ConvInv /\ [ConvNext]_convVars => [Reports]_convVars
BY StepReports
<1> QED
BY <1>1, ConvInvariant, PTL DEF ConvSpec, ReportedIsImported, Reports

-------------------------------------------------------------------------------
PlanInv ==
  /\ oldSite \in [cms : Systems, posts : SUBSET Articles, media : SUBSET Pictures]
  /\ PlanTypeOK /\ ValidMeansComplete

LEMMA Validated ==
  ASSUME PlanInv, ValidateMigration
  PROVE  PlanInv'
<1> DEFINE stale == \E x \in Articles : target[x] = "old"
           bare == Unlisted(analysis.media, addresses) = {}
           missing == ~(analysis.media \subseteq addresses)
<1>1. PICK scanned \in BOOLEAN :
        reply' = [of |-> "validate", ok |-> ~(scanned /\ stale) /\ bare,
                  missing |-> missing, broken |-> scanned /\ stale]
  BY DEF ValidateMigration
<1>2. bare => ~missing
  BY DEF Unlisted
<1> HIDE DEF stale, bare, missing
<1>3. reply'.of = "validate"
  BY <1>1, Zenon
<1>4. (reply'.ok <=> ~(scanned /\ stale) /\ bare) /\ (reply'.missing <=> missing)
      /\ (reply'.broken <=> scanned /\ stale)
  BY <1>1, Zenon
<1> QED
  BY <1>2, <1>3, <1>4 DEF ValidateMigration, PlanInv, PlanTypeOK, ValidMeansComplete

LEMMA SaysSo == \A of, ok : Says(of, ok).of = of
BY Zenon DEF Says

LEMMA PlanInvStep == PlanInv /\ [PlanNext]_planVars => PlanInv'
<1> SUFFICES ASSUME PlanInv, [PlanNext]_planVars PROVE PlanInv'
  OBVIOUS
<1>1. CASE UNCHANGED planVars
  BY <1>1 DEF planVars, PlanInv, PlanTypeOK, ValidMeansComplete
<1>2. CASE OldSiteChanges
  <2>1. oldSite' \in [cms : Systems, posts : SUBSET Articles, media : SUBSET Pictures]
    BY <1>2 DEF OldSiteChanges, PlanInv
  <2> QED
    BY <1>2, <2>1 DEF OldSiteChanges, PlanInv, PlanTypeOK, ValidMeansComplete
<1>3. CASE DiscoverSite
  <2>1. reply'.of \in {"wordpress", "joomla", "unknown"}
    BY <1>3, SaysSo, Zenon DEF DiscoverSite, Detected
  <2> QED
    BY <1>3, <2>1 DEF DiscoverSite, PlanInv, PlanTypeOK, ValidMeansComplete
<1>4. CASE AnalyseWordpress \/ AnalyseJoomla
  <2>1. oldSite.posts \subseteq Articles /\ oldSite.media \subseteq Pictures
    BY DEF PlanInv
  <2>2. analysis'.posts \subseteq oldSite.posts /\ analysis'.media \subseteq oldSite.media
    BY <1>4 DEF AnalyseWordpress, AnalyseJoomla, Listed
  <2> QED
    BY <1>4, <2>1, <2>2 DEF AnalyseWordpress, AnalyseJoomla, PlanInv, PlanTypeOK, ValidMeansComplete
<1>5. CASE BuildPlan
  BY <1>5 DEF BuildPlan, PlanInv, PlanTypeOK, ValidMeansComplete
<1>6. CASE StageMigration
  <2>1. reply'.of = "stage"
    BY <1>6, SaysSo, Zenon DEF StageMigration
  <2> QED
    BY <1>6, <2>1 DEF StageMigration, PlanInv, PlanTypeOK, ValidMeansComplete
<1>7. CASE CopyMedia
  BY <1>7 DEF CopyMedia, PlanInv, PlanTypeOK, ValidMeansComplete
<1>8. CASE ImportPosts
  BY <1>8 DEF ImportPosts, PlanInv, PlanTypeOK, ValidMeansComplete
<1> QED
  BY <1>1, <1>2, <1>3, <1>4, <1>5, <1>6, <1>7, <1>8, Validated DEF PlanNext

LEMMA PlanInvariant == PlanSpec => []PlanInv
<1>1. PlanInit => PlanInv
  <2> SUFFICES ASSUME PlanInit PROVE PlanInv
    OBVIOUS
  <2>1. reply.of = "nothing"
    BY SaysSo, Zenon DEF PlanInit
  <2>2. oldSite \in [cms : Systems, posts : SUBSET Articles, media : SUBSET Pictures]
    BY DEF PlanInit
  <2>3. analysis.posts = {} /\ analysis.media = {}
    BY DEF PlanInit, NoAnalysis
  <2>4. DOMAIN steps = {} /\ addresses = {} /\ target \in [Articles -> {"absent", "old", "new"}]
    BY DEF PlanInit
  <2> QED
    BY <2>1, <2>2, <2>3, <2>4 DEF PlanInv, PlanTypeOK, ValidMeansComplete
<1> QED
  BY <1>1, PlanInvStep, PTL DEF PlanSpec

-------------------------------------------------------------------------------
(* Tunnels.  While there was no mishap, the forwarding rules that are in place are   *)
(* those the file names.                                                          *)
TunnelsInv == mishaps = {} => (up => conf # NoFile) /\ (rules => up /\ conf.nat)

LEMMA TunnelsInvStep == TunnelsInv /\ [TunnelsNext]_tunnelVars => TunnelsInv'
<1> SUFFICES ASSUME TunnelsInv, [TunnelsNext]_tunnelVars PROVE TunnelsInv'
  OBVIOUS
<1> USE DEF TunnelsInv
<1>1. ASSUME NEW h \in Handlers, NEW peers, WritesPeers(h, peers) PROVE TunnelsInv'
  BY <1>1 DEF WritesPeers
<1>2. ASSUME NEW h \in Handlers, WriteConf(h) PROVE TunnelsInv'
  BY <1>2 DEF WriteConf, Rewritten
<1>3. ASSUME NEW new \in Confs, SaveRaw(new) PROVE TunnelsInv'
  BY <1>3, TunnelsAssumption DEF SaveRaw, Rewritten, Confs
<1>4. ASSUME NEW nat \in BOOLEAN, NEW autoUp \in BOOLEAN, CreateInterface(nat, autoUp)
      PROVE TunnelsInv'
  <2>1. conf'.nat = nat /\ conf' # NoFile
    <3>1. <<>> \in SeqOf(Keys, MaxPeers)
      BY TunnelsAssumption DEF SeqOf
    <3> QED
      BY <1>4, <3>1, TunnelsAssumption DEF CreateInterface
  <2> QED
    BY <1>4, <2>1 DEF CreateInterface
<1>5. ASSUME WgUp \/ WgDown \/ WgReload PROVE TunnelsInv'
  <2>1. conf # NoFile /\ UNCHANGED <<conf, mishaps>>
    BY <1>5 DEF WgUp, WgDown, WgReload, CanStart, CanStop
  <2>2. mishaps = {} /\ rules' => up' /\ conf.nat
    BY <1>5, Zenon DEF WgUp, WgDown, WgReload, CanStart, CanStop
  <2> QED
    BY <2>1, <2>2
<1>6. ASSUME DeleteInterface PROVE TunnelsInv'
  <2>1. PICK r \in TakenDown :
          up' = r.up /\ rules' = r.rules /\ mishaps' = mishaps \union r.mishap
    BY <1>6 DEF DeleteInterface
  <2>2. CASE r = [up |-> TRUE, rules |-> rules, mishap |-> {"stuck"}]
    BY <2>1, <2>2
  <2>3. CASE up /\ r = [up |-> FALSE, rules |-> rules /\ ~conf.nat, mishap |-> {}]
    <3>1. mishaps' = mishaps /\ up' = FALSE /\ (rules' <=> rules /\ ~conf.nat)
      BY <2>1, <2>3
    <3> QED
      BY <3>1
  <2>4. CASE ~up /\ r = [up |-> FALSE, rules |-> rules, mishap |-> {}]
    <3>1. mishaps' = mishaps /\ up' = FALSE /\ rules' = rules
      BY <2>1, <2>4
    <3> QED
      BY <2>4, <3>1
  <2> QED
    BY <2>2, <2>3, <2>4 DEF TakenDown
<1>7. CASE UNCHANGED tunnelVars
  BY <1>7 DEF tunnelVars
<1> QED
  BY <1>1, <1>2, <1>3, <1>4, <1>5, <1>6, <1>7 DEF TunnelsNext, AddPeer, UpdatePeer, RemovePeer

(* For any number of handlers and peers: unless NAT was edited in the file of a      *)
(* running interface, or wg-quick failed to take one down, an interface that runs   *)
(* has its file and no forwarding rule outlives the interface.                     *)
THEOREM NothingOutlives == TunnelsSpec => []NothingLeftRunning
<1>1. TunnelsInit => TunnelsInv
  BY DEF TunnelsInit, TunnelsInv
<1>2. TunnelsInv => NothingLeftRunning
  BY DEF TunnelsInv, NothingLeftRunning
<1> QED
  BY <1>1, <1>2, TunnelsInvStep, PTL DEF TunnelsSpec

LEMMA ConfsAre ==
  \A new : new \in Confs <=> /\ new = [peers |-> new.peers, nat |-> new.nat] /\ new.nat \in BOOLEAN
                             /\ \E n \in 0 .. MaxPeers : new.peers \in [1 .. n -> Keys]
BY DEF Confs, SeqOf

LEMMA PeersAre ==
  \A peers : peers \in SeqOf(Keys, MaxPeers) <=> peers \in Seq(Keys) /\ Len(peers) <= MaxPeers
<1>1. \A peers : peers \in SeqOf(Keys, MaxPeers) <=> \E n \in 0 .. MaxPeers : peers \in [1 .. n -> Keys]
BY DEF SeqOf
<1>2. MaxPeers \in Nat
BY TunnelsAssumption
<1>3. ASSUME NEW peers \in Seq(Keys), Len(peers) <= MaxPeers
    PROVE  \E n \in 0 .. MaxPeers : peers \in [1 .. n -> Keys]
<2>1. Len(peers) \in 0 .. MaxPeers /\ peers \in [1 .. Len(peers) -> Keys]
  BY <1>2, <1>3
<2> QED
  BY <2>1
<1>4. ASSUME NEW n \in 0 .. MaxPeers, NEW peers \in [1 .. n -> Keys]
    PROVE  peers \in Seq(Keys) /\ Len(peers) <= MaxPeers
BY <1>2
<1> QED
BY <1>1, <1>3, <1>4

LEMMA EditIsTyped ==
  ASSUME TunnelsTypeOK, NEW h \in Handlers, NEW peers \in SeqOf(Keys, MaxPeers), conf # NoFile,
         WritesPeers(h, peers)
  PROVE  TunnelsTypeOK'
<1> DEFINE new == [conf EXCEPT !.peers = peers]
<1>1. new \in Confs
BY DEF TunnelsTypeOK, Confs
<1> HIDE DEF new
<1>2. edit' = [edit EXCEPT ![h] = new]
BY DEF WritesPeers, new
<1>3. edit' \in [Handlers -> Confs \union {NoFile}]
BY <1>1, <1>2 DEF TunnelsTypeOK
<1> QED
BY <1>3 DEF WritesPeers, TunnelsTypeOK

LEMMA TunnelsTypeStep == TunnelsTypeOK /\ [TunnelsNext]_tunnelVars => TunnelsTypeOK'
<1> SUFFICES ASSUME TunnelsTypeOK, [TunnelsNext]_tunnelVars PROVE TunnelsTypeOK'
  OBVIOUS
<1>0. conf # NoFile => conf.peers \in Seq(Keys) /\ Len(conf.peers) <= MaxPeers /\ conf.nat \in BOOLEAN
BY PeersAre DEF TunnelsTypeOK, Confs
<1>10. MaxPeers \in Nat
BY TunnelsAssumption
<1>1. ASSUME NEW h \in Handlers, NEW k \in Keys, AddPeer(h, k) PROVE TunnelsTypeOK'
<2>1. Append(conf.peers, k) \in SeqOf(Keys, MaxPeers)
  <3> DEFINE peers == conf.peers
  <3>1. peers \in Seq(Keys) /\ Len(peers) < MaxPeers
    BY <1>0, <1>1 DEF AddPeer
  <3> HIDE DEF peers
  <3>2. Append(peers, k) \in Seq(Keys) /\ Len(Append(peers, k)) = Len(peers) + 1 /\ Len(peers) \in Nat
    BY <3>1
  <3>3. Len(Append(peers, k)) <= MaxPeers
    BY <1>10, <3>1, <3>2
  <3> QED
    BY <3>2, <3>3, PeersAre DEF peers
<2> QED
  BY <1>1, <2>1, EditIsTyped DEF AddPeer
<1>2. ASSUME NEW h \in Handlers, NEW k \in Keys, NEW i \in 1 .. MaxPeers, UpdatePeer(h, i, k)
    PROVE  TunnelsTypeOK'
<2>1. [conf.peers EXCEPT ![i] = k] \in SeqOf(Keys, MaxPeers)
  BY <1>0, <1>2, <1>10, PeersAre DEF UpdatePeer
<2> QED
  BY <1>2, <2>1, EditIsTyped DEF UpdatePeer
<1>3. ASSUME NEW h \in Handlers, NEW i \in 1 .. MaxPeers, RemovePeer(h, i) PROVE TunnelsTypeOK'
<2>1. i \in 1 .. Len(conf.peers) /\ conf # NoFile
  BY <1>0, <1>3 DEF RemovePeer
<2>2. RemoveAt(conf.peers, i) \in Seq(Keys) /\ Len(RemoveAt(conf.peers, i)) = Len(conf.peers) - 1
  <3> DEFINE peers == conf.peers
             n == Len(peers)
  <3>1. peers \in Seq(Keys) /\ i \in 1 .. n /\ n \in Nat
    BY <1>0, <2>1
  <3> HIDE DEF peers
  <3>2. \A j \in 1 .. n : peers[j] \in Keys
    BY <3>1, ElementOfSeq
  <3>3. SubSeq(peers, 1, i - 1) \in Seq(Keys) /\ Len(SubSeq(peers, 1, i - 1)) = i - 1
    <4> HIDE DEF n
    <4>1. 1 \in Int /\ i - 1 \in Int /\ \A j \in 1 .. i - 1 : peers[j] \in Keys
      BY <3>1, <3>2
    <4> QED
      BY <3>1, <4>1, SubSeqProperties
  <3>4. SubSeq(peers, i + 1, n) \in Seq(Keys) /\ Len(SubSeq(peers, i + 1, n)) = n - i
    <4> HIDE DEF n
    <4>1. i + 1 \in Int /\ n \in Int /\ \A j \in i + 1 .. n : peers[j] \in Keys
      BY <3>1, <3>2
    <4> QED
      BY <3>1, <4>1, SubSeqProperties
  <3> DEFINE left == SubSeq(peers, 1, i - 1)
             right == SubSeq(peers, i + 1, n)
  <3>5. left \o right \in Seq(Keys) /\ Len(left \o right) = Len(left) + Len(right)
    <4> HIDE DEF left, right
    <4> QED
      BY <3>3, <3>4, ConcatProperties DEF left, right
  <3>6. RemoveAt(peers, i) = left \o right
    BY DEF RemoveAt
  <3>7. RemoveAt(peers, i) \in Seq(Keys) /\ Len(RemoveAt(peers, i)) = n - 1
    <4> HIDE DEF left, right, n
    <4>1. Len(left) = i - 1 /\ Len(right) = n - i
      BY <3>3, <3>4 DEF left, right
    <4>2. (i - 1) + (n - i) = n - 1
      BY <3>1
    <4>3. Len(left \o right) = n - 1
      BY <3>5, <4>1, <4>2
    <4> QED
      BY <3>5, <3>6, <4>3, Zenon
  <3> QED
    BY <3>7 DEF peers
<2>3. RemoveAt(conf.peers, i) \in SeqOf(Keys, MaxPeers)
  BY <1>0, <1>10, <2>1, <2>2, PeersAre
<2> QED
  BY <1>3, <2>1, <2>3, EditIsTyped DEF RemovePeer
<1>4. ASSUME NEW h \in Handlers, WriteConf(h) PROVE TunnelsTypeOK'
BY <1>4 DEF WriteConf, Rewritten, TunnelsTypeOK
<1>5. ASSUME NEW new \in Confs, SaveRaw(new) PROVE TunnelsTypeOK'
BY <1>5 DEF SaveRaw, Rewritten, TunnelsTypeOK
<1>6. ASSUME NEW nat \in BOOLEAN, NEW autoUp \in BOOLEAN, CreateInterface(nat, autoUp)
    PROVE  TunnelsTypeOK'
<2>1. conf' \in Confs
  <3>1. <<>> \in SeqOf(Keys, MaxPeers)
    BY <1>10 DEF SeqOf
  <3> QED
    BY <1>6, <3>1 DEF CreateInterface, Confs
<2>2. up' \in BOOLEAN /\ rules' \in BOOLEAN
  BY <1>6, Zenon DEF CreateInterface, TunnelsTypeOK
<2> QED
  BY <1>6, <2>1, <2>2 DEF CreateInterface, TunnelsTypeOK
<1>7. ASSUME WgUp \/ WgDown \/ WgReload PROVE TunnelsTypeOK'
<2>1. up' \in BOOLEAN /\ rules' \in BOOLEAN
  BY <1>7, Zenon DEF WgUp, WgDown, WgReload, TunnelsTypeOK
<2> QED
  BY <1>7, <2>1 DEF WgUp, WgDown, WgReload, TunnelsTypeOK
<1>8. ASSUME DeleteInterface PROVE TunnelsTypeOK'
<2>1. PICK r \in TakenDown :
        up' = r.up /\ rules' = r.rules /\ mishaps' = mishaps \union r.mishap
  BY <1>8 DEF DeleteInterface
<2>2. r.up \in BOOLEAN /\ r.rules \in BOOLEAN /\ r.mishap \subseteq {"stuck"}
  <3>1. \/ r = [up |-> FALSE, rules |-> rules /\ ~conf.nat, mishap |-> {}]
        \/ r = [up |-> TRUE, rules |-> rules, mishap |-> {"stuck"}]
        \/ r = [up |-> FALSE, rules |-> rules, mishap |-> {}]
    BY Zenon DEF TakenDown
  <3>2. CASE r = [up |-> FALSE, rules |-> rules /\ ~conf.nat, mishap |-> {}]
    <4>1. r.up = FALSE /\ r.mishap = {}
      BY <3>2
    <4>2. r.rules \in BOOLEAN
      BY <3>2, Zenon
    <4> QED
      BY <4>1, <4>2
  <3>3. CASE r = [up |-> TRUE, rules |-> rules, mishap |-> {"stuck"}]
    BY <3>3 DEF TunnelsTypeOK
  <3>4. CASE r = [up |-> FALSE, rules |-> rules, mishap |-> {}]
    BY <3>4 DEF TunnelsTypeOK
  <3> QED
    BY <3>1, <3>2, <3>3, <3>4
<2> QED
  BY <1>8, <2>1, <2>2 DEF DeleteInterface, TunnelsTypeOK
<1>9. CASE UNCHANGED tunnelVars
BY <1>9 DEF tunnelVars, TunnelsTypeOK
<1> QED
BY <1>1, <1>2, <1>3, <1>4, <1>5, <1>6, <1>7, <1>8, <1>9 DEF TunnelsNext

LEMMA TunnelsInvariant == TunnelsSpec => []TunnelsTypeOK
<1>1. TunnelsInit => TunnelsTypeOK
  BY DEF TunnelsInit, TunnelsTypeOK
<1> QED
  BY <1>1, TunnelsTypeStep, PTL DEF TunnelsSpec

-------------------------------------------------------------------------------
(* Deployments.  While the source is as it was when a job started, what the job has *)
(* copied without a failure is that source, for whoever copies it again copies the  *)
(* same; and the console is built from it.                                        *)
Job == [op : {"none", "plugin", "backend", "ui"}, todo : SUBSET (AllParts \union WpSites),
        ok : BOOLEAN, at : 0 .. MaxSource, restarted : BOOLEAN]

Sound(j) ==
  /\ job[j].at <= source
  /\ job[j].restarted => job[j].op \in {"backend", "ui"} /\ job[j].todo = {}
  /\ job[j].op = "backend" => job[j].todo \subseteq Parts.backend
  /\ job[j].op = "ui" => job[j].todo \subseteq Parts.ui
  /\ job[j].op = "ui" /\ job[j].at = source => built = source
  /\ job[j].ok /\ job[j].at = source =>
       /\ job[j].op \in {"backend", "ui"} =>
            \A p \in Parts[job[j].op] \ job[j].todo : deployed[p] = source
       /\ job[j].restarted => \A p \in Parts[job[j].op] : running[p] = source

DeployInv == DeployTypeOK /\ \A j \in Jobs : Sound(j)

LEMMA NoJobFacts == NoJob \in Job /\ NoJob.op = "none" /\ NoJob.at = 0 /\ ~NoJob.restarted
BY DeploymentsAssumption DEF NoJob, Job

LEMMA PartsFacts ==
  /\ Parts["backend"] \subseteq AllParts /\ Parts["ui"] \subseteq AllParts
  /\ "next" \notin Parts["backend"]
BY DEF Parts, AllParts

LEMMA DeployInvStep == DeployInv /\ [DeployNext]_deployVars => DeployInv'
<1> SUFFICES ASSUME DeployInv, [DeployNext]_deployVars PROVE DeployInv'
  OBVIOUS
<1>0. /\ DeployTypeOK /\ \A j \in Jobs : Sound(j)
      /\ job \in [Jobs -> Job]
      /\ source \in Nat /\ source >= 1
  BY DeploymentsAssumption DEF DeployInv, DeployTypeOK, Job
<1>1. CASE Commit
  <2>1. DeployTypeOK'
    BY <1>0, <1>1, DeploymentsAssumption DEF Commit, DeployTypeOK
  <2>2. ASSUME NEW j \in Jobs PROVE Sound(j)'
    <3>1. job[j].at \in Nat /\ job[j].at < source'
      BY <1>0, <1>1, DeploymentsAssumption DEF Commit, Sound, Job
    <3> QED
      BY <1>0, <1>1, <3>1 DEF Commit, Sound
  <2> QED
    BY <2>1, <2>2 DEF DeployInv
<1>2. ASSUME NEW j \in Jobs, NEW op \in {"plugin", "backend", "ui"},
             NEW todo \in SUBSET (AllParts \union WpSites), Start(j, op, todo),
             op = "backend" => todo = Parts.backend,
             op = "ui" => todo = Parts.ui /\ built' = source,
             built' \in {built, source},
             UNCHANGED <<source, deployed, running, service>>
      PROVE  DeployInv'
  <2> DEFINE new == [NoJob EXCEPT !.op = op, !.todo = todo, !.at = source]
  <2>0. source \in 0 .. MaxSource
    BY <1>0 DEF DeployTypeOK
  <2>1. /\ new \in Job /\ new.op = op /\ new.todo = todo /\ new.at = source
        /\ ~new.restarted
    BY <2>0, NoJobFacts DEF Job
  <2>2. job' = [job EXCEPT ![j] = new] /\ job' \in [Jobs -> Job]
    BY <1>0, <1>2, <2>1 DEF Start
  <2>3. DeployTypeOK'
    BY <1>0, <1>2, <2>2 DEF DeployTypeOK, Job
  <2>4. ASSUME NEW k \in Jobs PROVE Sound(k)'
    <3>1. CASE k = j
      <4>1. job'[k] = new
        BY <1>0, <2>2, <3>1
      <4> QED
        BY <1>0, <1>2, <2>1, <4>1, PartsFacts DEF Sound, Parts
    <3>2. CASE k # j
      <4>1. job'[k] = job[k] /\ Sound(k)
        BY <1>0, <2>2, <3>2
      <4> QED
        BY <1>0, <1>2, <4>1 DEF Sound
    <3> QED
      BY <3>1, <3>2
  <2> QED
    BY <2>3, <2>4 DEF DeployInv
<1>3. ASSUME NEW j \in Jobs, NEW sites \in SUBSET WpSites, DeployPlugin(j, sites)
      PROVE  DeployInv'
  BY <1>2, <1>3 DEF DeployPlugin
<1>4. ASSUME NEW j \in Jobs, DeployBackend(j) PROVE DeployInv'
  <2>1. Parts.backend \in SUBSET (AllParts \union WpSites)
    BY DEF AllParts
  <2> QED
    BY <1>2, <1>4, <2>1 DEF DeployBackend
<1>5. ASSUME NEW j \in Jobs, DeployFrontend(j) PROVE DeployInv'
  <2>1. Parts.ui \in SUBSET (AllParts \union WpSites)
    BY DEF AllParts
  <2>2. CASE UNCHANGED deployVars
    BY <1>0, <2>2 DEF deployVars, DeployInv, DeployTypeOK, Sound
  <2> QED
    BY <1>2, <1>5, <2>1, <2>2 DEF DeployFrontend, deployVars
<1>6. ASSUME NEW j \in Jobs, NEW part \in AllParts \union WpSites, Copy(j, part)
      PROVE  DeployInv'
  <2>1. /\ part \in job[j].todo
        /\ UNCHANGED <<source, built, running, service>>
    BY <1>6 DEF Copy, Turn
  <2>2. PICK new \in Job :
          /\ job' = [job EXCEPT ![j] = new]
          /\ new.todo = job[j].todo \ {part} /\ new.op = job[j].op /\ new.at = job[j].at
          /\ new.restarted = job[j].restarted
          /\ new.ok => job[j].ok /\ deployed' = [deployed EXCEPT ![part] = Version(part)]
          /\ deployed' = [deployed EXCEPT ![part] = Version(part)] \/ deployed' = deployed
    <3> DEFINE left == [job[j] EXCEPT !.todo = @ \ {part}]
               missed == [job[j] EXCEPT !.todo = @ \ {part}, !.ok = FALSE]
    <3>1. left \in Job /\ missed \in Job
      BY <1>0 DEF Job
    <3>2. CASE /\ deployed' = [deployed EXCEPT ![part] = Version(part)]
               /\ job' = [job EXCEPT ![j] = left]
      BY <1>0, <3>1, <3>2 DEF Job
    <3>3. CASE job' = [job EXCEPT ![j] = missed] /\ deployed' = deployed
      BY <1>0, <3>1, <3>3 DEF Job
    <3> QED
      BY <1>0, <1>6, <3>2, <3>3 DEF Copy
  <2>3. DeployTypeOK'
    <3>1. Version(part) \in 1 .. MaxSource
      BY <1>0 DEF DeployTypeOK, Version
    <3>2. deployed' \in [AllParts \union WpSites -> 1 .. MaxSource]
      BY <1>0, <2>2, <3>1 DEF DeployTypeOK
    <3> QED
      BY <1>0, <2>1, <2>2, <3>2 DEF DeployTypeOK, Job
  <2>4. ASSUME NEW k \in Jobs, job[k].ok, job[k].at = source,
               job[k].op \in {"backend", "ui"}, NEW p \in Parts[job[k].op],
               deployed[p] = source
        PROVE  deployed'[p] = source
    <3>1. p \in AllParts \union WpSites
      BY <2>4, PartsFacts
    <3>2. CASE p = part /\ part = "next"
      <4>1. job[k].op = "ui"
        BY <2>4, <3>2, PartsFacts
      <4> QED
        BY <1>0, <2>2, <2>4, <3>1, <3>2, <4>1 DEF Sound, Version, DeployTypeOK
    <3>3. CASE p = part /\ part # "next"
      BY <1>0, <2>2, <2>4, <3>1, <3>3 DEF Version, DeployTypeOK
    <3>4. CASE p # part
      BY <1>0, <2>2, <2>4, <3>1, <3>4 DEF DeployTypeOK
    <3> QED
      BY <3>2, <3>3, <3>4
  <2>5. ASSUME NEW k \in Jobs PROVE Sound(k)'
    <3>1. CASE k = j
      <4>1. Sound(j) /\ ~job[j].restarted
        BY <1>0, <2>1 DEF Sound
      <4>2. /\ job'[k].todo = job[j].todo \ {part} /\ job'[k].op = job[j].op
            /\ job'[k].at = job[j].at /\ ~job'[k].restarted
            /\ job'[k].ok => job[j].ok /\ deployed' = [deployed EXCEPT ![part] = Version(part)]
        BY <1>0, <2>2, <3>1, <4>1
      <4>3. ASSUME job'[k].ok, job'[k].at = source, job'[k].op \in {"backend", "ui"},
                   NEW p \in Parts[job'[k].op] \ job'[k].todo
            PROVE  deployed'[p] = source
        <5>1. CASE p # part
          BY <1>0, <2>4, <4>1, <4>2, <4>3, <5>1 DEF Sound
        <5>2. CASE p = part
          <6>1. deployed'[p] = Version(part)
            BY <1>0, <2>2, <4>2, <4>3, <5>2 DEF DeployTypeOK
          <6>2. part = "next" => job[j].op = "ui"
            BY <4>2, <4>3, <5>2, PartsFacts
          <6> QED
            BY <4>1, <4>2, <4>3, <6>1, <6>2 DEF Sound, Version
        <5> QED
          BY <5>1, <5>2
      <4> QED
        BY <2>1, <4>1, <4>2, <4>3, <3>1 DEF Sound
    <3>2. CASE k # j
      <4>1. job'[k] = job[k] /\ Sound(k)
        BY <1>0, <2>2, <3>2
      <4> QED
        BY <2>1, <2>4, <4>1 DEF Sound
    <3> QED
      BY <3>1, <3>2
  <2> QED
    BY <2>3, <2>5 DEF DeployInv
<1>7. ASSUME NEW j \in Jobs, Restart(j) PROVE DeployInv'
  <2> DEFINE s == job[j].op
  <2>1. /\ s \in {"backend", "ui"} /\ job[j].todo = {}
        /\ UNCHANGED <<source, built, deployed>>
    BY <1>7 DEF Restart, MayRestart, MayRestartEarly
  <2>2. PICK dead \in SUBSET Jobs, fine \in BOOLEAN :
          /\ service' = [service EXCEPT ![s] = fine]
          /\ running' = [p \in AllParts |-> IF fine /\ p \in Parts[s] THEN deployed[p]
                                            ELSE running[p]]
          /\ job' = IF j \in dead THEN Killed(dead)
                    ELSE [Killed(dead) EXCEPT ![j].restarted = TRUE, ![j].ok = @ /\ fine]
    BY <1>7 DEF Restart
  <2> DEFINE ended == [job[j] EXCEPT !.restarted = TRUE, !.ok = @ /\ fine]
  <2>3. /\ ended \in Job /\ ended.op = s /\ ended.todo = {} /\ ended.at = job[j].at
        /\ ended.restarted /\ (ended.ok => job[j].ok /\ fine)
    BY <1>0, <2>1 DEF Job
  <2>4. \A k \in Jobs : \/ job'[k] = NoJob
                        \/ k # j /\ job'[k] = job[k]
                        \/ k = j /\ job'[k] = ended
    BY <1>0, <2>2 DEF Killed
  <2>5. job' \in [Jobs -> Job]
    <3>1. Killed(dead) \in [Jobs -> Job]
      BY <1>0, NoJobFacts DEF Killed
    <3>2. CASE j \in dead
      BY <2>2, <3>1, <3>2
    <3>3. CASE j \notin dead
      <4>1. Killed(dead)[j] = job[j]
        BY <3>3 DEF Killed
      <4>2. job' = [Killed(dead) EXCEPT ![j] = ended]
        BY <2>2, <3>1, <3>3, <4>1
      <4> QED
        BY <2>3, <3>1, <4>2
    <3> QED
      BY <3>2, <3>3
  <2>6. DeployTypeOK'
    <3>1. running' \in [AllParts -> 1 .. MaxSource]
      BY <1>0, <2>2 DEF DeployTypeOK
    <3>2. service' \in [{"backend", "ui"} -> BOOLEAN]
      BY <1>0, <2>2 DEF DeployTypeOK
    <3> QED
      BY <1>0, <2>1, <2>5, <3>1, <3>2 DEF DeployTypeOK, Job
  <2>7. ASSUME NEW k \in Jobs PROVE Sound(k)'
    <3>1. CASE job'[k] = NoJob
      BY <1>0, <2>1, <3>1, NoJobFacts DEF Sound
    <3>2. CASE k # j /\ job'[k] = job[k]
      <4>1. ASSUME job[k].restarted, job[k].ok, job[k].at = source,
                   NEW p \in Parts[job[k].op]
            PROVE  running'[p] = source
        <5>1. p \in AllParts /\ running[p] = source /\ deployed[p] = source
          BY <1>0, <4>1, PartsFacts DEF Sound
        <5> QED
          BY <2>2, <5>1
      <4> QED
        BY <1>0, <2>1, <3>2, <4>1 DEF Sound
    <3>3. CASE k = j /\ job'[k] = ended
      <4>1. ASSUME ended.ok, ended.at = source, NEW p \in Parts[s]
            PROVE  deployed[p] = source /\ running'[p] = source
        <5>1. p \in AllParts /\ deployed[p] = source
          BY <1>0, <2>1, <2>3, <4>1, PartsFacts DEF Sound
        <5> QED
          BY <2>2, <2>3, <4>1, <5>1
      <4> QED
        BY <1>0, <2>1, <2>3, <3>3, <4>1 DEF Sound
    <3> QED
      BY <2>4, <3>1, <3>2, <3>3
  <2> QED
    BY <2>6, <2>7 DEF DeployInv
<1>8. ASSUME NEW j \in Jobs, JobReport(j) PROVE DeployInv'
  <2>1. /\ job' = [job EXCEPT ![j] = NoJob]
        /\ UNCHANGED <<source, built, deployed, running, service>>
    BY <1>8 DEF JobReport
  <2>2. DeployTypeOK'
    BY <1>0, <2>1, NoJobFacts DEF DeployTypeOK, Job
  <2>3. ASSUME NEW k \in Jobs PROVE Sound(k)'
    <3>1. job'[k] = NoJob \/ job'[k] = job[k]
      BY <1>0, <2>1
    <3>2. CASE job'[k] = NoJob
      BY <1>0, <2>1, <3>2, NoJobFacts DEF Sound
    <3>3. CASE job'[k] = job[k]
      BY <1>0, <2>1, <3>3 DEF Sound
    <3> QED
      BY <3>1, <3>2, <3>3
  <2> QED
    BY <2>2, <2>3 DEF DeployInv
<1>9. CASE UNCHANGED deployVars
  BY <1>0, <1>9 DEF deployVars, DeployInv, DeployTypeOK, Sound
<1> QED
  BY <1>1, <1>3, <1>4, <1>5, <1>6, <1>7, <1>8, <1>9 DEF DeployNext

LEMMA DeployInvInit == DeployInit => DeployInv
<1> SUFFICES ASSUME DeployInit PROVE DeployInv
  OBVIOUS
<1>1. DeployTypeOK
  BY NoJobFacts, DeploymentsAssumption DEF DeployInit, DeployTypeOK, Job
<1>2. \A j \in Jobs : Sound(j)
  BY NoJobFacts DEF DeployInit, Sound
<1> QED
  BY <1>1, <1>2 DEF DeployInv

(* The versions, the parts, the services and the jobs keep their types.            *)
THEOREM DeployTypeCorrect == DeploySpec => []DeployTypeOK
<1>1. DeployInv => DeployTypeOK
  BY DEF DeployInv
<1> QED
  BY <1>1, DeployInvInit, DeployInvStep, PTL DEF DeploySpec

(* However many jobs overlap, and whichever of their copies and restarts fail, one   *)
(* that is about to report success on a source that has not moved has all of its    *)
(* service running at that source.                                                *)
THEOREM SuccessIsTrue == DeploySpec => []SuccessRunsSource
<1>1. DeployInv => SuccessRunsSource
  BY DEF DeployInv, Sound, SuccessRunsSource
<1> QED
  BY <1>1, DeployInvInit, DeployInvStep, PTL DEF DeploySpec

-------------------------------------------------------------------------------
(* The host as a whole: every step is a step of one part and leaves the others as   *)
(* they are, as in ConsoleProofs.                                                 *)
LEMMA FocusMoves ==
  [HostNext]_hostVars =>
    /\ [ConvNext]_convVars /\ [PlanNext]_planVars /\ [TunnelsNext]_tunnelVars
    /\ [DeployNext]_deployVars /\ [BackupNext]_backupVars /\ [FilesNext]_filesVars
    /\ [ManagerNext]_managerVars /\ [ServicesNext]_servicesVars /\ [NetworkNext]_networkVars
    /\ [ZoneNext]_zoneVars /\ [BindNext]_bindVars /\ [ConfigNext]_configVars
    /\ [BenchNext]_benchVars /\ [AliasNext]_aliasVars /\ [BoxNext]_boxVars
    /\ [ReplyNext]_replyVars /\ [WebNext]_webVars
BY DEF HostNext, hostVars, Only

LEMMA FocusStarts ==
  HostInit =>
    /\ ConvInit /\ PlanInit /\ TunnelsInit /\ DeployInit /\ BackupInit /\ FilesInit
    /\ ManagerInit /\ ServicesInit /\ NetworkInit /\ ZoneInit /\ BindInit /\ ConfigInit
    /\ BenchInit /\ AliasInit /\ BoxInit /\ ReplyInit /\ WebInit
<1> SUFFICES ASSUME HostInit
             PROVE  /\ ConvInit /\ PlanInit /\ TunnelsInit /\ DeployInit /\ BackupInit /\ FilesInit
                    /\ ManagerInit /\ ServicesInit /\ NetworkInit /\ ZoneInit /\ BindInit /\ ConfigInit
                    /\ BenchInit /\ AliasInit /\ BoxInit /\ ReplyInit /\ WebInit
  OBVIOUS
<1>1. ManagerInit
  <2>1. CASE focus = "manager"
    BY <2>1 DEF HostInit
  <2>2. CASE focus # "manager"
    <3>1. holder = "root" /\ disk = [p \in Paths |-> Absent]
          /\ fileTask = [w \in FileWorkers |-> NoFileTask]
      BY <2>2 DEF HostInit
    <3>2. holder \in HostAccounts
      BY <3>1 DEF HostAccounts
    <3> QED
      BY <3>1, <3>2 DEF ManagerInit
  <2> QED
    BY <2>1, <2>2
<1> QED
  BY <1>1 DEF HostInit

LEMMA FocusStays ==
  /\ HostInit => focus \in HostParts
  /\ focus \in HostParts /\ [HostNext]_hostVars => (focus \in HostParts)'
BY DEF HostInit, HostNext, Only, hostVars

LEMMA PartsRun ==
  HostSpec =>
    /\ ConvSpec /\ PlanSpec /\ TunnelsSpec /\ DeploySpec /\ BackupSpec /\ FilesSpec
    /\ ManagerSpec /\ ServicesSpec /\ NetworkSpec /\ ZoneSpec /\ BindSpec /\ ConfigSpec
    /\ BenchSpec /\ AliasSpec /\ BoxSpec /\ ReplySpec /\ WebSpec
BY FocusMoves, FocusStarts, PTL
DEF HostSpec, ConvSpec, PlanSpec, TunnelsSpec, DeploySpec, BackupSpec, FilesSpec, ManagerSpec,
    ServicesSpec, NetworkSpec, ZoneSpec, BindSpec, ConfigSpec, BenchSpec, AliasSpec, BoxSpec,
    ReplySpec, WebSpec

(* Every file, table, unit and local of every part keeps its type, for any values of    *)
(* the constants.                                                                  *)
THEOREM HostTypeCorrect == HostSpec => []HostTypeOK
<1>1. HostSpec => [](focus \in HostParts)
  BY FocusStays, PTL DEF HostSpec
<1>2. /\ ServicesInv => ServicesTypeOK
      /\ NetworkInv => NetworkTypeOK
      /\ ZoneInv => ZoneTypeOK
      /\ ConfigInv => ConfigTypeOK
      /\ BenchInv => BenchTypeOK
      /\ FilesInv => FilesTypeOK
      /\ PlanInv => PlanTypeOK
  BY DEF ServicesInv, NetworkInv, ZoneInv, ConfigInv, BenchInv, FilesInv, PlanInv
<1>3. focus \in HostParts /\ ConvTypeOK /\ PlanTypeOK /\ TunnelsTypeOK /\ DeployTypeOK
      /\ BackupTypeOK /\ FilesTypeOK /\ ManagerTypeOK /\ ServicesTypeOK /\ NetworkTypeOK
      /\ ZoneTypeOK /\ BindTypeOK /\ ConfigTypeOK /\ BenchTypeOK /\ AliasTypeOK /\ BoxTypeOK
      /\ ReplyTypeOK /\ WebTypeOK => HostTypeOK
  BY DEF HostParts, HostTypeOK
<1> QED
  BY PartsRun, <1>1, <1>2, <1>3, ConvInvariant, ConvFromInv, PlanInvariant, TunnelsInvariant,
     DeployTypeCorrect, BackupInvariant, BackupTypesFromInv, FilesInvariant, ManagerInvariant,
     ManagerFromInv, ServicesInvariant, NetworkInvariant, ZoneInvariant, BindInvariant,
     BindFromInv, ConfigInvariant, BenchInvariant, AliasInvariant, AliasFromInv, BoxInvariant,
     BoxFromInv, ReplyInvariant, ReplyFromInv, WebInvariant, WebFromInv, PTL

(* For any zones, settings and editors that overlap, whatever fails: a change of a zone  *)
(* has a serial above the last one served, BIND runs what an administrator asked for     *)
(* and was told of, a setting reads as it was set, and the bench shows a pause as one.   *)
THEOREM WrittenGetsServed == HostSpec => []WrittenIsServed
<1>1. /\ ZoneInv => SerialCoversChange
      /\ ConfigInv => AskedIsRead
      /\ BenchInv => PauseIsShown
  BY DEF ZoneInv, ConfigInv, BenchInv
<1>2. SerialCoversChange /\ AskedIsRun /\ AskedIsRead /\ PauseIsShown => WrittenIsServed
  BY DEF WrittenIsServed
<1> QED
  BY PartsRun, <1>1, <1>2, ZoneInvariant, BindInvariant, BindFromInv, ConfigInvariant,
     BenchInvariant, PTL

(* For any files, addresses, units and machines, and any number of requests at once:     *)
(* what is answered of them is so, and what a request must not touch is still there.     *)
THEOREM AnswersAreTrue == HostSpec => []AnsweredIsSo
<1>1. /\ NetworkInv => CountedAreHere
      /\ PlanInv => ValidMeansComplete
      /\ FilesInv => OriginalKept
      /\ ServicesInv => ProtectedStay
  BY DEF NetworkInv, PlanInv, FilesInv, ServicesInv
<1>2. AnswersHold /\ AliasesServed /\ NoStaleReply /\ ActedAsSaid /\ CountedAreHere
      /\ ValidMeansComplete /\ OriginalKept /\ ProtectedStay => AnsweredIsSo
  BY DEF AnsweredIsSo
<1> QED
  BY PartsRun, <1>1, <1>2, ManagerInvariant, ManagerFromInv, AliasInvariant, AliasFromInv,
     ReplyInvariant, ReplyFromInv, WebInvariant, WebFromInv, NetworkInvariant, PlanInvariant,
     FilesInvariant, ServicesInvariant, PTL

(* What the parts promise of their steps, and of what they leave running, they promise   *)
(* beside each other.                                                              *)
THEOREM HostKeepsItsWord ==
  HostSpec => /\ []NothingLeftRunning /\ []SuccessRunsSource
              /\ ReportedIsImported /\ OnlyReaderRevives /\ OnlyOwnAccounts
BY PartsRun, NothingOutlives, SuccessIsTrue, ReportsAreTrue, ReadersRevive, AccountsAreOwn, PTL
===============================================================================
