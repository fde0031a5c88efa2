------------------------------ MODULE RecordLocks ------------------------------
(* The locks of the telephony console: one row for each record that is locked,  *)
(* read and then written by handlers that overlap, and the version every        *)
(* update of the record counts up.                                              *)
EXTENDS Naturals, FiniteSets

CONSTANTS
  Editors,      \* users, each with one surface
  MaxVersion,   \* bound on the version of the record
  Nobody

ASSUME LocksAssumption == Nobody \notin Editors /\ MaxVersion \in Nat \ {0}

VARIABLES
  lock,      \* [by, expired], by = Nobody while there is no row
  lapsed,    \* the row has expired at some time
  told,      \* editors told that they hold the lock, until it can have expired
  version,   \* of the record
  editor     \* editor -> the handler in progress and what it read

lockVars == <<lock, lapsed, told, version, editor>>

NoLock == [by |-> Nobody, expired |-> FALSE]
NoHandler == [op |-> "idle", row |-> NoLock, version |-> 0]

LocksInit ==
  /\ lock = NoLock /\ lapsed = FALSE /\ told = {} /\ version = 1
  /\ editor = [u \in Editors |-> NoHandler]

EditorReads(u, op) ==
  /\ editor[u] = NoHandler
  /\ editor' = [editor EXCEPT ![u] = [op |-> op, row |-> lock, version |-> 0]]
  /\ UNCHANGED <<lock, lapsed, told, version>>

EditorEnds(u) == editor' = [editor EXCEPT ![u] = NoHandler]

MayAcquireAnyway(u, row) == TRUE

(* Free, expired, or the editor's own.                                       *)
MayAcquire(u, row) == row.by \in {Nobody, u} \/ row.expired

LockAcquire(u) == MayAcquire(u, lock) /\ EditorReads(u, "acquire")

(* A new row is inserted under its primary key; a row that was read is updated, *)
(* which fails if it was deleted meanwhile; the editor's own, while it lasts,   *)
(* only gets a new time.                                                       *)
AcquireCommits(u) ==
  /\ editor[u].op = "acquire"
  /\ IF (editor[u].row.by = Nobody) = (lock.by = Nobody)
     THEN /\ lock' = [by |-> IF editor[u].row = [by |-> u, expired |-> FALSE]
                              THEN lock.by ELSE u,
                       expired |-> FALSE]
          /\ told' = told \union {u}
     ELSE UNCHANGED <<lock, told>>
  /\ EditorEnds(u)
  /\ UNCHANGED <<lapsed, version>>

LockHeartbeat(u) == lock.by = u /\ EditorReads(u, "heartbeat")

(* Only the times of the row change, whoever's it has become.                  *)
HeartbeatCommits(u) ==
  /\ editor[u].op = "heartbeat"
  /\ IF lock.by = Nobody
     THEN UNCHANGED <<lock, told>>
     ELSE lock' = [lock EXCEPT !.expired = FALSE] /\ told' = told \union {u}
  /\ EditorEnds(u)
  /\ UNCHANGED <<lapsed, version>>

LockRelease(u) == lock.by = u /\ EditorReads(u, "release")

LockForceRelease(u) == lock.by # Nobody /\ EditorReads(u, "force")

(* The row is deleted by its key, whoever's it has become.                     *)
ReleaseCommits(u) ==
  /\ editor[u].op \in {"release", "force"}
  /\ lock' = NoLock
  /\ told' = IF editor[u].op = "release" THEN told \ {u} ELSE {}
  /\ lapsed' = (lapsed \/ editor[u].op = "force")
  /\ EditorEnds(u)
  /\ UNCHANGED version

(* Fifteen minutes pass without a heartbeat.                                  *)
Expire ==
  /\ lock.by # Nobody /\ ~lock.expired
  /\ lock' = [lock EXCEPT !.expired = TRUE]
  /\ lapsed' = TRUE /\ told' = {}
  /\ UNCHANGED <<version, editor>>

(* An update reads the record with its version and writes it back, one up; the *)
(* lock is not asked.                                                         *)
UpdateReads(u) ==
  /\ editor[u] = NoHandler
  /\ version < MaxVersion
  /\ editor' = [editor EXCEPT ![u] = [NoHandler EXCEPT !.op = "update", !.version = version]]
  /\ UNCHANGED <<lock, lapsed, told, version>>

BumpVersion(u) ==
  /\ editor[u].op = "update"
  /\ version' = editor[u].version + 1
  /\ EditorEnds(u)
  /\ UNCHANGED <<lock, lapsed, told>>

LocksNext ==
  \/ \E u \in Editors :
       \/ LockAcquire(u) \/ AcquireCommits(u) \/ LockHeartbeat(u) \/ HeartbeatCommits(u)
       \/ LockRelease(u) \/ LockForceRelease(u) \/ ReleaseCommits(u)
       \/ UpdateReads(u) \/ BumpVersion(u)
  \/ Expire

LocksSpec == LocksInit /\ [][LocksNext]_lockVars

-------------------------------------------------------------------------------
LockRow == [by : Editors \union {Nobody}, expired : BOOLEAN]
EditorHandler ==
  [op : {"idle", "acquire", "heartbeat", "release", "force", "update"},
   row : LockRow, version : 0 .. MaxVersion]

LocksTypeOK ==
  /\ lock \in LockRow /\ lapsed \in BOOLEAN
  /\ told \subseteq Editors /\ version \in 1 .. MaxVersion
  /\ editor \in [Editors -> EditorHandler]

(* Two editors are told that they hold the lock only after a lock has expired  *)
(* or was forced: the first acquisition cannot be won twice.                   *)
OneHolder == Cardinality(told) > 1 => lapsed
===============================================================================
