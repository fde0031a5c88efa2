---------------------------- MODULE BillingProofs ----------------------------
(***************************************************************************)
(* Theorems about the billing store, for any workers, plans, reports and   *)
(* bounds.                                                                 *)
(***************************************************************************)
EXTENDS BillingProperties, TLAPS

-----------------------------------------------------------------------------
(* The subscription state machine. *)

(* Every word ERPNext may use is mapped to a state of the machine. *)
LEMMA StatusIsState ==
  ASSUME NEW raw \in RawStatuses
  PROVE  ErpStatusToState(raw) \in States
BY DEF ErpStatusToState, RawStatuses, States, ErpWords

(* apply_event returns a state and a version. *)
LEMMA ApplyEventType ==
  ASSUME NEW current \in States, NEW proposed \in States, NEW version \in Nat
  PROVE  /\ ApplyEvent(current, version, proposed).status \in States
         /\ ApplyEvent(current, version, proposed).version \in Nat
BY DEF ApplyEvent

(* No report takes a subscription into trial. *)
LEMMA NoWayIntoTrial ==
  ASSUME NEW current \in States, current # "trial",
         NEW proposed \in States, NEW version \in Nat
  PROVE  ApplyEvent(current, version, proposed).status # "trial"
<1>1. "trial" \notin AllowedTransitions[current]
  BY DEF AllowedTransitions, States
<1> QED
  BY <1>1 DEF ApplyEvent, Accepted

(* What _apply_and_persist stores is a state record. *)
LEMMA MergeType ==
  ASSUME NEW current \in StateRecord \cup {Missing}, NEW report \in Report
  PROVE  Merge(current, report) \in StateRecord
<1> DEFINE old == IF current = Missing THEN [status |-> "active", version |-> 0]
                                       ELSE current
           new == ApplyEvent(old.status, old.version, ErpStatusToState(report.status))
<1>1. old.status \in States /\ old.version \in Nat
  BY BillingAssumption DEF StateRecord, States
<1>2. ErpStatusToState(report.status) \in States /\ report.plan \in Plans
  BY StatusIsState DEF Report
<1>3. new.status \in States /\ new.version \in Nat
  BY <1>1, <1>2, ApplyEventType
<1>4. Merge(current, report)
        = [status |-> new.status, plan |-> report.plan, version |-> new.version]
  BY DEF Merge
<1> HIDE DEF new
<1> QED
  BY <1>2, <1>3, <1>4 DEF StateRecord

LEMMA MergeNotTrial ==
  ASSUME NEW current \in StateRecord \cup {Missing}, NEW report \in Report,
         current # Missing => current.status # "trial"
  PROVE  Merge(current, report).status # "trial"
<1> DEFINE old == IF current = Missing THEN [status |-> "active", version |-> 0]
                                       ELSE current
           new == ApplyEvent(old.status, old.version, ErpStatusToState(report.status))
<1>1. old.status \in States /\ old.version \in Nat /\ old.status # "trial"
  BY BillingAssumption DEF StateRecord, States
<1>2. ErpStatusToState(report.status) \in States
  BY StatusIsState DEF Report
<1>3. new.status # "trial"
  BY <1>1, <1>2, NoWayIntoTrial
<1>4. Merge(current, report)
        = [status |-> new.status, plan |-> report.plan, version |-> new.version]
  BY DEF Merge
<1> HIDE DEF new
<1> QED
  BY <1>3, <1>4

-----------------------------------------------------------------------------
(* The inductive invariant.  What a task holds depends on how far it has    *)
(* come, and a record on its way to the store is never in trial.            *)

Tidy(t) ==
  /\ t.job = "webhook" => t.evt \in EventIds
  /\ t.pc \in {"replay_get", "replay_set"} => t.job = "webhook" /\ t.raw # Missing
  /\ t.pc \in {"read_redis", "read_db", "repopulate"} /\ t.goal = "apply"
       => t.raw # Missing
  /\ t.pc \in {"repopulate", "write_redis", "write_db"} => t.buf # Missing
  /\ t.pc = "pulled" /\ t.job # "reconcile" => t.buf # Missing
  /\ t.buf # Missing => t.buf.status # "trial"

TasksTidy == task \in [Workers -> Task] /\ \A w \in Workers : Tidy(task[w])

StoreInv == TypeOK /\ TrialNeverStored /\ TasksTidy

(* A record the store may hold. *)
Sound(r) == r \in StateRecord \cup {Missing} /\ (r # Missing => r.status # "trial")

LEMMA TaskUpdate ==
  ASSUME TasksTidy, NEW w \in Workers, NEW t \in Task, Tidy(t),
         task' = [task EXCEPT ![w] = t]
  PROVE  TasksTidy'
BY DEF TasksTidy

LEMMA IdleTidy == Idle \in Task /\ Tidy(Idle)
BY BillingAssumption DEF Idle, Task, Tidy, Labels, Jobs, Goals

LEMMA StoredSound ==
  ASSUME StoreInv
  PROVE  Sound(redis) /\ Sound(db) /\ \A w \in Workers : Sound(task[w].buf)
<1>1. Sound(redis) /\ Sound(db)
  BY DEF StoreInv, TypeOK, TrialNeverStored, Stored, Sound
<1>2. ASSUME NEW w \in Workers PROVE Sound(task[w].buf)
  <2>1. task[w] \in Task /\ Tidy(task[w])
    BY DEF StoreInv, TasksTidy
  <2> QED
    BY <2>1 DEF Task, Tidy, Sound
<1> QED
  BY <1>1, <1>2

(* get_billing_state returns a sound record to a task that reads. *)
LEMMA GotStateTidy ==
  ASSUME TasksTidy, NEW w \in Workers,
         task[w].pc \in {"read_redis", "read_db", "repopulate"},
         NEW r, Sound(r), GotState(w, r)
  PROVE  TasksTidy'
<1>0. task[w] \in Task /\ Tidy(task[w])
  BY DEF TasksTidy
<1>1. CASE task[w].goal = "apply" /\ Persist(w, Merge(r, task[w].raw), "apply")
  <2> DEFINE m == Merge(r, task[w].raw)
             t == [task[w] EXCEPT !.pc = "write_redis", !.goal = "apply",
                                  !.raw = Missing, !.buf = m]
  <2>1. task[w].raw \in Report
    BY <1>0, <1>1 DEF Tidy, Task
  <2>2. m \in StateRecord /\ m # Missing /\ m.status # "trial"
    BY <2>1, MergeType, MergeNotTrial, BillingAssumption DEF Sound
  <2>3. task' = [task EXCEPT ![w] = t]
    BY <1>1 DEF Persist, TasksTidy
  <2> HIDE DEF m
  <2>4. t \in Task /\ Tidy(t)
    BY <1>0, <2>2 DEF Task, Tidy, Labels, Goals
  <2> QED
    BY <2>3, <2>4, TaskUpdate
<1>2. CASE task[w].goal = "existing" /\ Persist(w, FreeFallback, "fallback")
  <2> DEFINE t == [task[w] EXCEPT !.pc = "write_redis", !.goal = "fallback",
                                  !.raw = Missing, !.buf = FreeFallback]
  <2>1. /\ FreeFallback \in StateRecord /\ FreeFallback # Missing
        /\ FreeFallback.status # "trial"
    BY BillingAssumption DEF FreeFallback, StateRecord, States
  <2>2. task' = [task EXCEPT ![w] = t]
    BY <1>2 DEF Persist, TasksTidy
  <2>3. t \in Task /\ Tidy(t)
    BY <1>0, <2>1 DEF Task, Tidy, Labels, Goals
  <2> QED
    BY <2>2, <2>3, TaskUpdate
<1>3. CASE r # Missing /\ task' = [task EXCEPT ![w].pc = "pulled", ![w].buf = r]
  <2> DEFINE t == [task[w] EXCEPT !.pc = "pulled", !.buf = r]
  <2>1. t \in Task /\ Tidy(t)
    BY <1>0, <1>3 DEF Task, Tidy, Labels, Sound
  <2>2. task' = [task EXCEPT ![w] = t]
    BY <1>3 DEF TasksTidy
  <2> QED
    BY <2>1, <2>2, TaskUpdate
<1>4. CASE task' = [task EXCEPT ![w].pc = "got", ![w].buf = r]
  <2> DEFINE t == [task[w] EXCEPT !.pc = "got", !.buf = r]
  <2>1. t \in Task /\ Tidy(t)
    BY <1>0, <1>4 DEF Task, Tidy, Labels, Sound
  <2>2. task' = [task EXCEPT ![w] = t]
    BY <1>4 DEF TasksTidy
  <2> QED
    BY <2>1, <2>2, TaskUpdate
<1> QED
  BY <1>1, <1>2, <1>3, <1>4 DEF GotState

(* Many steps of a task change its label alone, and maybe its goal. *)
LEMMA GoToTidy ==
  ASSUME TasksTidy, NEW w \in Workers, NEW label \in Labels,
         Tidy([task[w] EXCEPT !.pc = label]), GoTo(w, label)
  PROVE  TasksTidy'
<1> DEFINE t == [task[w] EXCEPT !.pc = label]
<1>1. t \in Task
  BY DEF TasksTidy, Task
<1>2. task' = [task EXCEPT ![w] = t]
  BY DEF GoTo, TasksTidy
<1> QED
  BY <1>1, <1>2, TaskUpdate

LEMMA ApplyWebhookTidy ==
  ASSUME TasksTidy, NEW w \in Workers, task[w].raw # Missing, ApplyWebhook(w)
  PROVE  TasksTidy'
<1> DEFINE t == [task[w] EXCEPT !.pc = "read_redis", !.goal = "apply"]
<1>1. task[w] \in Task /\ Tidy(task[w])
  BY DEF TasksTidy
<1>2. t \in Task /\ Tidy(t)
  BY <1>1 DEF Task, Tidy, Labels, Goals
<1>3. task' = [task EXCEPT ![w] = t]
  BY DEF ApplyWebhook, TasksTidy
<1> QED
  BY <1>2, <1>3, TaskUpdate

LEMMA DoneTidy ==
  ASSUME TasksTidy, NEW w \in Workers, task' = [task EXCEPT ![w] = Idle]
  PROVE  TasksTidy'
BY IdleTidy, TaskUpdate

-----------------------------------------------------------------------------
(* One lemma per action: the tasks stay tidy. *)

LEMMA DeliverTidy ==
  ASSUME StoreInv, NEW w \in Workers, NEW e \in EventIds, Deliver(w, e)
  PROVE  TasksTidy'
<1> DEFINE t == [Idle EXCEPT !.pc = "replay_get", !.job = "webhook",
                             !.evt = e, !.raw = erpLog[e]]
<1>1. erpLog[e] \in Report
  BY BillingAssumption DEF StoreInv, TypeOK, Deliver, EventIds
<1>2. Idle \in Task /\ Idle.buf = Missing
  BY IdleTidy DEF Idle
<1>3. t \in Task /\ Tidy(t)
  BY <1>1, <1>2, BillingAssumption DEF Task, Tidy, Labels, Jobs
<1>4. task' = [task EXCEPT ![w] = t]
  BY DEF Deliver
<1> QED
  BY <1>3, <1>4, TaskUpdate DEF StoreInv

LEMMA StartPullTidy ==
  ASSUME StoreInv, NEW w \in Workers, NEW job \in PullJobs, StartPull(w, job)
  PROVE  TasksTidy'
<1> DEFINE t == [Idle EXCEPT !.pc = "http", !.job = job, !.attempt = 1]
<1>1. job \in Jobs \ {"webhook"}
  BY BillingAssumption DEF Jobs
<1>2. Idle \in Task /\ Idle.buf = Missing
  BY IdleTidy DEF Idle
<1>3. 1 \in 0 .. MaxRetries
  BY BillingAssumption
<1>4. t \in Task
  BY <1>1, <1>2, <1>3 DEF Task, Labels
<1>5. Tidy(t)
  BY <1>1, <1>2 DEF Task, Tidy
<1>6. task' = [task EXCEPT ![w] = t]
  BY DEF StartPull
<1> QED
  BY <1>4, <1>5, <1>6, TaskUpdate DEF StoreInv

LEMMA StartReadTidy ==
  ASSUME StoreInv, NEW w \in Workers, StartRead(w)
  PROVE  TasksTidy'
<1> DEFINE t == [Idle EXCEPT !.pc = "read_redis", !.job = "read", !.goal = "caller"]
<1>1. Idle \in Task /\ Idle.buf = Missing
  BY IdleTidy DEF Idle
<1>2. t \in Task /\ Tidy(t)
  BY <1>1 DEF Task, Tidy, Labels, Jobs, Goals
<1>3. task' = [task EXCEPT ![w] = t]
  BY DEF StartRead
<1> QED
  BY <1>2, <1>3, TaskUpdate DEF StoreInv

LEMMA ReplayTidy ==
  ASSUME StoreInv, NEW w \in Workers, ReplayGet(w) \/ ReplaySet(w)
  PROVE  TasksTidy'
<1>1. /\ TasksTidy /\ task[w] \in Task /\ Tidy(task[w])
      /\ task[w].pc \in {"replay_get", "replay_set"}
  BY DEF StoreInv, TasksTidy, ReplayGet, ReplaySet
<1>2. CASE ApplyWebhook(w)
  BY <1>1, <1>2, ApplyWebhookTidy DEF Tidy
<1>3. CASE GoTo(w, "replay_set")
  <2>1. Tidy([task[w] EXCEPT !.pc = "replay_set"])
    BY <1>1 DEF Tidy, Task
  <2> QED
    BY <1>1, <1>3, <2>1, GoToTidy DEF Labels
<1>4. CASE task' = [task EXCEPT ![w] = Idle]
  BY <1>1, <1>4, DoneTidy
<1> QED
  BY <1>2, <1>3, <1>4 DEF ReplayGet, ReplaySet

LEMMA HttpTidy ==
  ASSUME StoreInv, NEW w \in Workers, HttpReply(w) \/ HttpFail(w)
  PROVE  TasksTidy'
<1>1. /\ TasksTidy /\ task[w] \in Task /\ Tidy(task[w]) /\ task[w].pc = "http"
  BY DEF StoreInv, TasksTidy, HttpReply, HttpFail
<1>2. CASE HttpReply(w)
  <2>1. PICK r \in Report :
          task' = [task EXCEPT ![w].pc = "read_redis", ![w].goal = "apply", ![w].raw = r]
    BY <1>2 DEF HttpReply
  <2> DEFINE t == [task[w] EXCEPT !.pc = "read_redis", !.goal = "apply", !.raw = r]
  <2>2. t \in Task /\ Tidy(t)
    BY <1>1, BillingAssumption DEF Task, Tidy, Labels, Goals
  <2>3. task' = [task EXCEPT ![w] = t]
    BY <2>1 DEF StoreInv, TasksTidy
  <2> QED
    BY <1>1, <2>2, <2>3, TaskUpdate
<1>3. CASE /\ task[w].attempt < MaxRetries
           /\ task' = [task EXCEPT ![w].attempt = @ + 1]
  <2> DEFINE t == [task[w] EXCEPT !.attempt = @ + 1]
  <2>1. t \in Task /\ Tidy(t)
    BY <1>1, <1>3, BillingAssumption DEF Task, Tidy
  <2>2. task' = [task EXCEPT ![w] = t]
    BY <1>3 DEF StoreInv, TasksTidy
  <2> QED
    BY <1>1, <2>1, <2>2, TaskUpdate
<1>4. CASE task' = [task EXCEPT ![w].pc = "read_redis", ![w].goal = "existing"]
  <2> DEFINE t == [task[w] EXCEPT !.pc = "read_redis", !.goal = "existing"]
  <2>1. t \in Task /\ Tidy(t)
    BY <1>1 DEF Task, Tidy, Labels, Goals
  <2>2. task' = [task EXCEPT ![w] = t]
    BY <1>4 DEF StoreInv, TasksTidy
  <2> QED
    BY <1>1, <2>1, <2>2, TaskUpdate
<1> QED
  BY <1>2, <1>3, <1>4 DEF HttpFail

LEMMA ReadTidy ==
  ASSUME StoreInv, NEW w \in Workers, ReadRedis(w) \/ ReadDb(w) \/ Repopulate(w)
  PROVE  TasksTidy'
<1>1. /\ TasksTidy /\ task[w] \in Task /\ Tidy(task[w])
      /\ task[w].pc \in {"read_redis", "read_db", "repopulate"}
  BY DEF StoreInv, TasksTidy, ReadRedis, ReadDb, Repopulate
<1>2. Sound(redis) /\ Sound(db) /\ Sound(task[w].buf) /\ Sound(Missing)
  BY StoredSound DEF Sound
<1>3. CASE GotState(w, redis) \/ GotState(w, task[w].buf) \/ GotState(w, Missing)
  BY <1>1, <1>2, <1>3, GotStateTidy
<1>4. CASE task[w].pc = "read_redis" /\ GoTo(w, "read_db")
  <2>1. Tidy([task[w] EXCEPT !.pc = "read_db"])
    BY <1>1, <1>4 DEF Tidy, Task
  <2> QED
    BY <1>1, <1>4, <2>1, GoToTidy DEF Labels
<1>5. CASE /\ task[w].pc = "read_db" /\ db # Missing
           /\ task' = [task EXCEPT ![w].pc = "repopulate", ![w].buf = db]
  <2> DEFINE t == [task[w] EXCEPT !.pc = "repopulate", !.buf = db]
  <2>1. t \in Task /\ Tidy(t)
    BY <1>1, <1>2, <1>5 DEF Task, Tidy, Labels, Sound
  <2>2. task' = [task EXCEPT ![w] = t]
    BY <1>5 DEF StoreInv, TasksTidy
  <2> QED
    BY <1>1, <2>1, <2>2, TaskUpdate
<1> QED
  BY <1>3, <1>4, <1>5 DEF ReadRedis, ReadDb, Repopulate

LEMMA WriteTidy ==
  ASSUME StoreInv, NEW w \in Workers, WriteRedis(w) \/ WriteDb(w)
  PROVE  TasksTidy'
<1>1. /\ TasksTidy /\ task[w] \in Task /\ Tidy(task[w])
      /\ task[w].pc \in {"write_redis", "write_db"}
  BY DEF StoreInv, TasksTidy, WriteRedis, WriteDb
<1>2. CASE GoTo(w, "write_db") \/ GoTo(w, "pulled")
  <2>1. \A label \in {"write_db", "pulled"} : Tidy([task[w] EXCEPT !.pc = label])
    BY <1>1 DEF Tidy, Task
  <2> QED
    BY <1>1, <1>2, <2>1, GoToTidy DEF Labels
<1>3. CASE task' = [task EXCEPT ![w].pc = "read_redis", ![w].goal = "caller",
                                ![w].buf = Missing]
  <2> DEFINE t == [task[w] EXCEPT !.pc = "read_redis", !.goal = "caller", !.buf = Missing]
  <2>1. t \in Task /\ Tidy(t)
    BY <1>1 DEF Task, Tidy, Labels, Goals
  <2>2. task' = [task EXCEPT ![w] = t]
    BY <1>3 DEF StoreInv, TasksTidy
  <2> QED
    BY <1>1, <2>1, <2>2, TaskUpdate
<1> QED
  BY <1>2, <1>3 DEF WriteRedis, WriteDb

-----------------------------------------------------------------------------
(* The invariant is inductive. *)

LEMMA StoreInit == Init => StoreInv
<1> SUFFICES ASSUME Init PROVE StoreInv
  OBVIOUS
<1>1. PICK r \in ErpReports : erpLog = <<r>>
  BY DEF Init
<1>2. erpLog \in Seq(ErpReports) /\ Len(erpLog) \in 1 .. (MaxChanges + 1)
  BY <1>1, BillingAssumption
<1>3. TasksTidy
  BY IdleTidy DEF Init, TasksTidy
<1>4. TypeOK
  BY <1>2, <1>3, BillingAssumption DEF Init, TypeOK, TasksTidy
<1> QED
  BY <1>3, <1>4 DEF Init, StoreInv, TrialNeverStored, Stored

LEMMA StoreInvKept == StoreInv /\ [Next]_vars => StoreInv'
<1> SUFFICES ASSUME StoreInv, [Next]_vars PROVE StoreInv'
  OBVIOUS
<1>0. /\ TypeOK /\ TasksTidy
      /\ Sound(redis) /\ Sound(db) /\ \A w \in Workers : Sound(task[w].buf)
  BY StoredSound DEF StoreInv
(* A step keeps the invariant when it keeps the tasks tidy and leaves the   *)
(* layers alone or copies the record of a task into one of them.            *)
<1> DEFINE Kept(w) == /\ redis' \in {redis, Missing, task[w].buf}
                      /\ db' \in {db, task[w].buf}
                      /\ TasksTidy'
           Rest == /\ erpLog' \in Seq(ErpReports)
                   /\ Len(erpLog') \in 1 .. (MaxChanges + 1)
                   /\ sent' \in [EventIds -> 0 .. MaxDeliveries]
                   /\ seen' \subseteq EventIds
                   /\ published' \in Nat
                   /\ applied' \in [EventIds -> Nat]
                   /\ fresh' \in Nat
                   /\ faults' \in 0 .. MaxFaults
<1>1. ASSUME NEW w \in Workers, Kept(w), Rest PROVE StoreInv'
  <2>1. Sound(redis') /\ Sound(db')
    BY <1>0, <1>1 DEF Sound
  <2> QED
    BY <1>1, <2>1 DEF StoreInv, TypeOK, TrialNeverStored, Stored, Sound, TasksTidy
<1>2. CASE ErpChange
  <2>1. erpLog' \in Seq(ErpReports) /\ Len(erpLog') \in 1 .. (MaxChanges + 1)
    BY <1>0, <1>2, BillingAssumption DEF ErpChange, TypeOK
  <2> QED
    BY <1>2, <2>1 DEF ErpChange, storeVars, StoreInv, TypeOK, TrialNeverStored, Stored, TasksTidy
<1>3. CASE Evict
  BY <1>3 DEF Evict, inputVars, StoreInv, TypeOK, TrialNeverStored, Stored, TasksTidy
<1>4. CASE RedisFlush
  BY <1>4, BillingAssumption
     DEF RedisFlush, Fails, inputVars, StoreInv, TypeOK, TrialNeverStored, Stored, TasksTidy
<1>5. CASE UNCHANGED vars
  BY <1>5 DEF vars, StoreInv, TypeOK, TrialNeverStored, Stored, TasksTidy
<1> USE BillingAssumption DEF TypeOK, inputVars, storeVars
<1>6. ASSUME NEW w \in Workers, NEW e \in EventIds, Deliver(w, e) PROVE StoreInv'
  <2>1. Kept(w)
    BY <1>6, DeliverTidy DEF Deliver
  <2>2. Rest
    BY <1>0, <1>6 DEF Deliver
  <2> QED
    BY <1>1, <2>1, <2>2
<1>7. ASSUME NEW w \in Workers, NEW job \in PullJobs, StartPull(w, job) PROVE StoreInv'
  <2>1. Kept(w)
    BY <1>7, StartPullTidy DEF StartPull
  <2>2. Rest
    BY <1>0, <1>7 DEF StartPull
  <2> QED
    BY <1>1, <2>1, <2>2
<1>8. ASSUME NEW w \in Workers, ReplayGet(w) \/ ReplaySet(w) PROVE StoreInv'
  <2>1. Kept(w)
    BY <1>8, ReplayTidy DEF ReplayGet, ReplaySet
  <2>2. task[w].evt \in EventIds
    BY <1>0, <1>8 DEF TasksTidy, Tidy, ReplayGet, ReplaySet
  <2>3. Rest
    BY <1>0, <1>8, <2>2 DEF ReplayGet, ReplaySet, Fails
  <2> QED
    BY <1>1, <2>1, <2>3
<1>9. ASSUME NEW w \in Workers, HttpReply(w) \/ HttpFail(w) PROVE StoreInv'
  <2>1. Kept(w)
    BY <1>9, HttpTidy DEF HttpReply, HttpFail
  <2>2. Rest
    BY <1>0, <1>9 DEF HttpReply, HttpFail, Fails
  <2> QED
    BY <1>1, <2>1, <2>2
<1>10. ASSUME NEW w \in Workers, ReadRedis(w) \/ ReadDb(w) \/ Repopulate(w)
       PROVE  StoreInv'
  <2>1. Kept(w)
    BY <1>10, ReadTidy DEF ReadRedis, ReadDb, Repopulate
  <2>2. Rest
    BY <1>0, <1>10 DEF ReadRedis, ReadDb, Repopulate, Fails
  <2> QED
    BY <1>1, <2>1, <2>2
<1>11. ASSUME NEW w \in Workers, WriteRedis(w) \/ WriteDb(w) PROVE StoreInv'
  <2>1. Kept(w)
    BY <1>11, WriteTidy DEF WriteRedis, WriteDb
  <2>2. task[w].job = "webhook" => task[w].evt \in EventIds
    BY <1>0 DEF TasksTidy, Tidy
  <2>3. applied' \in [EventIds -> Nat]
    <3>1. CASE WriteRedis(w)
      BY <1>0, <3>1 DEF WriteRedis
    <3>2. CASE WriteDb(w)
      <4>1. applied \in [EventIds -> Nat]
        BY <1>0 DEF TypeOK
      <4>2. \/ applied' = applied
            \/ /\ task[w].job = "webhook"
               /\ applied' = [applied EXCEPT ![task[w].evt] = @ + 1]
        BY <3>2 DEF WriteDb
      <4> QED
        BY <2>2, <4>1, <4>2
    <3> QED
      BY <1>11, <3>1, <3>2
  <2>4. Rest
    BY <1>0, <1>11, <2>3 DEF WriteRedis, WriteDb, Fails
  <2> QED
    BY <1>1, <2>1, <2>4
<1>12. ASSUME NEW w \in Workers, Finish(w) PROVE StoreInv'
  <2>1. Kept(w)
    BY <1>0, <1>12, DoneTidy DEF Finish
  <2>2. task[w].buf # Missing => task[w].buf.version \in Nat
    BY <1>0 DEF Sound, StateRecord
  <2>3. published' \in Nat
    BY <1>0, <1>12, <2>2 DEF Finish, TasksTidy, Tidy
  <2>4. Rest
    BY <1>0, <1>12, <2>3 DEF Finish
  <2> QED
    BY <1>1, <2>1, <2>4
<1>13. ASSUME NEW w \in Workers, Crash(w) PROVE StoreInv'
  <2>1. Kept(w)
    BY <1>0, <1>13, DoneTidy DEF Crash
  <2>2. Rest
    BY <1>0, <1>13 DEF Crash, Fails
  <2> QED
    BY <1>1, <2>1, <2>2
<1>14. ASSUME NEW w \in Workers, StartRead(w) PROVE StoreInv'
  <2>1. Kept(w)
    BY <1>14, StartReadTidy DEF StartRead
  <2>2. Rest
    BY <1>0, <1>14 DEF StartRead
  <2> QED
    BY <1>1, <2>1, <2>2
<1> QED
  BY <1>2, <1>3, <1>4, <1>5, <1>6, <1>7, <1>8, <1>9, <1>10, <1>11, <1>12, <1>13, <1>14
     DEF Next, Environment, Step

LEMMA StoreInvariant == Spec => []StoreInv
BY StoreInit, StoreInvKept, PTL DEF Spec

(* The layers, the tasks and the counters keep their types: in particular a *)
(* pull never makes more than MaxRetries attempts, and what a task stores   *)
(* or publishes is a complete record, whatever it could not read.           *)
THEOREM TypeCorrect == Spec => []TypeOK
<1>1. StoreInv => TypeOK
  BY DEF StoreInv
<1> QED
  BY StoreInvariant, <1>1, PTL

(* No path leads to a stored trial: not a report, not the fallback of an    *)
(* unknown tenant, not a copy of one layer into the other.                  *)
THEOREM NoTrial == Spec => []TrialNeverStored
<1>1. StoreInv => TrialNeverStored
  BY DEF StoreInv
<1> QED
  BY StoreInvariant, <1>1, PTL

-----------------------------------------------------------------------------
(* No plan is made up.  What a task holds is backed as what is stored is:   *)
(* by an entry of ERPNext's log, or by nothing but the fallback and         *)
(* malformed replies.                                                       *)

ReportedIn(log, p) == \E i \in 1 .. Len(log) : log[i].plan = p

(* A record and a report, given the log and the number of failures.         *)
Backed(r, log, f) ==
  r = Missing \/ ReportedIn(log, r.plan) \/ (r.plan = Free /\ (r.version = 0 \/ f > 0))

Truthful(raw, log, f) ==
  raw = Missing \/ ReportedIn(log, raw.plan) \/ (raw.plan = Free /\ f > 0)

PlanInv ==
  /\ Backed(redis, erpLog, faults) /\ Backed(db, erpLog, faults)
  /\ \A w \in Workers : /\ Backed(task[w].buf, erpLog, faults)
                        /\ Truthful(task[w].raw, erpLog, faults)

(* What was reported and what failed stays so. *)
LEMMA BackedForGood ==
  ASSUME NEW log, NEW log2, NEW f \in Nat, NEW f2 \in Nat, f2 >= f,
         \A p : ReportedIn(log, p) => ReportedIn(log2, p)
  PROVE  /\ \A r : Backed(r, log, f) => Backed(r, log2, f2)
         /\ \A raw : Truthful(raw, log, f) => Truthful(raw, log2, f2)
BY DEF Backed, Truthful

(* A step of w that copies records between the task and the layers. *)
LEMMA PlanKept ==
  ASSUME StoreInv, PlanInv, NEW w \in Workers, NEW t, task' = [task EXCEPT ![w] = t],
         UNCHANGED erpLog, faults' \in {faults, faults + 1},
         Backed(t.buf, erpLog, faults'), Truthful(t.raw, erpLog, faults'),
         redis' \in {redis, Missing, task[w].buf}, db' \in {db, task[w].buf}
  PROVE  PlanInv'
<1>1. faults \in Nat /\ faults' \in Nat /\ faults' >= faults /\ task \in [Workers -> Task]
  BY BillingAssumption DEF StoreInv, TypeOK
<1>2. /\ \A r : Backed(r, erpLog, faults) => Backed(r, erpLog', faults')
      /\ \A raw : Truthful(raw, erpLog, faults) => Truthful(raw, erpLog', faults')
  BY <1>1, BackedForGood
<1>3. \A v \in Workers : task'[v] = IF v = w THEN t ELSE task[v]
  BY <1>1
<1>4. Backed(Missing, erpLog', faults')
  BY DEF Backed
<1>5. Backed(redis', erpLog', faults') /\ Backed(db', erpLog', faults')
  BY <1>2, <1>4 DEF PlanInv
<1>6. ASSUME NEW v \in Workers
      PROVE  /\ Backed(task'[v].buf, erpLog', faults')
             /\ Truthful(task'[v].raw, erpLog', faults')
  BY <1>2, <1>3 DEF PlanInv
<1> QED
  BY <1>5, <1>6 DEF PlanInv

(* What get_billing_state returns, and what is made of it. *)
LEMMA GotStatePlan ==
  ASSUME StoreInv, PlanInv, NEW w \in Workers,
         task[w].pc \in {"read_redis", "read_db", "repopulate"},
         NEW r, Sound(r), Backed(r, erpLog, faults), GotState(w, r),
         UNCHANGED erpLog, faults' \in {faults, faults + 1},
         redis' \in {redis, Missing, task[w].buf}, db' \in {db, task[w].buf}
  PROVE  PlanInv'
<1> DEFINE t == task'[w]
<1>1. /\ TasksTidy /\ task \in [Workers -> Task] /\ task[w] \in Task /\ Tidy(task[w])
      /\ faults \in Nat /\ faults' \in Nat /\ faults' >= faults
  BY BillingAssumption DEF StoreInv, TypeOK, TasksTidy
<1>2. task' = [task EXCEPT ![w] = t]
  BY <1>1 DEF GotState, Persist
<1>3. /\ t.raw \in {task[w].raw, Missing}
      /\ \/ t.buf = r \/ t.buf = FreeFallback
         \/ task[w].goal = "apply" /\ t.buf = Merge(r, task[w].raw)
  BY <1>1 DEF GotState, Persist, Task
<1>4. Truthful(t.raw, erpLog, faults')
  BY <1>1, <1>3 DEF PlanInv, Truthful
<1>5. Backed(t.buf, erpLog, faults')
  <2>1. CASE t.buf = r
    BY <1>1, <2>1 DEF Backed
  <2>2. CASE t.buf = FreeFallback
    BY <2>2 DEF Backed, FreeFallback
  <2>3. CASE task[w].goal = "apply" /\ t.buf = Merge(r, task[w].raw)
    <3>1. task[w].raw # Missing /\ t.buf.plan = task[w].raw.plan
      BY <1>1, <2>3 DEF Tidy, Merge
    <3> QED
      BY <1>1, <3>1 DEF PlanInv, Backed, Truthful
  <2> QED
    BY <1>3, <2>1, <2>2, <2>3
<1> HIDE DEF t
<1> QED
  BY <1>2, <1>4, <1>5, PlanKept

LEMMA PlanInit == Init => PlanInv
BY DEF Init, PlanInv, Backed, Truthful, Idle

LEMMA PlanStep == StoreInv /\ PlanInv /\ [Next]_vars => PlanInv'
<1> SUFFICES ASSUME StoreInv, PlanInv, [Next]_vars PROVE PlanInv'
  OBVIOUS
<1>0. /\ TasksTidy /\ task \in [Workers -> Task]
      /\ faults \in Nat /\ erpLog \in Seq(ErpReports) /\ Len(erpLog) \in Nat \ {0}
      /\ \A v \in Workers : Tidy(task[v])
      /\ Sound(redis) /\ Sound(db) /\ Sound(Missing) /\ \A v \in Workers : Sound(task[v].buf)
      /\ Backed(Missing, erpLog, faults) /\ Truthful(Missing, erpLog, faults)
  BY StoredSound, BillingAssumption DEF StoreInv, TypeOK, TasksTidy, Sound, Backed, Truthful
<1>1. CASE ErpChange
  <2>1. PICK latest \in ErpReports : erpLog' = Append(erpLog, latest)
    BY <1>1 DEF ErpChange
  <2>2. Len(erpLog') = Len(erpLog) + 1 /\ \A i \in 1 .. Len(erpLog) : erpLog'[i] = erpLog[i]
    BY <1>0, <2>1
  <2>3. \A p : ReportedIn(erpLog, p) => ReportedIn(erpLog', p)
    BY <1>0, <2>2 DEF ReportedIn
  <2>4. UNCHANGED <<redis, db, task, faults>>
    BY <1>1 DEF ErpChange, storeVars
  <2>5. /\ \A r : Backed(r, erpLog, faults) => Backed(r, erpLog', faults)
        /\ \A raw : Truthful(raw, erpLog, faults) => Truthful(raw, erpLog', faults)
    <3>1. faults \in Nat /\ faults >= faults
      BY <1>0
    <3> QED
      BY <2>3, <3>1, BackedForGood
  <2> QED
    BY <2>4, <2>5 DEF PlanInv
<1>2. CASE Evict \/ RedisFlush \/ UNCHANGED vars
  <2>1. /\ UNCHANGED <<erpLog, db, task>> /\ faults' \in {faults, faults + 1}
        /\ redis' \in {redis, Missing}
    BY <1>2 DEF Evict, RedisFlush, vars, inputVars, Fails
  <2>2. faults' \in Nat /\ faults' >= faults
    BY <1>0, <2>1
  <2>3. /\ \A r : Backed(r, erpLog, faults) => Backed(r, erpLog', faults')
        /\ \A raw : Truthful(raw, erpLog, faults) => Truthful(raw, erpLog', faults')
    BY <1>0, <2>1, <2>2, BackedForGood
  <2> QED
    BY <1>0, <2>1, <2>3 DEF PlanInv
<1>3. ASSUME NEW w \in Workers, NEW e \in EventIds, Deliver(w, e) PROVE PlanInv'
  <2> DEFINE t == [Idle EXCEPT !.pc = "replay_get", !.job = "webhook",
                               !.evt = e, !.raw = erpLog[e]]
  <2>1. e \in 1 .. Len(erpLog)
    BY <1>0, <1>3 DEF Deliver, EventIds
  <2>2. t.buf = Missing /\ t.raw = erpLog[e]
    BY DEF Idle
  <2>3. Backed(t.buf, erpLog, faults) /\ Truthful(t.raw, erpLog, faults)
    BY <1>0, <2>1, <2>2 DEF Truthful, ReportedIn
  <2>4. task' = [task EXCEPT ![w] = t]
    BY <1>3 DEF Deliver
  <2> HIDE DEF t
  <2> QED
    BY <1>3, <2>3, <2>4, PlanKept DEF Deliver, storeVars
<1>4. ASSUME NEW w \in Workers, HttpReply(w) PROVE PlanInv'
  <2>1. PICK r \in Report :
          /\ \/ r = Erp /\ UNCHANGED faults
             \/ r = [status |-> "unrecognised", plan |-> Free] /\ Fails("body")
          /\ task' = [task EXCEPT ![w].pc = "read_redis", ![w].goal = "apply", ![w].raw = r]
    BY <1>4 DEF HttpReply
  <2> DEFINE t == [task[w] EXCEPT !.pc = "read_redis", !.goal = "apply", !.raw = r]
  <2>2. t.buf = task[w].buf /\ t.raw = r /\ task' = [task EXCEPT ![w] = t]
    BY <1>0, <2>1 DEF Task
  <2>3. faults' \in {faults, faults + 1}
    BY <2>1 DEF Fails
  <2>4. Backed(t.buf, erpLog, faults')
    BY <1>0, <2>2, <2>3 DEF PlanInv, Backed
  <2>5. Truthful(t.raw, erpLog, faults')
    BY <1>0, <2>1, <2>2 DEF Truthful, ReportedIn, Erp, Fails
  <2> HIDE DEF t
  <2> QED
    BY <1>4, <2>2, <2>3, <2>4, <2>5, PlanKept DEF HttpReply, storeVars
(* Every other step of a task keeps its report or drops it, and what it     *)
(* reads was stored.                                                        *)
<1>5. ASSUME NEW w \in Workers, NEW t, task' = [task EXCEPT ![w] = t],
             UNCHANGED erpLog, faults' \in {faults, faults + 1},
             t.buf \in {task[w].buf, db, Missing}, t.raw \in {task[w].raw, Missing},
             redis' \in {redis, Missing, task[w].buf}, db' \in {db, task[w].buf}
      PROVE  PlanInv'
  <2>1. Backed(t.buf, erpLog, faults) /\ Truthful(t.raw, erpLog, faults)
    BY <1>0, <1>5 DEF PlanInv
  <2>2. Backed(t.buf, erpLog, faults') /\ Truthful(t.raw, erpLog, faults')
    BY <1>0, <1>5, <2>1 DEF Backed, Truthful
  <2> QED
    BY <1>5, <2>2, PlanKept
<1>6. ASSUME NEW w \in Workers,
             \/ \E job \in PullJobs : StartPull(w, job)
             \/ StartRead(w) \/ Finish(w) \/ Crash(w)
      PROVE  PlanInv'
  <2> DEFINE t == task'[w]
  <2>1. \/ t = Idle
        \/ \E job \in PullJobs :
             t = [Idle EXCEPT !.pc = "http", !.job = job, !.attempt = 1]
        \/ t = [Idle EXCEPT !.pc = "read_redis", !.job = "read", !.goal = "caller"]
    BY <1>0, <1>6 DEF StartPull, StartRead, Finish, Crash
  <2>2. task' = [task EXCEPT ![w] = t]
    BY <1>0, <1>6 DEF StartPull, StartRead, Finish, Crash
  <2>3. t.buf = Missing /\ t.raw = Missing
    <3>1. Idle \in Task /\ Idle.buf = Missing /\ Idle.raw = Missing
      BY IdleTidy DEF Idle
    <3> HIDE DEF t
    <3> QED
      BY <2>1, <3>1 DEF Task
  <2>4. UNCHANGED <<erpLog, redis, db>> /\ faults' \in {faults, faults + 1}
    BY <1>6 DEF StartPull, StartRead, Finish, Crash, Fails, inputVars, storeVars
  <2> HIDE DEF t
  <2> QED
    BY <1>5, <2>2, <2>3, <2>4
<1>7. ASSUME NEW w \in Workers, ReplayGet(w) \/ ReplaySet(w) \/ HttpFail(w)
      PROVE  PlanInv'
  <2> DEFINE t == task'[w]
  <2>1. /\ task' = [task EXCEPT ![w] = t]
        /\ t.buf \in {task[w].buf, Missing} /\ t.raw \in {task[w].raw, Missing}
    BY <1>0, <1>7 DEF ReplayGet, ReplaySet, HttpFail, ApplyWebhook, GoTo, Idle, Task
  <2>2. UNCHANGED <<erpLog, redis, db>> /\ faults' \in {faults, faults + 1}
    BY <1>7 DEF ReplayGet, ReplaySet, HttpFail, Fails, inputVars, storeVars
  <2> HIDE DEF t
  <2> QED
    BY <1>5, <2>1, <2>2
<1>8. ASSUME NEW w \in Workers, WriteRedis(w) \/ WriteDb(w) PROVE PlanInv'
  <2> DEFINE t == task'[w]
  <2>1. /\ task' = [task EXCEPT ![w] = t]
        /\ t.buf \in {task[w].buf, Missing} /\ t.raw = task[w].raw
    BY <1>0, <1>8 DEF WriteRedis, WriteDb, GoTo, Task
  <2>2. /\ UNCHANGED erpLog /\ faults' \in {faults, faults + 1}
        /\ redis' \in {redis, task[w].buf} /\ db' \in {db, task[w].buf}
    BY <1>8 DEF WriteRedis, WriteDb, Fails, inputVars
  <2> HIDE DEF t
  <2> QED
    BY <1>5, <2>1, <2>2
<1>9. ASSUME NEW w \in Workers, ReadRedis(w) \/ ReadDb(w) \/ Repopulate(w) PROVE PlanInv'
  <2>1. /\ task[w].pc \in {"read_redis", "read_db", "repopulate"}
        /\ UNCHANGED <<erpLog, db>> /\ faults' \in {faults, faults + 1}
        /\ redis' \in {redis, task[w].buf}
    BY <1>9 DEF ReadRedis, ReadDb, Repopulate, Fails, inputVars, storeVars
  <2>2. CASE GotState(w, redis) \/ GotState(w, task[w].buf) \/ GotState(w, Missing)
    BY <1>0, <2>1, <2>2, GotStatePlan DEF PlanInv
  <2>3. CASE \/ GoTo(w, "read_db")
             \/ task' = [task EXCEPT ![w].pc = "repopulate", ![w].buf = db]
    <3> DEFINE t == task'[w]
    <3>1. /\ task' = [task EXCEPT ![w] = t]
          /\ t.buf \in {task[w].buf, db} /\ t.raw = task[w].raw
      BY <1>0, <2>3 DEF GoTo, Task
    <3> HIDE DEF t
    <3> QED
      BY <1>5, <2>1, <3>1
  <2> QED
    BY <1>9, <2>2, <2>3 DEF ReadRedis, ReadDb, Repopulate
<1> QED
  BY <1>1, <1>2, <1>3, <1>4, <1>6, <1>7, <1>8, <1>9 DEF Next, Environment, Step

(* No plan is made up, by whatever interleaving, retry or failure: a stored *)
(* plan was once reported by ERPNext, or is the free one of an unknown      *)
(* tenant, or of a reply that lacked the fields.                            *)
THEOREM NoInventedPlan == Spec => []PlanWasReported
<1>1. PlanInv => PlanWasReported
  BY DEF PlanInv, PlanWasReported, Stored, Backed, ReportedIn
<1> QED
  BY StoreInvariant, PlanInit, PlanStep, <1>1, PTL DEF Spec

-----------------------------------------------------------------------------
(* While one task at a time handles the tenant and its statements run, the  *)
(* two layers are one ledger.  Both hypotheses are needed: the code has no  *)
(* lock around the read of the current state and the two writes that        *)
(* follow, and a restart between the two leaves them apart.                 *)

OneTask == \A v, w \in Workers : v = w

(* Neither Redis nor MariaDB refuses a statement and no process stops between two; *)
(* the bodies of ERPNext's replies may be malformed and Redis may be flushed.      *)
StatementsRun == Faults \cap {"redis", "db", "crash"} = {}

-----------------------------------------------------------------------------
(* The abstract ledger uses the same state machine. *)

LEMMA SameMachine ==
  ASSUME NEW current, NEW version, NEW proposed
  PROVE  Ledger!ApplyEvent(current, version, proposed)
           = ApplyEvent(current, version, proposed)
<1>1. Ledger!AllowedTransitions = AllowedTransitions
  BY DEF Ledger!AllowedTransitions, AllowedTransitions, Ledger!States, States
<1> QED
  BY <1>1 DEF Ledger!ApplyEvent, ApplyEvent, Ledger!Accepted, Accepted

(* The record new is what one step of the ledger makes of old. *)
Follows(old, new) ==
  \/ \E proposed \in States, plan \in Plans :
       LET was == IF old = Missing THEN [status |-> "active", version |-> 0] ELSE old
           is  == ApplyEvent(was.status, was.version, proposed)
       IN  new = [status |-> is.status, plan |-> plan, version |-> is.version]
  \/ old = Missing /\ new = FreeFallback

LEMMA FollowsIsStep ==
  ASSUME Follows(db, db')
  PROVE  Ledger!LedgerNext
<1>1. CASE db = Missing /\ db' = FreeFallback
  BY <1>1 DEF FreeFallback, Ledger!LedgerNext, Ledger!FallBack
<1>2. CASE \E proposed \in States, plan \in Plans : Ledger!Apply(proposed, plan)
  BY <1>2 DEF Ledger!LedgerNext, Ledger!States, States
<1> QED
  BY <1>1, <1>2, SameMachine DEF Follows, Ledger!Apply

(* _apply_and_persist makes a step of the ledger of the state it read. *)
LEMMA MergeFollows ==
  ASSUME NEW current, NEW report \in Report
  PROVE  Follows(current, Merge(current, report))
<1>1. ErpStatusToState(report.status) \in States /\ report.plan \in Plans
  BY StatusIsState DEF Report
<1> QED
  BY <1>1 DEF Follows, Merge

-----------------------------------------------------------------------------
(* The inductive invariant: what a task read is the row, what it is about   *)
(* to write follows from the row, and the key is the row or, between the    *)
(* two writes, the record that will be the row.  Clean says so of a task t, *)
(* the key r and the row d.                                                 *)
Clean(t, r, d) ==
  /\ r \in {Missing, IF t.pc = "write_db" THEN t.buf ELSE d}
  /\ t.pc = "repopulate" => t.buf = d
  /\ t.pc \in {"write_redis", "write_db"} => Follows(d, t.buf)

LedgerInv == LayersAgree /\ \A w \in Workers : Clean(task[w], redis, db)

(* The only task does a step and is clean after it. *)
LEMMA CleanStep ==
  ASSUME OneTask, task \in [Workers -> Task], NEW w \in Workers, NEW t,
         task' = [task EXCEPT ![w] = t], Clean(t, redis', db')
  PROVE  LedgerInv'
<1>1. \A v \in Workers : v = w /\ task'[v] = t
  BY DEF OneTask
<1>2. \A v \in Workers : Clean(task'[v], redis', db')
  BY <1>1
<1>3. LayersAgree'
  BY <1>1 DEF LayersAgree, Clean
<1> QED
  BY <1>2, <1>3 DEF LedgerInv

(* get_billing_state returns the row; redis' is what the step made of the   *)
(* key.                                                                     *)
LEMMA GotStateClean ==
  ASSUME OneTask, StoreInv, NEW w \in Workers,
         task[w].pc \in {"read_redis", "read_db", "repopulate"},
         GotState(w, db), redis' \in {Missing, db}, db' = db
  PROVE  LedgerInv'
<1>1. task \in [Workers -> Task] /\ task[w] \in Task /\ Tidy(task[w])
  BY DEF StoreInv, TasksTidy
<1>2. CASE task[w].goal = "apply" /\ Persist(w, Merge(db, task[w].raw), "apply")
  <2> DEFINE m == Merge(db, task[w].raw)
             t == [task[w] EXCEPT !.pc = "write_redis", !.goal = "apply",
                                  !.raw = Missing, !.buf = m]
  <2>1. task[w].raw \in Report
    BY <1>1, <1>2 DEF Tidy, Task
  <2>2. Follows(db, m)
    BY <2>1, MergeFollows
  <2>3. task' = [task EXCEPT ![w] = t]
    BY <1>1, <1>2 DEF Persist
  <2> HIDE DEF m
  <2>4. t.pc = "write_redis" /\ t.buf = m
    BY <1>1 DEF Task
  <2> HIDE DEF t
  <2>5. Clean(t, redis', db')
    BY <2>2, <2>4 DEF Clean
  <2> QED
    BY <1>1, <2>3, <2>5, CleanStep
<1>3. CASE db = Missing /\ Persist(w, FreeFallback, "fallback")
  <2> DEFINE t == [task[w] EXCEPT !.pc = "write_redis", !.goal = "fallback",
                                  !.raw = Missing, !.buf = FreeFallback]
  <2>1. task' = [task EXCEPT ![w] = t]
    BY <1>1, <1>3 DEF Persist
  <2>2. t.pc = "write_redis" /\ t.buf = FreeFallback
    BY <1>1 DEF Task
  <2> HIDE DEF t
  <2>3. Clean(t, redis', db')
    BY <1>3, <2>2 DEF Clean, Follows
  <2> QED
    BY <1>1, <2>1, <2>3, CleanStep
<1>4. CASE \E label \in {"pulled", "got"} :
             task' = [task EXCEPT ![w].pc = label, ![w].buf = db]
  <2>1. PICK label \in {"pulled", "got"} :
          task' = [task EXCEPT ![w].pc = label, ![w].buf = db]
    BY <1>4
  <2> DEFINE t == [task[w] EXCEPT !.pc = label, !.buf = db]
  <2>2. task' = [task EXCEPT ![w] = t]
    BY <1>1, <2>1
  <2>3. t.pc \in {"pulled", "got"}
    BY <1>1 DEF Task
  <2> HIDE DEF t
  <2>4. Clean(t, redis', db')
    BY <2>3 DEF Clean
  <2> QED
    BY <1>1, <2>2, <2>4, CleanStep
<1> QED
  BY <1>2, <1>3, <1>4 DEF GotState

(* A step that writes nothing and leads to none of the labels Clean is      *)
(* about.                                                                   *)
LEMMA Elsewhere ==
  ASSUME OneTask, LedgerInv, task \in [Workers -> Task], NEW w \in Workers, NEW t,
         task' = [task EXCEPT ![w] = t], UNCHANGED <<redis, db>>,
         task[w].pc # "write_db",
         t.pc \notin {"repopulate", "write_redis", "write_db"}
  PROVE  LedgerInv'
<1>1. redis \in {Missing, db}
  BY DEF LedgerInv, Clean
<1>2. Clean(t, redis', db')
  BY <1>1 DEF Clean
<1> QED
  BY <1>2, CleanStep

-----------------------------------------------------------------------------
(* The invariant is inductive, and the row changes as the ledger does. *)

LEMMA LedgerInitially == Init => LedgerInv
BY DEF Init, LedgerInv, LayersAgree, Clean, Idle

LEMMA EnvironmentKeeps ==
  ASSUME LedgerInv, task' = task, db' = db, redis' \in {redis, Missing}
  PROVE  LedgerInv'
<1>1. \A w \in Workers : Clean(task[w], redis', db)
  BY DEF LedgerInv, Clean
<1>2. \A w \in Workers : Clean(task'[w], redis', db')
  BY <1>1
<1>3. LayersAgree'
  BY DEF LedgerInv, LayersAgree
<1> QED
  BY <1>2, <1>3 DEF LedgerInv

LEMMA ReadKeeps ==
  ASSUME OneTask, StatementsRun, StoreInv, LedgerInv, NEW w \in Workers,
         ReadRedis(w) \/ ReadDb(w) \/ Repopulate(w)
  PROVE  LedgerInv' /\ db' = db
<1>1. /\ task \in [Workers -> Task] /\ task[w] \in Task
      /\ task[w].pc \in {"read_redis", "read_db", "repopulate"}
      /\ \A kind \in {"redis", "db", "crash"} : ~Fails(kind)
  BY DEF StoreInv, TasksTidy, ReadRedis, ReadDb, Repopulate, Fails, StatementsRun
<1>2. /\ redis \in {Missing, db} /\ db' = db
      /\ task[w].pc = "repopulate" => task[w].buf = db
  BY <1>1 DEF LedgerInv, Clean, ReadRedis, ReadDb, Repopulate, storeVars
<1>3. CASE GotState(w, db) /\ redis' \in {Missing, db}
  BY <1>1, <1>2, <1>3, GotStateClean
<1>4. CASE GoTo(w, "read_db") /\ redis' = redis
  <2> DEFINE t == [task[w] EXCEPT !.pc = "read_db"]
  <2>1. task' = [task EXCEPT ![w] = t]
    BY <1>1, <1>4 DEF GoTo
  <2>2. t.pc = "read_db"
    BY <1>1 DEF Task
  <2> HIDE DEF t
  <2>3. Clean(t, redis', db')
    BY <1>2, <1>4, <2>2 DEF Clean
  <2> QED
    BY <1>1, <1>2, <2>1, <2>3, CleanStep
<1>5. CASE /\ task' = [task EXCEPT ![w].pc = "repopulate", ![w].buf = db]
           /\ redis' = redis
  <2> DEFINE t == [task[w] EXCEPT !.pc = "repopulate", !.buf = db]
  <2>1. task' = [task EXCEPT ![w] = t]
    BY <1>1, <1>5
  <2>2. t.pc = "repopulate" /\ t.buf = db
    BY <1>1 DEF Task
  <2> HIDE DEF t
  <2>3. Clean(t, redis', db')
    BY <1>2, <1>5, <2>2 DEF Clean
  <2> QED
    BY <1>1, <1>2, <2>1, <2>3, CleanStep
<1>6. CASE ReadRedis(w)
  BY <1>1, <1>2, <1>3, <1>4, <1>6 DEF ReadRedis, storeVars
<1>7. CASE ReadDb(w)
  BY <1>1, <1>2, <1>3, <1>5, <1>7 DEF ReadDb, storeVars
<1>8. CASE Repopulate(w)
  BY <1>1, <1>2, <1>3, <1>8 DEF Repopulate
<1> QED
  BY <1>2, <1>6, <1>7, <1>8

LEMMA WriteKeeps ==
  ASSUME OneTask, StatementsRun, StoreInv, LedgerInv, NEW w \in Workers,
         WriteRedis(w) \/ WriteDb(w)
  PROVE  LedgerInv' /\ [Ledger!LedgerNext]_db
<1>1. /\ task \in [Workers -> Task] /\ task[w] \in Task
      /\ \A kind \in {"redis", "db", "crash"} : ~Fails(kind)
      /\ Clean(task[w], redis, db) /\ Follows(db, task[w].buf)
  BY DEF StoreInv, TasksTidy, LedgerInv, Clean, WriteRedis, WriteDb, Fails, StatementsRun
<1>2. CASE WriteRedis(w)
  <2> DEFINE t == [task[w] EXCEPT !.pc = "write_db"]
  <2>1. task' = [task EXCEPT ![w] = t] /\ redis' = task[w].buf /\ db' = db
    BY <1>1, <1>2 DEF WriteRedis, GoTo
  <2>2. t.pc = "write_db" /\ t.buf = task[w].buf
    BY <1>1 DEF Task
  <2> HIDE DEF t
  <2>3. Clean(t, redis', db')
    BY <1>1, <2>1, <2>2 DEF Clean
  <2> QED
    BY <1>1, <2>1, <2>3, CleanStep
<1>3. CASE WriteDb(w)
  <2>1. db' = task[w].buf /\ redis' = redis
    BY <1>1, <1>3 DEF WriteDb
  <2>2. redis' \in {Missing, db'}
    BY <1>1, <1>3, <2>1 DEF WriteDb, Clean
  <2>3. Ledger!LedgerNext
    BY <1>1, <2>1, FollowsIsStep
  <2>4. PICK t : task' = [task EXCEPT ![w] = t] /\ t.pc \in {"read_redis", "pulled"}
    <3> DEFINE t1 == [task[w] EXCEPT !.pc = "read_redis", !.goal = "caller",
                                     !.buf = Missing]
               t2 == [task[w] EXCEPT !.pc = "pulled"]
    <3>1. t1.pc = "read_redis" /\ t2.pc = "pulled"
      BY <1>1 DEF Task
    <3>2. task' = [task EXCEPT ![w] = t1] \/ task' = [task EXCEPT ![w] = t2]
      BY <1>1, <1>3 DEF WriteDb, GoTo
    <3> HIDE DEF t1, t2
    <3> QED
      BY <3>1, <3>2
  <2>5. Clean(t, redis', db')
    BY <2>2, <2>4 DEF Clean
  <2> QED
    BY <1>1, <2>3, <2>4, <2>5, CleanStep
<1> QED
  BY <1>2, <1>3

(* The steps of a task that come before it reads or after it wrote. *)
LEMMA OtherKeeps ==
  ASSUME OneTask, StatementsRun, StoreInv, LedgerInv, NEW w \in Workers,
         \/ \E e \in EventIds : Deliver(w, e)
         \/ \E job \in PullJobs : StartPull(w, job)
         \/ StartRead(w)
         \/ ReplayGet(w) \/ ReplaySet(w) \/ HttpReply(w) \/ HttpFail(w)
         \/ Finish(w) \/ Crash(w)
  PROVE  LedgerInv' /\ db' = db
<1> DEFINE Quiet == {"idle", "replay_get", "replay_set", "http", "read_redis"}
<1>1. /\ task \in [Workers -> Task] /\ task[w] \in Task
      /\ \A kind \in {"redis", "db", "crash"} : ~Fails(kind)
  BY DEF StoreInv, TasksTidy, Fails, StatementsRun
<1>2. UNCHANGED <<redis, db>> /\ task[w].pc # "write_db"
  BY <1>1 DEF Deliver, StartPull, StartRead, ReplayGet, ReplaySet, HttpReply, HttpFail, Finish,
              Crash, storeVars
<1>3. Idle = [pc |-> "idle", job |-> "none", evt |-> 0, attempt |-> 0, goal |-> "none",
              raw |-> Missing, buf |-> Missing]
  BY DEF Idle
<1>4. ASSUME NEW t, task' = [task EXCEPT ![w] = t], t.pc \in Quiet
      PROVE  LedgerInv'
  BY <1>1, <1>2, <1>4, Elsewhere
<1>5. ASSUME NEW e \in EventIds, Deliver(w, e) PROVE LedgerInv'
  <2> DEFINE t == [Idle EXCEPT !.pc = "replay_get", !.job = "webhook",
                               !.evt = e, !.raw = erpLog[e]]
  <2>1. task' = [task EXCEPT ![w] = t] /\ t.pc = "replay_get"
    BY <1>3, <1>5 DEF Deliver
  <2> HIDE DEF t
  <2> QED
    BY <1>4, <2>1
<1>6. ASSUME NEW job \in PullJobs, StartPull(w, job) PROVE LedgerInv'
  <2> DEFINE t == [Idle EXCEPT !.pc = "http", !.job = job, !.attempt = 1]
  <2>1. task' = [task EXCEPT ![w] = t] /\ t.pc = "http"
    BY <1>3, <1>6 DEF StartPull
  <2> HIDE DEF t
  <2> QED
    BY <1>4, <2>1
<1>7. CASE task' = [task EXCEPT ![w] = Idle]
  BY <1>2, <1>3, <1>4, <1>7
<1>8. CASE ApplyWebhook(w) \/ GoTo(w, "replay_set")
  <2> DEFINE t1 == [task[w] EXCEPT !.pc = "read_redis", !.goal = "apply"]
             t2 == [task[w] EXCEPT !.pc = "replay_set"]
  <2>1. t1.pc = "read_redis" /\ t2.pc = "replay_set"
    BY <1>1 DEF Task
  <2>2. task' = [task EXCEPT ![w] = t1] \/ task' = [task EXCEPT ![w] = t2]
    BY <1>1, <1>8 DEF ApplyWebhook, GoTo
  <2> HIDE DEF t1, t2
  <2> QED
    BY <1>2, <1>4, <2>1, <2>2
<1>9. CASE HttpReply(w)
  <2>1. PICK r \in Report :
          task' = [task EXCEPT ![w].pc = "read_redis", ![w].goal = "apply", ![w].raw = r]
    BY <1>9 DEF HttpReply
  <2> DEFINE t == [task[w] EXCEPT !.pc = "read_redis", !.goal = "apply", !.raw = r]
  <2>2. task' = [task EXCEPT ![w] = t]
    BY <1>1, <2>1
  <2>3. t.pc = "read_redis"
    BY <1>1 DEF Task
  <2> HIDE DEF t
  <2> QED
    BY <1>2, <1>4, <2>2, <2>3
<1>10. CASE HttpFail(w)
  <2> DEFINE t1 == [task[w] EXCEPT !.attempt = @ + 1]
             t2 == [task[w] EXCEPT !.pc = "read_redis", !.goal = "existing"]
  <2>1. t1.pc = "http" /\ t2.pc = "read_redis"
    BY <1>1, <1>10 DEF Task, HttpFail
  <2>2. task' = [task EXCEPT ![w] = t1] \/ task' = [task EXCEPT ![w] = t2]
    BY <1>1, <1>10 DEF HttpFail
  <2> HIDE DEF t1, t2
  <2> QED
    BY <1>2, <1>4, <2>1, <2>2
<1>11. CASE StartRead(w)
  <2> DEFINE t == [Idle EXCEPT !.pc = "read_redis", !.job = "read", !.goal = "caller"]
  <2>1. task' = [task EXCEPT ![w] = t] /\ t.pc = "read_redis"
    BY <1>3, <1>11 DEF StartRead
  <2> HIDE DEF t
  <2> QED
    BY <1>2, <1>4, <2>1
<1> HIDE DEF Quiet
<1> QED
  BY <1>1, <1>2, <1>5, <1>6, <1>7, <1>8, <1>9, <1>10, <1>11
     DEF ReplayGet, ReplaySet, Finish, Crash

LEMMA LedgerStep ==
  ASSUME OneTask, StatementsRun, StoreInv, LedgerInv, [Next]_vars
  PROVE  LedgerInv' /\ [Ledger!LedgerNext]_db
<1>1. CASE Environment \/ UNCHANGED vars
  <2>1. task' = task /\ db' = db /\ redis' \in {redis, Missing}
    BY <1>1 DEF Environment, ErpChange, Evict, RedisFlush, vars, storeVars, inputVars
  <2> QED
    BY <2>1, EnvironmentKeeps
<1>2. ASSUME NEW w \in Workers,
             \/ \E e \in EventIds : Deliver(w, e)
             \/ \E job \in PullJobs : StartPull(w, job)
             \/ StartRead(w)
             \/ ReplayGet(w) \/ ReplaySet(w) \/ HttpReply(w) \/ HttpFail(w)
             \/ Finish(w) \/ Crash(w)
      PROVE  LedgerInv' /\ db' = db
  BY <1>2, OtherKeeps
<1>3. ASSUME NEW w \in Workers, ReadRedis(w) \/ ReadDb(w) \/ Repopulate(w)
      PROVE  LedgerInv' /\ db' = db
  BY <1>3, ReadKeeps
<1>4. ASSUME NEW w \in Workers, WriteRedis(w) \/ WriteDb(w)
      PROVE  LedgerInv' /\ [Ledger!LedgerNext]_db
  BY <1>4, WriteKeeps
<1> QED
  BY <1>1, <1>2, <1>3, <1>4 DEF Next, Step

LEMMA LedgerInvariant ==
  ASSUME OneTask, StatementsRun
  PROVE  Spec => [](StoreInv /\ LedgerInv)
<1>1. Init => StoreInv /\ LedgerInv
  BY StoreInit, LedgerInitially
<1>2. StoreInv /\ LedgerInv /\ [Next]_vars => (StoreInv /\ LedgerInv)'
  BY StoreInvKept, LedgerStep
<1> QED
  BY <1>1, <1>2, PTL DEF Spec

(* The key of Redis is the row or absent except between the two writes of   *)
(* set_billing_state: an expiry of the key is never noticed by a reader.    *)
THEOREM LayersStayEqual ==
  ASSUME OneTask, StatementsRun
  PROVE  Spec => []LayersAgree
<1>1. LedgerInv => LayersAgree
  BY DEF LedgerInv
<1> QED
  BY LedgerInvariant, <1>1, PTL

(* The store implements the ledger: every write of the row is one report    *)
(* applied whole to the state the previous one left, or the fallback of a   *)
(* tenant nothing is known about.                                           *)
THEOREM StoreImplementsLedger ==
  ASSUME OneTask, StatementsRun
  PROVE  Spec => ImplementsLedger
<1>1. Init => Ledger!LedgerInit
  BY DEF Init, Ledger!LedgerInit
<1>2. StoreInv /\ LedgerInv /\ [Next]_vars => [Ledger!LedgerNext]_db
  BY LedgerStep
<1> QED
  BY LedgerInvariant, <1>1, <1>2, PTL DEF Spec, ImplementsLedger, Ledger!LedgerSpec

-----------------------------------------------------------------------------
(* Under the same hypotheses no version goes back: what is stored follows from the  *)
(* row, and what is published is the row.                                         *)

LEMMA FollowsRises ==
  ASSUME NEW old \in StateRecord \cup {Missing}, NEW new \in StateRecord, Follows(old, new)
  PROVE  Version(old) \in Nat /\ Version(new) \in Nat /\ Version(old) <= Version(new)
<1>1. Version(new) = new.version /\ new.version \in Nat
  BY BillingAssumption DEF Version, StateRecord
<1>2. CASE old = Missing
  BY <1>1, <1>2 DEF Version
<1>3. CASE old # Missing
  <2>1. old \in StateRecord /\ Version(old) = old.version /\ old.version \in Nat
    BY <1>3 DEF Version, StateRecord
  <2>2. PICK proposed \in States, plan \in Plans :
          new = [status |-> ApplyEvent(old.status, old.version, proposed).status, plan |-> plan,
                 version |-> ApplyEvent(old.status, old.version, proposed).version]
    BY <1>3 DEF Follows
  <2>3. new.version \in {old.version, old.version + 1}
    BY <2>2 DEF ApplyEvent
  <2> QED
    BY <1>1, <2>1, <2>3
<1> QED
  BY <1>2, <1>3

(* What has been published is no newer than the row, and a task that is done with *)
(* the store holds the row as it is.                                              *)
HoldsRow(t) == t.pc \in {"got", "pulled"} => t.buf = db
PublishInv == published <= Version(db) /\ \A w \in Workers : HoldsRow(task[w])

LEMMA PublishKept ==
  ASSUME StoreInv, PublishInv, NEW w \in Workers, NEW t, task' = [task EXCEPT ![w] = t],
         HoldsRow(t), UNCHANGED <<db, published>>
  PROVE  PublishInv' /\ published <= published'
<1>1. \A v \in Workers : task'[v] = IF v = w THEN t ELSE task[v]
  BY DEF StoreInv, TasksTidy
<1>2. published \in Nat /\ Version(db') = Version(db)
  BY DEF StoreInv, TypeOK, Version
<1> QED
  BY <1>1, <1>2 DEF PublishInv, HoldsRow

LEMMA PublishRead ==
  ASSUME OneTask, StatementsRun, StoreInv, LedgerInv, PublishInv, NEW w \in Workers,
         ReadRedis(w) \/ ReadDb(w) \/ Repopulate(w)
  PROVE  PublishInv' /\ published <= published'
<1>1. /\ task[w] \in Task /\ UNCHANGED <<db, published>>
      /\ redis \in {Missing, db} \/ task[w].pc = "repopulate"
      /\ task[w].pc = "repopulate" => task[w].buf = db
      /\ \A kind \in {"redis", "db"} : ~Fails(kind)
  BY DEF StoreInv, TasksTidy, LedgerInv, Clean, ReadRedis, ReadDb, Repopulate, storeVars,
         Fails, StatementsRun
<1>2. ASSUME GotState(w, db) PROVE PublishInv' /\ published <= published'
  <2>1. PICK t : task' = [task EXCEPT ![w] = t] /\ HoldsRow(t)
    <3> DEFINE t1 == [task[w] EXCEPT !.pc = "write_redis", !.goal = "apply", !.raw = Missing,
                                     !.buf = Merge(db, task[w].raw)]
               t2 == [task[w] EXCEPT !.pc = "write_redis", !.goal = "fallback", !.raw = Missing,
                                     !.buf = FreeFallback]
               t3 == [task[w] EXCEPT !.pc = "pulled", !.buf = db]
               t4 == [task[w] EXCEPT !.pc = "got", !.buf = db]
    <3>1. HoldsRow(t1) /\ HoldsRow(t2) /\ HoldsRow(t3) /\ HoldsRow(t4)
      BY <1>1 DEF HoldsRow, Task
    <3>2. \/ task' = [task EXCEPT ![w] = t1] \/ task' = [task EXCEPT ![w] = t2]
          \/ task' = [task EXCEPT ![w] = t3] \/ task' = [task EXCEPT ![w] = t4]
      BY <1>1, <1>2 DEF GotState, Persist
    <3> HIDE DEF t1, t2, t3, t4
    <3> QED
      BY <3>1, <3>2
  <2> QED
    BY <1>1, <2>1, PublishKept
<1>3. ASSUME GoTo(w, "read_db") \/ task' = [task EXCEPT ![w].pc = "repopulate", ![w].buf = db]
      PROVE  PublishInv' /\ published <= published'
  <2> DEFINE t1 == [task[w] EXCEPT !.pc = "read_db"]
             t2 == [task[w] EXCEPT !.pc = "repopulate", !.buf = db]
  <2>1. HoldsRow(t1) /\ HoldsRow(t2)
    BY <1>1 DEF HoldsRow, Task
  <2>2. task' = [task EXCEPT ![w] = t1] \/ task' = [task EXCEPT ![w] = t2]
    BY <1>1, <1>3 DEF GoTo
  <2> HIDE DEF t1, t2
  <2> QED
    BY <1>1, <2>1, <2>2, PublishKept
<1>4. CASE ReadRedis(w)
  BY <1>1, <1>2, <1>3, <1>4 DEF ReadRedis
<1>5. CASE ReadDb(w)
  BY <1>1, <1>2, <1>3, <1>5 DEF ReadDb
<1>6. CASE Repopulate(w)
  BY <1>1, <1>2, <1>6 DEF Repopulate
<1> QED
  BY <1>4, <1>5, <1>6

LEMMA PublishWrite ==
  ASSUME OneTask, StatementsRun, StoreInv, LedgerInv, PublishInv, NEW w \in Workers, WriteDb(w)
  PROVE  PublishInv' /\ published <= published' /\ Version(db) <= Version(db')
<1>1. /\ task \in [Workers -> Task] /\ task[w] \in Task /\ task[w].buf \in StateRecord
      /\ db \in StateRecord \cup {Missing} /\ published \in Nat /\ published' = published
      /\ Follows(db, task[w].buf) /\ db' = task[w].buf
  <2>1. task \in [Workers -> Task] /\ task[w] \in Task /\ Tidy(task[w]) /\ task[w].pc = "write_db"
    BY DEF StoreInv, TasksTidy, WriteDb
  <2>2. task[w].buf \in StateRecord
    BY <2>1 DEF Tidy, Task
  <2>3. ~Fails("db") /\ db' = task[w].buf /\ published' = published
    BY DEF WriteDb, Fails, StatementsRun
  <2> QED
    BY <2>1, <2>2, <2>3 DEF StoreInv, TypeOK, LedgerInv, Clean
<1>2. Version(db) \in Nat /\ Version(db') \in Nat /\ Version(db) <= Version(db')
  BY <1>1, FollowsRises
<1>3. PICK t : task' = [task EXCEPT ![w] = t] /\ (t.pc \in {"got", "pulled"} => t.buf = db')
  <2> DEFINE t1 == [task[w] EXCEPT !.pc = "read_redis", !.goal = "caller", !.buf = Missing]
             t2 == [task[w] EXCEPT !.pc = "pulled"]
  <2>1. t1.pc = "read_redis" /\ t2.pc = "pulled" /\ t2.buf = db'
    BY <1>1 DEF Task
  <2>2. task' = [task EXCEPT ![w] = t1] \/ task' = [task EXCEPT ![w] = t2]
    BY <1>1 DEF WriteDb, GoTo
  <2> HIDE DEF t1, t2
  <2> QED
    BY <2>1, <2>2
<1>4. \A v \in Workers : task'[v] = t
  BY <1>1, <1>3 DEF OneTask
<1>5. published <= Version(db)
  BY DEF PublishInv
<1>6. published <= Version(db')
  BY <1>1, <1>2, <1>5
<1>7. PublishInv'
  BY <1>1, <1>3, <1>4, <1>6 DEF PublishInv, HoldsRow
<1> QED
  BY <1>1, <1>2, <1>7

LEMMA PublishFinish ==
  ASSUME StoreInv, PublishInv, NEW w \in Workers, Finish(w)
  PROVE  PublishInv' /\ published <= published' /\ db' = db
<1>1. /\ task \in [Workers -> Task] /\ Tidy(task[w]) /\ HoldsRow(task[w]) /\ db' = db
      /\ task' = [task EXCEPT ![w] = Idle] /\ published \in Nat /\ published <= Version(db)
  BY DEF StoreInv, TypeOK, TasksTidy, PublishInv, Finish, storeVars
<1>2. published' = published \/ published' = Version(db)
  BY <1>1 DEF Finish, HoldsRow, Tidy, Version
<1>3. published <= published' /\ published' <= Version(db')
  <2>1. db \in StateRecord \cup {Missing}
    BY DEF StoreInv, TypeOK
  <2>2. Version(db) \in Nat
    BY <2>1 DEF Version, StateRecord
  <2>3. Version(db') = Version(db)
    BY <1>1 DEF Version
  <2> QED
    BY <1>1, <1>2, <2>2, <2>3
<1>4. Idle.pc = "idle"
  BY DEF Idle
<1>5. \A v \in Workers : HoldsRow(task[v])'
  BY <1>1, <1>4 DEF PublishInv, HoldsRow
<1> QED
  BY <1>1, <1>3, <1>5 DEF PublishInv

(* The steps of a task that come before it reads, and the first of its two writes.  *)
LEMMA PublishElse ==
  ASSUME StoreInv, PublishInv, NEW w \in Workers,
         \/ \E e \in EventIds : Deliver(w, e)
         \/ \E job \in PullJobs : StartPull(w, job)
         \/ StartRead(w)
         \/ ReplayGet(w) \/ ReplaySet(w) \/ HttpReply(w) \/ HttpFail(w)
         \/ WriteRedis(w) \/ Crash(w)
  PROVE  PublishInv' /\ published <= published' /\ db' = db
<1> DEFINE Early == {"idle", "replay_get", "replay_set", "http", "read_redis", "write_db"}
<1>1. task \in [Workers -> Task] /\ task[w] \in Task /\ UNCHANGED <<db, published>>
  BY DEF StoreInv, TasksTidy, Deliver, StartPull, StartRead, ReplayGet, ReplaySet, HttpReply,
         HttpFail, WriteRedis, Crash, storeVars
<1>2. Idle = [pc |-> "idle", job |-> "none", evt |-> 0, attempt |-> 0, goal |-> "none",
              raw |-> Missing, buf |-> Missing]
  BY DEF Idle
<1>3. ASSUME NEW t, task' = [task EXCEPT ![w] = t], t.pc \in Early
      PROVE  PublishInv' /\ published <= published' /\ db' = db
  <2>1. HoldsRow(t)
    BY <1>3 DEF HoldsRow
  <2> QED
    BY <1>1, <1>3, <2>1, PublishKept
<1>4. ASSUME NEW e \in EventIds, Deliver(w, e) PROVE PublishInv' /\ published <= published' /\ db' = db
  <2> DEFINE t == [Idle EXCEPT !.pc = "replay_get", !.job = "webhook", !.evt = e, !.raw = erpLog[e]]
  <2>1. task' = [task EXCEPT ![w] = t] /\ t.pc = "replay_get"
    BY <1>2, <1>4 DEF Deliver
  <2> HIDE DEF t
  <2> QED
    BY <1>3, <2>1
<1>5. ASSUME NEW job \in PullJobs, StartPull(w, job) PROVE PublishInv' /\ published <= published' /\ db' = db
  <2> DEFINE t == [Idle EXCEPT !.pc = "http", !.job = job, !.attempt = 1]
  <2>1. task' = [task EXCEPT ![w] = t] /\ t.pc = "http"
    BY <1>2, <1>5 DEF StartPull
  <2> HIDE DEF t
  <2> QED
    BY <1>3, <2>1
<1>6. CASE StartRead(w)
  <2> DEFINE t == [Idle EXCEPT !.pc = "read_redis", !.job = "read", !.goal = "caller"]
  <2>1. task' = [task EXCEPT ![w] = t] /\ t.pc = "read_redis"
    BY <1>2, <1>6 DEF StartRead
  <2> HIDE DEF t
  <2> QED
    BY <1>3, <2>1
<1>7. CASE task' = [task EXCEPT ![w] = Idle]
  BY <1>2, <1>3, <1>7
<1>8. CASE ApplyWebhook(w) \/ GoTo(w, "replay_set") \/ GoTo(w, "write_db")
  <2> DEFINE t1 == [task[w] EXCEPT !.pc = "read_redis", !.goal = "apply"]
             t2 == [task[w] EXCEPT !.pc = "replay_set"]
             t3 == [task[w] EXCEPT !.pc = "write_db"]
  <2>1. t1.pc = "read_redis" /\ t2.pc = "replay_set" /\ t3.pc = "write_db"
    BY <1>1 DEF Task
  <2>2. \/ task' = [task EXCEPT ![w] = t1] \/ task' = [task EXCEPT ![w] = t2]
        \/ task' = [task EXCEPT ![w] = t3]
    BY <1>1, <1>8 DEF ApplyWebhook, GoTo
  <2> HIDE DEF t1, t2, t3
  <2> QED
    BY <1>3, <2>1, <2>2
<1>9. CASE HttpReply(w)
  <2>1. PICK r \in Report :
          task' = [task EXCEPT ![w].pc = "read_redis", ![w].goal = "apply", ![w].raw = r]
    BY <1>9 DEF HttpReply
  <2> DEFINE t == [task[w] EXCEPT !.pc = "read_redis", !.goal = "apply", !.raw = r]
  <2>2. task' = [task EXCEPT ![w] = t] /\ t.pc = "read_redis"
    BY <1>1, <2>1 DEF Task
  <2> HIDE DEF t
  <2> QED
    BY <1>3, <2>2
<1>10. CASE HttpFail(w)
  <2> DEFINE t1 == [task[w] EXCEPT !.attempt = @ + 1]
             t2 == [task[w] EXCEPT !.pc = "read_redis", !.goal = "existing"]
  <2>1. t1.pc = "http" /\ t2.pc = "read_redis"
    BY <1>1, <1>10 DEF Task, HttpFail
  <2>2. task' = [task EXCEPT ![w] = t1] \/ task' = [task EXCEPT ![w] = t2]
    BY <1>1, <1>10 DEF HttpFail
  <2> HIDE DEF t1, t2
  <2> QED
    BY <1>3, <2>1, <2>2
<1> HIDE DEF Early
<1> QED
  BY <1>1, <1>4, <1>5, <1>6, <1>7, <1>8, <1>9, <1>10 DEF ReplayGet, ReplaySet, WriteRedis, Crash

LEMMA PublishStep ==
  ASSUME OneTask, StatementsRun, StoreInv, LedgerInv, PublishInv, [Next]_vars
  PROVE  PublishInv' /\ published <= published' /\ (db' = db \/ Version(db) <= Version(db'))
<1>1. CASE Environment \/ UNCHANGED vars
  <2>1. task' = task /\ db' = db /\ published' = published
    BY <1>1 DEF Environment, ErpChange, Evict, RedisFlush, vars, storeVars, inputVars
  <2>2. published \in Nat
    BY DEF StoreInv, TypeOK
  <2> QED
    BY <2>1, <2>2 DEF PublishInv, HoldsRow, Version
<1>2. ASSUME NEW w \in Workers, ReadRedis(w) \/ ReadDb(w) \/ Repopulate(w)
      PROVE  PublishInv' /\ published <= published' /\ db' = db
  <2>1. db' = db
    BY <1>2 DEF ReadRedis, ReadDb, Repopulate, storeVars
  <2> QED
    BY <1>2, <2>1, PublishRead
<1>3. ASSUME NEW w \in Workers, WriteDb(w)
      PROVE  PublishInv' /\ published <= published' /\ Version(db) <= Version(db')
  BY <1>3, PublishWrite
<1>4. ASSUME NEW w \in Workers, Finish(w)
      PROVE  PublishInv' /\ published <= published' /\ db' = db
  BY <1>4, PublishFinish
<1>5. ASSUME NEW w \in Workers,
             \/ \E e \in EventIds : Deliver(w, e)
             \/ \E job \in PullJobs : StartPull(w, job)
             \/ StartRead(w)
             \/ ReplayGet(w) \/ ReplaySet(w) \/ HttpReply(w) \/ HttpFail(w)
             \/ WriteRedis(w) \/ Crash(w)
      PROVE  PublishInv' /\ published <= published' /\ db' = db
  BY <1>5, PublishElse
<1> QED
  BY <1>1, <1>2, <1>3, <1>4, <1>5 DEF Next, Step

LEMMA PublishInvariant ==
  ASSUME OneTask, StatementsRun
  PROVE  Spec => [](StoreInv /\ LedgerInv /\ PublishInv)
<1>1. Init => PublishInv
  BY DEF Init, PublishInv, HoldsRow, Version, Idle
<1>2. StoreInv /\ LedgerInv /\ PublishInv /\ [Next]_vars => PublishInv'
  BY PublishStep
<1> QED
  BY LedgerInvariant, <1>1, <1>2, PTL DEF Spec

(* Subscribers of the billing channel never see the version of the tenant go back:  *)
(* each publication is of the row, whose version only grows.                       *)
THEOREM PublishedRises ==
  ASSUME OneTask, StatementsRun
  PROVE  Spec => PublishedNeverRollsBack
<1>1. StoreInv /\ LedgerInv /\ PublishInv /\ [Next]_vars => [published' >= published]_published
  <2> SUFFICES ASSUME StoreInv, LedgerInv, PublishInv, [Next]_vars PROVE published' >= published
    OBVIOUS
  <2>1. published <= published' /\ published \in Nat /\ published' \in Nat
    BY PublishStep, StoreInvKept DEF StoreInv, TypeOK
  <2> QED
    BY <2>1
<1> QED
  BY PublishInvariant, <1>1, PTL DEF Spec, PublishedNeverRollsBack

(* models/billing.py:22 is right as long as no two tasks overlap: the version of the  *)
(* row does not go back.                                                          *)
THEOREM StoredVersionRises ==
  ASSUME OneTask, StatementsRun
  PROVE  Spec => VersionNeverRollsBack
<1>1. StoreInv /\ LedgerInv /\ PublishInv /\ [Next]_vars => [Version(db') >= Version(db)]_db
  <2> SUFFICES ASSUME StoreInv, LedgerInv, PublishInv, [Next]_vars, db' # db
               PROVE  Version(db') >= Version(db)
    OBVIOUS
  <2>1. db \in StateRecord \cup {Missing} /\ db' \in StateRecord \cup {Missing}
    BY StoreInvKept DEF StoreInv, TypeOK
  <2>2. Version(db) \in Nat /\ Version(db') \in Nat
    BY <2>1 DEF Version, StateRecord
  <2>3. Version(db) <= Version(db')
    BY PublishStep
  <2> QED
    BY <2>2, <2>3
<1> QED
  BY PublishInvariant, <1>1, PTL DEF Spec, VersionNeverRollsBack

-----------------------------------------------------------------------------
(* The replay guard of process_webhook, for any number of workers, events,   *)
(* deliveries and failures: as long as the sender does not overlap its own   *)
(* deliveries of an event, the event is stored once, and once more at most   *)
(* for every failure.                                                        *)

(* The inductive invariant.  An event that passed the guard has either been *)
(* marked or used up a failure, and is stored only by the one task that     *)
(* holds it.                                                                *)

ReadLabels == {"read_redis", "read_db", "repopulate"}

(* A task past the guard that has not written the row yet. *)
Applying(t) ==
  /\ t.evt # 0
  /\ \/ t.pc \in {"write_redis", "write_db"}
     \/ t.pc \in ReadLabels /\ t.goal = "apply"

Orderly(t) ==
  /\ t.evt # 0 <=> t.job = "webhook"
  /\ t.evt # 0 => t.pc # "http"
  /\ t.evt # 0 /\ t.pc \in ReadLabels => t.goal \in {"apply", "caller"}

Careful(t) == Orderly(t) /\ (t.pc = "replay_set" => t.evt \notin seen)

InFlight(e) == \E w \in Workers : task[w].evt = e /\ Applying(task[w])

Allowance(e) == faults + (IF e \in seen THEN 1 ELSE 0)

Budget(e) ==
  /\ applied[e] <= Allowance(e)
  /\ InFlight(e) => applied[e] < Allowance(e)

OneHolder ==
  \A v, w \in Workers : v # w /\ task[v].evt # 0 => task[v].evt # task[w].evt

ReplayInv ==
  /\ OneHolder
  /\ \A w \in Workers : Careful(task[w])
  /\ \A e \in EventIds : Budget(e)

(* A step of w that neither marks nor stores an event. *)
LEMMA QuietStep ==
  ASSUME StoreInv, ReplayInv, NEW w \in Workers, NEW t \in Task,
         task' = [task EXCEPT ![w] = t],
         t.evt \in {0, task[w].evt}, Careful(t),
         Applying(t) => Applying(task[w]) \/ faults' = faults + 1,
         faults' \in {faults, faults + 1}, UNCHANGED <<seen, applied>>
  PROVE  ReplayInv'
<1>1. /\ task \in [Workers -> Task] /\ faults \in Nat
      /\ applied \in [EventIds -> Nat]
  BY BillingAssumption DEF StoreInv, TypeOK
<1>2. \A v \in Workers : task'[v] = IF v = w THEN t ELSE task[v]
  BY <1>1
<1>3. OneHolder'
  BY <1>2 DEF ReplayInv, OneHolder
<1>4. \A v \in Workers : Careful(task[v])'
  BY <1>2 DEF ReplayInv, Careful, Orderly
<1>5. ASSUME NEW e \in EventIds PROVE Budget(e)'
  <2>1. InFlight(e)' => InFlight(e) \/ faults' = faults + 1
    BY <1>2 DEF InFlight, Applying, EventIds
  <2>2. Budget(e) /\ applied[e] \in Nat
    BY <1>1 DEF ReplayInv
  <2> QED
    BY <1>1, <2>1, <2>2 DEF Budget, Allowance
<1> QED
  BY <1>3, <1>4, <1>5 DEF ReplayInv

(* The step of GetState that a read ends with. *)
LEMMA GotStateQuiet ==
  ASSUME StoreInv, ReplayInv, NEW w \in Workers, task[w].pc \in ReadLabels,
         NEW r, Sound(r), GotState(w, r),
         faults' \in {faults, faults + 1}, UNCHANGED <<seen, applied>>
  PROVE  ReplayInv'
<1> DEFINE t == task'[w]
<1>1. TasksTidy /\ TasksTidy' /\ task \in [Workers -> Task]
  BY GotStateTidy DEF StoreInv, ReadLabels, TasksTidy
<1>2. t \in Task
  BY <1>1 DEF TasksTidy
<1>3. task' = [task EXCEPT ![w] = t]
  BY <1>1 DEF GotState, Persist
<1>4. /\ t.evt = task[w].evt /\ t.job = task[w].job
      /\ t.pc \in {"write_redis", "pulled", "got"}
      /\ t.pc = "write_redis" => task[w].goal \in {"apply", "existing"}
  BY <1>1 DEF GotState, Persist, Task
<1>5. Careful(task[w])
  BY DEF ReplayInv
<1>6. Careful(t) /\ (Applying(t) => Applying(task[w]))
  BY <1>4, <1>5 DEF Careful, Orderly, Applying, ReadLabels
<1> HIDE DEF t
<1> QED
  BY <1>2, <1>3, <1>4, <1>6, QuietStep

-----------------------------------------------------------------------------
(* The steps that matter. *)

LEMMA DeliverReplay ==
  ASSUME SenderWaits, StoreInv, ReplayInv, NEW w \in Workers, NEW e \in EventIds,
         Deliver(w, e)
  PROVE  ReplayInv'
<1> DEFINE t == [Idle EXCEPT !.pc = "replay_get", !.job = "webhook",
                             !.evt = e, !.raw = erpLog[e]]
<1>1. task \in [Workers -> Task] /\ task' = [task EXCEPT ![w] = t]
  BY DEF StoreInv, TypeOK, Deliver
<1>2. t.evt = e /\ t.pc = "replay_get" /\ t.job = "webhook"
  BY DEF Idle
<1> HIDE DEF t
<1>3. \A v \in Workers : task'[v] = IF v = w THEN t ELSE task[v]
  BY <1>1
<1>4. \A v \in Workers : task[v].evt # e
  BY DEF Deliver
<1>5. OneHolder'
  BY <1>2, <1>3, <1>4 DEF ReplayInv, OneHolder
<1>6. \A v \in Workers : Careful(task[v])'
  BY <1>2, <1>3 DEF ReplayInv, Careful, Orderly, Deliver, storeVars, EventIds, ReadLabels
<1>7. ASSUME NEW f \in EventIds PROVE Budget(f)'
  <2>1. InFlight(f)' => InFlight(f)
    BY <1>2, <1>3 DEF InFlight, Applying, ReadLabels
  <2> QED
    BY <2>1 DEF ReplayInv, Budget, Allowance, Deliver, storeVars
<1> QED
  BY <1>5, <1>6, <1>7 DEF ReplayInv

LEMMA ReplayGetReplay ==
  ASSUME StoreInv, ReplayInv, NEW w \in Workers, ReplayGet(w)
  PROVE  ReplayInv'
<1>1. /\ task \in [Workers -> Task] /\ task[w] \in Task /\ task[w].pc = "replay_get"
      /\ Careful(task[w]) /\ UNCHANGED <<seen, applied>>
  BY DEF StoreInv, TypeOK, ReplayInv, ReplayGet, storeVars
<1>2. CASE task' = [task EXCEPT ![w] = Idle] /\ UNCHANGED faults
  <2>1. Idle \in Task /\ Careful(Idle) /\ Idle.evt = 0 /\ ~Applying(Idle)
    BY IdleTidy DEF Idle, Careful, Orderly, Applying
  <2> QED
    BY <1>1, <1>2, <2>1, QuietStep
<1>3. CASE task[w].evt \notin seen /\ GoTo(w, "replay_set") /\ UNCHANGED faults
  <2> DEFINE t == [task[w] EXCEPT !.pc = "replay_set"]
  <2>1. t \in Task
    BY <1>1 DEF Task, Labels
  <2>2. t.evt = task[w].evt /\ Careful(t) /\ ~Applying(t)
    BY <1>1, <1>3 DEF Task, Careful, Orderly, Applying, ReadLabels
  <2>3. task' = [task EXCEPT ![w] = t]
    BY <1>1, <1>3 DEF GoTo
  <2> HIDE DEF t
  <2> QED
    BY <1>1, <1>3, <2>1, <2>2, <2>3, QuietStep
<1>4. CASE Fails("redis") /\ ApplyWebhook(w)
  <2> DEFINE t == [task[w] EXCEPT !.pc = "read_redis", !.goal = "apply"]
  <2>1. t \in Task
    BY <1>1 DEF Task, Labels, Goals
  <2>2. t.evt = task[w].evt /\ Careful(t)
    BY <1>1 DEF Task, Careful, Orderly, ReadLabels
  <2>3. task' = [task EXCEPT ![w] = t]
    BY <1>1, <1>4 DEF ApplyWebhook
  <2>4. faults' = faults + 1
    BY <1>4 DEF Fails
  <2> HIDE DEF t
  <2> QED
    BY <1>1, <2>1, <2>2, <2>3, <2>4, QuietStep
<1> QED
  BY <1>2, <1>3, <1>4 DEF ReplayGet

LEMMA ReplaySetReplay ==
  ASSUME StoreInv, ReplayInv, NEW w \in Workers, ReplaySet(w)
  PROVE  ReplayInv'
<1> DEFINE t == [task[w] EXCEPT !.pc = "read_redis", !.goal = "apply"]
           e == task[w].evt
<1>1. /\ task \in [Workers -> Task] /\ task[w] \in Task /\ task[w].pc = "replay_set"
      /\ Careful(task[w]) /\ UNCHANGED applied
      /\ faults \in Nat /\ applied \in [EventIds -> Nat]
  BY BillingAssumption DEF StoreInv, TypeOK, ReplayInv, ReplaySet
<1>2. task[w].job = "webhook" /\ e \in EventIds /\ e # 0 /\ e \notin seen
  BY <1>1 DEF StoreInv, TasksTidy, Tidy, Careful, Orderly
<1>3. t \in Task
  BY <1>1 DEF Task, Labels, Goals
<1>4. /\ t.evt = e /\ t.job = "webhook" /\ t.pc = "read_redis" /\ t.goal = "apply"
  BY <1>1, <1>2 DEF Task
<1>5. task' = [task EXCEPT ![w] = t]
  BY <1>1 DEF ReplaySet, ApplyWebhook
<1> HIDE DEF t, e
<1>6. \A v \in Workers : task'[v] = IF v = w THEN t ELSE task[v]
  BY <1>1, <1>5
<1>7. CASE seen' = seen \cup {e} /\ UNCHANGED faults
  <2>1. OneHolder'
    BY <1>4, <1>6 DEF ReplayInv, OneHolder, e
  <2>2. \A v \in Workers : Careful(task[v])'
    BY <1>2, <1>4, <1>6, <1>7 DEF ReplayInv, OneHolder, Careful, Orderly, ReadLabels, e
  <2>3. ASSUME NEW f \in EventIds PROVE Budget(f)'
    <3>1. Budget(f) /\ applied[f] \in Nat
      BY <1>1 DEF ReplayInv
    <3>2. CASE f = e
      BY <1>1, <1>2, <1>7, <3>1, <3>2 DEF Budget, Allowance
    <3>3. CASE f # e
      <4>1. InFlight(f)' => InFlight(f)
        BY <1>4, <1>6, <3>3 DEF InFlight
      <4> QED
        BY <1>1, <1>7, <3>1, <3>3, <4>1 DEF Budget, Allowance
    <3> QED
      BY <3>2, <3>3
  <2> QED
    BY <2>1, <2>2, <2>3 DEF ReplayInv
<1>8. CASE Fails("redis") /\ UNCHANGED seen
  <2>1. Careful(t)
    BY <1>2, <1>4 DEF Careful, Orderly
  <2> QED
    BY <1>1, <1>3, <1>4, <1>5, <1>8, <2>1, QuietStep DEF Fails, e
<1> QED
  BY <1>7, <1>8 DEF ReplaySet, e

(* The row is written: the event is paid for by the mark or by a failure.   *)
LEMMA WriteDbReplay ==
  ASSUME StoreInv, ReplayInv, NEW w \in Workers, WriteDb(w)
  PROVE  ReplayInv'
<1> DEFINE t == task'[w]
           e == task[w].evt
<1>1. /\ task \in [Workers -> Task] /\ task[w] \in Task /\ task[w].pc = "write_db"
      /\ Careful(task[w]) /\ UNCHANGED seen
      /\ faults \in Nat /\ applied \in [EventIds -> Nat]
  BY BillingAssumption DEF StoreInv, TypeOK, ReplayInv, WriteDb
<1>2. TasksTidy' /\ TasksTidy
  BY WriteTidy DEF StoreInv
<1>3. t \in Task /\ task' = [task EXCEPT ![w] = t]
  BY <1>1, <1>2 DEF TasksTidy, WriteDb, GoTo
<1>4. /\ t.evt = e /\ t.job = task[w].job
      /\ \/ t.pc = "read_redis" /\ t.goal = "caller"
         \/ t.pc = "pulled" /\ e = 0
  BY <1>1 DEF WriteDb, GoTo, Task, Careful, Orderly
<1> HIDE DEF t
<1>5. Careful(t) /\ ~Applying(t)
  BY <1>1, <1>4 DEF Careful, Orderly, Applying, ReadLabels
<1>6. CASE UNCHANGED applied /\ faults' \in {faults, faults + 1}
  BY <1>1, <1>3, <1>4, <1>5, <1>6, QuietStep
<1>7. CASE /\ e \in EventIds /\ applied' = [applied EXCEPT ![e] = @ + 1]
           /\ UNCHANGED faults
  <2>1. \A v \in Workers : task'[v] = IF v = w THEN t ELSE task[v]
    BY <1>1, <1>3
  <2>2. OneHolder'
    BY <1>4, <2>1 DEF ReplayInv, OneHolder
  <2>3. \A v \in Workers : Careful(task[v])'
    BY <1>1, <1>5, <2>1 DEF ReplayInv, Careful, Orderly
  <2>4. ASSUME NEW f \in EventIds PROVE Budget(f)'
    <3>1. Budget(f) /\ applied[f] \in Nat /\ (InFlight(f)' => InFlight(f))
      BY <1>1, <1>5, <2>1 DEF ReplayInv, InFlight
    <3>2. CASE f = e
      <4>1. InFlight(f)
        BY <1>1, <1>7, <3>2 DEF InFlight, Applying, EventIds
      <4>2. ~InFlight(f)'
        BY <1>5, <1>7, <2>1, <3>2 DEF InFlight, ReplayInv, OneHolder, EventIds
      <4>3. applied'[f] = applied[f] + 1 /\ applied[f] < Allowance(f)
        BY <1>1, <1>7, <3>1, <3>2, <4>1 DEF Budget
      <4>4. Allowance(f)' = Allowance(f) /\ Allowance(f) \in Nat
        BY <1>1, <1>7 DEF Allowance
      <4> QED
        BY <3>1, <4>2, <4>3, <4>4 DEF Budget
    <3>3. CASE f # e
      <4>1. applied'[f] = applied[f]
        BY <1>1, <1>7, <3>3
      <4>2. Allowance(f)' = Allowance(f)
        BY <1>1, <1>7 DEF Allowance
      <4> QED
        BY <3>1, <4>1, <4>2 DEF Budget
    <3> QED
      BY <3>2, <3>3
  <2> QED
    BY <2>2, <2>3, <2>4 DEF ReplayInv
<1>8. task[w].job = "webhook" <=> e \in EventIds
  BY <1>1, <1>2 DEF Careful, Orderly, TasksTidy, Tidy, EventIds
<1> QED
  BY <1>6, <1>7, <1>8 DEF WriteDb, Fails

(* A flush forgets every mark, and counts as a failure. *)
LEMMA FlushReplay ==
  ASSUME StoreInv, ReplayInv, RedisFlush
  PROVE  ReplayInv'
<1>1. /\ seen' = {} /\ faults' = faults + 1 /\ UNCHANGED <<task, applied>>
      /\ faults \in Nat /\ applied \in [EventIds -> Nat]
  BY BillingAssumption DEF StoreInv, TypeOK, RedisFlush, Fails
<1>2. OneHolder' /\ \A v \in Workers : Careful(task[v])'
  BY <1>1 DEF ReplayInv, OneHolder, Careful, Orderly
<1>3. ASSUME NEW f \in EventIds PROVE Budget(f)'
  <2>1. Budget(f) /\ applied[f] \in Nat /\ (InFlight(f)' <=> InFlight(f))
    BY <1>1 DEF ReplayInv, InFlight
  <2> QED
    BY <1>1, <2>1 DEF Budget, Allowance
<1> QED
  BY <1>2, <1>3 DEF ReplayInv

-----------------------------------------------------------------------------
(* The remaining steps are quiet. *)

LEMMA StopReplay ==
  ASSUME StoreInv, ReplayInv, NEW w \in Workers, Finish(w) \/ Crash(w)
  PROVE  ReplayInv'
<1>1. Idle \in Task /\ Careful(Idle) /\ Idle.evt = 0 /\ ~Applying(Idle)
  BY IdleTidy DEF Idle, Careful, Orderly, Applying
<1>2. task' = [task EXCEPT ![w] = Idle] /\ UNCHANGED <<seen, applied>>
  BY DEF Finish, Crash, storeVars
<1>3. faults' \in {faults, faults + 1}
  BY DEF Finish, Crash, Fails
<1> QED
  BY <1>1, <1>2, <1>3, QuietStep

LEMMA PullReplay ==
  ASSUME StoreInv, ReplayInv, NEW w \in Workers,
         \/ \E job \in PullJobs : StartPull(w, job)
         \/ HttpReply(w) \/ HttpFail(w)
  PROVE  ReplayInv'
<1> DEFINE t == task'[w]
<1>1. /\ task \in [Workers -> Task] /\ TasksTidy /\ Careful(task[w])
      /\ UNCHANGED <<seen, applied>>
  BY DEF StoreInv, TypeOK, ReplayInv, StartPull, HttpReply, HttpFail, storeVars
<1>2. TasksTidy'
  BY StartPullTidy, HttpTidy
<1>3. t \in Task /\ task' = [task EXCEPT ![w] = t]
  BY <1>1, <1>2 DEF TasksTidy, StartPull, HttpReply, HttpFail
<1>4. CASE \E job \in PullJobs : StartPull(w, job)
  <2>1. PICK job \in PullJobs : StartPull(w, job)
    BY <1>4
  <2>2. t.evt = 0 /\ t.job # "webhook" /\ t.pc = "http"
    BY <1>1, <2>1, BillingAssumption DEF StartPull, Idle
  <2>3. Careful(t) /\ ~Applying(t)
    BY <2>2 DEF Careful, Orderly, Applying
  <2> HIDE DEF t
  <2> QED
    BY <1>1, <1>3, <2>1, <2>2, <2>3, QuietStep DEF StartPull
<1>5. CASE HttpReply(w) \/ HttpFail(w)
  <2>1. task[w].pc = "http" /\ task[w].evt = 0 /\ task[w].job # "webhook"
    BY <1>1, <1>5 DEF HttpReply, HttpFail, Careful, Orderly
  <2>2. t.evt = 0 /\ t.job # "webhook" /\ t.pc # "replay_set"
    BY <1>1, <1>5, <2>1 DEF HttpReply, HttpFail, TasksTidy, Task
  <2>3. Careful(t) /\ ~Applying(t)
    BY <2>2 DEF Careful, Orderly, Applying
  <2>4. faults' \in {faults, faults + 1}
    BY <1>5 DEF HttpReply, HttpFail, Fails
  <2> HIDE DEF t
  <2> QED
    BY <1>1, <1>3, <2>2, <2>3, <2>4, QuietStep
<1> QED
  BY <1>4, <1>5

LEMMA StartReadReplay ==
  ASSUME StoreInv, ReplayInv, NEW w \in Workers, StartRead(w)
  PROVE  ReplayInv'
<1> DEFINE t == task'[w]
<1>1. /\ task \in [Workers -> Task] /\ TasksTidy /\ Careful(task[w])
      /\ UNCHANGED <<seen, applied, faults>>
  BY DEF StoreInv, TypeOK, ReplayInv, StartRead, storeVars
<1>2. TasksTidy'
  BY StartReadTidy
<1>3. t \in Task /\ task' = [task EXCEPT ![w] = t]
  BY <1>1, <1>2 DEF TasksTidy, StartRead
<1>4. t.evt = 0 /\ t.job = "read" /\ t.pc = "read_redis"
  BY <1>1 DEF StartRead, Idle
<1>5. Careful(t) /\ ~Applying(t)
  BY <1>4 DEF Careful, Orderly, Applying
<1> HIDE DEF t
<1> QED
  BY <1>1, <1>3, <1>4, <1>5, QuietStep

LEMMA StoreReadReplay ==
  ASSUME StoreInv, ReplayInv, NEW w \in Workers,
         ReadRedis(w) \/ ReadDb(w) \/ Repopulate(w) \/ WriteRedis(w)
  PROVE  ReplayInv'
<1> DEFINE t == task'[w]
<1>1. /\ task \in [Workers -> Task] /\ TasksTidy /\ Careful(task[w])
      /\ UNCHANGED <<seen, applied>> /\ faults' \in {faults, faults + 1}
  BY DEF StoreInv, TypeOK, ReplayInv, ReadRedis, ReadDb, Repopulate, WriteRedis,
         storeVars, Fails
<1>2. Sound(redis) /\ Sound(db) /\ Sound(task[w].buf) /\ Sound(Missing)
  BY StoredSound DEF Sound
<1>3. CASE /\ task[w].pc \in ReadLabels
           /\ GotState(w, redis) \/ GotState(w, task[w].buf) \/ GotState(w, Missing)
  BY <1>1, <1>2, <1>3, GotStateQuiet
<1>4. CASE \/ task[w].pc = "read_redis" /\ GoTo(w, "read_db")
           \/ /\ task[w].pc = "read_db"
              /\ task' = [task EXCEPT ![w].pc = "repopulate", ![w].buf = db]
           \/ task[w].pc = "write_redis" /\ GoTo(w, "write_db")
  <2>1. TasksTidy'
    BY ReadTidy, WriteTidy
  <2>2. t \in Task /\ task' = [task EXCEPT ![w] = t]
    BY <1>1, <1>4, <2>1 DEF TasksTidy, GoTo
  <2>3. /\ t.evt = task[w].evt /\ t.job = task[w].job /\ t.goal = task[w].goal
        /\ \/ task[w].pc \in ReadLabels /\ t.pc \in ReadLabels
           \/ task[w].pc = "write_redis" /\ t.pc = "write_db"
    BY <1>1, <1>4 DEF GoTo, TasksTidy, Task, ReadLabels
  <2>4. Careful(t) /\ (Applying(t) => Applying(task[w]))
    BY <1>1, <2>3 DEF Careful, Orderly, Applying, ReadLabels
  <2> HIDE DEF t
  <2> QED
    BY <1>1, <2>2, <2>3, <2>4, QuietStep
<1> QED
  BY <1>3, <1>4 DEF ReadRedis, ReadDb, Repopulate, WriteRedis, ReadLabels

-----------------------------------------------------------------------------
(* The theorem. *)

LEMMA ReplayInit == Init => ReplayInv
<1> SUFFICES ASSUME Init PROVE ReplayInv
  OBVIOUS
<1>1. \A w \in Workers : task[w] = Idle
  BY DEF Init
<1>2. Careful(Idle) /\ Idle.evt = 0
  BY DEF Idle, Careful, Orderly
<1>3. \A e \in EventIds : Budget(e)
  BY <1>1, <1>2 DEF Init, Budget, Allowance, InFlight, EventIds
<1> QED
  BY <1>1, <1>2, <1>3 DEF ReplayInv, OneHolder

LEMMA ReplayStep ==
  ASSUME SenderWaits
  PROVE  StoreInv /\ ReplayInv /\ [Next]_vars => ReplayInv'
<1> SUFFICES ASSUME StoreInv, ReplayInv, [Next]_vars PROVE ReplayInv'
  OBVIOUS
<1>1. CASE ErpChange \/ Evict \/ UNCHANGED vars
  BY <1>1 DEF ErpChange, Evict, vars, storeVars, inputVars, ReplayInv, OneHolder,
              Careful, Orderly, Budget, Allowance, InFlight
<1>2. CASE RedisFlush
  BY <1>2, FlushReplay
<1>3. ASSUME NEW w \in Workers, NEW e \in EventIds, Deliver(w, e) PROVE ReplayInv'
  BY <1>3, DeliverReplay
<1>4. ASSUME NEW w \in Workers, \E job \in PullJobs : StartPull(w, job) PROVE ReplayInv'
  BY <1>4, PullReplay
<1>5. ASSUME NEW w \in Workers, Step(w) PROVE ReplayInv'
  BY <1>5, ReplayGetReplay, ReplaySetReplay, PullReplay, StoreReadReplay,
     WriteDbReplay, StopReplay DEF Step
<1>6. ASSUME NEW w \in Workers, Crash(w) PROVE ReplayInv'
  BY <1>6, StopReplay
<1>7. ASSUME NEW w \in Workers, StartRead(w) PROVE ReplayInv'
  BY <1>7, StartReadReplay
<1> QED
  BY <1>1, <1>2, <1>3, <1>4, <1>5, <1>6, <1>7 DEF Next, Environment

(* The replay guard of process_webhook: however often an event is delivered *)
(* and whatever else runs, it is stored at most once more than the number   *)
(* of failures, if the sender waits for an attempt to end before the next.  *)
THEOREM ReplayGuard ==
  ASSUME SenderWaits
  PROVE  Spec => []AppliedOncePerFailure
<1>1. StoreInv /\ ReplayInv => AppliedOncePerFailure
  <2> SUFFICES ASSUME StoreInv, ReplayInv, NEW e \in EventIds
               PROVE  applied[e] <= 1 + faults
    BY DEF AppliedOncePerFailure
  <2>1. applied[e] \in Nat /\ faults \in Nat /\ Budget(e)
    BY BillingAssumption DEF StoreInv, TypeOK, ReplayInv
  <2> QED
    BY <2>1 DEF Budget, Allowance
<1> QED
  BY ReplayInit, ReplayStep, StoreInvariant, <1>1, PTL DEF Spec

-----------------------------------------------------------------------------
(* No event is lost, whether or not the sender waits: while nothing fails,  *)
(* a marked event was stored or is with a task that will store it.          *)

LossInv ==
  /\ \A w \in Workers : Orderly(task[w])
  /\ faults = 0 => \A e \in seen : applied[e] > 0 \/ InFlight(e)

(* A step of w that marks and stores nothing: an event it was about to store *)
(* is kept, or a failure is the excuse.                                     *)
LEMMA EventKept ==
  ASSUME StoreInv, LossInv, NEW w \in Workers, NEW t \in Task,
         task' = [task EXCEPT ![w] = t], Orderly(t),
         faults' \in {faults, faults + 1}, UNCHANGED <<seen, applied>>,
         faults' = faults /\ Applying(task[w]) => Applying(t) /\ t.evt = task[w].evt
  PROVE  LossInv'
<1>1. task \in [Workers -> Task] /\ faults \in Nat
  BY BillingAssumption DEF StoreInv, TypeOK
<1>2. \A v \in Workers : task'[v] = IF v = w THEN t ELSE task[v]
  BY <1>1
<1>3. \A v \in Workers : Orderly(task[v])'
  BY <1>2 DEF LossInv, Orderly
<1>4. ASSUME faults' = 0, NEW e \in seen' PROVE (applied[e] > 0)' \/ InFlight(e)'
  <2>1. faults = 0 /\ faults' = faults /\ (applied[e] > 0 \/ InFlight(e))
    BY <1>1, <1>4 DEF LossInv
  <2>2. InFlight(e) => InFlight(e)'
    BY <1>2, <2>1 DEF InFlight, Applying
  <2> QED
    BY <2>1, <2>2
<1> QED
  BY <1>3, <1>4 DEF LossInv

(* The mark is set by the task that goes on to apply the event. *)
LEMMA MarkKept ==
  ASSUME StoreInv, LossInv, NEW w \in Workers, ReplaySet(w)
  PROVE  LossInv'
<1> DEFINE t == [task[w] EXCEPT !.pc = "read_redis", !.goal = "apply"]
<1>0. PICK e : e = task[w].evt
  OBVIOUS
<1>1. /\ task \in [Workers -> Task] /\ task[w] \in Task /\ task[w].pc = "replay_set"
      /\ Orderly(task[w]) /\ UNCHANGED applied /\ faults \in Nat
      /\ task[w].job = "webhook"
  BY BillingAssumption DEF StoreInv, TypeOK, TasksTidy, Tidy, LossInv, ReplaySet
<1>2. /\ t \in Task /\ task' = [task EXCEPT ![w] = t] /\ t.evt = e
      /\ Orderly(t) /\ Applying(t) /\ ~Applying(task[w])
  BY <1>0, <1>1 DEF ReplaySet, ApplyWebhook, Orderly, Applying, ReadLabels, Task, Labels, Goals
<1> HIDE DEF t
<1>3. CASE seen' = seen \cup {e} /\ UNCHANGED faults
  <2>1. \A v \in Workers : task'[v] = IF v = w THEN t ELSE task[v]
    BY <1>1, <1>2
  <2>2. \A v \in Workers : Orderly(task[v])'
    BY <1>2, <2>1 DEF LossInv, Orderly
  <2>3. ASSUME NEW f \in seen, InFlight(f) PROVE InFlight(f)'
    BY <1>2, <2>1, <2>3 DEF InFlight, Applying
  <2>4. InFlight(e)'
    BY <1>2, <2>1 DEF InFlight, Applying
  <2> QED
    BY <1>1, <1>3, <2>2, <2>3, <2>4 DEF LossInv
<1>4. CASE UNCHANGED seen /\ faults' = faults + 1
  BY <1>1, <1>2, <1>4, EventKept
<1> QED
  BY <1>0, <1>3, <1>4 DEF ReplaySet, Fails

(* The write of the row is what the mark promised. *)
LEMMA StoreKept ==
  ASSUME StoreInv, LossInv, NEW w \in Workers, WriteDb(w)
  PROVE  LossInv'
<1> DEFINE t == task'[w]
           e == task[w].evt
<1>1. /\ task \in [Workers -> Task] /\ task[w] \in Task /\ task[w].pc = "write_db"
      /\ Orderly(task[w]) /\ UNCHANGED seen /\ Tidy(task[w])
      /\ faults \in Nat /\ applied \in [EventIds -> Nat] /\ seen \subseteq EventIds
  BY BillingAssumption DEF StoreInv, TypeOK, TasksTidy, LossInv, WriteDb
<1>2. t \in Task /\ task' = [task EXCEPT ![w] = t]
  <2>1. TasksTidy'
    BY WriteTidy
  <2> QED
    BY <1>1, <2>1 DEF TasksTidy, WriteDb, GoTo
<1>3. /\ t.evt = e /\ t.job = task[w].job
      /\ \/ t.pc = "read_redis" /\ t.goal = "caller"
         \/ t.pc = "pulled" /\ e = 0
  BY <1>1 DEF WriteDb, GoTo, Task, Orderly
<1> HIDE DEF t
<1>4. Orderly(t)
  BY <1>1, <1>3 DEF Orderly, ReadLabels
<1>5. CASE faults' = faults + 1 /\ UNCHANGED applied
  <2>1. faults' # faults
    BY <1>1, <1>5
  <2> QED
    BY <1>1, <1>2, <1>4, <1>5, <2>1, EventKept
<1>6. CASE UNCHANGED <<applied, faults>> /\ task[w].job # "webhook"
  <2>1. ~Applying(task[w])
    BY <1>1, <1>6 DEF Applying, Orderly
  <2> QED
    BY <1>1, <1>2, <1>4, <1>6, <2>1, EventKept
<1>7. CASE /\ applied' = [applied EXCEPT ![e] = @ + 1] /\ UNCHANGED faults
           /\ task[w].job = "webhook"
  <2>1. \A v \in Workers : task'[v] = IF v = w THEN t ELSE task[v]
    BY <1>1, <1>2
  <2>2. \A v \in Workers : Orderly(task[v])'
    BY <1>4, <2>1 DEF LossInv, Orderly
  <2>3. e \in EventIds /\ \A f \in EventIds : applied'[f] = IF f = e THEN applied[f] + 1
                                                                    ELSE applied[f]
    BY <1>1, <1>7 DEF Tidy
  <2>4. ASSUME faults' = 0, NEW f \in seen' PROVE (applied[f] > 0)' \/ InFlight(f)'
    <3>1. f \in EventIds /\ applied[f] \in Nat /\ (applied[f] > 0 \/ InFlight(f))
      BY <1>1, <1>7, <2>4 DEF LossInv
    <3>2. CASE f = e
      BY <2>3, <3>1, <3>2
    <3>3. CASE f # e /\ InFlight(f)
      <4>1. InFlight(f)'
        BY <2>1, <3>3 DEF InFlight, Applying, e
      <4> QED
        BY <4>1
    <3>4. CASE f # e /\ applied[f] > 0
      BY <2>3, <3>1, <3>4
    <3> QED
      BY <3>1, <3>2, <3>3, <3>4
  <2> QED
    BY <2>2, <2>4 DEF LossInv
<1> QED
  BY <1>5, <1>6, <1>7 DEF WriteDb, Fails, e

(* A task that starts or ends holds no event that is to be stored. *)
LEMMA TaskChangeKept ==
  ASSUME StoreInv, LossInv, NEW w \in Workers,
         \/ \E e \in EventIds : Deliver(w, e)
         \/ \E job \in PullJobs : StartPull(w, job)
         \/ StartRead(w) \/ Finish(w) \/ Crash(w)
  PROVE  LossInv'
<1> DEFINE t == task'[w]
<1>1. /\ task \in [Workers -> Task] /\ Orderly(task[w]) /\ StoreInv'
      /\ UNCHANGED <<seen, applied>>
  BY StoreInvKept DEF StoreInv, TypeOK, LossInv, Deliver, StartPull, StartRead, Finish,
       Crash, storeVars, Next, Step
<1>2. t \in Task /\ task' = [task EXCEPT ![w] = t] /\ faults' \in {faults, faults + 1}
  BY <1>1 DEF StoreInv, TypeOK, Deliver, StartPull, StartRead, Finish, Crash, Fails
<1>3. faults' = faults => ~Applying(task[w])
  <2>1. task[w].pc \in {"idle", "got", "pulled"} \/ faults' = faults + 1
    BY DEF Deliver, StartPull, StartRead, Finish, Crash, Fails
  <2>2. faults \in Nat
    BY BillingAssumption DEF StoreInv, TypeOK
  <2> QED
    BY <2>1, <2>2 DEF Applying, ReadLabels
<1>4. \/ t.evt = 0 /\ t.job # "webhook"
      \/ t.evt \in EventIds /\ t.job = "webhook" /\ t.pc = "replay_get"
  <2>1. Idle \in Task /\ Idle.evt = 0 /\ Idle.job = "none"
    BY IdleTidy DEF Idle
  <2>2. CASE \E e \in EventIds : Deliver(w, e)
    <3>1. PICK e \in EventIds : Deliver(w, e)
      BY <2>2
    <3>2. t = [Idle EXCEPT !.pc = "replay_get", !.job = "webhook",
                           !.evt = e, !.raw = erpLog[e]]
      BY <1>1, <3>1 DEF Deliver
    <3> HIDE DEF t
    <3> QED
      BY <2>1, <3>2 DEF Task
  <2>3. CASE \E job \in PullJobs : StartPull(w, job)
    <3>1. PICK job \in PullJobs : StartPull(w, job)
      BY <2>3
    <3>2. t = [Idle EXCEPT !.pc = "http", !.job = job, !.attempt = 1]
      BY <1>1, <3>1 DEF StartPull
    <3>3. job # "webhook"
      BY BillingAssumption
    <3> HIDE DEF t
    <3> QED
      BY <2>1, <3>2, <3>3 DEF Task
  <2>4. CASE StartRead(w) \/ Finish(w) \/ Crash(w)
    <3>1. t \in {Idle, [Idle EXCEPT !.pc = "read_redis", !.job = "read",
                                    !.goal = "caller"]}
      BY <1>1, <2>4 DEF StartRead, Finish, Crash
    <3> HIDE DEF t
    <3> QED
      BY <2>1, <3>1 DEF Task
  <2> QED
    BY <2>2, <2>3, <2>4
<1>5. Orderly(t)
  BY <1>4 DEF Orderly, EventIds, ReadLabels
<1> HIDE DEF t
<1> QED
  BY <1>1, <1>2, <1>3, <1>5, EventKept

(* Every other step carries the event on. *)
LEMMA ProgressKept ==
  ASSUME StoreInv, LossInv, NEW w \in Workers,
         \/ ReplayGet(w) \/ HttpReply(w) \/ HttpFail(w)
         \/ ReadRedis(w) \/ ReadDb(w) \/ Repopulate(w) \/ WriteRedis(w)
  PROVE  LossInv'
<1> DEFINE t == task'[w]
<1>1. /\ task \in [Workers -> Task] /\ task[w] \in Task /\ Orderly(task[w])
      /\ Tidy(task[w]) /\ StoreInv' /\ UNCHANGED <<seen, applied>>
  BY StoreInvKept DEF StoreInv, TypeOK, TasksTidy, LossInv, ReplayGet, HttpReply, HttpFail,
       ReadRedis, ReadDb, Repopulate, WriteRedis, storeVars, Next, Step
<1>2. t \in Task /\ task' = [task EXCEPT ![w] = t] /\ faults' \in {faults, faults + 1}
  BY <1>1 DEF StoreInv, TypeOK, ReplayGet, HttpReply, HttpFail, ReadRedis, ReadDb,
       Repopulate, WriteRedis, Fails, GoTo, ApplyWebhook, GotState, Persist
<1>3. CASE ReplayGet(w)
  <2>1. \/ t = Idle
        \/ /\ t.evt = task[w].evt /\ t.job = task[w].job
           /\ \/ t.pc = "replay_set"
              \/ t.pc = "read_redis" /\ t.goal = "apply"
    <3>1. CASE task' = [task EXCEPT ![w] = Idle]
      BY <1>1, <3>1
    <3>2. CASE GoTo(w, "replay_set") \/ ApplyWebhook(w)
      BY <1>1, <3>2 DEF GoTo, ApplyWebhook, Task
    <3> QED
      BY <1>3, <3>1, <3>2 DEF ReplayGet
  <2>2. Orderly(Idle) /\ ~Applying(task[w])
    BY <1>3 DEF Orderly, Idle, Applying, ReadLabels, ReplayGet
  <2>3. Orderly(t)
    <3> HIDE DEF t
    <3> QED
      BY <1>1, <2>1, <2>2 DEF Orderly, ReadLabels
  <2> HIDE DEF t
  <2> QED
    BY <1>1, <1>2, <2>2, <2>3, EventKept
<1>4. CASE HttpReply(w) \/ HttpFail(w)
  <2>1. task[w].pc = "http" /\ task[w].evt = 0 /\ task[w].job # "webhook"
    BY <1>1, <1>4 DEF HttpReply, HttpFail, Orderly
  <2>2. t.evt = 0 /\ t.job # "webhook"
    BY <1>1, <1>4, <2>1 DEF HttpReply, HttpFail, Task
  <2>3. Orderly(t) /\ ~Applying(task[w])
    BY <2>1, <2>2 DEF Orderly, Applying
  <2> HIDE DEF t
  <2> QED
    BY <1>1, <1>2, <2>3, EventKept
<1>5. CASE ReadRedis(w) \/ ReadDb(w) \/ Repopulate(w) \/ WriteRedis(w)
  <2>1. /\ t.evt = task[w].evt /\ t.job = task[w].job
        /\ \/ /\ task[w].pc \in ReadLabels /\ t.goal = task[w].goal
              /\ \/ t.pc \in ReadLabels
                 \/ t.pc = "got" /\ t.goal = "caller"
                 \/ t.pc = "pulled" /\ t.goal = "existing"
                 \/ t.pc = "write_redis"
           \/ /\ task[w].pc \in ReadLabels /\ task[w].goal = "existing"
              /\ t.pc = "write_redis"
           \/ task[w].pc = "write_redis" /\ t.pc = "write_db"
    <3>1. CASE ReadRedis(w)
      BY <1>1, <3>1 DEF ReadRedis, GoTo, GotState, Persist, ReadLabels, Task
    <3>2. CASE ReadDb(w)
      BY <1>1, <3>2 DEF ReadDb, GoTo, GotState, Persist, ReadLabels, Task
    <3>3. CASE Repopulate(w)
      BY <1>1, <3>3 DEF Repopulate, GoTo, GotState, Persist, ReadLabels, Task
    <3>4. CASE WriteRedis(w)
      BY <1>1, <3>4 DEF WriteRedis, GoTo, Task
    <3> QED
      BY <1>5, <3>1, <3>2, <3>3, <3>4
  <2> HIDE DEF t
  <2>2. Orderly(t) /\ (Applying(task[w]) => Applying(t))
    BY <1>1, <2>1 DEF Orderly, Applying, ReadLabels
  <2> QED
    BY <1>1, <1>2, <2>1, <2>2, EventKept
<1> QED
  BY <1>3, <1>4, <1>5

LEMMA LossStep == StoreInv /\ LossInv /\ [Next]_vars => LossInv'
<1> SUFFICES ASSUME StoreInv, LossInv, [Next]_vars PROVE LossInv'
  OBVIOUS
<1>1. CASE ErpChange \/ Evict \/ UNCHANGED vars
  BY <1>1 DEF ErpChange, Evict, vars, storeVars, inputVars, LossInv, Orderly, InFlight
<1>2. CASE RedisFlush
  <2>1. faults \in Nat /\ faults' = faults + 1 /\ UNCHANGED task
    BY <1>2, BillingAssumption DEF RedisFlush, Fails, StoreInv, TypeOK
  <2> QED
    BY <2>1 DEF LossInv, Orderly
<1>3. ASSUME NEW w \in Workers,
             \/ \E e \in EventIds : Deliver(w, e)
             \/ \E job \in PullJobs : StartPull(w, job)
             \/ StartRead(w) \/ Step(w) \/ Crash(w)
      PROVE  LossInv'
  BY <1>3, TaskChangeKept, MarkKept, StoreKept, ProgressKept DEF Step
<1> QED
  BY <1>1, <1>2, <1>3 DEF Next, Environment

(* Marking an event before applying it loses nothing as long as nothing     *)
(* fails: a marked event that no task works on was stored, also when the    *)
(* sender overlaps its own deliveries.                                      *)
THEOREM MarkedIsStored == Spec => []NoEventLost
<1>1. Init => LossInv
  BY DEF Init, LossInv, Orderly, Idle
<1>2. LossInv => NoEventLost
  BY DEF LossInv, NoEventLost, InFlight
<1> QED
  BY StoreInvariant, LossStep, <1>1, <1>2, PTL DEF Spec
=============================================================================
