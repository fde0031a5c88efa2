-------------------------- MODULE ReconciliationProofs --------------------------
(* Theorems about the reconciliation engine on top of the billing store, for   *)
(* any plans, reports, edge payloads and bounds.                               *)
EXTENDS Reconciliation, BillingProofs

Reads == {"read_redis", "read_db", "repopulate"}
Writes == {"write_redis", "write_db"}

-------------------------------------------------------------------------------
(* Where a reconciliation with locals q is in the store's code, of which t is   *)
(* the task.                                                                  *)
Place(t, q) ==
  /\ q.phase = "none" <=> t.job # "reconcile"
  /\ q.phase = "snapshot" => t.goal = "caller" /\ t.pc \in Reads \union {"got"}
  /\ q.phase = "pull" =>
       \/ t.pc = "http" /\ t.goal = "none"
       \/ t.pc \in Reads /\ t.goal \in {"apply", "existing"}
       \/ t.pc \in Writes /\ t.goal \in {"apply", "fallback"}
       \/ t.pc = "pulled" /\ t.goal \in {"apply", "existing"} /\ t.buf # Missing
       \/ t.pc = "pulled" /\ t.goal = "fallback"
  /\ q.phase = "correct" =>
       /\ t.goal = "apply" /\ t.pc \in Reads \union Writes \union {"pulled"}
       /\ t.pc = "pulled" => t.buf # Missing

RecInv ==
  /\ StoreInv
  /\ rec \in [Workers -> Locals]
  /\ result \in Result
  /\ \A w \in Workers : Place(task[w], rec[w])

LEMMA NoLocalsType == NoLocals \in Locals /\ NoResult \in Result
BY DEF NoLocals, NoResult, Locals, Result, Record

(* A step of one task. *)
LEMMA PlaceKept ==
  ASSUME RecInv, NEW w \in Workers, NEW t, NEW q \in Locals,
         task' = [task EXCEPT ![w] = t], rec' = [rec EXCEPT ![w] = q],
         StoreInv', result' \in Result, Place(t, q)
  PROVE  RecInv'
<1>1. /\ task \in [Workers -> Task] /\ rec' \in [Workers -> Locals]
      /\ \A v \in Workers : /\ task'[v] = IF v = w THEN t ELSE task[v]
                            /\ rec'[v] = IF v = w THEN q ELSE rec[v]
  BY DEF RecInv, StoreInv, TypeOK
<1>2. \A v \in Workers : Place(task'[v], rec'[v])
  BY <1>1 DEF RecInv
<1> QED
  BY <1>1, <1>2 DEF RecInv

LEMMA SameLocals ==
  ASSUME RecInv, NEW w \in Workers, NEW t, task' = [task EXCEPT ![w] = t],
         UNCHANGED recVars, StoreInv', Place(t, rec[w])
  PROVE  RecInv'
<1>1. rec' = [rec EXCEPT ![w] = rec[w]] /\ rec[w] \in Locals /\ result' \in Result
  BY DEF RecInv, recVars
<1> QED
  BY <1>1, PlaceKept

-------------------------------------------------------------------------------
(* The steps of the store, on behalf of a reconciliation or of another task.   *)

LEMMA GotStatePlace ==
  ASSUME RecInv, NEW w \in Workers, task[w].pc \in Reads, NEW r, Sound(r), GotState(w, r),
         UNCHANGED recVars, StoreInv'
  PROVE  RecInv'
<1> DEFINE t == task'[w]
<1>1. task \in [Workers -> Task] /\ task[w] \in Task /\ Place(task[w], rec[w])
  BY DEF RecInv, StoreInv, TypeOK
<1>2. task' = [task EXCEPT ![w] = t]
  BY <1>1 DEF GotState, Persist
<1>3. t.job = task[w].job
  BY <1>1 DEF GotState, Persist, Task
<1>4. \/ t.pc = "write_redis" /\ task[w].goal = "apply" /\ t.goal = "apply"
      \/ t.pc = "write_redis" /\ task[w].goal = "existing" /\ t.goal = "fallback"
      \/ /\ t.pc = "pulled" /\ task[w].goal = "existing" /\ t.goal = "existing"
         /\ t.buf # Missing
      \/ t.pc = "got" /\ task[w].goal = "caller" /\ t.goal = "caller"
  BY <1>1 DEF GotState, Persist, Task
<1> HIDE DEF t
<1>5. Place(t, rec[w])
  BY <1>1, <1>3, <1>4 DEF Place, Reads, Writes
<1> QED
  BY <1>2, <1>5, SameLocals

LEMMA StoreStepPlace ==
  ASSUME RecInv, NEW w \in Workers, StoreStep(w), UNCHANGED recVars, StoreInv'
  PROVE  RecInv'
<1> DEFINE t == task'[w]
<1>1. /\ task \in [Workers -> Task] /\ task[w] \in Task /\ Tidy(task[w])
      /\ Place(task[w], rec[w]) /\ StoreInv
      /\ Sound(redis) /\ Sound(task[w].buf) /\ Sound(Missing)
  BY StoredSound DEF RecInv, StoreInv, TypeOK, TasksTidy, Sound
<1>2. ASSUME task' = [task EXCEPT ![w] = t], Place(t, rec[w]) PROVE RecInv'
  BY <1>2, SameLocals
<1>3. CASE ReplayGet(w) \/ ReplaySet(w) \/ Finish(w)
  <2>1. task[w].job # "reconcile"
    BY <1>1, <1>3 DEF Tidy, ReplayGet, ReplaySet, Finish
  <2>2. task' = [task EXCEPT ![w] = t] /\ t.job # "reconcile"
    BY <1>1, <1>3, <2>1 DEF ReplayGet, ReplaySet, Finish, ApplyWebhook, GoTo, Idle, Task
  <2> HIDE DEF t
  <2> QED
    BY <1>1, <1>2, <2>1, <2>2 DEF Place
<1>4. CASE HttpFail(w)
  <2>1. /\ task' = [task EXCEPT ![w] = t] /\ t.job = task[w].job /\ task[w].pc = "http"
    BY <1>1, <1>4 DEF HttpFail, Task
  <2>2. \/ t.pc = "http" /\ t.goal = task[w].goal
        \/ t.pc = "read_redis" /\ t.goal = "existing"
    BY <1>1, <1>4 DEF HttpFail, Task
  <2> HIDE DEF t
  <2> QED
    BY <1>1, <1>2, <2>1, <2>2 DEF Place, Reads, Writes
<1>5. CASE ReadRedis(w) \/ ReadDb(w) \/ Repopulate(w)
  <2>1. task[w].pc \in Reads
    BY <1>5 DEF ReadRedis, ReadDb, Repopulate, Reads
  <2>2. CASE GotState(w, redis) \/ GotState(w, task[w].buf) \/ GotState(w, Missing)
    BY <1>1, <2>1, <2>2, GotStatePlace
  <2>3. CASE \/ GoTo(w, "read_db")
             \/ task' = [task EXCEPT ![w].pc = "repopulate", ![w].buf = db]
    <3>1. /\ task' = [task EXCEPT ![w] = t] /\ t.job = task[w].job /\ t.goal = task[w].goal
          /\ t.pc \in Reads
      BY <1>1, <2>3 DEF GoTo, Task, Reads
    <3> HIDE DEF t
    <3> QED
      BY <1>1, <1>2, <2>1, <3>1 DEF Place, Reads, Writes
  <2> QED
    BY <1>5, <2>2, <2>3 DEF ReadRedis, ReadDb, Repopulate
<1>6. CASE WriteRedis(w) \/ WriteDb(w)
  <2>1. /\ task' = [task EXCEPT ![w] = t] /\ t.job = task[w].job /\ task[w].pc \in Writes
        /\ task[w].buf # Missing
    BY <1>1, <1>6 DEF WriteRedis, WriteDb, GoTo, Task, Writes, Tidy
  <2>2. \/ /\ t.pc \in {"write_db", "pulled"} /\ t.goal = task[w].goal
           /\ t.buf = task[w].buf
        \/ task[w].job = "webhook"
    BY <1>1, <1>6 DEF WriteRedis, WriteDb, GoTo, Task
  <2> HIDE DEF t
  <2> QED
    BY <1>1, <1>2, <2>1, <2>2 DEF Place, Reads, Writes
<1> QED
  BY <1>3, <1>4, <1>5, <1>6 DEF StoreStep

-------------------------------------------------------------------------------
(* The steps of reconcile_tenant itself. *)

LEMMA LocalStep ==
  ASSUME StoreInv, NEW w \in Workers, NEW t \in Task, Tidy(t), task' = [task EXCEPT ![w] = t],
         UNCHANGED <<inputVars, storeVars, applied>>,
         published' \in Nat, faults' \in 0 .. MaxFaults
  PROVE  StoreInv'
<1>1. TasksTidy'
  BY TaskUpdate DEF StoreInv
<1>2. TypeOK'
  BY <1>1 DEF StoreInv, TypeOK, TasksTidy, inputVars, storeVars
<1>3. TrialNeverStored'
  BY DEF StoreInv, TrialNeverStored, Stored, storeVars
<1> QED
  BY <1>1, <1>2, <1>3 DEF StoreInv

LEMMA StartPlace ==
  ASSUME RecInv, NEW w \in Workers, NEW force \in BOOLEAN,
         NEW edge \in EdgePayloads \union {Missing}, StartReconcile(w, force, edge)
  PROVE  RecInv'
<1> DEFINE t == [Idle EXCEPT !.pc = "read_redis", !.job = "reconcile", !.goal = "caller"]
           again == fresh > 0
           q == [NoLocals EXCEPT !.phase = "snapshot", !.force = force, !.edge = edge,
                                 !.again = again]
<1>1. /\ StoreInv /\ TypeOK /\ task \in [Workers -> Task] /\ rec \in [Workers -> Locals]
      /\ result \in Result /\ Idle \in Task /\ Idle.buf = Missing
  BY IdleTidy DEF RecInv, StoreInv, TypeOK, Idle
<1>2. /\ task' = [task EXCEPT ![w] = t] /\ rec' = [rec EXCEPT ![w] = q]
      /\ UNCHANGED <<inputVars, storeVars, published, applied, faults, result>>
  BY DEF StartReconcile
<1>3. t \in Task /\ Tidy(t)
  BY <1>1 DEF Task, Tidy, Labels, Jobs, Goals
<1>4. again \in BOOLEAN /\ edge \in EdgePayload \union {Missing}
  BY ReconciliationAssumption
<1> HIDE DEF again
<1>5. q \in Locals
  BY <1>4, NoLocalsType DEF Locals
<1>6. Place(t, q)
  BY <1>1, NoLocalsType DEF Place, Reads, Task, Locals
<1>7. published' \in Nat /\ faults' \in 0 .. MaxFaults
  BY <1>1, <1>2 DEF TypeOK
<1> HIDE DEF t, q
<1>8. StoreInv'
  BY <1>1, <1>2, <1>3, <1>7, LocalStep
<1> QED
  BY <1>1, <1>2, <1>5, <1>6, <1>8, PlaceKept

LEMMA PullPlace ==
  ASSUME RecInv, NEW w \in Workers, PullErp(w)
  PROVE  RecInv'
<1> DEFINE t == [task[w] EXCEPT !.pc = "http", !.attempt = 1, !.goal = "none", !.buf = Missing]
           q == [rec[w] EXCEPT !.phase = "pull", !.snap = task[w].buf]
<1>1. /\ StoreInv /\ TypeOK /\ task[w] \in Task /\ Tidy(task[w]) /\ rec[w] \in Locals
      /\ result \in Result /\ Place(task[w], rec[w]) /\ rec[w].phase = "snapshot"
      /\ task \in [Workers -> Task] /\ rec \in [Workers -> Locals]
  BY DEF RecInv, StoreInv, TypeOK, TasksTidy, PullErp
<1>2. /\ task' = [task EXCEPT ![w] = t] /\ rec' = [rec EXCEPT ![w] = q]
      /\ UNCHANGED <<inputVars, storeVars, published, applied, faults, result>>
  BY <1>1 DEF PullErp
<1>3. t \in Task /\ Tidy(t)
  <2>1. 1 \in 0 .. MaxRetries
    BY BillingAssumption
  <2> QED
    BY <1>1, <2>1 DEF Task, Tidy, Labels, Goals
<1>4. q \in Locals
  BY <1>1 DEF Locals, Task, Record
<1>5. Place(t, q)
  BY <1>1 DEF Place, Task, Locals
<1>6. published' \in Nat /\ faults' \in 0 .. MaxFaults
  BY <1>1, <1>2 DEF TypeOK
<1> HIDE DEF t, q
<1>7. StoreInv'
  BY <1>1, <1>2, <1>3, <1>6, LocalStep
<1> QED
  BY <1>1, <1>2, <1>4, <1>5, <1>7, PlaceKept

LEMMA ReplyPlace ==
  ASSUME RecInv, NEW w \in Workers, ErpReplies(w), StoreInv'
  PROVE  RecInv'
<1>1. /\ task[w] \in Task /\ rec[w] \in Locals /\ result \in Result
      /\ Place(task[w], rec[w]) /\ task[w].pc = "http"
      /\ task \in [Workers -> Task] /\ rec \in [Workers -> Locals]
  BY DEF RecInv, StoreInv, TypeOK, ErpReplies, HttpReply
<1>2. PICK r \in Report :
        task' = [task EXCEPT ![w].pc = "read_redis", ![w].goal = "apply", ![w].raw = r]
  BY DEF ErpReplies, HttpReply
<1> DEFINE t == [task[w] EXCEPT !.pc = "read_redis", !.goal = "apply", !.raw = r]
           reply == IF task[w].job = "reconcile" THEN r ELSE rec[w].report
           q == [rec[w] EXCEPT !.report = reply]
<1>3. task' = [task EXCEPT ![w] = t] /\ t.raw = r /\ task'[w].raw = r
  BY <1>1, <1>2 DEF Task
<1>4. rec' = [rec EXCEPT ![w] = q]
  BY <1>1, <1>3 DEF ErpReplies
<1>5. q \in Locals /\ q.phase = rec[w].phase
  BY <1>1 DEF Locals
<1>6. t.job = task[w].job /\ t.pc = "read_redis" /\ t.goal = "apply"
  BY <1>1 DEF Task
<1> HIDE DEF t, q, reply
<1>7. Place(t, q)
  BY <1>1, <1>5, <1>6 DEF Place, Reads, Writes
<1>8. result' \in Result
  BY <1>1 DEF ErpReplies
<1> QED
  BY <1>3, <1>4, <1>5, <1>7, <1>8, PlaceKept

LEMMA TimeoutPlace ==
  ASSUME RecInv, NEW w \in Workers, Timeout(w)
  PROVE  RecInv'
<1> DEFINE t == [task[w] EXCEPT !.pc = "pulled", !.goal = "fallback",
                                !.raw = Missing, !.buf = Missing]
<1>1. /\ StoreInv /\ TypeOK /\ task[w] \in Task /\ Tidy(task[w]) /\ rec[w] \in Locals
      /\ Place(task[w], rec[w]) /\ rec[w].phase = "pull" /\ task \in [Workers -> Task]
  BY DEF RecInv, StoreInv, TypeOK, TasksTidy, Timeout
<1>2. /\ task' = [task EXCEPT ![w] = t]
      /\ UNCHANGED <<inputVars, storeVars, published, applied, recVars>>
  BY <1>1 DEF Timeout
<1>3. t \in Task /\ Tidy(t) /\ Place(t, rec[w])
  BY <1>1 DEF Task, Tidy, Labels, Goals, Place
<1>4. published' \in Nat /\ faults' \in 0 .. MaxFaults
  BY <1>1, <1>2, BillingAssumption DEF TypeOK, Timeout, Fails
<1> HIDE DEF t
<1>5. StoreInv'
  BY <1>1, <1>2, <1>3, <1>4, LocalStep
<1> QED
  BY <1>2, <1>3, <1>5, SameLocals

(* It returns: the task is done. *)
LEMMA ReturnPlace ==
  ASSUME RecInv, NEW w \in Workers, NEW action \in {"no_drift", "deferred", "corrected"},
         NEW after \in Record, NEW drifts \in SUBSET DriftTypes,
         Return(w, action, after, drifts),
         UNCHANGED <<inputVars, storeVars, applied, faults>>, published' \in Nat
  PROVE  RecInv'
<1>1. /\ StoreInv /\ TypeOK /\ rec[w] \in Locals /\ Idle \in Task /\ Tidy(Idle)
  BY IdleTidy DEF RecInv, StoreInv
<1>2. task' = [task EXCEPT ![w] = Idle] /\ rec' = [rec EXCEPT ![w] = NoLocals]
  BY DEF Return
<1>3. result' \in Result
  BY <1>1 DEF Return, Result, Locals
<1>4. Place(Idle, NoLocals)
  BY DEF Place, Idle, NoLocals
<1>5. faults' \in 0 .. MaxFaults
  BY <1>1 DEF TypeOK
<1>6. StoreInv'
  BY <1>1, <1>2, <1>5, LocalStep
<1> QED
  BY <1>2, <1>3, <1>4, <1>6, NoLocalsType, PlaceKept

LEMMA DetectPlace ==
  ASSUME RecInv, NEW w \in Workers, Detect(w)
  PROVE  RecInv'
<1> DEFINE erp == Pulled(w)
           drifts == DetectDrift(rec[w].snap, erp, rec[w].edge)
           t == [task[w] EXCEPT !.pc = "read_redis", !.goal = "apply",
                                !.raw = [status |-> erp.status, plan |-> erp.plan]]
           q == [rec[w] EXCEPT !.phase = "correct", !.drifts = drifts]
<1>1. /\ StoreInv /\ TypeOK /\ task[w] \in Task /\ Tidy(task[w]) /\ rec[w] \in Locals
      /\ Place(task[w], rec[w]) /\ rec[w].phase = "pull" /\ task[w].pc = "pulled"
      /\ task \in [Workers -> Task] /\ rec \in [Workers -> Locals] /\ result \in Result
      /\ UNCHANGED <<inputVars, storeVars, published, applied, faults>>
  BY DEF RecInv, StoreInv, TypeOK, TasksTidy, Detect
<1>2. drifts \in SUBSET DriftTypes
  BY DEF DetectDrift, DriftTypes, Mc3DriftTypes
<1>3. published' \in Nat /\ faults' \in 0 .. MaxFaults
  BY <1>1 DEF TypeOK
<1>4. CASE \E action \in {"no_drift", "deferred"} : Return(w, action, Missing, drifts)
  <2>1. Missing \in Record
    BY DEF Record
  <2> HIDE DEF drifts
  <2> QED
    BY <1>1, <1>2, <1>3, <1>4, <2>1, ReturnPlace
<1>5. CASE /\ erp # Missing /\ task' = [task EXCEPT ![w] = t] /\ rec' = [rec EXCEPT ![w] = q]
           /\ UNCHANGED result
  <2>1. erp \in StateRecord /\ erp = task[w].buf /\ task[w].goal # "fallback"
    BY <1>1, <1>5 DEF Pulled, Task
  <2>2. [status |-> erp.status, plan |-> erp.plan] \in Report
    BY <2>1 DEF StateRecord, Report, RawStatuses
  <2> HIDE DEF erp, drifts
  <2>3. t \in Task /\ Tidy(t)
    BY <1>1, <2>2, BillingAssumption DEF Task, Tidy, Labels, Goals
  <2>4. q \in Locals
    BY <1>1, <1>2 DEF Locals
  <2>5. Place(t, q)
    BY <1>1 DEF Place, Reads, Writes, Task, Locals
  <2> HIDE DEF t, q
  <2>6. StoreInv'
    BY <1>1, <1>3, <1>5, <2>3, LocalStep
  <2> QED
    BY <1>1, <1>5, <2>4, <2>5, <2>6, PlaceKept
<1> QED
  BY <1>1, <1>4, <1>5 DEF Detect

LEMMA CorrectedPlace ==
  ASSUME RecInv, NEW w \in Workers, Corrected(w)
  PROVE  RecInv'
<1>1. /\ StoreInv /\ task[w] \in Task /\ rec[w] \in Locals
      /\ Place(task[w], rec[w]) /\ rec[w].phase = "correct" /\ task[w].pc = "pulled"
  BY DEF RecInv, StoreInv, TypeOK, Corrected
<1>2. task[w].buf \in StateRecord /\ task[w].buf \in Record /\ task[w].buf.version \in Nat
  BY <1>1 DEF Place, Task, Record, StateRecord
<1>3. rec[w].drifts \in SUBSET DriftTypes
  BY <1>1 DEF Locals
<1> QED
  BY <1>2, <1>3, ReturnPlace DEF Corrected

(* A step of the store and no step of a reconciliation. *)
LEMMA OtherPlace ==
  ASSUME RecInv, StoreInv', NEW w \in Workers,
         \/ /\ \/ \E e \in EventIds : Deliver(w, e)
               \/ \E job \in PullJobs : StartPull(w, job)
               \/ StartRead(w)
            /\ UNCHANGED recVars
         \/ CrashAll(w)
  PROVE  RecInv'
<1>1. /\ task \in [Workers -> Task] /\ rec \in [Workers -> Locals] /\ task[w] \in Task
      /\ Place(task[w], rec[w]) /\ Tidy(task[w]) /\ result \in Result
  BY DEF RecInv, StoreInv, TypeOK, TasksTidy
<1>2. CASE CrashAll(w)
  <2>1. /\ task' = [task EXCEPT ![w] = Idle] /\ rec' = [rec EXCEPT ![w] = NoLocals]
        /\ result' \in Result
    BY <1>1, <1>2 DEF CrashAll, Crash
  <2>2. Place(Idle, NoLocals)
    BY DEF Place, Idle, NoLocals
  <2> QED
    BY <2>1, <2>2, NoLocalsType, PlaceKept
<1>3. CASE /\ \/ \E e \in EventIds : Deliver(w, e)
              \/ \E job \in PullJobs : StartPull(w, job)
              \/ StartRead(w)
           /\ UNCHANGED recVars
  <2> DEFINE t == task'[w]
  <2>0. \/ \E e \in EventIds : t = [Idle EXCEPT !.pc = "replay_get", !.job = "webhook",
                                               !.evt = e, !.raw = erpLog[e]]
        \/ \E job \in PullJobs :
             t = [Idle EXCEPT !.pc = "http", !.job = job, !.attempt = 1]
        \/ t = [Idle EXCEPT !.pc = "read_redis", !.job = "read", !.goal = "caller"]
    BY <1>1, <1>3 DEF Deliver, StartPull, StartRead
  <2>1. task[w].pc = "idle" /\ task' = [task EXCEPT ![w] = t]
    BY <1>1, <1>3 DEF Deliver, StartPull, StartRead
  <2> HIDE DEF t
  <2>4. t.job # "reconcile"
    <3>1. "reconcile" \notin PullJobs
      BY BillingAssumption
    <3> QED
      BY <2>0, <3>1 DEF Idle
  <2>2. rec[w].phase = "none"
    BY <1>1, <2>1 DEF Place, Reads, Writes, Locals
  <2>3. Place(t, rec[w])
    BY <2>2, <2>4 DEF Place
  <2> QED
    BY <1>3, <2>1, <2>3, SameLocals
<1> QED
  BY <1>2, <1>3

LEMMA RecInvInit == RecInit => RecInv
<1> SUFFICES ASSUME RecInit PROVE RecInv
  OBVIOUS
<1>1. StoreInv
  BY StoreInit DEF RecInit
<1>2. \A w \in Workers : Place(task[w], rec[w])
  BY DEF RecInit, Init, Place, Idle, NoLocals
<1> QED
  BY <1>1, <1>2, NoLocalsType DEF RecInit, RecInv

LEMMA RecInvKept == RecInv /\ [RecNext]_allVars => RecInv'
<1> SUFFICES ASSUME RecInv, [RecNext]_allVars PROVE RecInv'
  OBVIOUS
<1>1. StoreInv /\ ([Next]_vars => StoreInv')
  BY StoreInvKept DEF RecInv
<1>2. CASE Environment /\ UNCHANGED recVars
  <2>1. StoreInv' /\ UNCHANGED task
    BY <1>1, <1>2 DEF Next, Environment, ErpChange, Evict, RedisFlush
  <2> QED
    BY <1>2, <2>1 DEF RecInv, recVars
<1>3. CASE UNCHANGED allVars
  <2>1. StoreInv'
    BY <1>1, <1>3 DEF allVars
  <2> QED
    BY <1>3, <2>1 DEF RecInv, allVars, vars, recVars
<1>4. ASSUME NEW w \in Workers,
             \/ /\ \/ \E e \in EventIds : Deliver(w, e)
                   \/ \E job \in PullJobs : StartPull(w, job)
                   \/ StartRead(w)
                /\ UNCHANGED recVars
             \/ CrashAll(w)
      PROVE  RecInv'
  <2>1. StoreInv'
    BY <1>1, <1>4 DEF Next, CrashAll
  <2> QED
    BY <1>4, <2>1, OtherPlace
<1>5. ASSUME NEW w \in Workers, StoreStep(w), UNCHANGED recVars PROVE RecInv'
  <2>1. StoreInv'
    BY <1>1, <1>5 DEF Next, Step, StoreStep
  <2> QED
    BY <1>5, <2>1, StoreStepPlace
<1>6. ASSUME NEW w \in Workers, ErpReplies(w) PROVE RecInv'
  <2>1. StoreInv'
    BY <1>1, <1>6 DEF Next, Step, ErpReplies
  <2> QED
    BY <1>6, <2>1, ReplyPlace
<1>7. ASSUME NEW w \in Workers,
             \/ ReconcileAll(w)
             \/ \E edge \in EdgePayloads \cup {Missing} : RunReconciliation(w, edge)
      PROVE  RecInv'
  BY <1>7, StartPlace DEF ReconcileAll, RunReconciliation
<1>8. ASSUME NEW w \in Workers, PullErp(w) \/ Timeout(w) \/ Detect(w) \/ Corrected(w)
      PROVE  RecInv'
  BY <1>8, PullPlace, TimeoutPlace, DetectPlace, CorrectedPlace
<1> QED
  BY <1>2, <1>3, <1>4, <1>5, <1>6, <1>7, <1>8 DEF RecNext

LEMMA RecInvariant == RecSpec => []RecInv
BY RecInvInit, RecInvKept, PTL DEF RecSpec

(* For any number of tasks, reconciliations among them, and any deadline,      *)
(* restart or failure: the layers, the locals of reconcile_tenant and its       *)
(* result keep their types, so that what is corrected, published or reported    *)
(* is a complete record, also when the pull was cut off half-way.             *)
THEOREM RecTypeCorrect == RecSpec => []RecTypeOK
<1>1. RecInv => RecTypeOK
  BY DEF RecInv, StoreInv, RecTypeOK
<1> QED
  BY RecInvariant, <1>1, PTL

(* Reconciliation opens no way into trial either. *)
THEOREM RecNoTrial == RecSpec => []TrialNeverStored
<1>1. RecInv => TrialNeverStored
  BY DEF RecInv, StoreInv
<1> QED
  BY RecInvariant, <1>1, PTL

-------------------------------------------------------------------------------
(* One task at a time, and neither layer fails; deadlines and restarts may     *)
(* leave the key ahead of the row, never behind.                              *)

(* Of the task t, the key r and the row d: nothing older than the row is ever   *)
(* read or written.                                                           *)
Ahead(t, r, d) ==
  /\ r # Missing => r.version >= Version(d)
  /\ t.pc = "repopulate" => t.buf = d
  /\ t.pc \in Writes => t.buf.version >= Version(d)
  /\ t.pc = "write_db" => r \in {Missing, t.buf}

(* The status s is what the report asks for, or the machine forbids it. *)
Heeds(status, report) ==
  LET s == ErpStatusToState(report.status)
  IN  status = s \/ ~Accepted(status, s)

Answers(b, report) == b.plan = report.plan /\ Heeds(b.status, report)

(* What a reconciliation with locals q has made of the reply to its pull. *)
Obeys(t, q, r, d) ==
  /\ q.phase = "snapshot" => q.report = Missing
  /\ q.phase = "pull" =>
       /\ t.pc = "http" \/ t.goal = "existing" => q.report = Missing
       /\ t.goal = "apply" => q.report # Missing
       /\ t.pc \in Reads /\ t.goal = "apply" => t.raw = q.report
       /\ t.pc \notin Reads /\ t.goal = "apply" => Answers(t.buf, q.report)
       /\ t.pc = "pulled" /\ t.goal = "apply" => d = t.buf /\ r \in {Missing, d}
  /\ q.phase = "correct" /\ q.report # Missing =>
       /\ t.pc \in Reads =>
            /\ d # Missing /\ r \in {Missing, d} /\ d.status = t.raw.status
            /\ Answers(t.raw, q.report)
       /\ t.pc \notin Reads => Answers(t.buf, q.report)

(* As long as nothing has failed, the key and the row agree, and what the      *)
(* reconciliation found is what it started from.                              *)
Exact(t, q, r, d) ==
  /\ t.pc # "write_db" => r \in {Missing, d}
  /\ q.phase = "snapshot" /\ t.pc = "got" => t.buf = d
  /\ q.phase = "pull" =>
       /\ t.pc # "pulled" => q.snap = d
       /\ t.pc \notin Reads /\ t.goal = "apply" => t.buf.version >= Version(q.snap)
       /\ t.pc = "pulled" /\ t.goal = "existing" => t.buf = q.snap /\ d = q.snap
  /\ q.phase = "correct" =>
       /\ t.pc \in Reads =>
            /\ d # Missing /\ d.version >= Version(q.snap)
            /\ t.raw = [status |-> d.status, plan |-> d.plan]
            /\ q.report = Missing => d = q.snap
       /\ t.pc \notin Reads =>
            /\ t.buf.version > Version(q.snap)
            /\ q.report = Missing /\ q.snap # Missing =>
                 t.buf.status = q.snap.status /\ t.buf.plan = q.snap.plan

SoloInv ==
  /\ \A w \in Workers : /\ Ahead(task[w], redis, db)
                        /\ Obeys(task[w], rec[w], redis, db)
                        /\ faults = 0 => Exact(task[w], rec[w], redis, db)
  /\ CorrectionFollowsErp
  /\ NoChangeUnconfirmed

NoLayerFails == Faults \cap {"redis", "db"} = {}

(* What _apply_and_persist makes of a state and a report: the version does not  *)
(* fall, the plan is the report's, the status is the one asked for unless the   *)
(* machine forbids it.                                                        *)
LEMMA MergeAnswers ==
  ASSUME NEW current \in StateRecord \union {Missing}, NEW report \in Report
  PROVE  /\ Merge(current, report).version >= Version(current)
         /\ Merge(current, report).version \in Nat
         /\ Answers(Merge(current, report), report)
<1> DEFINE old == IF current = Missing THEN [status |-> "active", version |-> 0]
                                       ELSE current
           s == ErpStatusToState(report.status)
           new == ApplyEvent(old.status, old.version, s)
<1>1. old.status \in States /\ old.version \in Nat /\ old.version = Version(current)
  BY BillingAssumption DEF StateRecord, States, Version
<1>2. /\ new.status = s \/ ~Accepted(new.status, s)
      /\ new.version \in {old.version, old.version + 1}
  BY DEF ApplyEvent
<1>3. Merge(current, report)
        = [status |-> new.status, plan |-> report.plan, version |-> new.version]
  BY DEF Merge
<1> HIDE DEF new, old, s
<1>4. /\ Merge(current, report).status = new.status
      /\ Merge(current, report).plan = report.plan
      /\ Merge(current, report).version = new.version
  BY <1>3
<1>5. Heeds(new.status, report)
  BY <1>2 DEF Heeds, s
<1> QED
  BY <1>1, <1>2, <1>4, <1>5 DEF Answers

(* Applied to the state it names, a report is a no-op that counts. *)
LEMMA MergeAgain ==
  ASSUME NEW current \in StateRecord, NEW report \in Report, current.status = report.status
  PROVE  /\ Merge(current, report).status = report.status
         /\ Merge(current, report).plan = report.plan
         /\ Merge(current, report).version = current.version + 1
<1>0. report.status \in States
  BY DEF StateRecord
<1>1. current # Missing /\ ErpStatusToState(report.status) = report.status
  <2>1. current # Missing
    BY BillingAssumption
  <2> QED
    BY <1>0, <2>1 DEF ErpStatusToState, States
<1>2. Accepted(current.status, report.status)
  BY DEF Accepted
<1> QED
  BY <1>1, <1>2 DEF Merge, ApplyEvent

(* The only task makes a step that returns nothing. *)
LEMMA SoloStep ==
  ASSUME OneTask, RecInv, SoloInv, NEW w \in Workers, NEW t, NEW q,
         task' = [task EXCEPT ![w] = t], rec' = [rec EXCEPT ![w] = q], UNCHANGED result,
         faults' \in Nat, faults' >= faults,
         Ahead(t, redis', db'), Obeys(t, q, redis', db'),
         faults' = 0 => Exact(t, q, redis', db')
  PROVE  SoloInv'
<1>1. /\ task \in [Workers -> Task] /\ rec \in [Workers -> Locals] /\ faults \in Nat
  BY BillingAssumption DEF RecInv, StoreInv, TypeOK
<1>2. \A v \in Workers : v = w /\ task'[v] = t /\ rec'[v] = q
  BY <1>1 DEF OneTask
<1>3. faults' = 0 => faults = 0
  BY <1>1
<1>4. CorrectionFollowsErp' /\ NoChangeUnconfirmed'
  BY <1>3 DEF SoloInv, CorrectionFollowsErp, NoChangeUnconfirmed, Counted
<1>5. \A v \in Workers : /\ Ahead(task'[v], redis', db')
                         /\ Obeys(task'[v], rec'[v], redis', db')
                         /\ faults' = 0 => Exact(task'[v], rec'[v], redis', db')
  BY <1>2
<1> QED
  BY <1>4, <1>5 DEF SoloInv

(* get_billing_state returns c: the key or the row, and nothing only if there   *)
(* is neither.                                                                *)
LEMMA GotStateSolo ==
  ASSUME OneTask, RecInv, SoloInv, NEW w \in Workers, task[w].pc \in Reads,
         NEW c \in {redis, db}, c = Missing => db = Missing, GotState(w, c),
         redis' \in {redis, Missing, db}, UNCHANGED <<db, recVars, faults>>
  PROVE  SoloInv'
<1> DEFINE t == task'[w]
           q == rec[w]
<1>1. /\ task \in [Workers -> Task] /\ rec \in [Workers -> Locals] /\ task[w] \in Task
      /\ q \in Locals /\ Tidy(task[w]) /\ Place(task[w], q)
      /\ redis \in Record /\ db \in Record /\ faults \in Nat
      /\ Ahead(task[w], redis, db) /\ Obeys(task[w], q, redis, db)
      /\ faults = 0 => Exact(task[w], q, redis, db)
  BY BillingAssumption DEF RecInv, StoreInv, TypeOK, TasksTidy, SoloInv, Record
<1>2. /\ task' = [task EXCEPT ![w] = t] /\ rec' = [rec EXCEPT ![w] = q] /\ UNCHANGED result
      /\ faults' \in Nat /\ faults' >= faults
  BY <1>1 DEF GotState, Persist, recVars
<1>3. /\ c \in Record /\ Version(c) \in Nat /\ Version(db) \in Nat /\ Version(redis) \in Nat
      /\ Version(Missing) = 0
  BY <1>1 DEF Record, StateRecord, Version
<1>4. Version(c) >= Version(db)
  BY <1>1, <1>3 DEF Ahead, Version
<1>5. redis' # Missing => redis'.version >= Version(db')
  BY <1>1, <1>3 DEF Ahead, Version
<1>6. redis \in {Missing, db} => c = db /\ redis' \in {Missing, db'}
  OBVIOUS
<1>7. task[w].pc \in Reads /\ task[w].pc # "write_db" /\ task[w].pc # "pulled"
  BY DEF Reads
<1>8. CASE task[w].goal = "apply" /\ Persist(w, Merge(c, task[w].raw), "apply")
  <2>1. /\ t.pc = "write_redis" /\ t.goal = "apply" /\ t.buf = Merge(c, task[w].raw)
    BY <1>1, <1>8 DEF Persist, Task
  <2>2. task[w].raw \in Report
    BY <1>1, <1>7, <1>8 DEF Tidy, Task, Reads
  <2>3. /\ t.buf.version >= Version(c) /\ t.buf.version \in Nat
        /\ Answers(t.buf, task[w].raw)
    BY <1>3, <2>1, <2>2, MergeAnswers DEF Record
  <2>4. q.phase # "snapshot"
    BY <1>1, <1>8 DEF Place
  <2>5. c = db /\ db # Missing /\ db.status = task[w].raw.status =>
          /\ t.buf.status = task[w].raw.status /\ t.buf.plan = task[w].raw.plan
          /\ t.buf.version = db.version + 1
    BY <1>1, <2>1, <2>2, MergeAgain DEF Record
  <2> HIDE DEF t
  <2>6. Ahead(t, redis', db')
    BY <1>3, <1>4, <1>5, <2>1, <2>3 DEF Ahead, Writes
  <2>7. Obeys(t, q, redis', db')
    <3>1. CASE q.phase = "pull"
      BY <1>1, <1>7, <1>8, <2>1, <2>3, <3>1 DEF Obeys, Reads
    <3>2. CASE q.phase = "correct" /\ q.report # Missing
      <4>1. c = db /\ db # Missing /\ db.status = task[w].raw.status
            /\ Answers(task[w].raw, q.report)
        BY <1>1, <1>6, <1>7, <3>2 DEF Obeys
      <4>2. Answers(t.buf, q.report)
        BY <2>5, <4>1 DEF Answers
      <4> QED
        BY <2>1, <3>2, <4>2 DEF Obeys, Reads
    <3>3. CASE q.phase \notin {"snapshot", "pull"} /\ (q.phase # "correct" \/ q.report = Missing)
      BY <3>3 DEF Obeys
    <3> QED
      BY <2>4, <3>1, <3>2, <3>3
  <2>8. ASSUME faults' = 0 PROVE Exact(t, q, redis', db')
    <3>1. faults = 0 /\ Exact(task[w], q, redis, db) /\ c = db /\ redis' \in {Missing, db'}
      BY <1>1, <1>6, <1>7, <2>8 DEF Exact
    <3>2. CASE q.phase = "pull"
      BY <1>7, <1>8, <2>1, <2>3, <3>1, <3>2 DEF Exact
    <3>3. CASE q.phase = "correct"
      <4>1. /\ db # Missing /\ db.version >= Version(q.snap)
            /\ task[w].raw = [status |-> db.status, plan |-> db.plan]
            /\ q.report = Missing => db = q.snap
        BY <1>7, <3>1, <3>3 DEF Exact
      <4>2. Version(q.snap) \in Nat /\ db.version \in Nat
        BY <1>1, <4>1 DEF Locals, Record, StateRecord, Version
      <4>3. /\ t.buf.version > Version(q.snap)
            /\ t.buf.status = db.status /\ t.buf.plan = db.plan
        BY <2>5, <3>1, <4>1, <4>2
      <4> QED
        BY <2>1, <3>1, <3>3, <4>1, <4>3 DEF Exact, Reads
    <3>4. CASE q.phase \notin {"snapshot", "pull", "correct"}
      BY <3>1, <3>4 DEF Exact
    <3> QED
      BY <2>4, <3>2, <3>3, <3>4
  <2> QED
    BY <1>2, <2>6, <2>7, <2>8, SoloStep
<1>9. CASE task[w].goal = "existing" /\ c = Missing /\ Persist(w, FreeFallback, "fallback")
  <2>1. t.pc = "write_redis" /\ t.goal = "fallback" /\ t.buf = FreeFallback /\ db = Missing
    BY <1>1, <1>9 DEF Persist, Task
  <2>2. q.phase \in {"none", "pull"} /\ FreeFallback.version = 0
    BY <1>1, <1>9 DEF Place, Locals, FreeFallback
  <2> HIDE DEF t
  <2>3. Ahead(t, redis', db')
    BY <1>3, <1>5, <2>1, <2>2 DEF Ahead, Writes
  <2>4. Obeys(t, q, redis', db')
    BY <2>1, <2>2 DEF Obeys
  <2>5. faults' = 0 => Exact(t, q, redis', db')
    BY <1>1, <1>6, <1>7, <2>1, <2>2 DEF Exact
  <2> QED
    BY <1>2, <2>3, <2>4, <2>5, SoloStep
<1>10. CASE /\ task[w].goal = "existing" /\ c # Missing
            /\ task' = [task EXCEPT ![w].pc = "pulled", ![w].buf = c]
  <2>1. t.pc = "pulled" /\ t.goal = "existing" /\ t.buf = c
    BY <1>1, <1>10 DEF Task
  <2>2. q.phase \in {"none", "pull"}
    BY <1>1, <1>10 DEF Place, Locals
  <2> HIDE DEF t
  <2>3. Ahead(t, redis', db')
    BY <1>5, <2>1 DEF Ahead, Writes
  <2>4. Obeys(t, q, redis', db')
    BY <1>1, <1>10, <2>1, <2>2 DEF Obeys
  <2>5. faults' = 0 => Exact(t, q, redis', db')
    BY <1>1, <1>6, <1>7, <2>1, <2>2 DEF Exact
  <2> QED
    BY <1>2, <2>3, <2>4, <2>5, SoloStep
<1>11. CASE /\ task[w].goal = "caller"
            /\ task' = [task EXCEPT ![w].pc = "got", ![w].buf = c]
  <2>1. t.pc = "got" /\ t.goal = "caller" /\ t.buf = c
    BY <1>1, <1>11 DEF Task
  <2>2. q.phase \in {"none", "snapshot"}
    BY <1>1, <1>7, <1>11 DEF Place, Locals
  <2> HIDE DEF t
  <2>3. Ahead(t, redis', db')
    BY <1>5, <2>1 DEF Ahead, Writes
  <2>4. Obeys(t, q, redis', db')
    BY <1>1, <2>1, <2>2 DEF Obeys
  <2>5. faults' = 0 => Exact(t, q, redis', db')
    BY <1>1, <1>6, <1>7, <2>1, <2>2 DEF Exact
  <2> QED
    BY <1>2, <2>3, <2>4, <2>5, SoloStep
<1> QED
  BY <1>8, <1>9, <1>10, <1>11 DEF GotState

-------------------------------------------------------------------------------
(* What every step of the only task starts from. *)
LEMMA SoloFacts ==
  ASSUME RecInv, SoloInv, NEW w \in Workers
  PROVE  /\ task \in [Workers -> Task] /\ rec \in [Workers -> Locals]
         /\ task[w] \in Task /\ rec[w] \in Locals
         /\ Tidy(task[w]) /\ Place(task[w], rec[w])
         /\ redis \in Record /\ db \in Record /\ faults \in Nat
         /\ Ahead(task[w], redis, db) /\ Obeys(task[w], rec[w], redis, db)
         /\ faults = 0 => Exact(task[w], rec[w], redis, db)
BY BillingAssumption DEF RecInv, StoreInv, TypeOK, TasksTidy, SoloInv, Record

LEMMA LayersSucceed == NoLayerFails => ~Fails("redis") /\ ~Fails("db")
BY DEF NoLayerFails, Fails

(* A step that leaves the locals of reconcile_tenant alone. *)
LEMMA SoloTask ==
  ASSUME OneTask, RecInv, SoloInv, NEW w \in Workers, NEW t,
         task' = [task EXCEPT ![w] = t], UNCHANGED recVars,
         faults' \in Nat, faults' >= faults,
         Ahead(t, redis', db'), Obeys(t, rec[w], redis', db'),
         faults' = 0 => Exact(t, rec[w], redis', db')
  PROVE  SoloInv'
<1>1. rec' = [rec EXCEPT ![w] = rec[w]] /\ UNCHANGED result
  BY SoloFacts DEF recVars
<1> QED
  BY <1>1, SoloStep

LEMMA ReadSolo ==
  ASSUME OneTask, NoLayerFails, RecInv, SoloInv, NEW w \in Workers,
         ReadRedis(w) \/ ReadDb(w) \/ Repopulate(w), UNCHANGED recVars
  PROVE  SoloInv'
<1> DEFINE t == task'[w]
<1>1. /\ task \in [Workers -> Task] /\ task[w] \in Task /\ rec[w] \in Locals
      /\ Place(task[w], rec[w]) /\ redis \in Record /\ db \in Record /\ faults \in Nat
      /\ Ahead(task[w], redis, db) /\ Obeys(task[w], rec[w], redis, db)
      /\ faults = 0 => Exact(task[w], rec[w], redis, db)
  BY SoloFacts
<1>2. task[w].pc \in Reads /\ UNCHANGED <<db, recVars, faults>>
  BY LayersSucceed DEF ReadRedis, ReadDb, Repopulate, Reads, storeVars
<1>7. faults' \in Nat /\ faults' >= faults
  BY <1>1, <1>2
<1>3. CASE redis # Missing /\ GotState(w, redis) /\ UNCHANGED redis
  BY <1>2, <1>3, GotStateSolo
<1>4. CASE db = Missing /\ GotState(w, Missing) /\ UNCHANGED redis
  BY <1>2, <1>4, GotStateSolo
<1>5. CASE Repopulate(w)
  <2>1. task[w].buf = db
    BY <1>1, <1>5 DEF Ahead, Repopulate
  <2>2. redis' = db /\ GotState(w, db)
    BY <1>5, <2>1, LayersSucceed DEF Repopulate
  <2> QED
    BY <1>2, <2>2, GotStateSolo
<1>6. CASE /\ \/ GoTo(w, "read_db")
              \/ task' = [task EXCEPT ![w].pc = "repopulate", ![w].buf = db]
           /\ UNCHANGED redis
  <2>1. /\ task' = [task EXCEPT ![w] = t] /\ t.goal = task[w].goal /\ t.raw = task[w].raw
        /\ \/ t.pc = "read_db"
           \/ t.pc = "repopulate" /\ t.buf = db
    <3>1. CASE GoTo(w, "read_db")
      BY <1>1, <3>1 DEF GoTo, Task
    <3>2. CASE task' = [task EXCEPT ![w].pc = "repopulate", ![w].buf = db]
      BY <1>1, <3>2 DEF Task
    <3> QED
      BY <1>6, <3>1, <3>2
  <2>2. t.pc \in Reads /\ t.pc \notin Writes \union {"http", "got", "pulled", "write_db"}
    BY <2>1 DEF Reads, Writes
  <2>3. task[w].pc \notin {"http", "got", "pulled", "write_db"}
    BY <1>2 DEF Reads
  <2> HIDE DEF t
  <2>4. Ahead(t, redis', db')
    BY <1>1, <1>2, <1>6, <2>1, <2>2 DEF Ahead
  <2>5. Obeys(t, rec[w], redis', db')
    BY <1>1, <1>2, <1>6, <2>1, <2>2, <2>3 DEF Obeys
  <2>6. faults' = 0 => Exact(t, rec[w], redis', db')
    BY <1>1, <1>2, <1>6, <2>1, <2>2, <2>3 DEF Exact
  <2> QED
    BY <1>2, <1>7, <2>1, <2>4, <2>5, <2>6, SoloTask
<1> QED
  BY <1>3, <1>4, <1>5, <1>6, LayersSucceed DEF ReadRedis, ReadDb, storeVars

LEMMA WriteSolo ==
  ASSUME OneTask, NoLayerFails, RecInv, SoloInv, NEW w \in Workers,
         WriteRedis(w) \/ WriteDb(w), UNCHANGED recVars
  PROVE  SoloInv' /\ Version(db') >= Version(db)
<1> DEFINE t == task'[w]
           b == task[w].buf
<1>1. /\ task \in [Workers -> Task] /\ task[w] \in Task /\ rec[w] \in Locals
      /\ Place(task[w], rec[w]) /\ redis \in Record /\ db \in Record /\ faults \in Nat
      /\ Ahead(task[w], redis, db) /\ Obeys(task[w], rec[w], redis, db)
      /\ faults = 0 => Exact(task[w], rec[w], redis, db)
  BY SoloFacts
<1>2. task[w].pc \in Writes /\ UNCHANGED <<recVars, faults>> /\ b # Missing
  BY LayersSucceed, SoloFacts DEF WriteRedis, WriteDb, Writes, Tidy
<1>3. /\ b \in StateRecord /\ b.version \in Nat /\ Version(db) \in Nat
      /\ b.version >= Version(db)
  BY <1>1, <1>2 DEF Task, Record, StateRecord, Version, Ahead
<1>7. faults' \in Nat /\ faults' >= faults
  BY <1>1, <1>2
<1>4. /\ task[w].pc \notin Reads /\ task[w].pc \notin {"http", "pulled", "got"}
      /\ rec[w].phase \in {"none", "pull", "correct"}
      /\ rec[w].phase = "pull" => task[w].goal # "existing"
  BY <1>1, <1>2 DEF Reads, Writes, Place, Locals
<1>5. CASE WriteRedis(w)
  <2>1. redis' = b /\ UNCHANGED db /\ GoTo(w, "write_db") /\ task[w].pc = "write_redis"
    BY <1>5, LayersSucceed DEF WriteRedis
  <2>2. /\ task' = [task EXCEPT ![w] = t] /\ t.goal = task[w].goal /\ t.buf = b
        /\ t.pc = "write_db"
    BY <1>1, <2>1 DEF GoTo, Task
  <2>3. t.pc \notin Reads /\ t.pc \in Writes /\ t.pc \notin {"http", "pulled", "got"}
    BY <2>2 DEF Reads, Writes
  <2> HIDE DEF t, b
  <2>4. Ahead(t, redis', db')
    BY <1>3, <2>1, <2>2, <2>3 DEF Ahead
  <2>5. Obeys(t, rec[w], redis', db')
    BY <1>1, <1>4, <2>2, <2>3 DEF Obeys, b
  <2>6. faults' = 0 => Exact(t, rec[w], redis', db')
    BY <1>1, <1>2, <1>4, <2>1, <2>2, <2>3 DEF Exact, b
  <2> QED
    <3>1. SoloInv'
      BY <1>2, <1>7, <2>2, <2>4, <2>5, <2>6, SoloTask
    <3> QED
      BY <1>3, <2>1, <3>1
<1>6. CASE WriteDb(w)
  <2>1. db' = b /\ UNCHANGED redis /\ task[w].pc = "write_db"
    BY <1>6, LayersSucceed DEF WriteDb
  <2>2. redis \in {Missing, b} /\ Version(b) = b.version
    BY <1>1, <1>2, <2>1 DEF Ahead, Version
  <2>3. /\ task' = [task EXCEPT ![w] = t]
        /\ \/ task[w].job = "webhook" /\ t.pc = "read_redis"
           \/ task[w].job # "webhook" /\ t.pc = "pulled" /\ t.goal = task[w].goal
              /\ t.buf = b
    BY <1>1, <1>6 DEF WriteDb, GoTo, Task
  <2>4. t.pc \notin Writes \union {"repopulate", "write_db", "http", "got"}
    BY <2>3 DEF Writes
  <2> HIDE DEF t, b
  <2>5. Ahead(t, redis', db')
    BY <1>3, <2>1, <2>2, <2>4 DEF Ahead
  <2>6. ASSUME task[w].job = "webhook" PROVE SoloInv'
    <3>1. rec[w].phase = "none"
      BY <1>1, <2>6 DEF Place, Locals
    <3>2. Obeys(t, rec[w], redis', db') /\ Exact(t, rec[w], redis', db')
      BY <2>1, <2>2, <3>1 DEF Obeys, Exact
    <3> QED
      BY <1>2, <1>7, <2>3, <2>5, <3>2, SoloTask
  <2>7. ASSUME task[w].job # "webhook" PROVE SoloInv'
    <3>1. t.pc = "pulled" /\ t.goal = task[w].goal /\ t.buf = b /\ t.pc \notin Reads
      BY <2>3, <2>7 DEF Reads
    <3>2. Obeys(t, rec[w], redis', db')
      BY <1>1, <1>4, <2>1, <2>2, <3>1 DEF Obeys, b
    <3>3. faults' = 0 => Exact(t, rec[w], redis', db')
      BY <1>1, <1>2, <1>4, <2>1, <2>2, <3>1 DEF Exact, b
    <3> QED
      BY <1>2, <1>7, <2>3, <2>5, <3>2, <3>3, SoloTask
  <2>8. Version(db') >= Version(db)
    BY <1>3, <2>1, <2>2
  <2> QED
    BY <2>6, <2>7, <2>8
<1> QED
  BY <1>5, <1>6

-------------------------------------------------------------------------------
(* The steps around the store's code. *)

(* A task begins, ends or goes on without having a state at hand. *)
LEMMA BesideSolo ==
  ASSUME OneTask, RecInv, SoloInv, NEW w \in Workers, NEW t, NEW q,
         task' = [task EXCEPT ![w] = t], rec' = [rec EXCEPT ![w] = q],
         UNCHANGED <<redis, db, result>>, faults' \in Nat, faults' >= faults,
         t.pc \notin Writes \union {"repopulate"}, q.phase = "none",
         faults' = 0 => task[w].pc # "write_db"
  PROVE  SoloInv'
<1>1. /\ Ahead(task[w], redis, db) /\ faults \in Nat
      /\ faults = 0 => Exact(task[w], rec[w], redis, db)
  BY SoloFacts
<1>2. Ahead(t, redis', db') /\ Obeys(t, q, redis', db')
  BY <1>1 DEF Ahead, Obeys, Writes
<1>3. faults' = 0 => Exact(t, q, redis', db')
  BY <1>1 DEF Exact
<1> QED
  BY <1>2, <1>3, SoloStep

LEMMA OtherSolo ==
  ASSUME OneTask, RecInv, SoloInv, NEW w \in Workers,
         \/ /\ \/ \E e \in EventIds : Deliver(w, e)
               \/ \E job \in PullJobs : StartPull(w, job)
               \/ StartRead(w) \/ ReplayGet(w) \/ ReplaySet(w) \/ Finish(w)
            /\ UNCHANGED recVars
         \/ CrashAll(w)
  PROVE  SoloInv'
<1> DEFINE t == task'[w]
<1>1. /\ task \in [Workers -> Task] /\ rec \in [Workers -> Locals] /\ faults \in Nat
      /\ task[w] \in Task /\ Tidy(task[w]) /\ Place(task[w], rec[w]) /\ rec[w] \in Locals
  BY SoloFacts
<1>2. CASE CrashAll(w)
  <2>1. /\ task' = [task EXCEPT ![w] = Idle] /\ rec' = [rec EXCEPT ![w] = NoLocals]
        /\ UNCHANGED <<redis, db, result>> /\ faults' = faults + 1
    BY <1>2 DEF CrashAll, Crash, Fails, storeVars
  <2>2. Idle.pc \notin Writes \union {"repopulate"} /\ NoLocals.phase = "none"
    BY DEF Idle, NoLocals, Writes
  <2>3. faults' \in Nat /\ faults' >= faults /\ faults' # 0
    BY <1>1, <2>1
  <2> QED
    BY <2>1, <2>2, <2>3, BesideSolo
<1>3. CASE /\ \/ \E e \in EventIds : Deliver(w, e)
              \/ \E job \in PullJobs : StartPull(w, job)
              \/ StartRead(w) \/ ReplayGet(w) \/ ReplaySet(w) \/ Finish(w)
           /\ UNCHANGED recVars
  <2>1. /\ task[w].pc \in {"idle", "replay_get", "replay_set", "got", "pulled"}
        /\ UNCHANGED <<redis, db>> /\ faults' \in {faults, faults + 1}
    BY <1>3 DEF Deliver, StartPull, StartRead, ReplayGet, ReplaySet, Finish, Fails, storeVars
  <2>2. rec[w].phase = "none"
    <3>1. CASE task[w].pc = "idle"
      BY <1>1, <3>1 DEF Place, Reads, Writes, Locals
    <3>2. CASE ReplayGet(w) \/ ReplaySet(w) \/ Finish(w)
      BY <1>1, <3>2 DEF Place, Tidy, ReplayGet, ReplaySet, Finish
    <3> QED
      BY <1>3, <3>1, <3>2 DEF Deliver, StartPull, StartRead
  <2>3. /\ task' = [task EXCEPT ![w] = t]
        /\ t.pc \in {"idle", "replay_get", "replay_set", "http", "read_redis"}
    <3>1. CASE (\E e \in EventIds : Deliver(w, e)) \/ StartRead(w)
      BY <1>1, <3>1 DEF Deliver, StartRead, Idle
    <3>2. CASE \E job \in PullJobs : StartPull(w, job)
      BY <1>1, <3>2 DEF StartPull, Idle
    <3>3. CASE ReplayGet(w) \/ ReplaySet(w) \/ Finish(w)
      BY <1>1, <3>3 DEF ReplayGet, ReplaySet, Finish, ApplyWebhook, GoTo, Task, Idle
    <3> QED
      BY <1>3, <3>1, <3>2, <3>3
  <2> HIDE DEF t
  <2>4. rec' = [rec EXCEPT ![w] = rec[w]] /\ UNCHANGED result
    BY <1>1, <1>3 DEF recVars
  <2>5. t.pc \notin Writes \union {"repopulate"} /\ task[w].pc # "write_db"
    BY <2>1, <2>3 DEF Writes
  <2>6. faults' \in Nat /\ faults' >= faults
    BY <1>1, <2>1
  <2> QED
    BY <2>1, <2>2, <2>3, <2>4, <2>5, <2>6, BesideSolo
<1> QED
  BY <1>2, <1>3

LEMMA HttpSolo ==
  ASSUME OneTask, RecInv, SoloInv, NEW w \in Workers,
         (HttpFail(w) /\ UNCHANGED recVars) \/ ErpReplies(w)
  PROVE  SoloInv'
<1> DEFINE t == task'[w]
           q == rec'[w]
<1>1. /\ task \in [Workers -> Task] /\ rec \in [Workers -> Locals] /\ faults \in Nat
      /\ task[w] \in Task /\ Place(task[w], rec[w]) /\ rec[w] \in Locals
      /\ Ahead(task[w], redis, db) /\ Obeys(task[w], rec[w], redis, db)
      /\ faults = 0 => Exact(task[w], rec[w], redis, db)
  BY SoloFacts
<1>2. /\ task[w].pc = "http" /\ UNCHANGED <<redis, db, result>>
      /\ faults' \in {faults, faults + 1}
  BY DEF HttpFail, ErpReplies, HttpReply, Fails, storeVars, recVars
<1>3. faults' \in Nat /\ faults' >= faults
  BY <1>1, <1>2
<1>4. rec[w].phase \in {"none", "pull"} /\ (rec[w].phase = "pull" => task[w].goal = "none")
  BY <1>1, <1>2 DEF Place, Reads, Writes, Locals
<1>5. CASE HttpFail(w) /\ UNCHANGED recVars
  <2>1. /\ task' = [task EXCEPT ![w] = t]
        /\ \/ t.pc = "http" /\ t.goal = task[w].goal
           \/ t.pc = "read_redis" /\ t.goal = "existing"
    BY <1>1, <1>5 DEF HttpFail, Task
  <2> HIDE DEF t
  <2>2. Ahead(t, redis', db')
    BY <1>1, <1>2, <2>1 DEF Ahead, Writes
  <2>3. Obeys(t, rec[w], redis', db')
    BY <1>1, <1>2, <1>4, <2>1 DEF Obeys, Reads
  <2>4. faults' = 0 => Exact(t, rec[w], redis', db')
    BY <1>1, <1>2, <1>4, <2>1 DEF Exact, Reads
  <2> QED
    BY <1>3, <1>5, <2>1, <2>2, <2>3, <2>4, SoloTask
<1>6. CASE ErpReplies(w)
  <2>1. PICK r \in Report :
          task' = [task EXCEPT ![w].pc = "read_redis", ![w].goal = "apply", ![w].raw = r]
    BY <1>6 DEF ErpReplies, HttpReply
  <2>2. /\ task' = [task EXCEPT ![w] = t] /\ t.pc = "read_redis" /\ t.goal = "apply"
        /\ t.raw = r /\ r # Missing
    BY <1>1, <2>1, BillingAssumption DEF Task
  <2> HIDE DEF t
  <2>3. /\ rec' = [rec EXCEPT ![w] = q] /\ q.phase = rec[w].phase /\ q.snap = rec[w].snap
        /\ task[w].job = "reconcile" => q.report = t.raw
    BY <1>1, <1>6 DEF ErpReplies, Locals, t
  <2> HIDE DEF q
  <2>4. rec[w].phase = "pull" => q.report = t.raw
    BY <1>1, <2>3 DEF Place
  <2>5. Ahead(t, redis', db')
    BY <1>1, <1>2, <2>2 DEF Ahead, Writes
  <2>6. Obeys(t, q, redis', db')
    BY <1>4, <2>2, <2>3, <2>4 DEF Obeys, Reads
  <2>7. faults' = 0 => Exact(t, q, redis', db')
    BY <1>1, <1>2, <1>4, <2>2, <2>3 DEF Exact, Reads
  <2> QED
    BY <1>2, <1>3, <2>2, <2>3, <2>5, <2>6, <2>7, SoloStep
<1> QED
  BY <1>5, <1>6

(* The steps of reconcile_tenant itself. *)

LEMMA BeginSolo ==
  ASSUME OneTask, RecInv, SoloInv, NEW w \in Workers, NEW force \in BOOLEAN,
         NEW edge \in EdgePayloads \union {Missing}, StartReconcile(w, force, edge)
  PROVE  SoloInv'
<1> DEFINE t == [Idle EXCEPT !.pc = "read_redis", !.job = "reconcile", !.goal = "caller"]
           q == rec'[w]
<1>1. /\ rec \in [Workers -> Locals] /\ faults \in Nat
      /\ Ahead(task[w], redis, db)
      /\ faults = 0 => Exact(task[w], rec[w], redis, db)
  BY SoloFacts
<1>2. /\ task' = [task EXCEPT ![w] = t] /\ rec' = [rec EXCEPT ![w] = q]
      /\ UNCHANGED <<redis, db, result, faults>> /\ task[w].pc = "idle"
  BY <1>1 DEF StartReconcile, storeVars
<1>3. q.phase = "snapshot" /\ q.report = Missing
  BY <1>1 DEF StartReconcile, NoLocals
<1>4. t.pc = "read_redis" /\ t.goal = "caller"
  BY DEF Idle
<1> HIDE DEF t, q
<1>5. Ahead(t, redis', db')
  BY <1>1, <1>2, <1>4 DEF Ahead, Writes
<1>6. Obeys(t, q, redis', db')
  BY <1>3 DEF Obeys
<1>7. faults' = 0 => Exact(t, q, redis', db')
  BY <1>1, <1>2, <1>3, <1>4 DEF Exact
<1>8. faults' \in Nat /\ faults' >= faults
  BY <1>1, <1>2
<1> QED
  BY <1>2, <1>5, <1>6, <1>7, <1>8, SoloStep

LEMMA PullSolo ==
  ASSUME OneTask, RecInv, SoloInv, NEW w \in Workers, PullErp(w)
  PROVE  SoloInv'
<1> DEFINE t == task'[w]
           q == rec'[w]
<1>1. /\ task \in [Workers -> Task] /\ rec \in [Workers -> Locals] /\ faults \in Nat
      /\ task[w] \in Task /\ rec[w] \in Locals
      /\ Ahead(task[w], redis, db) /\ Obeys(task[w], rec[w], redis, db)
      /\ faults = 0 => Exact(task[w], rec[w], redis, db)
  BY SoloFacts
<1>2. /\ task' = [task EXCEPT ![w] = t] /\ t.pc = "http" /\ t.goal = "none"
      /\ UNCHANGED <<redis, db, result, faults>>
      /\ task[w].pc = "got" /\ rec[w].phase = "snapshot"
  BY <1>1 DEF PullErp, Task, storeVars
<1>3. /\ rec' = [rec EXCEPT ![w] = q] /\ q.phase = "pull" /\ q.snap = task[w].buf
      /\ q.report = rec[w].report
  BY <1>1 DEF PullErp, Locals
<1> HIDE DEF t, q
<1>4. Ahead(t, redis', db')
  BY <1>1, <1>2 DEF Ahead, Writes
<1>5. Obeys(t, q, redis', db')
  BY <1>1, <1>2, <1>3 DEF Obeys, Reads
<1>6. faults' = 0 => Exact(t, q, redis', db')
  BY <1>1, <1>2, <1>3 DEF Exact, Reads
<1>7. faults' \in Nat /\ faults' >= faults
  BY <1>1, <1>2
<1> QED
  BY <1>2, <1>3, <1>4, <1>5, <1>6, <1>7, SoloStep

LEMMA TimeoutSolo ==
  ASSUME OneTask, RecInv, SoloInv, NEW w \in Workers, Timeout(w)
  PROVE  SoloInv'
<1> DEFINE t == task'[w]
<1>1. /\ task \in [Workers -> Task] /\ task[w] \in Task /\ faults \in Nat
      /\ Ahead(task[w], redis, db)
  BY SoloFacts
<1>2. /\ task' = [task EXCEPT ![w] = t] /\ t.pc = "pulled" /\ t.goal = "fallback"
      /\ UNCHANGED <<redis, db, recVars>> /\ faults' = faults + 1 /\ rec[w].phase = "pull"
  BY <1>1 DEF Timeout, Fails, Task, storeVars
<1>3. faults' \in Nat /\ faults' >= faults /\ faults' # 0
  BY <1>1, <1>2
<1> HIDE DEF t
<1>4. Ahead(t, redis', db')
  BY <1>1, <1>2 DEF Ahead, Writes
<1>5. Obeys(t, rec[w], redis', db')
  BY <1>2 DEF Obeys
<1> QED
  BY <1>2, <1>3, <1>4, <1>5, SoloTask

LEMMA CorrectSolo ==
  ASSUME OneTask, RecInv, SoloInv, NEW w \in Workers, NEW drifts \in SUBSET DriftTypes,
         rec[w].phase = "pull", task[w].pc = "pulled", Pulled(w) # Missing,
         task' = [task EXCEPT ![w].pc = "read_redis", ![w].goal = "apply",
                    ![w].raw = [status |-> Pulled(w).status, plan |-> Pulled(w).plan]],
         rec' = [rec EXCEPT ![w].phase = "correct", ![w].drifts = drifts],
         UNCHANGED <<redis, db, result, faults>>
  PROVE  SoloInv'
<1> DEFINE t == task'[w]
           q == rec'[w]
           b == task[w].buf
<1>1. /\ task \in [Workers -> Task] /\ rec \in [Workers -> Locals] /\ faults \in Nat
      /\ task[w] \in Task /\ rec[w] \in Locals /\ Place(task[w], rec[w])
      /\ Ahead(task[w], redis, db) /\ Obeys(task[w], rec[w], redis, db)
      /\ faults = 0 => Exact(task[w], rec[w], redis, db)
  BY SoloFacts
<1>2. Pulled(w) = b /\ b # Missing /\ task[w].goal \in {"apply", "existing"}
  BY <1>1 DEF Pulled, Place, Reads, Writes
<1>3. /\ task' = [task EXCEPT ![w] = t] /\ t.pc = "read_redis" /\ t.goal = "apply"
      /\ t.raw = [status |-> b.status, plan |-> b.plan]
  BY <1>1, <1>2 DEF Task
<1>4. /\ rec' = [rec EXCEPT ![w] = q] /\ q.phase = "correct"
      /\ q.report = rec[w].report /\ q.snap = rec[w].snap
  BY <1>1 DEF Locals
<1> HIDE DEF t, q, b
<1>5. Ahead(t, redis', db')
  BY <1>1, <1>3 DEF Ahead, Writes
<1>6. /\ task[w].pc \notin Reads /\ t.pc \in Reads
      /\ t.raw.status = b.status /\ t.raw.plan = b.plan
  BY <1>3 DEF Reads
<1>7. ASSUME rec[w].report # Missing
      PROVE  /\ task[w].goal = "apply" /\ Answers(b, rec[w].report)
             /\ db = b /\ redis \in {Missing, db}
  BY <1>1, <1>2, <1>6, <1>7 DEF Obeys, b
<1>8. Obeys(t, q, redis', db')
  <2>1. ASSUME q.report # Missing
        PROVE  /\ db # Missing /\ redis \in {Missing, db} /\ db.status = t.raw.status
               /\ Answers(t.raw, q.report)
    BY <1>2, <1>4, <1>6, <1>7, <2>1 DEF Answers
  <2> QED
    BY <1>4, <1>6, <2>1 DEF Obeys
<1>9. faults' = 0 => Exact(t, q, redis', db')
  <2> SUFFICES ASSUME faults = 0 PROVE Exact(t, q, redis, db)
    OBVIOUS
  <2>1. task[w].goal = "existing" => b = rec[w].snap /\ db = b
    BY <1>1 DEF Exact, b
  <2>2. task[w].goal = "apply" =>
          /\ rec[w].report # Missing /\ db = b /\ b.version >= Version(rec[w].snap)
    BY <1>1, <1>6 DEF Exact, Obeys, b
  <2>3. b \in StateRecord /\ b.version \in Nat
    BY <1>1, <1>2 DEF Task, StateRecord, b
  <2>4. db = b /\ db.version >= Version(q.snap) /\ (q.report = Missing => db = q.snap)
    BY <1>2, <1>4, <1>7, <2>1, <2>2, <2>3 DEF Version
  <2>5. redis \in {Missing, db}
    BY <1>1 DEF Exact
  <2> QED
    BY <1>2, <1>3, <1>4, <1>6, <2>4, <2>5 DEF Exact
<1>10. faults' \in Nat /\ faults' >= faults
  BY <1>1
<1> QED
  BY <1>3, <1>4, <1>5, <1>8, <1>9, <1>10, SoloStep

(* It returns a result that keeps the promises. *)
LEMMA ReturnSolo ==
  ASSUME OneTask, RecInv, SoloInv, NEW w \in Workers, NEW action, NEW after, NEW drifts,
         Return(w, action, after, drifts), UNCHANGED <<redis, db, faults>>,
         task[w].pc = "pulled", (CorrectionFollowsErp /\ NoChangeUnconfirmed)'
  PROVE  SoloInv'
<1>1. /\ task \in [Workers -> Task] /\ rec \in [Workers -> Locals] /\ faults \in Nat
      /\ Ahead(task[w], redis, db)
      /\ faults = 0 => Exact(task[w], rec[w], redis, db)
  BY SoloFacts
<1>2. \A v \in Workers : v = w /\ task'[v] = Idle /\ rec'[v] = NoLocals
  BY <1>1 DEF Return, OneTask
<1>3. Idle.pc = "idle" /\ NoLocals.phase = "none"
  BY DEF Idle, NoLocals
<1>4. Ahead(Idle, redis', db') /\ Obeys(Idle, NoLocals, redis', db')
  BY <1>1, <1>3 DEF Ahead, Obeys, Writes
<1>5. faults' = 0 => Exact(Idle, NoLocals, redis', db')
  BY <1>1, <1>3 DEF Exact
<1>6. \A v \in Workers : /\ Ahead(task'[v], redis', db')
                         /\ Obeys(task'[v], rec'[v], redis', db')
                         /\ faults' = 0 => Exact(task'[v], rec'[v], redis', db')
  BY <1>2, <1>4, <1>5
<1> QED
  BY <1>6 DEF SoloInv

LEMMA DetectSolo ==
  ASSUME OneTask, RecInv, SoloInv, NEW w \in Workers, Detect(w)
  PROVE  SoloInv'
<1> DEFINE drifts == DetectDrift(rec[w].snap, Pulled(w), rec[w].edge)
<1>1. /\ rec[w].phase = "pull" /\ task[w].pc = "pulled"
      /\ UNCHANGED <<redis, db, faults>>
  BY DEF Detect, storeVars
<1>2. drifts \in SUBSET DriftTypes
  BY DEF DetectDrift, DriftTypes, Mc3DriftTypes
<1>3. ASSUME NEW action \in {"no_drift", "deferred"}, Return(w, action, Missing, drifts)
      PROVE  SoloInv'
  <2>1. result'.action # "corrected"
    BY <1>3 DEF Return
  <2>2. (CorrectionFollowsErp /\ NoChangeUnconfirmed)'
    BY <2>1 DEF CorrectionFollowsErp, NoChangeUnconfirmed
  <2> HIDE DEF drifts
  <2> QED
    BY <1>1, <1>3, <2>2, ReturnSolo
<1>4. ASSUME Pulled(w) # Missing,
             task' = [task EXCEPT ![w].pc = "read_redis", ![w].goal = "apply",
                        ![w].raw = [status |-> Pulled(w).status, plan |-> Pulled(w).plan]],
             rec' = [rec EXCEPT ![w].phase = "correct", ![w].drifts = drifts],
             UNCHANGED result
      PROVE  SoloInv'
  <2> HIDE DEF drifts
  <2> QED
    BY <1>1, <1>2, <1>4, CorrectSolo
<1> QED
  BY <1>3, <1>4 DEF Detect

LEMMA CorrectedSolo ==
  ASSUME OneTask, RecInv, SoloInv, NEW w \in Workers, Corrected(w)
  PROVE  SoloInv'
<1> DEFINE b == task[w].buf
           q == rec[w]
<1>1. /\ q.phase = "correct" /\ task[w].pc = "pulled" /\ UNCHANGED <<redis, db, faults>>
      /\ Return(w, "corrected", b, q.drifts)
  BY DEF Corrected, storeVars
<1>2. /\ Place(task[w], q) /\ Obeys(task[w], q, redis, db)
      /\ faults = 0 => Exact(task[w], q, redis, db)
  BY SoloFacts
<1>3. task[w].pc \notin Reads
  BY <1>1 DEF Reads
<1>4. q.report # Missing => Answers(b, q.report)
  BY <1>1, <1>2, <1>3 DEF Obeys
<1>5. faults = 0 =>
        /\ b.version > Version(q.snap)
        /\ q.report = Missing /\ q.snap # Missing =>
             b.status = q.snap.status /\ b.plan = q.snap.plan
  BY <1>1, <1>2, <1>3 DEF Exact
<1>6. /\ result'.report = q.report /\ result'.before = q.snap /\ result'.after = b
      /\ faults' = faults
  BY <1>1 DEF Return
<1> HIDE DEF b, q
<1>7. Counted'
  BY <1>5, <1>6 DEF Counted
<1>8. CorrectionFollowsErp'
  BY <1>4, <1>6, <1>7 DEF CorrectionFollowsErp, Answers, Heeds
<1>9. NoChangeUnconfirmed'
  BY <1>5, <1>6, <1>7 DEF NoChangeUnconfirmed
<1> QED
  BY <1>1, <1>8, <1>9, ReturnSolo

-------------------------------------------------------------------------------
(* The invariant of the only task. *)

LEMMA SoloInit == RecInit => SoloInv
<1> SUFFICES ASSUME RecInit PROVE SoloInv
  OBVIOUS
<1>1. /\ redis = Missing /\ db = Missing /\ result = NoResult
      /\ \A w \in Workers : task[w] = Idle /\ rec[w] = NoLocals
  BY DEF RecInit, Init
<1>2. /\ Ahead(Idle, Missing, Missing) /\ Obeys(Idle, NoLocals, Missing, Missing)
      /\ Exact(Idle, NoLocals, Missing, Missing)
  BY DEF Ahead, Obeys, Exact, Idle, NoLocals, Writes
<1>3. CorrectionFollowsErp /\ NoChangeUnconfirmed
  BY <1>1 DEF CorrectionFollowsErp, NoChangeUnconfirmed, NoResult
<1> QED
  BY <1>1, <1>2, <1>3 DEF SoloInv

(* The key may vanish at any moment. *)
LEMMA EnvironmentSolo ==
  ASSUME RecInv, SoloInv, Environment, UNCHANGED recVars
  PROVE  SoloInv' /\ UNCHANGED db
<1>1. /\ redis' \in {redis, Missing} /\ UNCHANGED <<db, task, rec, result>>
      /\ faults' \in {faults, faults + 1}
  BY DEF Environment, ErpChange, Evict, RedisFlush, Fails, storeVars, recVars
<1>2. faults \in Nat
  BY BillingAssumption DEF RecInv, StoreInv, TypeOK
<1>3. faults' = 0 => faults = 0
  BY <1>1, <1>2
<1>4. ASSUME NEW w \in Workers
      PROVE  /\ Ahead(task'[w], redis', db') /\ Obeys(task'[w], rec'[w], redis', db')
             /\ faults' = 0 => Exact(task'[w], rec'[w], redis', db')
  <2>1. Ahead(task'[w], redis', db')
    BY <1>1 DEF SoloInv, Ahead
  <2>2. Obeys(task'[w], rec'[w], redis', db')
    BY <1>1 DEF SoloInv, Obeys
  <2>3. faults' = 0 => Exact(task'[w], rec'[w], redis', db')
    BY <1>1, <1>3 DEF SoloInv, Exact
  <2> QED
    BY <2>1, <2>2, <2>3
<1>5. CorrectionFollowsErp' /\ NoChangeUnconfirmed'
  BY <1>1, <1>3 DEF SoloInv, CorrectionFollowsErp, NoChangeUnconfirmed, Counted
<1> QED
  BY <1>1, <1>4, <1>5 DEF SoloInv

LEMMA SoloKept ==
  ASSUME OneTask, NoLayerFails, RecInv, SoloInv, [RecNext]_allVars
  PROVE  SoloInv' /\ (db' = db \/ Version(db') >= Version(db))
<1>1. CASE UNCHANGED allVars
  <2>1. UNCHANGED <<redis, db, task, rec, result, faults>>
    BY <1>1 DEF allVars, vars, recVars
  <2>2. SoloInv'
    BY <2>1 DEF SoloInv, CorrectionFollowsErp, NoChangeUnconfirmed, Counted
  <2> QED
    BY <2>1, <2>2
<1>2. CASE Environment /\ UNCHANGED recVars
  BY <1>2, EnvironmentSolo
<1>3. ASSUME NEW w \in Workers, WriteRedis(w) \/ WriteDb(w), UNCHANGED recVars
      PROVE  SoloInv' /\ Version(db') >= Version(db)
  BY <1>3, WriteSolo
<1>4. ASSUME NEW w \in Workers, ReadRedis(w) \/ ReadDb(w) \/ Repopulate(w),
             UNCHANGED recVars
      PROVE  SoloInv' /\ UNCHANGED db
  BY <1>4, ReadSolo DEF ReadRedis, ReadDb, Repopulate, storeVars
<1>5. ASSUME NEW w \in Workers,
             \/ /\ \/ \E e \in EventIds : Deliver(w, e)
                   \/ \E job \in PullJobs : StartPull(w, job)
                   \/ StartRead(w) \/ ReplayGet(w) \/ ReplaySet(w) \/ Finish(w)
                /\ UNCHANGED recVars
             \/ CrashAll(w)
      PROVE  SoloInv' /\ UNCHANGED db
  <2>1. UNCHANGED db
    BY <1>5 DEF Deliver, StartPull, StartRead, ReplayGet, ReplaySet, Finish, CrashAll, Crash,
                storeVars
  <2> QED
    BY <1>5, <2>1, OtherSolo
<1>6. ASSUME NEW w \in Workers, (HttpFail(w) /\ UNCHANGED recVars) \/ ErpReplies(w)
      PROVE  SoloInv' /\ UNCHANGED db
  BY <1>6, HttpSolo DEF HttpFail, ErpReplies, HttpReply, storeVars
<1>7. ASSUME NEW w \in Workers, NEW force \in BOOLEAN,
             NEW edge \in EdgePayloads \union {Missing}, StartReconcile(w, force, edge)
      PROVE  SoloInv' /\ UNCHANGED db
  BY <1>7, BeginSolo DEF StartReconcile, storeVars
<1>8. ASSUME NEW w \in Workers, PullErp(w) \/ Timeout(w) \/ Detect(w) \/ Corrected(w)
      PROVE  SoloInv' /\ UNCHANGED db
  <2>1. UNCHANGED db
    BY <1>8 DEF PullErp, Timeout, Detect, Corrected, storeVars
  <2> QED
    BY <1>8, <2>1, PullSolo, TimeoutSolo, DetectSolo, CorrectedSolo
<1>9. ASSUME NEW w \in Workers,
             \/ ReconcileAll(w)
             \/ \E edge \in EdgePayloads \cup {Missing} : RunReconciliation(w, edge)
      PROVE  SoloInv' /\ UNCHANGED db
  BY <1>7, <1>9 DEF ReconcileAll, RunReconciliation
<1>10. ASSUME NEW w \in Workers, StoreStep(w), UNCHANGED recVars
       PROVE  SoloInv' /\ (db' = db \/ Version(db') >= Version(db))
  BY <1>3, <1>4, <1>5, <1>6, <1>10 DEF StoreStep
<1> QED
  BY <1>1, <1>2, <1>5, <1>6, <1>8, <1>9, <1>10 DEF RecNext

LEMMA SoloInvariant ==
  ASSUME OneTask, NoLayerFails
  PROVE  RecSpec => [](RecInv /\ SoloInv)
<1>1. RecInit => RecInv /\ SoloInv
  BY RecInvInit, SoloInit
<1>2. RecInv /\ SoloInv /\ [RecNext]_allVars => (RecInv /\ SoloInv)'
  BY RecInvKept, SoloKept
<1> QED
  BY <1>1, <1>2, PTL DEF RecSpec

(* While one task at a time handles the tenant and neither layer fails, a       *)
(* correction that rests on a reply stores the reply's plan, and its status      *)
(* unless the machine forbids the jump; and it counts, if no deadline or restart *)
(* came before.  The second reading of the state is what makes this need an     *)
(* argument: it must find what the pull itself has just written.              *)
THEOREM CorrectionIsErps ==
  ASSUME OneTask, NoLayerFails
  PROVE  RecSpec => []CorrectionFollowsErp
<1>1. SoloInv => CorrectionFollowsErp
  BY DEF SoloInv
<1> QED
  BY SoloInvariant, <1>1, PTL

(* Nor does a reconciliation that got no reply change anything but the count:   *)
(* the state it "pulled" is the one it had read.                              *)
THEOREM UnconfirmedKept ==
  ASSUME OneTask, NoLayerFails
  PROVE  RecSpec => []NoChangeUnconfirmed
<1>1. SoloInv => NoChangeUnconfirmed
  BY DEF SoloInv
<1> QED
  BY SoloInvariant, <1>1, PTL

(* Under the same hypotheses the version of the row never falls, whatever        *)
(* deadlines cut off, restarts lose or flushes forget.  It does fall when two    *)
(* tasks overlap or a layer fails: billing_race shows the first.              *)
THEOREM RowNeverRollsBack ==
  ASSUME OneTask, NoLayerFails
  PROVE  RecSpec => VersionNeverRollsBack
<1>1. RecInv /\ SoloInv /\ [RecNext]_allVars => [Version(db') >= Version(db)]_db
  BY SoloKept
<1> QED
  BY SoloInvariant, <1>1, PTL DEF RecSpec, VersionNeverRollsBack
===============================================================================
