---------------------------- MODULE BillingSync ----------------------------
(***************************************************************************)
(* How MC2 keeps one tenant's billing state in step with ERPNext:          *)
(* mc2/billing/{license_state_cache, billing_sync_client,                  *)
(* billing_sync_webhook}.py and the handlers of mc2/api/routes_billing.py. *)
(*                                                                         *)
(* The state lives in two layers, a Redis key that expires and a MariaDB   *)
(* row.  Each asyncio task that touches it is a worker here; it may run in *)
(* either uvicorn process, so steps of different workers interleave at     *)
(* every await, and one action is the code between two awaits.  Every key  *)
(* and row is per tenant, so one tenant is modelled.                       *)
(***************************************************************************)
EXTENDS SubscriptionStates, Naturals, Sequences, FiniteSets

CONSTANTS
  Workers,        \* tasks that may handle a billing request at the same time
  Plans, Free,    \* plan names ERPNext may report; Free is the fallback plan
  PullJobs,       \* who pulls: "force_sync" (an admin), "sweep" (a loop over all rows)
  ErpReports,     \* the states (status word and plan) ERPNext may be in
  Missing,        \* no record: a Redis miss, an absent row, None
  MaxRetries,     \* HTTP attempts of one pull (4 in the code)
  Faults,         \* what may fail: "redis", "db", "crash", "flush", "body"
  MaxFaults,      \* bound on the failures of a behaviour
  MaxChanges,     \* bound on the changes made in ERPNext
  MaxDeliveries,  \* bound on the deliveries of one webhook event
  MaxFresh,       \* bound on the pulls that reach ERPNext between two inputs
  SenderWaits     \* the bridge re-sends an event only after its last attempt ended

Report == [status : RawStatuses, plan : Plans]

(* The dict kept in both layers.  "plan" stands for everything that is     *)
(* copied from a report untouched: plan, effective_plan, enforcement_mode, *)
(* features, limits, references, expiry, grace_until.  The "source" label  *)
(* is left out of the record, as every read overwrites it; where a pull    *)
(* got its answer from is in the goal of the task.                         *)
StateRecord == [status : States, plan : Plans, version : Nat]

EventIds == 2 .. (MaxChanges + 1)

ASSUME BillingAssumption ==
  /\ Free \in Plans
  /\ PullJobs \subseteq {"force_sync", "sweep"}
  /\ ErpReports \subseteq Report /\ ErpReports # {}
  /\ Missing \notin StateRecord /\ Missing \notin Report
  /\ MaxRetries \in Nat \ {0}
  /\ MaxFaults \in Nat /\ MaxChanges \in Nat
  /\ MaxDeliveries \in Nat /\ MaxFresh \in Nat
  /\ SenderWaits \in BOOLEAN

VARIABLES
  erpLog,     \* the successive states of ERPNext; entry e > 1 is webhook event e
  sent,       \* how often event e was delivered
  redis,      \* the key frothiq:billing:{tenant}
  db,         \* the row of tenant_billing_state
  seen,       \* the keys frothiq:webhook:seen:{event}
  task,       \* what each worker is doing, with the locals that outlive an await
  published,  \* the version of the last state sent on the billing event channel
  applied,    \* history: how often event e was stored in the row
  fresh,      \* pulls that reached ERPNext since the last change or delivery
  faults      \* failures so far

storeVars == <<redis, db, seen>>
inputVars == <<erpLog, sent, fresh>>
vars == <<erpLog, sent, redis, db, seen, task, published, applied, fresh, faults>>

Jobs == {"none", "webhook", "force_sync", "sweep", "read", "reconcile"}

(* Why the state is read, and for a finished pull what it returned: a fresh *)
(* state ("apply"), a known one ("existing") or the free one ("fallback").  *)
Goals == {"none", "apply", "existing", "fallback", "caller"}

Labels == {"idle", "replay_get", "replay_set", "http",
           "read_redis", "read_db", "repopulate",
           "write_redis", "write_db", "pulled", "got"}

Task == [pc : Labels, job : Jobs, evt : EventIds \cup {0}, attempt : 0 .. MaxRetries,
         goal : Goals,
         raw : Report \cup {Missing},       \* the report to be applied
         buf : StateRecord \cup {Missing}]  \* the record read, then the one to store

Idle == [pc |-> "idle", job |-> "none", evt |-> 0, attempt |-> 0, goal |-> "none",
         raw |-> Missing, buf |-> Missing]

TypeOK ==
  /\ erpLog \in Seq(ErpReports) /\ Len(erpLog) \in 1 .. (MaxChanges + 1)
  /\ sent \in [EventIds -> 0 .. MaxDeliveries]
  /\ redis \in StateRecord \cup {Missing}
  /\ db \in StateRecord \cup {Missing}
  /\ seen \subseteq EventIds
  /\ task \in [Workers -> Task]
  /\ published \in Nat
  /\ applied \in [EventIds -> Nat]
  /\ fresh \in Nat
  /\ faults \in 0 .. MaxFaults

Erp == erpLog[Len(erpLog)]

(* A failure of the given kind happens in this step. *)
Fails(kind) == kind \in Faults /\ faults < MaxFaults /\ faults' = faults + 1

GoTo(w, label) == task' = [task EXCEPT ![w].pc = label]

-----------------------------------------------------------------------------
(* ERPNext and the frothiq_frappe bridge: outside this repository. *)

Init ==
  /\ erpLog \in {<<r>> : r \in ErpReports}
  /\ sent = [e \in EventIds |-> 0]
  /\ redis = Missing /\ db = Missing /\ seen = {}
  /\ task = [w \in Workers |-> Idle]
  /\ published = 0
  /\ applied = [e \in EventIds |-> 0]
  /\ fresh = 0 /\ faults = 0

(* The subscription changes in ERPNext; the bridge will report it as event *)
(* Len(erpLog').                                                            *)
ErpChange ==
  /\ Len(erpLog) <= MaxChanges
  /\ \E r \in ErpReports \ {Erp} : erpLog' = Append(erpLog, r)
  /\ fresh' = 0
  /\ UNCHANGED <<sent, storeVars, task, published, applied, faults>>

-----------------------------------------------------------------------------
(* process_webhook: replay guard, then _apply_and_persist. *)

(* A delivery of event e, in any order, possibly once more, passes the      *)
(* signature and clock checks and reaches the replay check.                 *)
Deliver(w, e) ==
  /\ task[w].pc = "idle"
  /\ e <= Len(erpLog) /\ sent[e] < MaxDeliveries
  /\ SenderWaits => \A v \in Workers : task[v].evt # e
  /\ sent' = [sent EXCEPT ![e] = @ + 1]
  /\ fresh' = 0
  /\ task' = [task EXCEPT ![w] = [Idle EXCEPT !.pc = "replay_get", !.job = "webhook",
                                              !.evt = e, !.raw = erpLog[e]]]
  /\ UNCHANGED <<erpLog, storeVars, published, applied, faults>>

(* The event is handed to _apply_and_persist, which first reads the current *)
(* state.                                                                   *)
ApplyWebhook(w) ==
  task' = [task EXCEPT ![w].pc = "read_redis", ![w].goal = "apply"]

(* GET of the replay key; a Redis error skips the guard altogether. *)
ReplayGet(w) ==
  /\ task[w].pc = "replay_get"
  /\ \/ /\ task[w].evt \in seen           \* answered as "duplicate"
        /\ task' = [task EXCEPT ![w] = Idle]
        /\ UNCHANGED faults
     \/ task[w].evt \notin seen /\ GoTo(w, "replay_set") /\ UNCHANGED faults
     \/ Fails("redis") /\ ApplyWebhook(w)
  /\ UNCHANGED <<inputVars, storeVars, published, applied>>

(* Slip of ReplaySet: the event is not marked. *)
ReplaySetForgotten(w) ==
  /\ task[w].pc = "replay_set"
  /\ ApplyWebhook(w)
  /\ UNCHANGED <<inputVars, redis, db, seen, published, applied, faults>>

(* Slip of ReplaySet: the event is marked first and looked up afterwards. *)
ReplaySetFirst(w) ==
  /\ task[w].pc = "replay_set"
  /\ seen' = seen \cup {task[w].evt}
  /\ GoTo(w, "replay_get")
  /\ UNCHANGED <<inputVars, redis, db, published, applied, faults>>

(* SETEX of the replay key, before anything is applied. *)
ReplaySet(w) ==
  /\ task[w].pc = "replay_set"
  /\ \/ seen' = seen \cup {task[w].evt} /\ UNCHANGED faults
     \/ Fails("redis") /\ UNCHANGED seen
  /\ ApplyWebhook(w)
  /\ UNCHANGED <<inputVars, redis, db, published, applied>>

-----------------------------------------------------------------------------
(* pull_tenant_state, called by /sync/{tenant} ("force_sync") and, for each *)
(* tenant that has a row, by the drift report and the hourly reconciliation *)
(* ("sweep"; what reconciliation does after its pull is in Reconciliation). *)

StartPull(w, job) ==
  /\ task[w].pc = "idle" /\ fresh < MaxFresh
  /\ job = "sweep" => db # Missing
  /\ task' = [task EXCEPT ![w] = [Idle EXCEPT !.pc = "http", !.job = job, !.attempt = 1]]
  /\ UNCHANGED <<inputVars, storeVars, published, applied, faults>>

(* GET /billing/state/{tenant}, the predictive scan and the other readers: *)
(* get_billing_state alone, which may copy the row into Redis.             *)
StartRead(w) ==
  /\ task[w].pc = "idle"
  /\ task' = [task EXCEPT ![w] = [Idle EXCEPT !.pc = "read_redis", !.job = "read",
                                              !.goal = "caller"]]
  /\ UNCHANGED <<inputVars, storeVars, published, applied, faults>>

(* A reply: ERPNext's state at this moment, or, when the body lacks the     *)
(* fields, the defaults of raw.get(...).                                    *)
HttpReply(w) ==
  /\ task[w].pc = "http"
  /\ \E r \in Report :
       /\ \/ r = Erp /\ UNCHANGED faults
          \/ r = [status |-> "unrecognised", plan |-> Free] /\ Fails("body")
       /\ task' = [task EXCEPT ![w].pc = "read_redis", ![w].goal = "apply", ![w].raw = r]
  /\ fresh' = fresh + 1
  /\ UNCHANGED <<erpLog, sent, storeVars, published, applied>>

(* Slip of HttpFail: one attempt too many. *)
HttpFailOneMore(w) ==
  /\ task[w].pc = "http"
  /\ \/ /\ task[w].attempt <= MaxRetries
        /\ task' = [task EXCEPT ![w].attempt = @ + 1]
     \/ /\ task[w].attempt > MaxRetries
        /\ task' = [task EXCEPT ![w].pc = "read_redis", ![w].goal = "existing"]
  /\ UNCHANGED <<inputVars, storeVars, published, applied, faults>>

(* No reply: sleep and retry, and after the last attempt look for a state   *)
(* that is already known.                                                   *)
HttpFail(w) ==
  /\ task[w].pc = "http"
  /\ \/ /\ task[w].attempt < MaxRetries
        /\ task' = [task EXCEPT ![w].attempt = @ + 1]
     \/ /\ task[w].attempt = MaxRetries
        /\ task' = [task EXCEPT ![w].pc = "read_redis", ![w].goal = "existing"]
  /\ UNCHANGED <<inputVars, storeVars, published, applied, faults>>

-----------------------------------------------------------------------------
(* _apply_and_persist and get_billing_state. *)

(* Slips of Merge: the state machine is not asked; a report it rejects is   *)
(* dropped whole; an unknown tenant counts as a trial.                      *)
MergeUnchecked(current, report) ==
  [status  |-> ErpStatusToState(report.status), plan |-> report.plan,
   version |-> (IF current = Missing THEN 0 ELSE current.version) + 1]

MergeOrKeep(current, report) ==
  LET s == ErpStatusToState(report.status)
  IN  IF current # Missing /\ ~Accepted(current.status, s) THEN current
      ELSE MergeUnchecked(current, report)

MergeFromTrial(current, report) ==
  LET old == IF current = Missing THEN [status |-> "trial", version |-> 0]
                                  ELSE current
      new == ApplyEvent(old.status, old.version, ErpStatusToState(report.status))
  IN  [status |-> new.status, plan |-> report.plan, version |-> new.version]

(* The record _apply_and_persist stores: status and version from the state  *)
(* machine, everything else from the report even if it was rejected.        *)
Merge(current, report) ==
  LET old == IF current = Missing THEN [status |-> "active", version |-> 0]
                                  ELSE current
      new == ApplyEvent(old.status, old.version, ErpStatusToState(report.status))
  IN  [status |-> new.status, plan |-> report.plan, version |-> new.version]

(* Slip of FreeFallback: it counts as a report. *)
FreeFallbackCounted == [status |-> "active", plan |-> Free, version |-> 1]

(* _FREE_FALLBACK, stored for a tenant nothing is known about. *)
FreeFallback == [status |-> "active", plan |-> Free, version |-> 0]

(* Slip of Persist: only the database is written. *)
PersistRowOnly(w, r, goal) ==
  task' = [task EXCEPT ![w].pc = "write_db", ![w].goal = goal,
                       ![w].raw = Missing, ![w].buf = r]

(* set_billing_state is called with record r. *)
Persist(w, r, goal) ==
  task' = [task EXCEPT ![w].pc = "write_redis", ![w].goal = goal,
                       ![w].raw = Missing, ![w].buf = r]

(* Slip of GotState: after the last attempt the fallback is stored without   *)
(* a look at what is known.                                                 *)
GotStateIgnored(w, r) ==
  \/ /\ task[w].goal = "apply"
     /\ Persist(w, Merge(r, task[w].raw), "apply")
  \/ task[w].goal = "existing" /\ Persist(w, FreeFallback, "fallback")
  \/ /\ task[w].goal = "caller"
     /\ task' = [task EXCEPT ![w].pc = "got", ![w].buf = r]

(* get_billing_state returns r to whoever asked. *)
GotState(w, r) ==
  \/ /\ task[w].goal = "apply"
     /\ Persist(w, Merge(r, task[w].raw), "apply")
  \/ /\ task[w].goal = "existing" /\ r = Missing
     /\ Persist(w, FreeFallback, "fallback")
  \/ /\ task[w].goal = "existing" /\ r # Missing
     /\ task' = [task EXCEPT ![w].pc = "pulled", ![w].buf = r]
  \/ /\ task[w].goal = "caller"
     /\ task' = [task EXCEPT ![w].pc = "got", ![w].buf = r]

ReadRedis(w) ==
  /\ task[w].pc = "read_redis"
  /\ \/ redis # Missing /\ GotState(w, redis) /\ UNCHANGED faults
     \/ redis = Missing /\ GoTo(w, "read_db") /\ UNCHANGED faults
     \/ Fails("redis") /\ GoTo(w, "read_db")
  /\ UNCHANGED <<inputVars, storeVars, published, applied>>

ReadDb(w) ==
  /\ task[w].pc = "read_db"
  /\ \/ /\ db # Missing
        /\ task' = [task EXCEPT ![w].pc = "repopulate", ![w].buf = db]
        /\ UNCHANGED faults
     \/ db = Missing /\ GotState(w, Missing) /\ UNCHANGED faults
     \/ Fails("db") /\ GotState(w, Missing)
  /\ UNCHANGED <<inputVars, storeVars, published, applied>>

(* The row just read is copied into Redis, whatever happened meanwhile. *)
Repopulate(w) ==
  /\ task[w].pc = "repopulate"
  /\ \/ redis' = task[w].buf /\ UNCHANGED faults
     \/ Fails("redis") /\ UNCHANGED redis
  /\ GotState(w, task[w].buf)
  /\ UNCHANGED <<inputVars, db, seen, published, applied>>

-----------------------------------------------------------------------------
(* set_billing_state: Redis, then the database, each best effort. *)

WriteRedis(w) ==
  /\ task[w].pc = "write_redis"
  /\ \/ redis' = task[w].buf /\ UNCHANGED faults
     \/ Fails("redis") /\ UNCHANGED redis
  /\ GoTo(w, "write_db")
  /\ UNCHANGED <<inputVars, db, seen, published, applied>>

(* The upsert overwrites the row unconditionally.  A webhook then re-reads  *)
(* the state in order to publish it; a pull returns what it stored.         *)
WriteDb(w) ==
  /\ task[w].pc = "write_db"
  /\ \/ /\ db' = task[w].buf
        /\ applied' = IF task[w].job = "webhook"
                      THEN [applied EXCEPT ![task[w].evt] = @ + 1] ELSE applied
        /\ UNCHANGED faults
     \/ Fails("db") /\ UNCHANGED <<db, applied>>
  /\ \/ /\ task[w].job = "webhook"
        /\ task' = [task EXCEPT ![w].pc = "read_redis", ![w].goal = "caller",
                                ![w].buf = Missing]
     \/ task[w].job # "webhook" /\ GoTo(w, "pulled")
  /\ UNCHANGED <<inputVars, redis, seen, published>>

-----------------------------------------------------------------------------
(* The handlers that asked: publish and answer. *)

(* webhook_subscription and force_sync_tenant publish the state they got;   *)
(* a sweep only counts it, a reader answers.                                *)
Finish(w) ==
  /\ \/ /\ task[w].job = "webhook" /\ task[w].pc = "got"
        /\ published' = IF task[w].buf = Missing THEN published
                                                 ELSE task[w].buf.version
     \/ /\ task[w].job = "force_sync" /\ task[w].pc = "pulled"
        /\ published' = task[w].buf.version
     \/ /\ <<task[w].job, task[w].pc>> \in {<<"sweep", "pulled">>, <<"read", "got">>}
        /\ UNCHANGED published
  /\ task' = [task EXCEPT ![w] = Idle]
  /\ UNCHANGED <<inputVars, storeVars, applied, faults>>

-----------------------------------------------------------------------------
(* What happens to the layers and to the workers. *)

(* The key expires (300 s) or is deleted by /invalidate-cache. *)
Evict ==
  /\ redis # Missing
  /\ redis' = Missing
  /\ UNCHANGED <<inputVars, db, seen, task, published, applied, faults>>

(* Redis loses everything, the replay keys too. *)
RedisFlush ==
  /\ Fails("flush")
  /\ redis' = Missing /\ seen' = {}
  /\ UNCHANGED <<inputVars, db, task, published, applied>>

(* The process running w is restarted. *)
Crash(w) ==
  /\ task[w].pc # "idle" /\ Fails("crash")
  /\ task' = [task EXCEPT ![w] = Idle]
  /\ UNCHANGED <<inputVars, storeVars, published, applied>>

(* One step of a request that was started. *)
Step(w) ==
  \/ ReplayGet(w) \/ ReplaySet(w)
  \/ HttpReply(w) \/ HttpFail(w)
  \/ ReadRedis(w) \/ ReadDb(w) \/ Repopulate(w)
  \/ WriteRedis(w) \/ WriteDb(w)
  \/ Finish(w)

Environment == ErpChange \/ Evict \/ RedisFlush

Next ==
  \/ Environment
  \/ \E w \in Workers :
       \/ \E e \in EventIds : Deliver(w, e)
       \/ \E job \in PullJobs : StartPull(w, job)
       \/ StartRead(w) \/ Step(w) \/ Crash(w)

Spec == Init /\ [][Next]_vars

(* Requests that were started run on; the hourly sweep, a loop of its own,  *)
(* comes around however busy the tenant is; and the bridge answers some     *)
(* attempt of a pull that keeps being retried.                              *)
Fairness ==
  \A w \in Workers : /\ WF_vars(Step(w))
                     /\ SF_vars(StartPull(w, "sweep"))
                     /\ SF_vars(HttpReply(w))

FairSpec == Spec /\ Fairness
=============================================================================
