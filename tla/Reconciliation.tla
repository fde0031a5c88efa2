---------------------------- MODULE Reconciliation ----------------------------
(***************************************************************************)
(* The reconciliation engine on top of the billing store:                  *)
(* reconcile_tenant of mc2/reconciliation/reconciliation_engine.py and     *)
(* detect_drift of drift_detector.py, run by the scheduler's loops and by  *)
(* /reconciliation/run.                                                    *)
(*                                                                         *)
(* A reconciliation reads the stored state, pulls ERPNext with a deadline  *)
(* (the pull already applies and stores what it got), compares the two,    *)
(* and on drift applies the pulled state once more.  The pushes to the     *)
(* edge nodes are left out: _get_edge_nodes finds none at this commit.     *)
(***************************************************************************)
EXTENDS BillingProperties

CONSTANTS
  EdgePayloads, \* the heartbeat payloads /reconciliation/run may be given
  MaxVersion    \* bound on the version of a state that is reconciled again

EdgePayload == [status : States, plan : Plans, stale : BOOLEAN]

ASSUME ReconciliationAssumption ==
  /\ EdgePayloads \subseteq EdgePayload /\ Missing \notin EdgePayload
  /\ MaxVersion \in Nat

VARIABLES
  rec,     \* the locals of each worker's reconcile_tenant
  result   \* the ReconciliationResult returned last, with what it was based on

recVars == <<rec, result>>
allVars == <<vars, recVars>>

Mc3DriftTypes == {"STATE_MISMATCH", "PLAN_MISMATCH", "VERSION_MISMATCH",
                  "MISSING_STATE", "SPLIT_BRAIN"}
EdgeDriftTypes == {"EDGE_STALE", "EDGE_CONFLICT"}
DriftTypes == Mc3DriftTypes \cup EdgeDriftTypes

Record == StateRecord \cup {Missing}

Locals == [phase : {"none", "snapshot", "pull", "correct"},
           force : BOOLEAN,
           edge : EdgePayload \cup {Missing},
           again : BOOLEAN,                    \* history: pulled before, nothing new since
           report : Report \cup {Missing},     \* history: what ERPNext replied to this pull
           snap : Record,                      \* mc3_state
           drifts : SUBSET DriftTypes]

Result == [action : {"none", "no_drift", "deferred", "corrected"},
           again : BOOLEAN, report : Report \cup {Missing},
           before : Record, after : Record, drifts : SUBSET DriftTypes]

NoLocals == [phase |-> "none", force |-> FALSE, edge |-> Missing, again |-> FALSE,
             report |-> Missing, snap |-> Missing, drifts |-> {}]

NoResult == [action |-> "none", again |-> FALSE, report |-> Missing,
             before |-> Missing, after |-> Missing, drifts |-> {}]

RecTypeOK ==
  /\ TypeOK
  /\ rec \in [Workers -> Locals]
  /\ result \in Result

RecInit == Init /\ rec = [w \in Workers |-> NoLocals] /\ result = NoResult

-----------------------------------------------------------------------------
(* detect_drift: the set of drift types reported for the stored state, the *)
(* state the pull returned and the edge's payload; Missing is None.        *)

Differ(a, b) == a # Missing /\ b # Missing /\ a.status # b.status

SplitBrain(mc3, erp, edge) ==
  Differ(mc3, erp) /\ Differ(mc3, edge) /\ Differ(erp, edge)

DetectDrift(mc3, erp, edge) ==
  IF mc3 = Missing
  THEN {d \in {"MISSING_STATE"} : erp # Missing}
  ELSE {d \in DriftTypes :
          \/ d = "STATE_MISMATCH" /\ Differ(mc3, erp)
          \/ d = "PLAN_MISMATCH" /\ erp # Missing /\ mc3.plan # erp.plan
          \/ d = "VERSION_MISMATCH" /\ erp # Missing /\ erp.version > mc3.version
          \/ d = "EDGE_STALE" /\ edge # Missing /\ edge.stale
          \/ d = "EDGE_CONFLICT" /\ edge # Missing /\ mc3.plan # edge.plan
          \/ d = "SPLIT_BRAIN" /\ SplitBrain(mc3, erp, edge)}

-----------------------------------------------------------------------------
(* reconcile_tenant. *)

(* Step 1 reads the stored state.                                           *)
StartReconcile(w, force, edge) ==
  /\ task[w].pc = "idle" /\ fresh < MaxFresh /\ Version(Known) < MaxVersion
  /\ task' = [task EXCEPT ![w] = [Idle EXCEPT !.pc = "read_redis", !.job = "reconcile",
                                              !.goal = "caller"]]
  /\ rec' = [rec EXCEPT ![w] = [NoLocals EXCEPT !.phase = "snapshot", !.force = force,
                                                !.edge = edge, !.again = (fresh > 0)]]
  /\ UNCHANGED <<inputVars, storeVars, published, applied, faults, result>>

(* The scheduler's loops and /reconciliation/run-all, for this tenant: a     *)
(* batch has each tenant once and no payload of an edge.                    *)
ReconcileAll(w) == StartReconcile(w, FALSE, Missing)

(* /reconciliation/run/{tenant_id}. *)
RunReconciliation(w, edge) == StartReconcile(w, TRUE, edge)

(* Step 2: _try_pull_erp. *)
PullErp(w) ==
  /\ rec[w].phase = "snapshot" /\ task[w].pc = "got"
  /\ rec' = [rec EXCEPT ![w].phase = "pull", ![w].snap = task[w].buf]
  /\ task' = [task EXCEPT ![w].pc = "http", ![w].attempt = 1, ![w].goal = "none",
                          ![w].buf = Missing]
  /\ UNCHANGED <<inputVars, storeVars, published, applied, faults, result>>

(* The reply to the pull, as in BillingSync. *)
ErpReplies(w) ==
  /\ HttpReply(w)
  /\ rec' = [rec EXCEPT ![w].report = IF task[w].job = "reconcile" THEN task'[w].raw
                                                                   ELSE @]
  /\ UNCHANGED result

(* The deadline of 8 s cancels the pull at whatever await it has reached,   *)
(* between the two writes too; the answer counts as None.                   *)
Timeout(w) ==
  /\ rec[w].phase = "pull"
  /\ task[w].pc \in {"http", "read_redis", "read_db", "repopulate",
                     "write_redis", "write_db"}
  /\ Fails("timeout")
  /\ task' = [task EXCEPT ![w].pc = "pulled", ![w].goal = "fallback",
                          ![w].raw = Missing, ![w].buf = Missing]
  /\ UNCHANGED <<inputVars, storeVars, published, applied, recVars>>

(* What _try_pull_erp returned; the free fallback counts as None. *)
Pulled(w) == IF task[w].goal = "fallback" THEN Missing ELSE task[w].buf

Return(w, action, after, drifts) ==
  /\ task' = [task EXCEPT ![w] = Idle]
  /\ rec' = [rec EXCEPT ![w] = NoLocals]
  /\ result' = [action |-> action, again |-> rec[w].again, report |-> rec[w].report,
                before |-> rec[w].snap, after |-> after, drifts |-> drifts]

(* Steps 3 to 6: without drift, or with edge drift alone, nothing is done;  *)
(* MC3 drift is deferred when the pull returned nothing and otherwise       *)
(* corrected by applying the pulled state.                                  *)
Detect(w) ==
  LET erp    == Pulled(w)
      drifts == DetectDrift(rec[w].snap, erp, rec[w].edge)
      act    == rec[w].force \/ drifts \cap Mc3DriftTypes # {}
  IN  /\ rec[w].phase = "pull" /\ task[w].pc = "pulled"
      /\ \/ ~act /\ Return(w, "no_drift", Missing, drifts)
         \/ act /\ erp = Missing /\ Return(w, "deferred", Missing, drifts)
         \/ /\ act /\ erp # Missing
            /\ task' = [task EXCEPT ![w].pc = "read_redis", ![w].goal = "apply",
                          ![w].raw = [status |-> erp.status, plan |-> erp.plan]]
            /\ rec' = [rec EXCEPT ![w].phase = "correct", ![w].drifts = drifts]
            /\ UNCHANGED result
      /\ UNCHANGED <<inputVars, storeVars, published, applied, faults>>

(* The corrected state is stored: log it and publish it. *)
Corrected(w) ==
  /\ rec[w].phase = "correct" /\ task[w].pc = "pulled"
  /\ published' = task[w].buf.version
  /\ Return(w, "corrected", task[w].buf, rec[w].drifts)
  /\ UNCHANGED <<inputVars, storeVars, applied, faults>>

(* A restart loses the locals as well. *)
CrashAll(w) == Crash(w) /\ rec' = [rec EXCEPT ![w] = NoLocals] /\ UNCHANGED result

StoreStep(w) ==
  \/ ReplayGet(w) \/ ReplaySet(w) \/ HttpFail(w)
  \/ ReadRedis(w) \/ ReadDb(w) \/ Repopulate(w)
  \/ WriteRedis(w) \/ WriteDb(w) \/ Finish(w)

RecNext ==
  \/ Environment /\ UNCHANGED recVars
  \/ \E w \in Workers :
       \/ /\ \/ \E e \in EventIds : Deliver(w, e)
             \/ \E job \in PullJobs : StartPull(w, job)
             \/ StartRead(w)
             \/ StoreStep(w)
          /\ UNCHANGED recVars
       \/ ReconcileAll(w)
       \/ \E edge \in EdgePayloads \cup {Missing} : RunReconciliation(w, edge)
       \/ PullErp(w) \/ ErpReplies(w) \/ Timeout(w)
       \/ Detect(w) \/ Corrected(w) \/ CrashAll(w)

RecSpec == RecInit /\ [][RecNext]_allVars

-----------------------------------------------------------------------------
(* While one task at a time handles the tenant.  The first needs more: a   *)
(* deadline that strikes between the two writes of the pull leaves a state  *)
(* in Redis only, and once the key expires the next reconciliation          *)
(* compares with, and goes back to, the older row.                          *)

(* reconciliation_engine.py:26, "ALWAYS increment version on correction":   *)
(* also when the state machine rejected what ERPNext reported, for then the *)
(* second application is a no-op that counts.                               *)
Counted == faults = 0 => result.after.version > Version(result.before)

(* reconciliation_engine.py:23, "NEVER downgrade state without ERPNext      *)
(* confirmation": what a reconciliation that got no reply stores has the    *)
(* status and the plan it found, and counts.                                *)
NoChangeUnconfirmed ==
  /\ faults = 0 /\ result.action = "corrected" /\ result.report = Missing
  /\ result.before # Missing
  =>
    /\ result.after.status = result.before.status
    /\ result.after.plan = result.before.plan
    /\ Counted

(* What was corrected from a reply is the reply's plan, and its status      *)
(* unless the state machine forbids the jump; deadlines do not matter.  It  *)
(* counts.                                                                  *)
CorrectionFollowsErp ==
  result.action = "corrected" /\ result.report # Missing =>
    LET s == ErpStatusToState(result.report.status)
    IN  /\ result.after.plan = result.report.plan
        /\ result.after.status = s \/ ~Accepted(result.after.status, s)
        /\ Counted

-----------------------------------------------------------------------------
(* What the repository says of reconciliation and the code does not keep. *)

(* reconciliation_engine.py:2, "deterministic, idempotent drift             *)
(* correction": when ERPNext was already pulled since its last change, a    *)
(* reconciliation finds no drift.                                           *)
Idempotent == result.again => result.drifts = {}
=============================================================================
