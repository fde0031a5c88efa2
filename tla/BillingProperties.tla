-------------------------- MODULE BillingProperties --------------------------
(***************************************************************************)
(* What BillingSync should guarantee.  Some properties hold whatever runs  *)
(* concurrently and whatever fails; others hold only while one task at a   *)
(* time handles the tenant, because nothing in the code serialises the     *)
(* read of the current state with the two writes that follow from it.      *)
(***************************************************************************)
EXTENDS BillingSync

(* What a reader without a failure gets. *)
Known == IF redis # Missing THEN redis ELSE db

Stored == {redis, db} \ {Missing}

Version(r) == IF r = Missing THEN 0 ELSE r.version

Ledger == INSTANCE SubscriptionLedger WITH entry <- db

AllIdle == \A w \in Workers : task[w].pc = "idle"

-----------------------------------------------------------------------------
(* Whatever runs concurrently and whatever fails. *)

(* "trial" is a state of the machine (subscription_state_machine.py:25) and *)
(* ERPNext reports it, but _apply_and_persist takes an unknown tenant for   *)
(* active (billing_sync_client.py:174-178) and no transition leads to       *)
(* trial: no tenant is ever stored in trial, on any path.                   *)
TrialNeverStored == \A r \in Stored : r.status # "trial"

(* Neither a retry, nor a stale copy, nor an interleaving makes up a plan:  *)
(* what is stored was once reported by ERPNext, or is the free fallback of  *)
(* an unknown tenant (version 0), or followed a malformed reply.            *)
PlanWasReported ==
  \A r \in Stored :
    \/ \E i \in 1 .. Len(erpLog) : erpLog[i].plan = r.plan
    \/ r.plan = Free /\ (r.version = 0 \/ faults > 0)

(* The replay guard of process_webhook: an event is stored once however     *)
(* often it is delivered, and each failure or flush of Redis can let one    *)
(* repetition through.  The bridge must not overlap its own retries.        *)
AppliedOncePerFailure == \A e \in EventIds : applied[e] <= 1 + faults

(* An event is marked as seen before it is applied.  As long as nothing     *)
(* failed, every event that is marked and that nobody works on any more     *)
(* was stored, so answering "duplicate" to its retries loses nothing.       *)
NoEventLost ==
  \A e \in seen :
    faults = 0 /\ (\A w \in Workers : task[w].evt # e) => applied[e] > 0

-----------------------------------------------------------------------------
(* While one task at a time handles the tenant and nothing fails. *)

(* Redis never holds anything else than the row, except while the two       *)
(* writes of set_billing_state are under way: the key may expire at any     *)
(* other time without a reader noticing.                                    *)
LayersAgree ==
  (\A w \in Workers : task[w].pc # "write_db")
    => redis \in {Missing, db}

(* The row goes through the states of the ledger: every report is applied   *)
(* to the state the previous one left, none is lost, none applied halfway.  *)
ImplementsLedger == Ledger!LedgerSpec

(* Subscribers of the billing channel never see the version go back. *)
PublishedNeverRollsBack == [][published' >= published]_published

(* Once ERPNext stops changing, the hourly pull brings a tenant that has a  *)
(* row in step: the plan for good, the status unless the state machine      *)
(* forbids the jump from the stored one.                                    *)
InSync ==
  /\ Known # Missing
  /\ Known.plan = Erp.plan
  /\ LET s == ErpStatusToState(Erp.status)
     IN  Known.status = s \/ ~Accepted(Known.status, s)

EventuallyInSync == <>(db # Missing) => <>[]InSync

-----------------------------------------------------------------------------
(* What the repository says of the store and the code does not keep. *)

(* models/billing.py:22: "Monotonic state_version prevents rollback." *)
VersionNeverRollsBack == [][Version(db') >= Version(db)]_db

(* billing_sync_webhook.py:8: "Strict idempotency: duplicate event_id ->    *)
(* 200 OK, no re-processing".                                               *)
NoReprocessing == \A e \in EventIds : applied[e] <= 1
=============================================================================
