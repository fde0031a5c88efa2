--------------------------- MODULE StagedContracts ---------------------------
(***************************************************************************)
(* Staged contracts: mc2/predictive_sync/{staged_contract_dispatcher,      *)
(* confirmation_listener, predictive_sync_orchestrator,                    *)
(* preemptive_state_builder}.py and /predictive/staged of                  *)
(* mc2/api/routes_predictive.py, for one tenant.                           *)
(*                                                                         *)
(* A prediction becomes a contract, kept in a Redis key that expires and   *)
(* in the tenant's only row of staged_contracts.  When ERPNext confirms a  *)
(* billing state the contract is resolved.  Tasks of both uvicorn          *)
(* processes do this at once, and one action is the code between two       *)
(* awaits.  Contract number c is the c-th generated.  Messages to the edge *)
(* nodes are left out: _get_edge_nodes finds none at this commit.          *)
(***************************************************************************)
EXTENDS SubscriptionStates, Sequences, FiniteSets

CONSTANTS
  Workers,          \* tasks that may handle the tenant's contract at the same time
  Statuses,         \* the subscription states that are predicted and confirmed
  MaxContracts,     \* bound on the contracts generated
  MaxConfirmations, \* bound on the billing events confirmed
  Faults,           \* what may fail: "redis", "db", "crash"
  MaxFaults         \* bound on the failures of a behaviour

ASSUME StagedAssumption ==
  /\ Statuses \subseteq States /\ Statuses # {}
  /\ MaxContracts \in Nat /\ MaxConfirmations \in Nat /\ MaxFaults \in Nat

Contracts == 1 .. MaxContracts

VARIABLES
  billing,        \* the tenant's subscription status, kept by BillingSync
  predicted,      \* the status each contract generated so far predicts
  key,            \* the contract in frothiq:staged:{tenant}, 0 for none
  row,            \* the tenant's row of staged_contracts
  expired,        \* contracts whose valid_until has passed
  task,           \* what each worker is doing, with its locals
  outcomes,       \* the outcomes recorded, in order
  confirmations,  \* billing events confirmed so far
  faults          \* failures so far

stageVars == <<key, row, outcomes>>
inputVars == <<billing, predicted, expired, confirmations>>
vars == <<billing, predicted, key, row, expired, task, outcomes, confirmations, faults>>

RowStatuses == {"absent", "pending", "dispatched", "replaced", "discarded", "confirmed"}

Row == [status : RowStatuses, contract : Contracts \cup {0}]

(* Slip of Active: a discarded row still counts. *)
ActiveUnlessSettled == row.status \notin {"absent", "replaced", "confirmed"}

(* _ACTIVE_STATUSES *)
Active == row.status \in {"pending", "dispatched"}

Labels == {"idle", "get_key", "drop_expired", "get_row", "restage",
           "retire_row", "retire_key", "set_key", "upsert", "mark",
           "outcome", "settle", "drop_key", "discard_row"}

Task == [pc : Labels,
         job : {"none", "dispatch", "confirm", "discard", "read"},
         own : Contracts \cup {0},       \* the contract to dispatch
         found : Contracts \cup {0},     \* the contract get_staged_contract returned
         confirmed : Statuses \cup {"none"},
         late : SUBSET Contracts]        \* history: contracts expired before it confirmed

Idle == [pc |-> "idle", job |-> "none", own |-> 0, found |-> 0,
         confirmed |-> "none", late |-> {}]

TypeOK ==
  /\ billing \in Statuses
  /\ predicted \in Seq(Statuses) /\ Len(predicted) \in 0 .. MaxContracts
  /\ key \in Contracts \cup {0}
  /\ row \in Row
  /\ expired \subseteq Contracts
  /\ task \in [Workers -> Task]
  /\ outcomes \in Seq([contract : Contracts, verdict : {"correct", "incorrect"}])
  /\ confirmations \in 0 .. MaxConfirmations
  /\ faults \in 0 .. MaxFaults

Fails(kind) == kind \in Faults /\ faults < MaxFaults /\ faults' = faults + 1

GoTo(w, label) == task' = [task EXCEPT ![w].pc = label]

Done(w) == task' = [task EXCEPT ![w] = Idle]

Init ==
  /\ billing \in Statuses
  /\ predicted = <<>>
  /\ key = 0 /\ row = [status |-> "absent", contract |-> 0]
  /\ expired = {}
  /\ task = [w \in Workers |-> Idle]
  /\ outcomes = <<>>
  /\ confirmations = 0 /\ faults = 0

-----------------------------------------------------------------------------
(* The requests.  Each begins with get_staged_contract, except the discard. *)

Begin(w, request) ==
  /\ task[w].pc = "idle"
  /\ task' = [task EXCEPT ![w] = request]
  /\ UNCHANGED <<stageVars, expired, faults>>

(* run_for_tenant found a signal; the state machine accepts the projection. *)
StartDispatch(w, s) ==
  /\ Len(predicted) < MaxContracts /\ Accepted(billing, s)
  /\ predicted' = Append(predicted, s)
  /\ Begin(w, [Idle EXCEPT !.pc = "get_key", !.job = "dispatch",
                           !.own = Len(predicted')])
  /\ UNCHANGED <<billing, confirmations>>

(* A webhook stored status s and starts on_billing_confirmed, in a task of  *)
(* its own.                                                                 *)
StartConfirm(w, s) ==
  /\ confirmations < MaxConfirmations /\ Accepted(billing, s)
  /\ billing' = s /\ confirmations' = confirmations + 1
  /\ Begin(w, [Idle EXCEPT !.pc = "get_key", !.job = "confirm",
                           !.confirmed = s, !.late = expired])
  /\ UNCHANGED predicted

(* DELETE and GET /predictive/staged/{tenant}. *)
StartDiscard(w) ==
  /\ Begin(w, [Idle EXCEPT !.pc = "drop_key", !.job = "discard"])
  /\ UNCHANGED <<billing, predicted, confirmations>>

StartRead(w) ==
  /\ Begin(w, [Idle EXCEPT !.pc = "get_key", !.job = "read"])
  /\ UNCHANGED <<billing, predicted, confirmations>>

-----------------------------------------------------------------------------
(* get_staged_contract. *)

(* Contract c, or 0 for None, is returned to whoever asked. *)
Found(w, c) ==
  \/ task[w].job = "read" /\ Done(w)
  \/ /\ task[w].job = "dispatch"
     /\ task' = [task EXCEPT ![w].pc = IF c = 0 THEN "set_key" ELSE "retire_row",
                             ![w].found = 0]
  \/ /\ task[w].job = "confirm"
     /\ IF c = 0 THEN Done(w)
                 ELSE task' = [task EXCEPT ![w].pc = "outcome", ![w].found = c]

(* Slip of GetKey: the expiry of the contract in the key is not checked. *)
GetKeyUnchecked(w) ==
  /\ task[w].pc = "get_key"
  /\ IF key = 0 THEN GoTo(w, "get_row") ELSE Found(w, key)
  /\ UNCHANGED <<inputVars, stageVars, faults>>

(* GET of the key; an error is taken for a miss. *)
GetKey(w) ==
  /\ task[w].pc = "get_key"
  /\ \/ key = 0 /\ GoTo(w, "get_row") /\ UNCHANGED faults
     \/ key # 0 /\ key \notin expired /\ Found(w, key) /\ UNCHANGED faults
     \/ key \in expired /\ GoTo(w, "drop_expired") /\ UNCHANGED faults
     \/ Fails("redis") /\ GoTo(w, "get_row")
  /\ UNCHANGED <<inputVars, stageVars>>

(* The key held an expired contract; by now it may hold another one. *)
DropExpired(w) ==
  /\ task[w].pc = "drop_expired"
  /\ \/ key' = 0 /\ Found(w, 0) /\ UNCHANGED faults
     \/ Fails("redis") /\ GoTo(w, "get_row") /\ UNCHANGED key
  /\ UNCHANGED <<inputVars, row, outcomes>>

(* Slip of GetRow: the expiry of the contract in the row is not checked. *)
GetRowUnchecked(w) ==
  /\ task[w].pc = "get_row"
  /\ IF Active THEN task' = [task EXCEPT ![w].pc = "restage", ![w].found = row.contract]
               ELSE Found(w, 0)
  /\ UNCHANGED <<inputVars, stageVars, faults>>

(* SELECT of the active row; an error is taken for its absence. *)
GetRow(w) ==
  /\ task[w].pc = "get_row"
  /\ \/ /\ Active /\ row.contract \notin expired
        /\ task' = [task EXCEPT ![w].pc = "restage", ![w].found = row.contract]
        /\ UNCHANGED faults
     \/ (~Active \/ row.contract \in expired) /\ Found(w, 0) /\ UNCHANGED faults
     \/ Fails("db") /\ Found(w, 0)
  /\ UNCHANGED <<inputVars, stageVars>>

(* The contract just read is copied into Redis, whatever happened meanwhile. *)
Restage(w) ==
  /\ task[w].pc = "restage"
  /\ \/ key' = task[w].found /\ UNCHANGED faults
     \/ Fails("redis") /\ UNCHANGED key
  /\ Found(w, task[w].found)
  /\ UNCHANGED <<inputVars, row, outcomes>>

-----------------------------------------------------------------------------
(* dispatch_staged_contract: retire the contract found, then store its own. *)

(* One statement of the dispatch that writes the row, or fails to. *)
WriteRow(w, newRow, label) ==
  /\ \/ row' = newRow /\ UNCHANGED faults
     \/ Fails("db") /\ UNCHANGED row
  /\ IF label = "idle" THEN Done(w) ELSE GoTo(w, label)
  /\ UNCHANGED <<inputVars, key, outcomes>>

WriteKey(w, newKey, label) ==
  /\ \/ key' = newKey /\ UNCHANGED faults
     \/ Fails("redis") /\ UNCHANGED key
  /\ GoTo(w, label)
  /\ UNCHANGED <<inputVars, row, outcomes>>

(* UPDATE ... WHERE status IN ('pending', 'dispatched'). *)
IfActive(status) == IF Active THEN [row EXCEPT !.status = status] ELSE row

(* UPDATE ... WHERE tenant_id = ..., whatever the row's status is. *)
IfPresent(status) ==
  IF row.status = "absent" THEN row ELSE [row EXCEPT !.status = status]

RetireRow(w) ==
  task[w].pc = "retire_row" /\ WriteRow(w, IfActive("replaced"), "retire_key")

RetireKey(w) == task[w].pc = "retire_key" /\ WriteKey(w, 0, "set_key")

SetKey(w) == task[w].pc = "set_key" /\ WriteKey(w, task[w].own, "upsert")

(* Slip of UpsertRow: an existing row is kept. *)
InsertRow(w) ==
  /\ task[w].pc = "upsert"
  /\ WriteRow(w, IF row.status # "absent" THEN row
                 ELSE [status |-> "pending", contract |-> task[w].own], "mark")

UpsertRow(w) ==
  /\ task[w].pc = "upsert"
  /\ WriteRow(w, [status |-> "pending", contract |-> task[w].own], "mark")

MarkDispatched(w) ==
  task[w].pc = "mark" /\ WriteRow(w, IfPresent("dispatched"), "idle")

-----------------------------------------------------------------------------
(* on_billing_confirmed and invalidate_staged_contract. *)

Match(w) == predicted[task[w].found] = task[w].confirmed

(* record_outcome; a match is then settled in the row first, a mismatch      *)
(* last.                                                                     *)
RecordOutcome(w) ==
  /\ task[w].pc = "outcome"
  /\ outcomes' = Append(outcomes,
       [contract |-> task[w].found,
        verdict |-> IF Match(w) THEN "correct" ELSE "incorrect"])
  /\ GoTo(w, IF Match(w) THEN "settle" ELSE "drop_key")
  /\ UNCHANGED <<inputVars, key, row, faults>>

(* Slip of Settle: a status the readers of the row do not know. *)
SettleActivated(w) ==
  /\ task[w].pc = "settle"
  /\ IF Match(w) THEN WriteRow(w, IfPresent("activated"), "drop_key")
                 ELSE WriteRow(w, IfPresent("discarded"), "idle")

(* _update_staged_status: the row of the tenant, whichever contract is in it. *)
Settle(w) ==
  /\ task[w].pc = "settle"
  /\ IF Match(w) THEN WriteRow(w, IfPresent("confirmed"), "drop_key")
                 ELSE WriteRow(w, IfPresent("discarded"), "idle")

(* Slip of DropKey: the key is left to expire. *)
KeepKey(w) ==
  /\ task[w].pc = "drop_key" /\ GoTo(w, "discard_row")
  /\ UNCHANGED <<inputVars, stageVars, faults>>

DropKey(w) == task[w].pc = "drop_key" /\ WriteKey(w, 0, "discard_row")

DiscardRow(w) ==
  /\ task[w].pc = "discard_row"
  /\ IF task[w].job = "confirm" /\ ~Match(w)
     THEN WriteRow(w, IfActive("discarded"), "settle")
     ELSE WriteRow(w, IfActive("discarded"), "idle")

-----------------------------------------------------------------------------
(* Time, Redis and the processes. *)

(* valid_until of contract c passes; max_valid_until is the same instant. *)
Expire ==
  /\ \E c \in 1 .. Len(predicted) : c \notin expired /\ expired' = expired \cup {c}
  /\ UNCHANGED <<billing, predicted, stageVars, task, confirmations, faults>>

(* The key's TTL ends: at valid_until rounded down to a second, but at      *)
(* least 60 s after it was set.  Redis may also lose the key earlier.       *)
KeyExpires ==
  /\ key # 0 /\ key' = 0
  /\ UNCHANGED <<inputVars, row, task, outcomes, faults>>

Crash(w) ==
  /\ task[w].pc # "idle" /\ Fails("crash") /\ Done(w)
  /\ UNCHANGED <<inputVars, stageVars>>

Request(w) ==
  \/ \E s \in Statuses : StartDispatch(w, s) \/ StartConfirm(w, s)
  \/ StartDiscard(w) \/ StartRead(w)

Step(w) ==
  \/ GetKey(w) \/ DropExpired(w) \/ GetRow(w) \/ Restage(w)
  \/ RetireRow(w) \/ RetireKey(w) \/ SetKey(w) \/ UpsertRow(w) \/ MarkDispatched(w)
  \/ RecordOutcome(w) \/ Settle(w) \/ DropKey(w) \/ DiscardRow(w)

Next ==
  \/ Expire \/ KeyExpires
  \/ \E w \in Workers : Request(w) \/ Step(w) \/ Crash(w)

Spec == Init /\ [][Next]_vars

(* Requests that were started run on, and time passes. *)
Fairness ==
  /\ WF_vars(Expire) /\ WF_vars(KeyExpires)
  /\ \A w \in Workers : WF_vars(Step(w))

FairSpec == Spec /\ Fairness
=============================================================================
