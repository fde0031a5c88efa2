--------------------------- MODULE PredictiveSignals ---------------------------
(* What may become of a tenant's subscription, read from its dates, and the     *)
(* contract made of the likeliest: which future, and whether edges may activate  *)
(* it unconfirmed.  Staging it is StagedContracts.  Dates count in days,         *)
(* confidence in twelfths of a percent, so that every interpolation is exact.    *)
EXTENDS SubscriptionStates, FiniteSets, FiniteSetsExt

CONSTANTS
  MaxLeft,      \* bound on the days left to a date
  MaxAge        \* bound on the days since the last report

ASSUME PredAssumption == MaxLeft \in Nat /\ MaxAge \in Nat

VARIABLES
  sub,          \* the cached state: status, plan, days left to the expiry (active,
                \* trial) or to the end of grace (past_due, suspended), 0 for none
                \* or passed, and days past due since last_updated
  upgrade,      \* the plan ERPNext has an upgrade pending to, or "none"
  signalScan,   \* the scan in progress: where it is and the signals it has
  contract      \* the contract it ended with, or NoContract

predVars == <<sub, upgrade, signalScan, contract>>

Plans == {"free", "pro"}
Restriction ==  \* RESTRICTIVE_ORDER
  [s \in States |->
     CASE s = "trial" -> 0 [] s = "active" -> 1 [] s = "past_due" -> 2
       [] s = "suspended" -> 3 [] s = "canceled" -> 4 [] s = "expired" -> 5]
NoContract == [to |-> "none"]
NoSignalScan == [pc |-> "idle", signals |-> {}]

PredInit ==
  /\ sub = [status |-> "trial", plan |-> "pro", left |-> MaxLeft, age |-> 0]
  /\ upgrade = "none" /\ signalScan = NoSignalScan /\ contract = NoContract

-------------------------------------------------------------------------------
Lerp(value, high, low, atHigh, atLow) ==  \* _lerp
  12 * atLow + (value - low) * ((12 \div (high - low)) * (atHigh - atLow))

Least(i, j) == IF i <= j THEN i ELSE j

Signal(type, confidence, to, opens) ==
  [type |-> type, confidence |-> confidence, from |-> sub.status, to |-> to, opens |-> opens]

FromNow(hours) == IF hours > 0 THEN hours ELSE 0

(* The signals of the cached state; those below 70 % are dropped.                  *)
Detected ==
  LET d == sub.left
      renews == sub.status \in {"active", "trial"} /\ d > 0
      late == sub.status = "past_due"
      grace == sub.status \in {"past_due", "suspended"} /\ d \in 1 .. 2
  IN {s \in
       (IF renews /\ d <= 3
        THEN {Signal("near_expiry", Lerp(d, 3, 0, 92, 75), "expired", FromNow(24 * d - 1))} ELSE {})
       \cup (IF renews /\ d \in 4 .. 7
        THEN {Signal("invoice", Lerp(d, 7, 3, 65, 75), "past_due", 24 * d - 24)} ELSE {})
       \cup (IF renews /\ d <= 3 /\ sub.status = "active" /\ sub.plan # "free"
        THEN {Signal("due_soon", Lerp(d, 3, 0, 92, 80), "past_due", FromNow(24 * d - 2))} ELSE {})
       \cup (IF grace
        THEN {Signal("grace", Lerp(d, 2, 0, 95, 85), IF late THEN "suspended" ELSE "canceled",
                     FromNow(24 * d - 1))} ELSE {})
       \cup (IF late
        THEN {Signal("retry", 12 * Least(80, 60 + 5 * sub.age), "active", 0)} ELSE {})
       \cup (IF late /\ sub.age >= 3
        THEN {Signal("suspension", 12 * Least(88, 72 + 4 * (sub.age - 3)), "suspended", 0)} ELSE {})
     : s.confidence >= 12 * 70}

(* _select_best_signal: the surest, of these the one whose window opens first. Its  *)
(* rank of restriction reads a field no signal has, so it never tells two apart.    *)
Best(signals) ==
  LET surest == {s \in signals : \A t \in signals : s.confidence >= t.confidence}
  IN {s \in surest : \A t \in surest : s.opens <= t.opens}

(* Slip of RequiresConfirmation: stricter than what the signal was detected in.    *)
RequiresConfirmationSince(signal) ==
  ~(signal.confidence >= 12 * 85 /\ Restriction[signal.to] > Restriction[signal.from])

(* requires_confirmation: of the state read again for the projection.               *)
RequiresConfirmation(signal) ==
  ~(signal.confidence >= 12 * 85 /\ Restriction[signal.to] > Restriction[sub.status])

-------------------------------------------------------------------------------
(* Reports and days.                                                              *)
ReportArrives ==
  /\ \E status \in States, plan \in Plans, left \in 0 .. MaxLeft :
       /\ Accepted(sub.status, status)
       /\ status \in {"canceled", "expired"} => left = 0
       /\ sub' = [status |-> status, plan |-> plan, left |-> left, age |-> 0]
  /\ UNCHANGED <<upgrade, signalScan, contract>>

DayPasses ==
  /\ sub' = [sub EXCEPT !.left = FromNow(@ - 1),
                        !.age = IF sub.status = "past_due" THEN Least(MaxAge, @ + 1) ELSE 0]
  /\ UNCHANGED <<upgrade, signalScan, contract>>

UpgradePending ==
  /\ \E plan \in Plans \cup {"none"} : upgrade' = plan
  /\ UNCHANGED <<sub, signalScan, contract>>

(* detect_signals_for_tenant reads the cached state, then asks ERPNext, which may  *)
(* not answer.  A scan of all tenants detects twice: first to count the collisions. *)
ScanTenant ==
  /\ signalScan = NoSignalScan
  /\ signalScan' = [pc |-> "asking", signals |-> Detected]
  /\ contract' = NoContract
  /\ UNCHANGED <<sub, upgrade>>

ScanAll ==
  /\ signalScan = NoSignalScan
  /\ signalScan' = [pc |-> "counting", signals |-> Detected]
  /\ contract' = NoContract
  /\ UNCHANGED <<sub, upgrade>>

WithUpgrade ==
  {signalScan.signals} \cup
  IF upgrade = "none" THEN {}
  ELSE {signalScan.signals \cup {[type |-> "upgrade", confidence |-> 12 * 78, from |-> "active",
                            to |-> upgrade, opens |-> 0]}}

AskCounted ==
  /\ signalScan.pc = "counting"
  /\ \E signals \in WithUpgrade :
       signalScan' = IF signals = {} THEN NoSignalScan ELSE [pc |-> "asking", signals |-> Detected]
  /\ UNCHANGED <<sub, upgrade, contract>>

Ask ==
  /\ signalScan.pc = "asking"
  /\ \E signals \in WithUpgrade :
       IF signals = {} THEN signalScan' = NoSignalScan
       ELSE \E best \in Best(signals) : signalScan' = [pc |-> "building", signals |-> {best}]
  /\ UNCHANGED <<sub, upgrade, contract>>

(* build_projected_state and generate_staged_contract, of the state read again.     *)
Project ==
  /\ signalScan.pc = "building"
  /\ signalScan' = NoSignalScan
  /\ \E signal \in signalScan.signals :
       LET upgrades == signal.type = "upgrade"
           s == IF upgrades THEN [signal EXCEPT !.to = "active"] ELSE signal
       IN contract' = IF ~Accepted(sub.status, s.to) THEN NoContract
                      ELSE [to |-> s.to, plan |-> IF upgrades THEN signal.to ELSE sub.plan,
                            confirm |-> RequiresConfirmation(s),
                            basis |-> [status |-> sub.status, plan |-> sub.plan]]
  /\ UNCHANGED <<sub, upgrade>>

PredNext ==
  \/ ReportArrives \/ DayPasses \/ UpgradePending
  \/ ScanTenant \/ ScanAll \/ AskCounted \/ Ask \/ Project

PredSpec == PredInit /\ [][PredNext]_predVars

-------------------------------------------------------------------------------
(* Cached state, signals and contract keep their types.                            *)
SubType == [status : States, plan : Plans, left : 0 .. MaxLeft, age : 0 .. MaxAge]
PredTypeOK ==
  /\ sub \in SubType
  /\ upgrade \in Plans \cup {"none"}
  /\ signalScan.pc \in {"idle", "counting", "asking", "building"}
  /\ \A s \in signalScan.signals : s.confidence \in 12 * 70 .. 12 * 95 /\ s.from \in States
  /\ contract = NoContract
       \/ contract \in [to : States, plan : Plans, confirm : BOOLEAN, basis : [status : States, plan : Plans]]

(* An edge may activate a contract by itself only if that restricts the tenant       *)
(* further, by a transition the subscription may take, and grants no other plan:      *)
(* of the state the contract was built on, however the one its signal was seen in    *)
(* has changed since.                                                               *)
NothingGrantedUnconfirmed ==
  contract # NoContract /\ ~contract.confirm =>
    /\ Restriction[contract.to] > Restriction[contract.basis.status]
    /\ contract.to \in AllowedTransitions[contract.basis.status]
    /\ contract.plan = contract.basis.plan

-------------------------------------------------------------------------------
(* The outcomes of the predictions, counted twice: in a Redis hash that expires  *)
(* and in prediction_records, and the report of the two.                         *)

CONSTANT MaxOutcomes  \* bound on the outcomes recorded

ASSUME TallyAssumption == MaxOutcomes \in Nat

VARIABLES
  outcomes,     \* prediction_records: how many of each outcome
  rolling,      \* the counters of the Redis hash: outcomes, and collisions
  metrics       \* a reader of the metrics: its snapshot and what it has so far

tallyVars == <<outcomes, rolling, metrics>>

Verdicts == {"correct", "incorrect"}
NoTally == [v \in Verdicts |-> 0]
NoReader == [pc |-> "idle", snapshot |-> NoTally, counts |-> NoTally, bySignal |-> 0, totals |-> NoTally]

TallyInit == outcomes = NoTally /\ rolling = NoTally /\ metrics = NoReader

Total(tally) == tally["correct"] + tally["incorrect"]
OneMore(tally, verdict) == [tally EXCEPT ![verdict] = @ + 1]

(* record_outcome: the hash first, the row after it, each as well as it can be.      *)
RecordOutcome(verdict) ==
  /\ Total(outcomes) < MaxOutcomes /\ Total(rolling) < MaxOutcomes
  /\ \E redis, db \in BOOLEAN :
       /\ rolling' = IF redis THEN OneMore(rolling, verdict) ELSE rolling
       /\ outcomes' = IF db THEN OneMore(outcomes, verdict) ELSE outcomes
  /\ UNCHANGED metrics

RollingExpires ==
  /\ rolling' = NoTally
  /\ UNCHANGED <<outcomes, metrics>>

(* _query_db_metrics: two aggregates of one session, so of one snapshot, taken by   *)
(* the first; a failure of either answers zeroes.                                   *)
CountOutcomes ==
  /\ metrics.pc \in {"idle", "done"}
  /\ metrics' = [NoReader EXCEPT !.pc = "counted", !.snapshot = outcomes, !.counts = outcomes]
  /\ UNCHANGED <<outcomes, rolling>>

(* Slip of SignalRows: the second aggregate in a session of its own.                *)
SignalRowsAnew == Total(outcomes)
SignalRows == Total(metrics.snapshot)

CountSignals ==
  /\ metrics.pc = "counted"
  /\ metrics' \in {[metrics EXCEPT !.pc = "rows", !.bySignal = SignalRows],
                   [NoReader EXCEPT !.pc = "rows"]}
  /\ UNCHANGED <<outcomes, rolling>>

(* The totals of the hash come last, or not at all.                                 *)
ReadRolling ==
  /\ metrics.pc = "rows"
  /\ \E totals \in {rolling, NoTally} :
       metrics' = [metrics EXCEPT !.pc = "done", !.snapshot = NoTally, !.totals = totals]
  /\ UNCHANGED <<outcomes, rolling>>

TallyNext ==
  \/ (\E verdict \in Verdicts : RecordOutcome(verdict)) \/ RollingExpires
  \/ CountOutcomes \/ CountSignals \/ ReadRolling

TallySpec == TallyInit /\ [][TallyNext]_tallyVars

-------------------------------------------------------------------------------
(* Counters and reader keep their types.                                           *)
TallyType == [Verdicts -> 0 .. MaxOutcomes]
TallyTypeOK ==
  /\ outcomes \in TallyType /\ rolling \in TallyType
  /\ metrics \in [pc : {"idle", "counted", "rows", "done"}, snapshot : TallyType,
                  counts : TallyType, bySignal : 0 .. MaxOutcomes, totals : TallyType]

(* The two parts of a report count the same outcomes, however many are recorded      *)
(* between the two.                                                                 *)
ReportAddsUp == metrics.pc \in {"rows", "done"} => metrics.bySignal = Total(metrics.counts)
=================================================================================
