---------------------------- MODULE StagedProofs ----------------------------
(***************************************************************************)
(* Theorems about staged contracts, for any workers, statuses, failures    *)
(* and bounds.                                                             *)
(***************************************************************************)
EXTENDS StagedProperties, TLAPS

-----------------------------------------------------------------------------
(* The inductive invariant. *)

(* A task that is about to resolve or to restage a contract names one, and  *)
(* one that had not expired when the billing event came in.                 *)
Tidy(t) ==
  /\ t.late \subseteq expired
  /\ t.job = "dispatch" => t.own # 0
  /\ t.pc \in {"restage", "outcome"} => t.found # 0 /\ t.found \notin t.late
  /\ t.pc \in {"retire_row", "retire_key", "set_key", "upsert"} => t.job = "dispatch"

TasksTidy == task \in [Workers -> Task] /\ \A w \in Workers : Tidy(task[w])

RowNamed == row.status # "absent" => row.contract # 0

StagedInv == TypeOK /\ RowNamed /\ TasksTidy

LEMMA TaskUpdate ==
  ASSUME TasksTidy, NEW w \in Workers, NEW t \in Task, Tidy(t),
         expired' = expired, task' = [task EXCEPT ![w] = t]
  PROVE  TasksTidy'
BY DEF TasksTidy, Tidy

LEMMA IdleTidy == Idle \in Task /\ Tidy(Idle)
BY DEF Idle, Task, Tidy, Labels

LEMMA DoneTidy ==
  ASSUME TasksTidy, NEW w \in Workers, expired' = expired, Done(w)
  PROVE  TasksTidy'
BY IdleTidy, TaskUpdate DEF Done

LEMMA GoToTidy ==
  ASSUME TasksTidy, NEW w \in Workers, NEW label \in Labels,
         Tidy([task[w] EXCEPT !.pc = label]), expired' = expired, GoTo(w, label)
  PROVE  TasksTidy'
<1> DEFINE t == [task[w] EXCEPT !.pc = label]
<1>1. t \in Task
  BY DEF TasksTidy, Task
<1>2. task' = [task EXCEPT ![w] = t]
  BY DEF GoTo, TasksTidy
<1> QED
  BY <1>1, <1>2, TaskUpdate

(* get_staged_contract returns None or a contract that has not expired. *)
LEMMA FoundTidy ==
  ASSUME StagedInv, NEW w \in Workers, NEW c \in Contracts \cup {0},
         c \notin task[w].late, expired' = expired, Found(w, c)
  PROVE  TasksTidy'
<1>1. TasksTidy /\ task[w] \in Task /\ Tidy(task[w])
  BY DEF StagedInv, TasksTidy
<1>2. CASE Done(w)
  BY <1>1, <1>2, DoneTidy
<1>3. CASE /\ task[w].job = "dispatch"
           /\ task' = [task EXCEPT ![w].pc = IF c = 0 THEN "set_key" ELSE "retire_row",
                                   ![w].found = 0]
  <2> DEFINE t == [task[w] EXCEPT !.pc = IF c = 0 THEN "set_key" ELSE "retire_row",
                                  !.found = 0]
  <2>1. t \in Task /\ Tidy(t)
    BY <1>1, <1>3 DEF Task, Tidy, Labels
  <2>2. task' = [task EXCEPT ![w] = t]
    BY <1>1, <1>3 DEF TasksTidy
  <2> QED
    BY <1>1, <2>1, <2>2, TaskUpdate
<1>4. CASE /\ c # 0
           /\ task' = [task EXCEPT ![w].pc = "outcome", ![w].found = c]
  <2> DEFINE t == [task[w] EXCEPT !.pc = "outcome", !.found = c]
  <2>1. t \in Task /\ Tidy(t)
    BY <1>1, <1>4 DEF Task, Tidy, Labels
  <2>2. task' = [task EXCEPT ![w] = t]
    BY <1>1, <1>4 DEF TasksTidy
  <2> QED
    BY <1>1, <2>1, <2>2, TaskUpdate
<1> QED
  BY <1>2, <1>3, <1>4 DEF Found

-----------------------------------------------------------------------------
(* One lemma per group of actions: the tasks stay tidy. *)

LEMMA RequestTidy ==
  ASSUME StagedInv, NEW w \in Workers, Request(w)
  PROVE  TasksTidy'
<1>1. TasksTidy /\ Idle \in Task /\ Tidy(Idle) /\ expired' = expired
      /\ predicted \in Seq(Statuses) /\ Len(predicted) \in 0 .. MaxContracts
      /\ expired \subseteq Contracts
  BY IdleTidy DEF StagedInv, TypeOK, Request, StartDispatch, StartConfirm,
                  StartDiscard, StartRead, Begin
<1>2. ASSUME NEW s \in Statuses, StartDispatch(w, s) PROVE TasksTidy'
  <2> DEFINE t == [Idle EXCEPT !.pc = "get_key", !.job = "dispatch",
                               !.own = Len(predicted')]
  <2>1. Len(predicted') \in Contracts
    BY <1>1, <1>2, StagedAssumption DEF StartDispatch, Contracts
  <2>2. t \in Task
    BY <1>1, <2>1 DEF Task, Labels
  <2>3. Tidy(t)
    BY <2>1 DEF Idle, Tidy, Contracts
  <2>4. task' = [task EXCEPT ![w] = t]
    BY <1>2 DEF StartDispatch, Begin
  <2> HIDE DEF t
  <2> QED
    BY <1>1, <2>2, <2>3, <2>4, TaskUpdate
<1>3. ASSUME NEW s \in Statuses, StartConfirm(w, s) PROVE TasksTidy'
  <2> DEFINE t == [Idle EXCEPT !.pc = "get_key", !.job = "confirm",
                               !.confirmed = s, !.late = expired]
  <2>1. t \in Task
    BY <1>1 DEF Task, Labels
  <2>2. Tidy(t)
    BY DEF Idle, Tidy
  <2>3. task' = [task EXCEPT ![w] = t]
    BY <1>3 DEF StartConfirm, Begin
  <2> HIDE DEF t
  <2> QED
    BY <1>1, <2>1, <2>2, <2>3, TaskUpdate
<1>4. ASSUME NEW job \in {"discard", "read"}, NEW label \in {"drop_key", "get_key"},
             Begin(w, [Idle EXCEPT !.pc = label, !.job = job])
      PROVE  TasksTidy'
  <2> DEFINE t == [Idle EXCEPT !.pc = label, !.job = job]
  <2>1. t \in Task
    BY <1>1 DEF Task, Labels
  <2>2. Tidy(t)
    BY DEF Idle, Tidy
  <2>3. task' = [task EXCEPT ![w] = t]
    BY <1>4 DEF Begin
  <2> HIDE DEF t
  <2> QED
    BY <1>1, <2>1, <2>2, <2>3, TaskUpdate
<1> QED
  BY <1>2, <1>3, <1>4 DEF Request, StartDiscard, StartRead

LEMMA ReadTidy ==
  ASSUME StagedInv, NEW w \in Workers,
         GetKey(w) \/ DropExpired(w) \/ GetRow(w) \/ Restage(w)
  PROVE  TasksTidy'
<1>1. /\ TasksTidy /\ task[w] \in Task /\ Tidy(task[w]) /\ expired' = expired
      /\ task[w].pc \in {"get_key", "drop_expired", "get_row", "restage"}
      /\ key \in Contracts \cup {0} /\ row \in Row
      /\ task[w].late \subseteq Contracts
  BY DEF StagedInv, TypeOK, TasksTidy, Task, GetKey, DropExpired, GetRow, Restage,
         inputVars
<1>2. CASE Found(w, 0)
  BY <1>1, <1>2, FoundTidy DEF Contracts
<1>3. CASE key # 0 /\ key \notin expired /\ Found(w, key)
  BY <1>1, <1>3, FoundTidy DEF Tidy
<1>4. CASE task[w].pc = "restage" /\ Found(w, task[w].found)
  BY <1>1, <1>4, FoundTidy DEF Tidy, Task
<1>5. CASE GoTo(w, "get_row") \/ GoTo(w, "drop_expired")
  <2>1. \A label \in {"get_row", "drop_expired"} : Tidy([task[w] EXCEPT !.pc = label])
    BY <1>1 DEF Tidy, Task
  <2> QED
    BY <1>1, <1>5, <2>1, GoToTidy DEF Labels
<1>6. CASE /\ Active /\ row.contract \notin expired
           /\ task' = [task EXCEPT ![w].pc = "restage", ![w].found = row.contract]
  <2> DEFINE t == [task[w] EXCEPT !.pc = "restage", !.found = row.contract]
  <2>1. row.contract # 0 /\ row.contract \in Contracts
    BY <1>1, <1>6 DEF StagedInv, RowNamed, Active, Row
  <2>2. t \in Task /\ Tidy(t)
    BY <1>1, <1>6, <2>1 DEF Task, Tidy, Labels
  <2>3. task' = [task EXCEPT ![w] = t]
    BY <1>1, <1>6 DEF TasksTidy
  <2> QED
    BY <1>1, <2>2, <2>3, TaskUpdate
<1> QED
  BY <1>2, <1>3, <1>4, <1>5, <1>6 DEF GetKey, DropExpired, GetRow, Restage

WriteLabels == {"retire_row", "retire_key", "set_key", "upsert", "mark",
                "settle", "drop_key", "discard_row"}

LEMMA WriteTidy ==
  ASSUME StagedInv, NEW w \in Workers,
         \/ RetireRow(w) \/ RetireKey(w) \/ SetKey(w) \/ UpsertRow(w)
         \/ MarkDispatched(w) \/ RecordOutcome(w) \/ Settle(w)
         \/ DropKey(w) \/ DiscardRow(w)
  PROVE  TasksTidy'
<1>1. TasksTidy /\ task[w] \in Task /\ Tidy(task[w]) /\ expired' = expired
  BY DEF StagedInv, TasksTidy, inputVars, RetireRow, RetireKey, SetKey, UpsertRow,
         MarkDispatched, RecordOutcome, Settle, DropKey, DiscardRow, WriteRow, WriteKey
<1>2. CASE Done(w)
  BY <1>1, <1>2, DoneTidy
<1>3. ASSUME NEW label \in WriteLabels, GoTo(w, label),
             label \in {"retire_row", "retire_key", "set_key", "upsert"}
               => task[w].job = "dispatch"
      PROVE  TasksTidy'
  <2>1. Tidy([task[w] EXCEPT !.pc = label])
    BY <1>1, <1>3 DEF Tidy, Task, WriteLabels
  <2> QED
    BY <1>1, <1>3, <2>1, GoToTidy DEF WriteLabels, Labels
<1> QED
  BY <1>1, <1>2, <1>3
     DEF Tidy, WriteLabels, RetireRow, RetireKey, SetKey, UpsertRow, MarkDispatched,
         RecordOutcome, Settle, DropKey, DiscardRow, WriteRow, WriteKey

-----------------------------------------------------------------------------
(* The invariant is inductive. *)

LEMMA StagedInit == Init => StagedInv
<1> SUFFICES ASSUME Init PROVE StagedInv
  OBVIOUS
<1>1. TasksTidy
  BY IdleTidy DEF Init, TasksTidy
<1>2. TypeOK
  BY <1>1, StagedAssumption DEF Init, TypeOK, TasksTidy, Row, RowStatuses, Contracts
<1> QED
  BY <1>1, <1>2 DEF Init, StagedInv, RowNamed

LEMMA StagedStep == StagedInv /\ [Next]_vars => StagedInv'
<1> SUFFICES ASSUME StagedInv, [Next]_vars PROVE StagedInv'
  OBVIOUS
<1>0. TypeOK /\ RowNamed /\ TasksTidy
  BY DEF StagedInv
<1> USE StagedAssumption DEF TypeOK, inputVars, stageVars
<1>1. ASSUME NEW w \in Workers, Request(w) PROVE StagedInv'
  <2>1. TasksTidy'
    BY <1>1, RequestTidy
  <2>2. UNCHANGED <<key, row, expired, outcomes, faults>>
    BY <1>1 DEF Request, StartDispatch, StartConfirm, StartDiscard, StartRead, Begin
  <2>3. /\ billing' \in Statuses
        /\ predicted' \in Seq(Statuses) /\ Len(predicted') \in 0 .. MaxContracts
        /\ confirmations' \in 0 .. MaxConfirmations
    <3>1. ASSUME NEW s \in Statuses, StartDispatch(w, s)
          PROVE  /\ predicted' \in Seq(Statuses) /\ Len(predicted') \in 0 .. MaxContracts
                 /\ UNCHANGED <<billing, confirmations>>
      BY <1>0, <3>1 DEF StartDispatch
    <3>2. ASSUME NEW s \in Statuses, StartConfirm(w, s)
          PROVE  /\ billing' \in Statuses /\ confirmations' \in 0 .. MaxConfirmations
                 /\ UNCHANGED predicted
      BY <1>0, <3>2 DEF StartConfirm
    <3>3. CASE StartDiscard(w) \/ StartRead(w)
      BY <1>0, <3>3 DEF StartDiscard, StartRead
    <3> QED
      BY <1>0, <1>1, <3>1, <3>2, <3>3 DEF Request
  <2>4. TypeOK'
    BY <1>0, <2>1, <2>2, <2>3 DEF TasksTidy
  <2>5. RowNamed'
    BY <1>0, <2>2 DEF RowNamed
  <2> QED
    BY <2>1, <2>4, <2>5 DEF StagedInv
<1>2. ASSUME NEW w \in Workers,
             GetKey(w) \/ DropExpired(w) \/ GetRow(w) \/ Restage(w)
      PROVE  StagedInv'
  <2>1. TasksTidy'
    BY <1>2, ReadTidy
  <2>2. UNCHANGED <<billing, predicted, row, expired, outcomes, confirmations>>
    BY <1>2 DEF GetKey, DropExpired, GetRow, Restage
  <2>3. task[w].found \in Contracts \cup {0}
    BY <1>0 DEF Task
  <2>4. key' \in Contracts \cup {0} /\ faults' \in 0 .. MaxFaults
    BY <1>0, <1>2, <2>3 DEF GetKey, DropExpired, GetRow, Restage, Fails
  <2> QED
    BY <1>0, <2>1, <2>2, <2>4 DEF StagedInv, RowNamed, TasksTidy
<1>3. ASSUME NEW w \in Workers,
             \/ RetireRow(w) \/ RetireKey(w) \/ SetKey(w) \/ UpsertRow(w)
             \/ MarkDispatched(w) \/ Settle(w) \/ DropKey(w) \/ DiscardRow(w)
      PROVE  StagedInv'
  <2>1. TasksTidy'
    BY <1>3, WriteTidy
  <2>2. UNCHANGED <<billing, predicted, expired, outcomes, confirmations>>
    BY <1>3 DEF RetireRow, RetireKey, SetKey, UpsertRow, MarkDispatched, Settle,
                DropKey, DiscardRow, WriteRow, WriteKey
  <2>3. faults' \in 0 .. MaxFaults
    BY <1>0, <1>3 DEF RetireRow, RetireKey, SetKey, UpsertRow, MarkDispatched, Settle,
                      DropKey, DiscardRow, WriteRow, WriteKey, Fails
  <2>4. task[w].own \in Contracts \cup {0} /\ (task[w].pc = "upsert" => task[w].own # 0)
    BY <1>0 DEF TasksTidy, Tidy, Task
  <2>5. key' \in Contracts \cup {0}
    BY <1>0, <1>3, <2>4 DEF RetireRow, RetireKey, SetKey, UpsertRow, MarkDispatched,
         Settle, DropKey, DiscardRow, WriteRow, WriteKey
  <2>6. \A status \in RowStatuses \ {"absent"} :
          /\ IfActive(status) \in Row /\ IfPresent(status) \in Row
          /\ IfActive(status).status # "absent" => IfActive(status).contract # 0
          /\ IfPresent(status).status # "absent" => IfPresent(status).contract # 0
    BY <1>0 DEF IfActive, IfPresent, Active, Row, RowNamed
  <2>7. row' \in Row /\ RowNamed'
    <3>1. CASE row' = row
      BY <1>0, <3>1 DEF RowNamed
    <3>2. CASE row' = [status |-> "pending", contract |-> task[w].own] /\ task[w].own # 0
      BY <2>4, <3>2 DEF Row, RowStatuses, RowNamed
    <3>3. CASE \E status \in RowStatuses \ {"absent"} :
                 row' \in {IfActive(status), IfPresent(status)}
      BY <2>6, <3>3 DEF RowNamed
    <3> QED
      BY <1>3, <2>4, <3>1, <3>2, <3>3
         DEF RetireRow, RetireKey, SetKey, UpsertRow, MarkDispatched, Settle,
             DropKey, DiscardRow, WriteRow, WriteKey, RowStatuses
  <2> QED
    BY <1>0, <2>1, <2>2, <2>3, <2>5, <2>7 DEF StagedInv, TasksTidy
<1>4. ASSUME NEW w \in Workers, RecordOutcome(w) PROVE StagedInv'
  <2>1. TasksTidy'
    BY <1>4, WriteTidy
  <2>2. task[w].found \in Contracts
    BY <1>0, <1>4 DEF RecordOutcome, TasksTidy, Tidy, Task
  <2>3. outcomes' \in Seq([contract : Contracts, verdict : {"correct", "incorrect"}])
    BY <1>0, <1>4, <2>2 DEF RecordOutcome
  <2> QED
    BY <1>0, <1>4, <2>1, <2>3 DEF RecordOutcome, StagedInv, RowNamed, TasksTidy
<1>5. ASSUME NEW w \in Workers, Crash(w) PROVE StagedInv'
  <2>1. TasksTidy'
    BY <1>0, <1>5, DoneTidy DEF Crash
  <2> QED
    BY <1>0, <1>5, <2>1 DEF Crash, Fails, StagedInv, RowNamed, TasksTidy
<1>6. CASE Expire
  <2>1. expired \subseteq expired' /\ expired' \subseteq Contracts
    BY <1>0, <1>6 DEF Expire, Contracts
  <2>2. UNCHANGED task
    BY <1>6 DEF Expire
  <2>3. TasksTidy'
    BY <1>0, <2>1, <2>2 DEF TasksTidy, Tidy
  <2> QED
    BY <1>0, <1>6, <2>1, <2>3 DEF Expire, StagedInv, RowNamed, TasksTidy
<1>7. CASE KeyExpires
  BY <1>0, <1>7 DEF KeyExpires, StagedInv, RowNamed, TasksTidy, Tidy
<1>8. CASE UNCHANGED vars
  BY <1>0, <1>8 DEF vars, StagedInv, RowNamed, TasksTidy, Tidy
<1> QED
  BY <1>1, <1>2, <1>3, <1>4, <1>5, <1>6, <1>7, <1>8 DEF Next, Step

LEMMA StagedInvariant == Spec => []StagedInv
BY StagedInit, StagedStep, PTL DEF Spec

(* The key, the row, the tasks and the history keep their types: an outcome *)
(* is always that of a contract that was generated.                         *)
THEOREM StagedTypeCorrect == Spec => []TypeOK
<1>1. StagedInv => TypeOK
  BY DEF StagedInv
<1> QED
  BY StagedInvariant, <1>1, PTL

(* Rule 4 on the side of MC2: whatever the Redis key and the row still      *)
(* hold, a billing event never resolves a contract that had expired before. *)
THEOREM ExpiredStaysUnresolved == Spec => []ExpiredNotResolved
<1>1. StagedInv => ExpiredNotResolved
  BY DEF StagedInv, TasksTidy, Tidy, ExpiredNotResolved
<1> QED
  BY StagedInvariant, <1>1, PTL

-----------------------------------------------------------------------------
(* One task at a time, and nothing fails: the key and the row stay together, *)
(* and the row is the slot.                                                  *)

OneTask == \A v, w \in Workers : v = w

Live(r) == r.status \in {"pending", "dispatched"}
Matches(t) == predicted[t.found] = t.confirmed

(* Between the statements of a confirmation, after its outcome is recorded. *)
Resolving(t) == t.job = "confirm" /\ t.pc \in {"settle", "drop_key", "discard_row"}

(* The task t that is at work, and the two layers as key k and row r. *)
Alone(t, k, r) ==
  /\ t.pc \notin {"retire_key", "upsert", "settle", "drop_key"} =>
       (k # 0 => Live(r) /\ r.contract = k)
  /\ t.pc \in {"get_row", "restage", "set_key", "discard_row"} => k = 0
  /\ t.pc = "upsert" => k \in {0, t.own}
  /\ t.pc = "retire_key" => ~Live(r)
  /\ t.pc = "mark" => r = [status |-> "pending", contract |-> t.own]
  /\ t.pc \in {"restage", "outcome"} => Live(r) /\ r.contract = t.found
  /\ t.pc \in {"settle", "outcome"} => t.job = "confirm"
  /\ t.pc = "settle" /\ ~Matches(t) => ~Live(r) /\ k = 0
  /\ t.pc \in {"drop_key", "discard_row"} /\ t.job = "confirm" /\ Matches(t) => ~Live(r)
  /\ t.job = "dispatch" /\ t.pc # "mark" => t.own = Len(predicted) /\ r.contract < t.own
  /\ Live(r) /\ ~Resolving(t) => RecordsOf(r.contract) = {}

Recorded(r) == \A i \in DOMAIN outcomes : outcomes[i].contract <= r.contract

SoloInv ==
  /\ \A w \in Workers : Alone(task[w], key, row)
  /\ Recorded(row)
  /\ row.contract <= Len(predicted)
  /\ Workers = {} => key = 0

Solo == OneTask /\ Faults = {}

SlotSteps == [Slot!SlotNext]_<<IF Active THEN row.contract ELSE 0, row.contract,
                               [c \in Contracts |-> OutcomeOf(c)]>>

(* Steps that record no outcome. *)
LEMMA SameOutcomes ==
  ASSUME UNCHANGED outcomes
  PROVE  /\ [c \in Contracts |-> OutcomeOf(c)]' = [c \in Contracts |-> OutcomeOf(c)]
         /\ \A c : RecordsOf(c)' = RecordsOf(c)
BY DEF OutcomeOf, RecordsOf

LEMMA SlotKept ==
  ASSUME UNCHANGED outcomes, row'.contract = row.contract,
         Live(row') => Live(row)
  PROVE  SlotSteps
<1>1. [c \in Contracts |-> OutcomeOf(c)]' = [c \in Contracts |-> OutcomeOf(c)]
  BY SameOutcomes
<1>2. CASE Live(row') <=> Live(row)
  BY <1>1, <1>2 DEF SlotSteps, Live, Active
<1>3. CASE ~Live(row')
  BY <1>1, <1>3 DEF SlotSteps, Live, Active, Slot!SlotNext, Slot!Vacate
<1> QED
  BY <1>2, <1>3

LEMMA SlotStaged ==
  ASSUME UNCHANGED outcomes, NEW c \in Contracts, c > row.contract,
         row' = [status |-> "pending", contract |-> c]
  PROVE  SlotSteps
<1>1. [d \in Contracts |-> OutcomeOf(d)]' = [d \in Contracts |-> OutcomeOf(d)]
  BY SameOutcomes
<1>2. Slot!Stage(c)
  BY <1>1 DEF Slot!Stage, Active
<1> QED
  BY <1>2 DEF SlotSteps, Slot!SlotNext

(* A step of the only task that generates and records nothing. *)
LEMMA SoloKept ==
  ASSUME Solo, StagedInv, SoloInv, NEW w \in Workers, NEW t,
         task' = [task EXCEPT ![w] = t], UNCHANGED <<predicted, outcomes>>,
         row' \in Row, row.contract <= row'.contract, row'.contract <= Len(predicted),
         Alone(t, key', row')
  PROVE  SoloInv'
<1>1. task \in [Workers -> Task] /\ row \in Row
      /\ outcomes \in Seq([contract : Contracts, verdict : {"correct", "incorrect"}])
  BY DEF StagedInv, TypeOK
<1>2. \A v \in Workers : task'[v] = t
  BY <1>1 DEF Solo, OneTask
<1>3. \A v \in Workers : Alone(task[v], key, row)'
  BY <1>2 DEF Alone, Matches, RecordsOf
<1>4. Recorded(row)'
  <2> SUFFICES ASSUME NEW i \in DOMAIN outcomes
               PROVE  outcomes[i].contract <= row'.contract
    BY DEF Recorded
  <2> DEFINE Outcome == [contract : Contracts, verdict : {"correct", "incorrect"}]
  <2>0. outcomes \in Seq(Outcome)
    BY <1>1
  <2> HIDE DEF Outcome
  <2>4. outcomes[i] \in Outcome
    BY <2>0
  <2>1. outcomes[i] \in [contract : Contracts, verdict : {"correct", "incorrect"}]
    BY <2>4 DEF Outcome
  <2>3. outcomes[i].contract \in Nat /\ row.contract \in Nat /\ row'.contract \in Nat
    BY <1>1, <2>1 DEF Row, Contracts
  <2>2. outcomes[i].contract <= row.contract
    BY DEF SoloInv, Recorded
  <2> QED
    BY <2>2, <2>3
<1> QED
  BY <1>3, <1>4 DEF SoloInv

LEMMA SoloFacts ==
  ASSUME Solo, StagedInv, SoloInv, NEW w \in Workers
  PROVE  /\ task \in [Workers -> Task] /\ task[w] \in Task /\ Tidy(task[w])
         /\ Alone(task[w], key, row)
         /\ row \in Row /\ row.contract \in Nat /\ row.contract <= Len(predicted)
         /\ Len(predicted) \in Nat /\ key \in Contracts \cup {0}
         /\ \A kind : ~Fails(kind)
BY DEF Solo, StagedInv, TypeOK, TasksTidy, SoloInv, Row, Contracts, Fails

(* get_staged_contract returned c, or 0 for None, to the task. *)
LEMMA SoloFound ==
  ASSUME Solo, StagedInv, SoloInv, NEW w \in Workers, NEW c \in Contracts \cup {0},
         Found(w, c), UNCHANGED <<predicted, outcomes, row>>,
         task[w].pc \in {"get_key", "drop_expired", "get_row", "restage"},
         c = 0 => key' = 0,
         c # 0 => Live(row) /\ row.contract = c,
         key' # 0 => Live(row) /\ row.contract = key'
  PROVE  SoloInv'
<1>1. /\ task \in [Workers -> Task] /\ task[w] \in Task
      /\ Alone(task[w], key, row)
      /\ row \in Row /\ row.contract \in Nat /\ row.contract <= Len(predicted)
      /\ 0 \notin Contracts
  BY SoloFacts DEF Contracts
<1>2. ASSUME NEW t, task' = [task EXCEPT ![w] = t], Alone(t, key', row)
      PROVE  SoloInv'
  <2>1. /\ row' = row /\ row' \in Row /\ row.contract <= row'.contract
        /\ row'.contract <= Len(predicted) /\ Alone(t, key', row')
    BY <1>1, <1>2
  <2> QED
    BY <1>2, <2>1, SoloKept
<1>3. Live(row) => RecordsOf(row.contract) = {}
  BY <1>1 DEF Alone, Resolving
<1>4. CASE Done(w)
  <2>1. Alone(Idle, key', row)
    BY <1>3 DEF Alone, Idle, Resolving
  <2> QED
    BY <1>2, <1>4, <2>1 DEF Done
<1>5. CASE /\ task[w].job = "dispatch"
           /\ task' = [task EXCEPT ![w].pc = IF c = 0 THEN "set_key" ELSE "retire_row",
                                   ![w].found = 0]
  <2> DEFINE t == [task[w] EXCEPT !.pc = IF c = 0 THEN "set_key" ELSE "retire_row",
                                  !.found = 0]
  <2>1. t.job = "dispatch" /\ t.own = task[w].own
        /\ t.pc = IF c = 0 THEN "set_key" ELSE "retire_row"
    BY <1>1, <1>5 DEF Task
  <2>2. task' = [task EXCEPT ![w] = t]
    BY <1>1, <1>5
  <2>3. task[w].own = Len(predicted) /\ row.contract < task[w].own
    BY <1>1, <1>5 DEF Alone
  <2> HIDE DEF t
  <2>4. Alone(t, key', row)
    BY <1>3, <2>1, <2>3 DEF Alone, Resolving
  <2> QED
    BY <1>2, <2>2, <2>4
<1>6. CASE /\ task[w].job = "confirm" /\ c # 0
           /\ task' = [task EXCEPT ![w].pc = "outcome", ![w].found = c]
  <2> DEFINE t == [task[w] EXCEPT !.pc = "outcome", !.found = c]
  <2>1. t.job = "confirm" /\ t.found = c /\ t.pc = "outcome"
    BY <1>1, <1>6 DEF Task
  <2>2. task' = [task EXCEPT ![w] = t]
    BY <1>1, <1>6
  <2> HIDE DEF t
  <2>3. Alone(t, key', row)
    BY <1>3, <1>6, <2>1 DEF Alone, Resolving
  <2> QED
    BY <1>2, <2>2, <2>3
<1> QED
  BY <1>4, <1>5, <1>6 DEF Found

(* A statement after which the task goes on at another label. *)
LEMMA SoloGoes ==
  ASSUME Solo, StagedInv, SoloInv, NEW w \in Workers, NEW label, GoTo(w, label),
         UNCHANGED <<predicted, outcomes>>,
         row' \in Row, row.contract <= row'.contract, row'.contract <= Len(predicted),
         \A t : /\ t.pc = label /\ t.job = task[w].job /\ t.own = task[w].own
                /\ t.found = task[w].found /\ t.confirmed = task[w].confirmed
                => Alone(t, key', row')
  PROVE  SoloInv'
<1> DEFINE t == [task[w] EXCEPT !.pc = label]
<1>1. task \in [Workers -> Task] /\ task[w] \in Task
  BY SoloFacts
<1>2. /\ t.pc = label /\ t.job = task[w].job /\ t.own = task[w].own
      /\ t.found = task[w].found /\ t.confirmed = task[w].confirmed
  BY <1>1 DEF Task
<1>3. task' = [task EXCEPT ![w] = t]
  BY <1>1 DEF GoTo
<1> HIDE DEF t
<1>4. Alone(t, key', row')
  BY <1>2
<1> QED
  BY <1>3, <1>4, SoloKept

LEMMA SoloDone ==
  ASSUME Solo, StagedInv, SoloInv, NEW w \in Workers, Done(w),
         UNCHANGED <<predicted, outcomes>>,
         row' \in Row, row.contract <= row'.contract, row'.contract <= Len(predicted),
         key' # 0 => Live(row') /\ row'.contract = key',
         Live(row') => RecordsOf(row'.contract) = {}
  PROVE  SoloInv'
<1>1. Alone(Idle, key', row')
  BY DEF Alone, Idle
<1> QED
  BY <1>1, SoloKept DEF Done

LEMMA SoloRequest ==
  ASSUME Solo, StagedInv, SoloInv, NEW w \in Workers, Request(w)
  PROVE  SoloInv' /\ SlotSteps
<1>1. /\ task \in [Workers -> Task] /\ row \in Row /\ row.contract \in Nat
      /\ row.contract <= Len(predicted) /\ Len(predicted) \in Nat
      /\ predicted \in Seq(Statuses)
      /\ task[w].pc = "idle" /\ Alone(task[w], key, row)
  BY SoloFacts DEF StagedInv, TypeOK, Request, StartDispatch, StartConfirm, StartDiscard,
                   StartRead, Begin
<1>2. UNCHANGED <<key, row, outcomes>>
  BY DEF Request, StartDispatch, StartConfirm, StartDiscard, StartRead, Begin, stageVars
<1>3. /\ key # 0 => Live(row) /\ row.contract = key
      /\ Live(row) => RecordsOf(row.contract) = {}
  BY <1>1 DEF Alone, Resolving
<1>4. SlotSteps
  BY <1>2, SlotKept
<1>5. ASSUME NEW s \in Statuses, StartDispatch(w, s) PROVE SoloInv'
  <2> DEFINE t == [Idle EXCEPT !.pc = "get_key", !.job = "dispatch",
                               !.own = Len(predicted')]
  <2>1. task' = [task EXCEPT ![w] = t]
    BY <1>5 DEF StartDispatch, Begin
  <2>2. t.pc = "get_key" /\ t.job = "dispatch" /\ t.own = Len(predicted')
    BY DEF Idle
  <2>3. Len(predicted') = Len(predicted) + 1
    BY <1>1, <1>5 DEF StartDispatch
  <2> HIDE DEF t
  <2>4. \A v \in Workers : task'[v] = t
    BY <1>1, <2>1 DEF Solo, OneTask
  <2>5. RecordsOf(row.contract)' = RecordsOf(row.contract)
    BY <1>2 DEF RecordsOf
  <2>6. \A v \in Workers : Alone(task[v], key, row)'
    BY <1>1, <1>2, <1>3, <2>2, <2>3, <2>4, <2>5 DEF Alone, Resolving, Live
  <2>7. Recorded(row)' /\ (row.contract <= Len(predicted))'
    BY <1>1, <1>2, <2>3 DEF SoloInv, Recorded
  <2> QED
    BY <2>6, <2>7 DEF SoloInv
<1>6. ASSUME NEW job \in {"confirm", "read", "discard"}, NEW label \in {"get_key", "drop_key"},
             NEW t, t.pc = label, t.job = job, label = "drop_key" => job = "discard",
             task' = [task EXCEPT ![w] = t], UNCHANGED predicted
      PROVE  SoloInv'
  <2>1. Alone(t, key', row')
    BY <1>2, <1>3, <1>6 DEF Alone, Resolving
  <2>2. row' \in Row /\ row.contract <= row'.contract /\ row'.contract <= Len(predicted)
    BY <1>1, <1>2
  <2> QED
    BY <1>2, <1>6, <2>1, <2>2, SoloKept
<1>7. ASSUME NEW s \in Statuses, StartConfirm(w, s) PROVE SoloInv'
  <2> DEFINE t == [Idle EXCEPT !.pc = "get_key", !.job = "confirm",
                               !.confirmed = s, !.late = expired]
  <2>1. task' = [task EXCEPT ![w] = t] /\ UNCHANGED predicted
    BY <1>7 DEF StartConfirm, Begin
  <2>2. t.pc = "get_key" /\ t.job = "confirm"
    BY DEF Idle
  <2> HIDE DEF t
  <2> QED
    BY <1>6, <2>1, <2>2
<1>9. CASE StartDiscard(w)
  <2> DEFINE t == [Idle EXCEPT !.pc = "drop_key", !.job = "discard"]
  <2>1. task' = [task EXCEPT ![w] = t] /\ UNCHANGED predicted
    BY <1>9 DEF StartDiscard, Begin
  <2>2. t.pc = "drop_key" /\ t.job = "discard"
    BY DEF Idle
  <2> HIDE DEF t
  <2> QED
    BY <1>4, <1>6, <2>1, <2>2
<1>10. CASE StartRead(w)
  <2> DEFINE t == [Idle EXCEPT !.pc = "get_key", !.job = "read"]
  <2>1. task' = [task EXCEPT ![w] = t] /\ UNCHANGED predicted
    BY <1>10 DEF StartRead, Begin
  <2>2. t.pc = "get_key" /\ t.job = "read"
    BY DEF Idle
  <2> HIDE DEF t
  <2> QED
    BY <1>4, <1>6, <2>1, <2>2
<1> QED
  BY <1>4, <1>5, <1>7, <1>9, <1>10 DEF Request

LEMMA SoloRead ==
  ASSUME Solo, StagedInv, SoloInv, NEW w \in Workers,
         GetKey(w) \/ DropExpired(w) \/ GetRow(w) \/ Restage(w)
  PROVE  SoloInv' /\ SlotSteps
<1>1. /\ task \in [Workers -> Task] /\ task[w] \in Task /\ Tidy(task[w])
      /\ row \in Row /\ row.contract \in Nat
      /\ row.contract <= Len(predicted) /\ Len(predicted) \in Nat
      /\ key \in Contracts \cup {0} /\ 0 \notin Contracts /\ Alone(task[w], key, row)
      /\ \A kind : ~Fails(kind)
  BY SoloFacts DEF Contracts
<1>2. UNCHANGED <<predicted, row, outcomes>>
  BY DEF GetKey, DropExpired, GetRow, Restage, inputVars, stageVars
<1>3. SlotSteps
  BY <1>2, SlotKept
<1>4. row' \in Row /\ row.contract <= row'.contract /\ row'.contract <= Len(predicted)
  BY <1>1, <1>2
<1>5. CASE GetKey(w)
  <2>1. task[w].pc = "get_key" /\ key' = key /\ (key # 0 => Live(row) /\ row.contract = key)
    BY <1>1, <1>5 DEF GetKey, Alone, stageVars
  <2>2. ASSUME NEW label \in {"get_row", "drop_expired"}, GoTo(w, label),
               label = "get_row" => key = 0
        PROVE  SoloInv'
    <3>1. ASSUME NEW t, t.pc = label, t.job = task[w].job, t.own = task[w].own
          PROVE  Alone(t, key', row')
      BY <1>1, <1>2, <2>1, <2>2, <3>1 DEF Alone, Resolving
    <3> QED
      BY <1>2, <1>4, <2>2, <3>1, SoloGoes
  <2>4. CASE key # 0 /\ Found(w, key)
    BY <1>1, <1>2, <1>3, <2>1, <2>4, SoloFound
  <2> QED
    BY <1>1, <1>3, <1>5, <2>2, <2>4 DEF GetKey
<1>6. CASE DropExpired(w)
  <2>1. task[w].pc = "drop_expired" /\ key' = 0 /\ Found(w, 0)
    BY <1>1, <1>6 DEF DropExpired
  <2> QED
    BY <1>2, <1>3, <2>1, SoloFound
<1>7. CASE GetRow(w)
  <2>1. task[w].pc = "get_row" /\ key' = key /\ key = 0
    BY <1>1, <1>7 DEF GetRow, Alone, stageVars
  <2>2. CASE Found(w, 0)
    BY <1>2, <1>3, <2>1, <2>2, SoloFound
  <2>3. CASE /\ Active
             /\ task' = [task EXCEPT ![w].pc = "restage", ![w].found = row.contract]
    <3> DEFINE t == [task[w] EXCEPT !.pc = "restage", !.found = row.contract]
    <3>1. /\ t.pc = "restage" /\ t.found = row.contract
          /\ t.job = task[w].job /\ t.own = task[w].own
      BY <1>1 DEF Task
    <3>2. task' = [task EXCEPT ![w] = t]
      BY <1>1, <2>3
    <3> HIDE DEF t
    <3>3. Live(row)
      BY <2>3 DEF Active, Live
    <3>4. Alone(t, key', row')
      BY <1>1, <1>2, <2>1, <3>1, <3>3 DEF Alone, Resolving
    <3> QED
      BY <1>2, <1>3, <1>4, <3>2, <3>4, SoloKept
  <2> QED
    BY <1>1, <1>7, <2>2, <2>3 DEF GetRow
<1>8. CASE Restage(w)
  <2>1. /\ task[w].pc = "restage" /\ key' = task[w].found /\ Found(w, task[w].found)
        /\ Live(row) /\ row.contract = task[w].found /\ task[w].found # 0
        /\ task[w].found \in Contracts
    BY <1>1, <1>8 DEF Restage, Alone, Tidy, Task
  <2> QED
    BY <1>2, <1>3, <2>1, SoloFound
<1> QED
  BY <1>5, <1>6, <1>7, <1>8

LEMMA SoloWrite ==
  ASSUME Solo, StagedInv, SoloInv, NEW w \in Workers,
         \/ RetireRow(w) \/ RetireKey(w) \/ SetKey(w) \/ UpsertRow(w)
         \/ MarkDispatched(w) \/ Settle(w) \/ DropKey(w) \/ DiscardRow(w)
  PROVE  SoloInv' /\ SlotSteps
<1>1. /\ task \in [Workers -> Task] /\ task[w] \in Task /\ Tidy(task[w])
      /\ row \in Row /\ row.contract \in Nat
      /\ row.contract <= Len(predicted) /\ Len(predicted) \in Nat
      /\ key \in Contracts \cup {0} /\ 0 \notin Contracts /\ Alone(task[w], key, row)
      /\ \A kind : ~Fails(kind)
  BY SoloFacts DEF Contracts
<1>2. UNCHANGED <<predicted, outcomes>>
  BY DEF RetireRow, RetireKey, SetKey, UpsertRow, MarkDispatched, Settle, DropKey,
         DiscardRow, WriteRow, WriteKey, inputVars
<1>3. \A status \in RowStatuses \ {"absent", "pending", "dispatched"} :
        /\ IfActive(status) \in Row /\ IfPresent(status) \in Row
        /\ ~Live(IfActive(status)) /\ ~Live(IfPresent(status))
        /\ IfActive(status).contract = row.contract
        /\ IfPresent(status).contract = row.contract
  BY <1>1 DEF IfActive, IfPresent, Active, Row, RowStatuses, Live
(* The row is settled, for whatever contract it names. *)
<1>4. ASSUME row' \in Row, row'.contract = row.contract, ~Live(row'), UNCHANGED key,
             NEW label \in {"idle", "retire_key", "drop_key", "settle"},
             IF label = "idle" THEN Done(w) ELSE GoTo(w, label),
             label = "idle" => key = 0,
             label = "settle" => key = 0 /\ task[w].job = "confirm",
             label = "retire_key" => task[w].pc = "retire_row",
             label = "drop_key" => task[w].pc = "settle"
      PROVE  SoloInv' /\ SlotSteps
  <2>1. SlotSteps
    BY <1>2, <1>4, SlotKept
  <2>2. row.contract <= row'.contract /\ row'.contract <= Len(predicted)
    BY <1>1, <1>4
  <2>3. CASE label = "idle"
    BY <1>2, <1>4, <2>1, <2>2, <2>3, SoloDone
  <2>4. CASE label # "idle"
    <3>1. ASSUME NEW t, t.pc = label, t.job = task[w].job, t.own = task[w].own,
                 t.found = task[w].found, t.confirmed = task[w].confirmed
          PROVE  Alone(t, key', row')
      BY <1>1, <1>4, <2>4, <3>1 DEF Alone, Tidy
    <3> QED
      BY <1>2, <1>4, <2>1, <2>2, <2>4, <3>1, SoloGoes
  <2> QED
    BY <2>3, <2>4
<1>5. CASE RetireRow(w)
  <2>1. row' = IfActive("replaced") /\ UNCHANGED key /\ GoTo(w, "retire_key")
        /\ task[w].pc = "retire_row"
    BY <1>1, <1>5 DEF RetireRow, WriteRow
  <2> QED
    BY <1>3, <1>4, <2>1 DEF RowStatuses
<1>6. CASE Settle(w)
  <2>1. /\ task[w].pc = "settle" /\ UNCHANGED key /\ task[w].job = "confirm"
        /\ \/ row' = IfPresent("confirmed") /\ GoTo(w, "drop_key")
           \/ row' = IfPresent("discarded") /\ Done(w) /\ key = 0
    BY <1>1, <1>6 DEF Settle, WriteRow, Alone, Match, Matches
  <2> QED
    BY <1>3, <1>4, <2>1 DEF RowStatuses
<1>7. CASE DiscardRow(w)
  <2>1. /\ task[w].pc = "discard_row" /\ UNCHANGED key /\ key = 0
        /\ row' = IfActive("discarded")
        /\ \/ Done(w)
           \/ GoTo(w, "settle") /\ task[w].job = "confirm"
    BY <1>1, <1>7 DEF DiscardRow, WriteRow, Alone
  <2> QED
    BY <1>3, <1>4, <2>1 DEF RowStatuses
(* The statements on the key. *)
<1>8. ASSUME UNCHANGED row,
             NEW label \in {"set_key", "upsert", "discard_row"}, GoTo(w, label),
             \A t : /\ t.pc = label /\ t.job = task[w].job /\ t.own = task[w].own
                    /\ t.found = task[w].found /\ t.confirmed = task[w].confirmed
                    => Alone(t, key', row)
      PROVE  SoloInv' /\ SlotSteps
  <2>1. SlotSteps
    BY <1>2, <1>8, SlotKept
  <2>2. row' \in Row /\ row.contract <= row'.contract /\ row'.contract <= Len(predicted)
    BY <1>1, <1>8
  <2> QED
    BY <1>2, <1>8, <2>1, <2>2, SoloGoes
<1>9. CASE RetireKey(w)
  <2>1. task[w].pc = "retire_key" /\ UNCHANGED row /\ key' = 0 /\ GoTo(w, "set_key")
    BY <1>1, <1>9 DEF RetireKey, WriteKey
  <2>2. ASSUME NEW t, t.pc = "set_key", t.job = task[w].job, t.own = task[w].own
        PROVE  Alone(t, key', row)
    BY <1>1, <2>1, <2>2 DEF Alone, Tidy
  <2> QED
    BY <1>8, <2>1, <2>2
<1>10. CASE SetKey(w)
  <2>1. /\ task[w].pc = "set_key" /\ UNCHANGED row /\ key' = task[w].own
        /\ GoTo(w, "upsert")
    BY <1>1, <1>10 DEF SetKey, WriteKey
  <2>2. ASSUME NEW t, t.pc = "upsert", t.job = task[w].job, t.own = task[w].own
        PROVE  Alone(t, key', row)
    BY <1>1, <2>1, <2>2 DEF Alone, Tidy, Resolving
  <2> QED
    BY <1>8, <2>1, <2>2
<1>11. CASE DropKey(w)
  <2>1. task[w].pc = "drop_key" /\ UNCHANGED row /\ key' = 0 /\ GoTo(w, "discard_row")
    BY <1>1, <1>11 DEF DropKey, WriteKey
  <2>2. ASSUME NEW t, t.pc = "discard_row", t.job = task[w].job, t.own = task[w].own,
               t.found = task[w].found, t.confirmed = task[w].confirmed
        PROVE  Alone(t, key', row)
    BY <1>1, <2>1, <2>2 DEF Alone, Resolving, Matches
  <2> QED
    BY <1>8, <2>1, <2>2
<1>12. CASE UpsertRow(w)
  <2> DEFINE c == task[w].own
  <2>1. /\ task[w].pc = "upsert" /\ UNCHANGED key /\ GoTo(w, "mark")
        /\ row' = [status |-> "pending", contract |-> c]
    BY <1>1, <1>12 DEF UpsertRow, WriteRow
  <2>2. /\ c \in Contracts /\ c = Len(predicted) /\ row.contract < c
        /\ task[w].job = "dispatch" /\ key \in {0, c}
    BY <1>1, <2>1 DEF Alone, Tidy, Task
  <2>3. SlotSteps
    BY <1>1, <1>2, <2>1, <2>2, SlotStaged
  <2>4. RecordsOf(c) = {}
    <3>1. \A i \in DOMAIN outcomes : outcomes[i].contract <= row.contract
      BY DEF SoloInv, Recorded
    <3> QED
      BY <1>1, <2>2, <3>1 DEF RecordsOf
  <2> HIDE DEF c
  <2>5. ASSUME NEW t, t.pc = "mark", t.job = task[w].job, t.own = c
        PROVE  Alone(t, key', row')
    BY <1>1, <2>1, <2>2, <2>4, <2>5 DEF Alone, Live
  <2>6. row' \in Row /\ row.contract <= row'.contract /\ row'.contract <= Len(predicted)
    BY <1>1, <2>1, <2>2 DEF Row, RowStatuses
  <2> QED
    BY <1>2, <2>1, <2>3, <2>5, <2>6, SoloGoes DEF c
<1>13. CASE MarkDispatched(w)
  <2>1. /\ task[w].pc = "mark" /\ UNCHANGED key /\ Done(w)
        /\ row' = [row EXCEPT !.status = "dispatched"] /\ Live(row)
    BY <1>1, <1>13 DEF MarkDispatched, WriteRow, IfPresent, Alone, Live
  <2>2. row'.contract = row.contract /\ Live(row') /\ row' \in Row
    BY <1>1, <2>1 DEF Row, RowStatuses, Live
  <2>3. SlotSteps
    BY <1>2, <2>1, <2>2, SlotKept
  <2>4. /\ RecordsOf(row.contract) = {}
        /\ key # 0 => row.contract = key
    BY <1>1, <2>1 DEF Alone, Resolving
  <2> QED
    BY <1>1, <1>2, <2>1, <2>2, <2>3, <2>4, SoloDone
<1> QED
  BY <1>5, <1>6, <1>7, <1>9, <1>10, <1>11, <1>12, <1>13

(* The outcome recorded is the first of the contract in the slot. *)
LEMMA SoloOutcome ==
  ASSUME Solo, StagedInv, SoloInv, NEW w \in Workers, RecordOutcome(w)
  PROVE  SoloInv' /\ SlotSteps
<1>0. PICK c : c = task[w].found
  OBVIOUS
<1> DEFINE verdict == IF Match(w) THEN "correct" ELSE "incorrect"
           Outcome == [contract : Contracts, verdict : {"correct", "incorrect"}]
           new == Len(outcomes) + 1
<1>1. /\ task \in [Workers -> Task] /\ task[w] \in Task
      /\ row \in Row /\ row.contract \in Nat
      /\ row.contract <= Len(predicted) /\ Len(predicted) \in Nat
      /\ 0 \notin Contracts /\ Alone(task[w], key, row)
  BY SoloFacts DEF Contracts
<1>2. /\ task[w].pc = "outcome" /\ task[w].job = "confirm"
      /\ Live(row) /\ row.contract = c /\ c \in Contracts
      /\ RecordsOf(c) = {}
      /\ key # 0 => row.contract = key
  <2>1. task[w].pc = "outcome" /\ Tidy(task[w])
    BY SoloFacts DEF RecordOutcome
  <2>2. c # 0 /\ c \in Contracts
    BY <1>0, <1>1, <2>1 DEF Tidy, Task
  <2>3. /\ task[w].job = "confirm" /\ Live(row) /\ row.contract = c
        /\ key # 0 => row.contract = key
    BY <1>0, <1>1, <2>1 DEF Alone
  <2>4. RecordsOf(row.contract) = {}
    BY <1>1, <2>1, <2>3 DEF Alone, Resolving
  <2> QED
    BY <2>1, <2>2, <2>3, <2>4
<1>3. /\ UNCHANGED <<key, row, predicted>>
      /\ outcomes' = Append(outcomes, [contract |-> c, verdict |-> verdict])
      /\ GoTo(w, IF Match(w) THEN "settle" ELSE "drop_key")
  BY <1>0 DEF RecordOutcome, inputVars
<1>4. /\ outcomes \in Seq(Outcome) /\ [contract |-> c, verdict |-> verdict] \in Outcome
  BY <1>2 DEF StagedInv, TypeOK
<1> HIDE DEF Outcome
<1>5. /\ DOMAIN outcomes' = DOMAIN outcomes \cup {new} /\ new \notin DOMAIN outcomes
      /\ \A i \in DOMAIN outcomes : outcomes'[i] = outcomes[i]
      /\ outcomes'[new].contract = c /\ outcomes'[new].verdict = verdict
  BY <1>3, <1>4
<1> HIDE DEF verdict, new
<1>6. /\ RecordsOf(c)' = {new}
      /\ \A d : d # c => RecordsOf(d)' = RecordsOf(d)
  BY <1>2, <1>5 DEF RecordsOf
<1>7. OutcomeOf(c) = "none" /\ OutcomeOf(c)' = verdict
  <2>1. OutcomeOf(c) = "none"
    BY <1>2 DEF OutcomeOf
  <2>2. (CHOOSE i \in {new} : TRUE) = new
    OBVIOUS
  <2>3. OutcomeOf(c)' = outcomes'[CHOOSE i \in {new} : TRUE].verdict
    BY <1>5, <1>6 DEF OutcomeOf
  <2> QED
    BY <1>5, <2>1, <2>2, <2>3
<1>8. \A d : d # c => OutcomeOf(d)' = OutcomeOf(d)
  <2> SUFFICES ASSUME NEW d, d # c PROVE OutcomeOf(d)' = OutcomeOf(d)
    OBVIOUS
  <2>1. RecordsOf(d)' = RecordsOf(d) /\ RecordsOf(d) \subseteq DOMAIN outcomes
    BY <1>6 DEF RecordsOf
  <2>2. CASE RecordsOf(d) = {}
    BY <2>1, <2>2 DEF OutcomeOf
  <2>3. CASE RecordsOf(d) # {}
    <3>1. (CHOOSE i \in RecordsOf(d) : TRUE) \in DOMAIN outcomes
      BY <2>1, <2>3
    <3>2. (\E i \in DOMAIN outcomes : RecordsOf(d) = {i})
            <=> (\E i \in DOMAIN outcomes' : RecordsOf(d)' = {i})
      BY <1>5, <2>1
    <3> QED
      BY <1>5, <2>1, <2>3, <3>1, <3>2 DEF OutcomeOf
  <2> QED
    BY <2>2, <2>3
<1>9. SlotSteps
  <2>1. [d \in Contracts |-> OutcomeOf(d)]'
          = [[d \in Contracts |-> OutcomeOf(d)] EXCEPT ![c] = verdict]
    BY <1>2, <1>7, <1>8
  <2>2. Slot!Resolve(verdict)
    BY <1>1, <1>2, <1>3, <1>7, <2>1 DEF Slot!Resolve, Active, Live
  <2> QED
    BY <2>2 DEF SlotSteps, Slot!SlotNext, verdict
<1>10. Recorded(row)'
  <2> SUFFICES ASSUME NEW i \in DOMAIN outcomes' PROVE outcomes'[i].contract <= row.contract
    BY <1>3 DEF Recorded
  <2> QED
    BY <1>1, <1>2, <1>5 DEF SoloInv, Recorded
<1>11. \A v \in Workers : Alone(task[v], key, row)'
  <2> DEFINE t == [task[w] EXCEPT !.pc = IF Match(w) THEN "settle" ELSE "drop_key"]
  <2>1. /\ t.pc = (IF Match(w) THEN "settle" ELSE "drop_key")
        /\ t.job = "confirm" /\ t.found = task[w].found
        /\ t.confirmed = task[w].confirmed
    BY <1>1, <1>2 DEF Task
  <2>2. task' = [task EXCEPT ![w] = t]
    BY <1>1, <1>3 DEF GoTo
  <2> HIDE DEF t
  <2>3. \A v \in Workers : task'[v] = t
    BY <1>1, <2>2 DEF Solo, OneTask
  <2> QED
    BY <1>0, <1>1, <1>2, <1>3, <2>1, <2>3 DEF Alone, Resolving, Match, Matches
<1> QED
  BY <1>1, <1>3, <1>9, <1>10, <1>11 DEF SoloInv

LEMMA SoloInit == Init => SoloInv
<1> SUFFICES ASSUME Init PROVE SoloInv
  OBVIOUS
<1> QED
  BY DEF Init, SoloInv, Alone, Recorded, Idle, Live

LEMMA SoloStep ==
  ASSUME Solo, StagedInv, SoloInv, [Next]_vars
  PROVE  SoloInv' /\ SlotSteps
<1>1. CASE UNCHANGED <<predicted, row, task, outcomes>> /\ key' \in {0, key}
  <2>1. SlotSteps
    BY <1>1, SlotKept
  <2>2. \A w \in Workers : Alone(task[w], key', row)
    BY <1>1 DEF SoloInv, Alone
  <2>3. \A w \in Workers : Alone(task[w], key, row)'
    BY <1>1, <2>2 DEF Alone, Matches, RecordsOf
  <2>4. Recorded(row)' /\ (row.contract <= Len(predicted))'
    BY <1>1 DEF SoloInv, Recorded
  <2> QED
    BY <1>1, <2>1, <2>3, <2>4 DEF SoloInv
<1>2. CASE Expire \/ KeyExpires \/ UNCHANGED vars
  BY <1>1, <1>2 DEF Expire, KeyExpires, vars, stageVars, inputVars
<1>3. ASSUME NEW w \in Workers, Crash(w) PROVE FALSE
  BY <1>3, SoloFacts DEF Crash
<1> QED
  BY <1>2, <1>3, SoloRequest, SoloRead, SoloWrite, SoloOutcome DEF Next, Step

LEMMA SoloInvariant ==
  ASSUME Solo
  PROVE  Spec => [](StagedInv /\ SoloInv)
<1>1. StagedInv /\ SoloInv /\ [Next]_vars => SoloInv'
  BY SoloStep
<1> QED
  BY StagedInvariant, SoloInit, <1>1, PTL DEF Spec

(* Rule 2 in the two layers: while one task at a time handles the tenant and *)
(* nothing fails, whoever reads the key or falls back to the row between two *)
(* requests gets the same contract.                                          *)
THEOREM OneContractStands ==
  ASSUME OneTask, Faults = {}
  PROVE  Spec => []OneStagedContract
<1>1. StagedInv /\ SoloInv => OneStagedContract
  <2> SUFFICES ASSUME SoloInv, AllIdle, key # 0
               PROVE  Active /\ row.contract = key
    BY DEF OneStagedContract
  <2>1. PICK w \in Workers : task[w].pc = "idle"
    BY DEF SoloInv, AllIdle
  <2> QED
    BY <2>1 DEF SoloInv, Alone, Active, Live
<1> QED
  BY SoloInvariant, <1>1, PTL DEF Solo

(* Under the same hypotheses dispatcher and confirmation listener implement  *)
(* the slot: a newer contract replaces the older one for good, and a contract *)
(* is resolved at most once, while it is the one in the slot.                *)
THEOREM StagedImplementsSlot ==
  ASSUME OneTask, Faults = {}
  PROVE  Spec => ImplementsSlot
<1>1. Init => Slot!SlotInit
  BY DEF Init, Slot!SlotInit, Active, OutcomeOf, RecordsOf
<1>2. StagedInv /\ SoloInv /\ [Next]_vars => SlotSteps
  BY SoloStep DEF Solo
<1> QED
  BY SoloInvariant, <1>1, <1>2, PTL DEF Spec, ImplementsSlot, Slot!SlotSpec, SlotSteps, Solo
=============================================================================
