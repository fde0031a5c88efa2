# TLA+ models of the MC² control centre

MC² (`src/`, package `mc2`) is the FastAPI back end of a control centre: it keeps
the billing state of each tenant in step with ERPNext, reconciles it, predicts
changes and stages contracts for them, and manages edge nodes, a shared
blocklist, outages, enrolment and the host it runs on. `uvicorn --workers 2`
(`src/main.py:10`) runs two processes; each runs all request handlers as asyncio
tasks and all background loops, against one Redis and one MariaDB. Two tasks of
one tenant can therefore meet at every `await`, in one process or across both,
and outside the outage detector no component takes a lock that both would see.
Where a transaction spans a read and the write that depends on it, MariaDB's
snapshot (REPEATABLE READ) keeps what was read and does not tell that it changed.
Most hazards below come from that. Handlers written `def` run in a pool of
threads and meet at every statement.

## 1. Inventory

| Component | State | Operations | What makes it correct |
|---|---|---|---|
| Subscription state machine (`billing/subscription_state_machine.py`) | none | `validate_transition`, `apply_event`, `erpnext_status_to_state` | only listed transitions; each accepted report counts once |
| Billing state store (`billing/license_state_cache.py`) | Redis key `frothiq:billing:{tenant}` (300 s), row of `tenant_billing_state` | read with copy back, write of both layers, invalidation | the layers agree; versions never go back |
| Pull (`billing/billing_sync_client.py`) | locals of a task | up to 4 attempts, fallback, merge, persist | ERPNext is followed; nothing is made up |
| Webhook (`billing/billing_sync_webhook.py`) | replay keys in Redis (24 h) | check, mark, apply | an event is applied once and is not lost |
| Billing routes, publisher | the billing event channel | webhook, sync, invalidate, drift report, publish | subscribers see no older version after a newer one |
| Reconciliation (`reconciliation/*`) | locals, audit rows, acks | read, pull with a deadline, detect, correct, push | no change without ERPNext, each correction counts, idempotence |
| Predictive sync (`predictive_sync/*`) | Redis key `frothiq:staged:{tenant}`, row of `staged_contracts`, outcome counters | dispatch (replace), read, discard, confirm | one contract per tenant, each resolved once, an expired one never |
| Edge nodes and licences (`services/edge_service.py`, `license_service.py`) | `edge_tenants`, `edge_nodes` | register, heartbeat, revoke, restore, remove, recover | a revoked or removed node does not come back by itself |
| Defense mesh and firewall (`edge_service.py`, `enforcement_engine.py`, `rollback_recovery_engine.py`, `frothiq_nft_service.py`, `cidr_analyzer.py`) | threat reports, `frothiq_ip_list`, the ruleset file, the kernel's sets | report, promote, sync, demote, enforce, recommend | a score never falls below what promotes, what is listed stays blocked, a whitelisted IP is spared |
| Outage detector (`services/edge_outage_service.py`) | outage windows, a named database lock, tickets | plugin report, scan, heartbeat closes | one open window per node, tickets do not pile up |
| Anomalies (`services/anomaly_detection.py`) | open events | scan, acknowledge | a lasting condition does not flood |
| Login (`routes_auth.py`, `routes_mfa.py`) | accounts, lockout counter, challenges, trusted devices | login, challenge, refresh, change | the lockout holds, tokens follow the account |
| Enrolment, allowlist | pending rows, codes, approval links, allowlist cache | start, complete, approve, check | a code or link works once |
| Portal, themes | a settings file, uploads, `cc_themes` | patch, upload, activate, import | one theme is active, one source of a logo |
| Tele-ops (`routes_teleops.py`) | records with references, locks, a routing graph, the call log | create, delete, lock, save, pull, bill | no reference to what is gone, one holder, a call is billed once |
| WebSocket fan-out (`websocket/*`) | list of clients, one pub/sub subscription per process | connect, disconnect, dispatch | who is listed is served |
| Flags and agreements, blocklist of a node | `feature_flags`, `eula_versions`, `edge_eula_records` | seed, set, fetch, accept, pull | an operator's choice stands, an acceptance proves its text |
| Reference data (`routes_universe.py`), envelopes by hand (`routes_propagation.py`) | `universe_datasets`, records, keys; frothiq-core's queue | upsert, delete, issue, revoke, conditional read; distribute | a copy confirmed as current is; an envelope is dropped once received |
| Conversion of sites (`routes_converter.py`) | records in Frappe, a mapping file | discover, plan, copy media, execute, validate | what is reported is there |
| WireGuard, updates, backups | interface files, running services, job lists | write, start, deploy, run | nothing is left running, success is true |
| Host files, services, network, mail, name service, server registry | files read, changed and rewritten; commands | edit, act, show | what is answered is so |

In the rows from anomalies on, a component shares its tables and files across
requests, threads and the two processes, and nothing with the others.

How they interact. A **webhook** goes through the replay guard to the billing
store, re-reads the state, publishes it and starts `on_billing_confirmed` in a
task of its own, which resolves the tenant's staged contract. The
**reconciliation scheduler** (5 min, 15 min, hourly loops) and `/reconciliation/run`
read the store, pull ERPNext, which writes the store, and write it again. The
**predictive scheduler** (5 min) reads the store and dispatches contracts. All
of them share the Redis key and the row of a tenant and nothing else.

Two facts of this commit decide what is worth modelling:

* `_get_edge_nodes` (`billing_event_publisher.py:160`) filters on
  `EdgeNode.is_active`, which does not exist; the error is caught and the answer
  is always `[]`. Billing, reconciliation and predictive sync thus never reach an
  edge node, and their pushes are left out.
* `POST /billing/sync/{tenant_id}` is declared before `/sync/pull-all` and takes
  its requests, so `pull_all_tenants` has no caller. Pulls of many tenants come
  from the drift report and from the hourly sweep.

What is hard: interleavings at each `await`, errors of Redis or MariaDB that are
logged and swallowed, a restart or a cancelled task between two writes, events
delivered late, twice or out of order, copies of a row put back into Redis after
it changed. `PROJECT.json` lists the hazards with their lines.

## 2. Modules

| Module | Models | Uses |
|---|---|---|
| `SubscriptionStates` | the state machine, as operators | |
| `SubscriptionLedger` | abstract: one entry per tenant, each report applied whole and in turn | `SubscriptionStates` |
| `BillingSync` | store, pull, webhook, billing routes, for one tenant | `SubscriptionStates` |
| `BillingProperties` | its properties, the refinement of the ledger | `BillingSync`, `SubscriptionLedger` |
| `Reconciliation` | `reconcile_tenant` and `detect_drift` on top of the store | `BillingProperties` |
| `StagedSlot` | abstract: a slot for one contract, resolved at most once | |
| `StagedContracts` | dispatcher and confirmation listener, for one tenant | `SubscriptionStates` |
| `StagedProperties` | its properties, the refinement of the slot | `StagedContracts`, `StagedSlot` |
| `EdgeNodes` | licences and nodes of the edge plane: sites, their nodes, every transaction over them | |
| `OutageWindows` | windows, tickets, the detector and its lock, composed with the nodes | `EdgeNodes` |
| `Firewall` | listed addresses: table, file, kernel set; recommendations; enforcement | |
| `ThreatPool` | the community pool, promotion, synchronisation, demotion | `Firewall` |
| `AnomalyEvents` | detectors and open events | |
| `Accounts` | lockout, second factor, tokens, changes of an account | |
| `IpEnrolment` | approval links, codes, the cached allowlist | |
| `PortalSettings` | the settings file; the table of themes | |
| `TeleopsRegistry` | records with references; the call log | |
| `RecordLocks` | locks and versions of records | |
| `RoutingDesigner` | saves of a drawing; the search for cycles, step by step | |
| `EventFanout` | WebSocket clients and the dispatch loop | |
| `EdgeFeed` | the blocklist a node is given; attack reports; envelopes pushed by hand; reference data and its consumers | |
| `EdgeAgreements` | feature flags, agreements and acceptances | |
| `PredictiveSignals` | signals, the contract built on them; outcomes and their report | `SubscriptionStates` |
| `DefenseSettings` | settings of the firewall, port rules, decommissioning | |
| `SiteConversion` | a conversion: media, plan, scripts, validation | |
| `Tunnels` | interface file, running interface, forwarding rules | |
| `Deployments` | jobs that copy, install and restart | |
| `HostFiles` | crontab, keys, name servers, thresholds; the file manager; the list of backups and the threads that run them; upgrades | |
| `HostServices` | units, accounts, mounts; interfaces, IP accounting | |
| `ZoneEditor` | a zone, its serial and its secondary; BIND's options | |
| `ConfigEditor` | the line editor of service configurations; the bench's common file | |
| `HostMail` | mail aliases, mailboxes, automatic replies | |
| `WebServers` | the registry of servers, actions on them | |
| `MCBilling`, `MCReconciliation`, `MCEdge` | values for TLC | |
| `MCControl`, `MCHost` | the independent parts side by side, and values for TLC | the modules above |
| `BillingProofs` | theorems about the store, the pull and the webhook, among them the refinement of the ledger | `BillingProperties` |
| `ReconciliationProofs` | theorems about reconciliation | `BillingProofs`, `Reconciliation` |
| `StagedProofs` | theorems about staged contracts | `StagedProperties` |
| `EdgeProofs` | theorems about the edge plane | `OutageWindows` |
| `ControlProofs` | theorems about locks, fan-out, agreements, the blocklist of a node, settings and themes, enrolment, defense settings, anomalies | the modules of these parts |
| `RecordProofs` | theorems about records with references, the call log, predictions and their report, the routing designer | the modules of these parts |
| `ConsoleProofs` | theorems about login, envelopes, reference data, the defense mesh, and the composition of all parts | `ControlProofs`, `RecordProofs`, `MCControl` |
| `HostProofs` | theorems about each part of the host, and their composition | `MCHost` |

### The billing store

State: `redis` and `db` are the two layers, `seen` the replay keys, `published`
the version last sent on the channel. `task[w]` is what asyncio task `w` is doing:
a label, and those locals that outlive an `await`. `erpLog` is ERPNext: its
successive states, each of which after the first is also a webhook event.
`sent`, `fresh` and `faults` count environment steps; `applied` is a history
variable.

One action is the code from one `await` to the next. `get_billing_state` is
`ReadRedis`, `ReadDb`, `Repopulate`; it returns to three places, which
`GotState` tells apart by the task's goal (`_apply_and_persist`, the end of
`pull_tenant_state`, a caller who just reads). `set_billing_state` is
`WriteRedis`, `WriteDb`. `process_webhook` is `Deliver`, `ReplayGet`,
`ReplaySet`; a pull is `StartPull`, then `HttpReply` or `HttpFail` per attempt.
`Finish` is the end of the handler, with what it publishes. A failing
statement is a disjunct of its action: each `except` of the code leads where
the code goes on. A plan name stands for everything a report carries besides its
status, since all of it is copied together.

Abstractions: one tenant (every key and row is per tenant); no signature and
clock checks (they keep no state); the 24 h of a replay key do not end within the
life of an event (one timestamp is accepted for 5 minutes only); the sleeps
between attempts are the time other tasks run in; an expired key and an
invalidated one are the same step `Evict`.

### Reconciliation

`rec[w]` holds the further locals of `reconcile_tenant`. Its reads, its pull and
its correction are the actions of `BillingSync`, started with job `reconcile`;
`PullErp`, `Detect` and `Corrected` are the code between them. `Timeout` is the
deadline of `asyncio.wait_for`, which cancels the pull at any of its awaits.
`DetectDrift` returns the set of drift types for the three sources.

### Staged contracts

Contracts are numbered in the order they are generated. `key` and `row` are the
two stores; `expired` says whose `valid_until` has passed; `outcomes` is what
`record_outcome` was told. `get_staged_contract` is `GetKey`, `DropExpired`,
`GetRow`, `Restage`; the dispatch is `RetireRow`, `RetireKey`, `SetKey`,
`UpsertRow`, `MarkDispatched`; a confirmation is `RecordOutcome`, `Settle`,
`DropKey`, `DiscardRow`, in the order of a match or of a mismatch. Every update of
the row goes by tenant, as in the code: `IfActive` for those with a status filter,
`IfPresent` for those without.

`KeyExpires` may come at any time: the key's TTL is the remaining validity, at
least 60 s, and Redis may evict it earlier; and since it may also come late, the
key can outlive the contract.

### The edge plane

`tenant` and `node` are the rows; `job[t]` is a transaction in progress with the
rows it has read. A commit writes, as SQLAlchemy's unit of work does, the
columns whose value the request changed from what it read (`Saved`), not those
another has changed meanwhile; an `UPDATE` statement (restore) writes all rows.
An insert of a row inserted meanwhile fails on its key and takes the transaction
with it. `RecoveryBegin` is the periodic pass, `LicenceBegin` the four licence
actions. `OutageWindows` extends it: `ScanBegin` takes the named lock or gives up,
`ScanCommit` and `ScanRelease` are two steps, and a ticket is a search and a
creation, each of which may go unanswered. Two open windows of a node make
`scalar_one_or_none` raise (`Ambiguous`): the scan ends with its lock held.

### The console

Each module has one action per stretch between two awaits (two statements, for
handlers that run in threads), in the order of the code, and the locals that
outlive it in a record per request. What is common to most of them: a request
looks, then writes; a snapshot keeps what it saw; a unique key, where the table
has one, fails the second insert. Some notes on what is less obvious:

* `Firewall`, `ThreatPool`: rows are compared as text, as the table holds them;
  `Canonical` says which spellings are one address. `_sync_nft_file` reads all
  rows and renames a file: an older reader may rename last.
* `Accounts`: `seen[r]` is a history variable, the standings the account had
  while request `r` was under way.
* `RoutingDesigner`: `Enter`, `VisitNeighbour` and `Leave` are the recursive
  `visit` with its stack and its colours; `CyclesFound` compares the answer with
  reachability over all edges.
* `PredictiveSignals`: the confidence is `Lerp` in hundredths, an age and a rest
  of validity are days.
* `EventFanout`: the client decodes what Redis sends and the dispatcher decodes
  it again, which raises; so the loop ends at its first message and no broadcast
  is made.
* `EdgeFeed`: `reporters` counts the sites that have reported an address; how rows
  of reports come and go is in `ThreatPool`. An upsert of reference data holds what
  its first `SELECT` found and what it will write; `lost` are the records deleted
  since. `stamps` is a history variable, how often a version was given. The records
  given are active; one that is not given with `replace` becomes inactive.

### The host

A file is the sequence or set of its lines, or `NoFile`; `write_text` and `tee`
truncate, then fill, and a worker may read or end in between. A command has one
of the outcomes its exit status and its output allow, and the next action goes
on as the code does. `told`, `asked`, `wanted`, `answer` and `reply` are what a
request asked for or was answered, which the properties compare with the files;
`mishaps`, `spoiled`, `hurried` and `unmapped` are set where the code gives up
the property (a hand-edited NAT, a save over another, two backups in one
second, a failed `postmap`), so that each property names its exceptions.

### Parts side by side

The parts of `MCControl` and of `MCHost` share no variable. Their product would
be checked state by state for nothing: an invariant of a part depends on that
part alone, and a step of another leaves it as it was. `focus` therefore picks
one part at the start and only that part moves; what is reached of it is what it
reaches in the product. The compound properties (`EdgeKept`, `FewDoubles`,
`RecordsKept`, `WrittenIsServed`, `AnsweredIsSo`) are conjunctions of named
properties of the parts, each stated and explained in its module.

## 3. Runs

| Run | Setting | Result |
|---|---|---|
| `billing_single` | one task at a time, only calls to ERPNext fail; 2 changes, 3 reports, 2 attempts | `LayersAgree`, `ImplementsLedger`, `PublishedNeverRollsBack`, `EventuallyInSync` hold |
| `billing_concurrent` | two tasks, one failure of any kind | `TypeOK`, `TrialNeverStored`, `PlanWasReported`, `AppliedOncePerFailure`, `NoEventLost` hold |
| `billing_race` | two tasks, no failure | `VersionNeverRollsBack` fails: finding |
| `billing_replay` | two tasks, overlapping deliveries, no failure | `NoReprocessing` fails: finding |
| `reconcile_single` | one task at a time, one deadline or crash | `RecTypeOK`, `NoChangeUnconfirmed`, `CorrectionFollowsErp`, `VersionNeverRollsBack` hold |
| `reconcile_repeat` | one task at a time, no failure | `Idempotent` fails: finding |
| `staged_single` | one task at a time, no failure | `OneStagedContract`, `ImplementsSlot`, `ResolvedIsGone` hold |
| `staged_concurrent` | two tasks, one failure of any kind | `TypeOK`, `ExpiredNotResolved`, `NothingStaysStaged` hold |
| `staged_race` | two tasks, no failure | `OneStagedContract` fails: finding |
| `edge_plane` | two transactions or loops, a site with a node | `TypeOK`, `OneMissWindow`, `TicketsBounded`, `RevokedReturns` hold |
| `control_plane` | eighteen parts of the console, two requests each | `ControlTypeOK`, `LockoutHolds`, `OneHolder`, `ListedIsServed`, `EdgeKept`, `FewDoubles`, `RecordsKept`, `ScoresHold`, `TokensFollowAccount` hold |
| `host_plane` | seventeen parts of the host, two requests or threads each | `HostTypeOK`, `NothingLeftRunning`, `SuccessRunsSource`, `WrittenIsServed`, `AnsweredIsSo`, `ReportedIsImported`, `OnlyReaderRevives`, `OnlyOwnAccounts` hold |

The pairs of runs draw the line this code stands on. While one task at a time
handles a tenant, the components do what their comments say, and they implement
their abstract specifications. As soon as two overlap, monotone versions,
idempotent webhooks and the one-contract rule are gone, without any failure;
what is left is in the `concurrent` runs. `billing_race` needs two pulls
at once (the hourly sweep and a drift report); `billing_replay` a bridge that re-sends before its
first attempt was answered; `staged_race` two requests or loops on one tenant.

`edge_plane` says what the licence machine keeps: nothing but a licence action, a
recovery or a transaction that read the node before takes it out of `REVOKED`
(`RevokedReturns`), the lock keeps scans apart (`OneMissWindow`), tickets stay as
few as tasks are (`TicketsBounded`). In `control_plane`, attempts beyond the
lockout are those under way, tokens are for the account as it stood during the
request, two lock holders need an expired or forced lock, a client that stays
listed lost its connection before its welcome; blocklist, flags, agreements,
envelopes and copies of reference data (`EdgeKept`), doubles (`FewDoubles`), references, bills and reports
(`RecordsKept`) stand under any overlap. In `host_plane`, success is reported for
what is there (`ReportedIsImported`, `SuccessRunsSource`, `AnsweredIsSo`), what
was written is served (`WrittenIsServed`), a deleted backup returns only by a
thread that had read it (`OnlyReaderRevives`), and no account but those of a
domain is touched (`OnlyOwnAccounts`).

**Bounds.** One worker suffices where the property is about one task at a time,
and two where it is about interleavings: every hazard found needs two actors.
Three reports reach `past_due`, reject a direct jump to `suspended` and accept
it from `past_due`, and differ in plan. Two changes give two events, whose
deliveries may be swapped and repeated. One failure is enough for the failure to
strike at each statement. `MaxFresh` limits the pulls between two inputs: pulls with
nothing new only raise the version. `MaxVersion` limits reconciliations
likewise. Three contracts let a replacement be replaced
(`staged_single`), two are enough for two requests to race (`staged_race`),
one to race with its own confirmation (`staged_concurrent`).

In the edge plane one site with one node and two requests besides the loops suffice
for each pair of transactions to overlap; three requests would let a revocation
meet both a deregistration and a registration. Two units of silence pass the
thresholds of the detector and of the recovery. In `control_plane` and `host_plane` every part has
two requests, threads or processes (three editors of a lock, as a forced one
makes room for a third), and of the data as many as its property tells apart:
two spellings of an IPv6 address beside an IPv4 one, two sites reporting, three
sites for a score above the threshold, three approval links for two clients,
three nodes of a drawing (a cycle with a branch), four days at a forecast's
boundary and seven of age, a lockout at the first failure (two requests
suffice to exceed it), two peers of a tunnel, two versions of a source, three
days and three changes a day of a serial, which starts as an old one, one that is
about to reach ten digits, one of today or one of a day to come. `MaxCalls`, `MaxAsked`, `MaxThemes`,
`MaxOutcomes`, `MaxOpen` and `MaxSource` end a run's inputs only. `MaxBumps = 3`
versions let two overlapping writes give one version twice, on a record that is there. Permuting the
two requests is sound, as nothing orders them.

**Fairness.** Weak fairness of `Step(w)`: a coroutine that was started runs on.
Strong fairness of `StartPull(w, "sweep")`: the hourly sweep is a task of its own
and does not wait for requests (`reconciliation_scheduler.py:130-149`). Strong
fairness of `HttpReply`: ERPNext answers some attempt of a pull that keeps being
retried; nothing would ever be synchronised otherwise. `Expire` and `KeyExpires`
are fair since time passes. Webhook deliveries, restarts and requests of
users are never assumed. The planes state no fairness: what they promise is safety, and
the one liveness the code aims at there, delivery of events, it does not keep. `EventuallyInSync` is about tenants that have a row, as
the sweep lists the rows.

Deadlock checking is off: when all bounded inputs are used up the system is idle.

**Findings.** Four statements of the repository that the code does not keep, each
with a run: `models/billing.py:22` (monotone version), `billing_sync_webhook.py:8`
(no re-processing), `reconciliation_engine.py:2` (idempotent; a reconciliation
compares its snapshot with what its own pull has just stored one version higher)
and `staged_contract_dispatcher.py:6` (one contract per tenant).

**Seen while modelling**, and modelled as the code has it:

* `websocket/event_dispatcher.py:78` decodes what `redis_client.py:36` has decoded:
  the first message ends the dispatcher of a process. `publish_event` has no caller.
* `auto_compile_attack_report` reads `EdgeNode.site_url`, which does not exist
  (`edge_service.py:1175`); `expire_stale_contracts` has no caller, though its
  module names one; `log_action` is called with keywords it does not take
  throughout `routes_propagation.py`.
* Restoring a licence activates removed nodes, a recovery revoked ones; a revoked
  site that deregisters may register again; `DEGRADED` is never set.
* `delete_mailbox` with the name `admin` deletes the account of the domain's owner,
  which its guard means to prevent (`routes_vhost.py:219-225`, `331-349`).
* `LFD_DEFAULTS` is defined twice in `frothiq_nft_service.py`: the keys of the
  first are never settable.
* The version of a dataset is read and written back (`routes_universe.py:57`): two
  writes that overlap give one version twice, and a consumer that read between
  them is told from then on that nothing changed. `ConfirmedIsCurrent` excepts
  versions given twice; without the exception TLC finds it violated.
* An envelope distributed by hand is pushed and acknowledged, and the answer is an
  error all the same.
* `models/edge.py:132` says of a score that it is "raised as more tenants confirm
  the IP". It can also fall: of two reports of one tenant that overlap, the one that
  counted before a third tenant committed may itself commit last and write 65 over
  80 (`edge_service.py:668`); a plan that blocks from 70 on then loses the address
  until the next report. It takes three tenants and five calls to see, more than
  `control_plane` allows itself; the proof attempt showed it. `ScoresHold` states
  what remains.
* Documents and comments give the blocklist's threshold of the free plan as 90;
  the code has 50 while plans are not enforced.
* An enrolment whose mail is lost blocks new ones for a day; a theme activated or
  deleted on a stale check leaves none active; a drawing saved over another drops
  the edges its canvas never showed.

## 4. Theorems

TLC checks the instances above; these hold for every value of the constants that
the `ASSUME`s of the modules allow. The assumptions say what a constant is (a
number, a set of numbers, a value that is not of another type). Some modules ask
for a little more, because they count: that tasks, requests, tenants, scanners,
clients, calls or the nodes of a drawing are finitely many (`OutageWindows`,
`Accounts`, `ThreatPool`, `AnomalyEvents`, `IpEnrolment`, `TeleopsRegistry`,
`RoutingDesigner`). Where a theorem needs more than that it says so in its
statement: `OneTask` (one task at a time handles the tenant), `StatementsRun` (no
statement of Redis or MariaDB fails and no process stops; replies may be malformed and
Redis may be flushed) and the weaker `NoLayerFails` (neither Redis nor MariaDB fails).
The `race` runs show that the first is needed. `Faults = {}` in `StagedProofs` means
that nothing fails.

Hardly any of the properties is inductive as it stands, and the argument of each
proof is the invariant that is.

**Billing** (`BillingProofs`)

* `TypeCorrect`, `NoTrial`: `Spec => []TypeOK`, `Spec => []TrialNeverStored`, any
  interleaving and any failures. What reaches the store was carried by a task:
  `StoreInv` adds `Tidy`, which says for every label what the task holds (a report
  when it is about to merge, a record when it is about to write) and that no
  carried record is in trial. The lemmas on `ApplyEvent` and `Merge` say that no
  report leads into trial.
* `NoInventedPlan`: `Spec => []PlanWasReported`. `PlanInv` says of the two layers and
  of the records and replies every task carries that their plan is `Backed`: in
  ERPNext's log, which only grows, or excused, and an excuse does not lapse.
* `ReplayGuard`: if the sender waits for an attempt to end,
  `Spec => []AppliedOncePerFailure`. `ReplayInv` budgets each event: it was
  stored at most once per mark and per failure, and strictly less often while
  a task that passed the guard still carries it; one task at most carries it.
* `MarkedIsStored`: `Spec => []NoEventLost`, also when the sender overlaps its own
  deliveries. `LossInv` says that a marked event was stored or is still carried by
  a task that will store it, unless something failed.
* `LayersStayEqual`, `StoreImplementsLedger`: with `OneTask` and `StatementsRun`,
  `Spec => []LayersAgree` and `Spec => ImplementsLedger`.
  `LedgerInv` ties the two layers and the record a task has read: what it
  carries to the store is a step of the ledger from the row as it is now.
* `PublishedRises`, `StoredVersionRises`: under the same hypotheses,
  `Spec => PublishedNeverRollsBack` and `Spec => VersionNeverRollsBack`. `PublishInv`: what
  was published is no newer than the row, and a task done with the store holds the row.

**Reconciliation** (`ReconciliationProofs`)

* `RecTypeCorrect`, `RecNoTrial`: `RecSpec => []RecTypeOK` and
  `[]TrialNeverStored`. `RecInv` is `StoreInv` with `Place`, which says where in
  `reconcile_tenant` a task of the store is; each action of the store is shown to
  keep it, so that the lemmas of `BillingProofs` are used again.
* `CorrectionIsErps`, `UnconfirmedKept`, `RowNeverRollsBack`: with `OneTask` and
  `NoLayerFails`, `[]CorrectionFollowsErp`, `[]NoChangeUnconfirmed` and
  `VersionNeverRollsBack`; calls to ERPNext may fail and deadlines and restarts may
  come. `SoloInv` relates the layers to the task: what it has read is not ahead of
  them (`Ahead`), what it will write obeys the reply (`Obeys`), and without a
  deadline counts from the very record stored (`Exact`). `billing_race` and
  `reconcile_repeat` show that the first hypothesis is needed.
  `PlanWasReported` is not claimed here: a reconciliation that meets a tenant nobody
  knows while ERPNext is down stores the free fallback and counts it, so the
  version of what was not reported need not be 0.

**Staged contracts** (`StagedProofs`)

* `StagedTypeCorrect`, `ExpiredStaysUnresolved`: `TypeOK` and
  `ExpiredNotResolved` for any interleaving and failures. The invariant adds
  that whoever holds a contract that had expired before the confirmation came in
  has not yet looked at its expiry.
* `OneContractStands`, `StagedImplementsSlot`: with `OneTask` and without failures,
  `Spec => []OneStagedContract` and `Spec => ImplementsSlot`. `SoloInv` says at
  each statement of the task at work how key and row stand to each other and to
  what the task has read (`Alone`), and that the contract in the slot has no outcome
  before the confirmation of it settles the row. `staged_race` shows that two
  tasks at once break it.

**The edge plane** (`EdgeProofs`)

* `EdgeTypes`, `RevokedStays`: `OutageSpec => []TypeOK` and `RevokedReturns`.
  `NodesInv` adds `Grounded`: a transaction works on rows it has read, and rows
  are not removed. `RevokedStays` rests on what `Saved` writes: a column only if the
  request changed it from what it read.
* `OneMissForAll`: `OutageSpec => []OneMissWindow`. `OutageInv` says that a scan which
  is about to open a window holds the lock (`Exclusive`) and had seen no open one
  that is still there.
* `TicketsBoundedForAll`: `[]TicketsBounded`. `Counted` is the invariant: the tickets
  of a node and the tasks that have found none never outnumber the tasks.

**Parts of the console** (`ControlProofs`)

* `LocksTypeCorrect`, `LockHeldOnce`: `LocksSpec => []LocksTypeOK` and `[]OneHolder`
  for any editors. `LocksInv` adds
  that before a lock has lapsed, whoever goes on from a row it read goes on from
  nobody's or from its own, and its own is still in place.
* `NoOtherLeak`: `FanoutSpec => []ListedIsServed`; `FanoutInv` tells from where a
  handler is whether its client is listed.
* `ChoiceIsKept`, `AcceptanceIsProof`: `AgreementsSpec => []ChoiceStands` and
  `[]AcceptanceProvesText`; `CallSound` says what a transaction in progress may
  hold of the rows that others write.
* `SparedIsSpared`: `FeedSpec => []WhitelistedSpared`; `FeedInv` says that what a
  pull will spare is still whitelisted, however the sources change under it.
* `LogoHasOneSource`, `ThemeActiveOnce`: `PortalSpec => []OneLogoSource` and
  `ThemeSpec => []OneThemeActive`. `PortalInv` says that what a process has loaded and
  changed has one source before it is written (`OneSource`), whatever stands in the
  file by then. `ThemeInv` adds that no handler is about to delete or rename the
  built-in theme and that none goes on from a row that was never inserted.
* `LinksAreFew`: `EnrolmentSpec => []FewLinks`. The live links of an address and the
  clients that have found none and will insert one are never more than the clients
  (`LinksFit`): who inserts gives up its place among the latter, and who joins them
  had seen no live link.
* `EventsAreFew`: `AnomalySpec => []FewOpenEvents`, by the same count: open events of a
  scope and scans that will commit one (`Pending`) never exceed the scanners.
* `LatestRowWins`: `DefenseSpec => []LatestIsRead`. `DefenseInv` follows each change
  through its transaction: a row is read by its lowest id, an update keeps the
  id it found, and what has been written over is not what the lowest row holds
  (`OverNotRead`).

**Records of the console** (`RecordProofs`)

* `RowsHaveParents`: `RegistrySpec => []NoOrphans`. `RegistryInv` says what an operator may
  be about to insert or to change (`OperationFits`) and that a number that is there has
  exactly one kind of account, whatever is assigned meanwhile.
* `CallsBilledOnce`: `CallsSpec => []BilledOnce`. `CallsInv` says that the priced calls are
  those whose row has a price, and that a pull that goes on to update has seen only
  rows that are still there; the sum over the sites is then the number of priced calls.
* `GrantsAreConfirmed`: `PredSpec => []NothingGrantedUnconfirmed`. The shape of a signal
  (`SignalType`) decides it: one that names a plan never has the confidence that
  spares the confirmation, and the others name a state.
* `ReportsAddUp`: `TallySpec => []ReportAddsUp`: what the first query counted is the
  snapshot that the second reads.
* `SearchIsRight`: `RoutingSpec => []CyclesFound`, for any finite drawing and any order
  in which the search meets sources and neighbours. In `RoutingInv` the gray nodes
  are those of the path, each frame is followed by a neighbour of its node, and a
  cycle reported is one that the path closed. While none is reported, black nodes
  lead only to black ones, and there is no set of black nodes each of which leads to
  one of the set (`BlackFits`): a node turns black after its neighbours, so none of
  them leads back to it. A search that ends without a cycle has turned every node with
  a route black, and a circular drawing would have such a set.

**The console as a whole** (`ConsoleProofs`)

* `LockoutBounded`, `TokensAreEarned`: `AccountsSpec => []LockoutHolds` and
  `TokensFollowAccount`. `AccountsInv` counts the attempts under way, which the
  counter may exceed the limit by and which only a request that saw a lower counter
  joins, and says of each request which standing of the account it goes by
  (`Recalls`).
* `MeshTypeCorrect`, `WordStands`, `ScoresFallInRaces`: `MeshSpec => []MeshTypeOK`,
  `[]OnlyMisspeltDemoted` and `ScoresHold`. `MeshInv` relates the table, the
  firewall, the scores and every transaction: a row that two tenants vouch for is
  warranted by a score of some spelling (`RowsWarranted`), a score by as many
  tenants as it takes (`ScoresSupported`), and a worker holds nothing that was
  not so when it read it (`WorkersFit`).
* `EdgeKeepsItsWord`, `FewAtOnce`, `RecordsAddUp`, `ControlTypeCorrect`,
  `ConsoleKeepsItsWord`: `ControlSpec => []EdgeKept`, `[]FewDoubles`, `[]RecordsKept`,
  `[]ControlTypeOK` and the other promises above, of the console that has all eighteen
  parts side by side. Each part of `ControlSpec` takes a step of its own or stutters
  (`FocusMoves`) and starts as it should (`FocusStarts`), so it implements the
  specification of the part (`PartsRun`), and the theorems about the parts apply.
  Those of envelopes and of reference data (`EnvelopesInv`, `ReferenceInv`: a copy that
  is told "unchanged" was made at a version that was given once) are proved for
  this, and so are the types that no other theorem needed (`FeedTables`,
  `AgreementTexts`, `AccountKeys`).

Every conjunct of `EdgeKept`, `FewDoubles` and `RecordsKept` is thus a theorem of its
part, and so is every case of `ControlTypeOK`.

**The host** (`HostProofs`)

* `HostTypeCorrect`, `WrittenGetsServed`, `AnswersAreTrue`, `HostKeepsItsWord`:
  `HostSpec => []HostTypeOK`, `[]WrittenIsServed`, `[]AnsweredIsSo`, and the other
  promises of `host_plane` together, composed of the seventeen parts as the console
  is of its own (`PartsRun`). Each part has an invariant of its own:
  * zone (`ZoneInv`): `SerialCoversChange` is inductive once `IncrementIsAbove` is
    known, that the serial which follows one of an earlier day, of today or of the
    short kind is above it. One dated ahead is not; the proof attempt showed this
    exception and the code has it (`routes_server_detail.py`, `_increment_zone_serial`).
  * BIND's options (`BindInv`): a request that nobody overlapped is about to write,
    or has written, the addresses it was given, and an options file that is well
    formed has a notification setting.
  * line editor (`ConfigInv`): `AskedIsRead`. The lemmas say which line of a key
    counts after the editor has replaced the first, commented out others or added one.
  * bench (`BenchInv`): of two requests that switch the scheduler at once neither is
    taken for alone, and one that is has the site's own setting as it asked.
  * aliases (`AliasInv`): an address has one line in the file and in what any request
    will install, and the map is the file's unless a `postmap` is due or failed.
  * mailboxes (`BoxInv`): the account a request has looked up is one of its owner's
    domain, unless the administrator asks. Hence `AccountsAreOwn`:
    `BoxSpec => OnlyOwnAccounts`.
  * automatic replies (`ReplyInv`): the texts of the requests a request overlaps are
    noted beside it, and one that is about to move the link finds its own text or one
    of those in the file, so that none that was not asked for is ever active.
  * server registry (`WebInv`): ids and ways to reach a machine are `Apart` in the
    file and in what any worker will write, torn file or not.
  * file manager (`ManagerInv`): `Progress` says how far a request that had the files
    for itself has come from what it found. What overlaps is excepted.
  * network, analysis, host files, services (`NetworkInv`, `PlanInv`, `FilesInv`,
    `ServicesInv`): the counters of the table are of the addresses it was set up for;
    `ValidMeansComplete`, `OriginalKept` and `ProtectedStay` are inductive with types.
    The n-th key of a file is there (`NthIsThere`), by counting the places below.
* `ReportsAreTrue`: `ConvSpec => ReportedIsImported`. `ConvInv` says what an execution
  has behind it (`Behind`: each item is in Frappe, or its script was silent, or an
  error will be reported) and what it knows of the item it is at (`At`: posts come
  after all categories).
* `ReadersRevive`: `BackupSpec => OnlyReaderRevives`, with the types of `BackupInv`: no
  list a thread has read has a job that is not one.
* `NothingOutlives`: `TunnelsSpec => []NothingLeftRunning`; `TunnelsInv` adds that the
  rules in place are those the file names.
* `DeployTypeCorrect`, `SuccessIsTrue`: `DeploySpec => []SuccessRunsSource`; a job that
  has restarted its service while the source stood still has all its parts
  (`Sound`), for jobs only ever copy forward.

**Only model-checked.** Liveness under fairness (`EventuallyInSync`,
`NothingStaysStaged`, `ResolvedIsGone`) is out of the prover's reach. The four
properties of the runs that expect a violation are false. Every other invariant and
action property of a run is a theorem above, some with the hypotheses
their statement names.


## 5. Not modelled

`PROJECT.json` gives the reason for each component. In short:

* Audit rows, histories and statistics decide nothing; acknowledgements of pushes
  meet no push at this commit.
* The relays to frothiq-core, to ERPNext and to sites (monetization, policy,
  simulation, flywheel, integrity, envelopes, commands) keep no state of their
  own; a propagation cycle ends at its first line, which raises.
* The address search over the NAD reads a file that never changes; updates of
  plain columns in tele-ops write one row per request, whatever was in it.
* The pages that show the state of the host, its logs and its traffic change
  nothing; a few more handlers run a single command.
* Cryptography, hashing, signatures, wording and layout are abstracted where they
  occur.

## 6. Plan

1. **Theorems**: how far the two hypotheses `OneTask` and `NoLayerFails` can be weakened,
   one layer or one action at a time; an abstract specification of a part of the host.
2. A run of the edge plane with three requests, for a revocation that meets a
   deregistration and a registration; one of the mesh with three tenants, for a
   score that falls.
3. The remaining operations of the parts that are `partly` modelled, in the order
   of `PROJECT.json`.
