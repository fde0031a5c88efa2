------------------------------- MODULE EdgeNodes -------------------------------
(* Tenants and edge nodes: the rows of edge_tenants and edge_nodes under the  *)
(* requests of plugins (register, heartbeat, deregister), the licence actions *)
(* of administrators (revoke, deregister, restore, force a sync) and the      *)
(* recovery engine.                                                           *)
(*                                                                            *)
(* Each request is one transaction.  It works on the snapshot its first       *)
(* SELECT took, and when it commits it writes the columns it changed in that  *)
(* snapshot over whatever the rows hold by then: the session has neither row  *)
(* locks (FOR UPDATE) nor version counters.  Bulk UPDATEs see current rows.   *)
EXTENDS Naturals, FiniteSets

CONSTANTS
  Tasks,        \* requests and loops that may be in progress at once
  Nodes,        \* edge_ids
  Domains,      \* site domains; a tenant row is identified by its domain
  Missing,      \* no such row
  DegradedAfter, OfflineAfter, StaleAfter,  \* steps of silence: 10 and 30 minutes, 7 days
  MaxRequests   \* bound on all but first registrations, heartbeats, scans and time

VARIABLES
  tenant,    \* domain -> row of edge_tenants
  node,      \* edge_id -> row of edge_nodes
  silent,    \* edge_id -> how long last_seen_at is past: 0 fresh, see the thresholds
  job,       \* what each task is doing, with the rows it has read
  requests   \* requests so far

edgeVars == <<tenant, node, silent, job, requests>>

NodeStates == {"REGISTERED", "ACTIVE", "SYNCED", "DEGRADED",
               "REMOVED", "REVOKED", "DEREGISTERED"}

(* The plan, the notes, their archived copy and the contact email are left    *)
(* out: the email only decides whether a request is refused.                 *)
TenantRow == [reg : {"active", "deregistered", "revoked"}, active : BOOLEAN]
NodeRow == [domain : Domains, state : NodeStates,
            heard : BOOLEAN]   \* last_seen_at differs from registered_at

ASSUME EdgeAssumption ==
  /\ {DegradedAfter, OfflineAfter, StaleAfter} \subseteq Nat
  /\ 0 < DegradedAfter /\ DegradedAfter <= OfflineAfter /\ OfflineAfter < StaleAfter
  /\ MaxRequests \in Nat
  /\ Missing \notin TenantRow \union NodeRow

Ops == {"none", "register", "heartbeat", "remove", "revoke", "deregister",
        "restore", "recover", "recovery"}
Job == [op : Ops, nodes : SUBSET Nodes, domains : SUBSET Domains,
        tenant : TenantRow \union {Missing},            \* as read
        rows : [Nodes -> NodeRow \union {Missing}]]     \* as read

Unread == [n \in Nodes |-> Missing]
Idle == [op |-> "none", nodes |-> {}, domains |-> {},
         tenant |-> Missing, rows |-> Unread]

Init ==
  /\ tenant = [d \in Domains |-> Missing]
  /\ node = [n \in Nodes |-> Missing]
  /\ silent = [n \in Nodes |-> 0]
  /\ job = [t \in Tasks |-> Idle]
  /\ requests = 0

(* session.commit(): of the rows it has read, the unit of work writes the    *)
(* columns whose value changed.                                              *)
Saved(current, read, new) ==
  [c \in DOMAIN current |-> IF new[c] = read[c] THEN current[c] ELSE new[c]]

PromotedAlways(state) ==
  IF state \in {"REGISTERED", "REVOKED", "DEREGISTERED"} THEN "ACTIVE" ELSE "SYNCED"

(* State promotions on a heartbeat and on registration.                      *)
Promoted(state) ==
  CASE state = "REGISTERED" -> "ACTIVE"
    [] state \in {"ACTIVE", "DEGRADED"} -> "SYNCED"
    [] OTHER -> state

(* A transaction begins: the rows it needs are read.                         *)
Begin(t, op, ns, ds) ==
  /\ job[t].op = "none"
  /\ job' = [job EXCEPT ![t] =
       [op |-> op, nodes |-> ns, domains |-> ds,
        tenant |-> IF ds = {} THEN Missing ELSE tenant[CHOOSE d \in ds : TRUE],
        rows |-> [n \in Nodes |-> IF n \in ns THEN node[n] ELSE Missing]]]
  /\ UNCHANGED <<tenant, node, silent>>

Request == requests < MaxRequests /\ requests' = requests + 1

End(t) == job' = [job EXCEPT ![t] = Idle]

-------------------------------------------------------------------------------
(* POST /edge/register.  A revoked domain is refused; a deregistered one needs *)
(* the contact email it had, which the request may not carry.                 *)
Admitted(row) == row # Missing => row.reg # "revoked"

RegisterBegin(t, n, d) ==
  /\ Admitted(tenant[d])
  /\ IF node[n] = Missing THEN UNCHANGED requests ELSE Request
  /\ Begin(t, "register", {n}, {d})

TenantAfter(row) ==
  IF row = Missing THEN [reg |-> "active", active |-> TRUE]
  ELSE IF row.reg = "deregistered" THEN [row EXCEPT !.reg = "active", !.active = TRUE]
  ELSE row

(* An INSERT of a row that another request has inserted meanwhile violates   *)
(* the unique key: the transaction fails and nothing is written.             *)
Collides(t, n, d) ==
  \/ job[t].tenant = Missing /\ tenant[d] # Missing
  \/ job[t].rows[n] = Missing /\ node[n] # Missing

(* The node keeps the domain it was first registered with.                   *)
NodeAfter(row, d) ==
  IF row = Missing THEN [domain |-> d, state |-> "REGISTERED", heard |-> FALSE]
  ELSE [row EXCEPT !.state = Promoted(@), !.heard = TRUE]

RegisterCommit(t, n, d) ==
  /\ job[t].op = "register" /\ job[t].nodes = {n} /\ job[t].domains = {d}
  /\ IF Collides(t, n, d) THEN UNCHANGED <<tenant, node, silent>>
     ELSE LET newTenant == TenantAfter(job[t].tenant)
              newNode == NodeAfter(job[t].rows[n], d)
          IN /\ tenant' = [tenant EXCEPT ![d] =
                  IF @ = Missing THEN newTenant ELSE Saved(@, job[t].tenant, newTenant)]
             /\ node' = [node EXCEPT ![n] =
                  IF @ = Missing THEN newNode ELSE Saved(@, job[t].rows[n], newNode)]
             /\ silent' = [silent EXCEPT ![n] = 0]
  /\ End(t) /\ UNCHANGED requests

-------------------------------------------------------------------------------
(* POST /edge/heartbeat and POST /edge/deregister.  An unknown or removed     *)
(* node is answered 404 and nothing is written.                              *)

HeartbeatBegin(t, n) ==
  /\ node[n] # Missing /\ node[n].state # "REMOVED"
  /\ Begin(t, "heartbeat", {n}, {})
  /\ UNCHANGED requests

RemoveBegin(t, n) ==
  /\ node[n] # Missing /\ node[n].state # "REMOVED"
  /\ Request
  /\ Begin(t, "remove", {n}, {})

(* Either writes last_seen_at, and the state it worked out from what it read. *)
TouchCommit(t, n, op, state) ==
  /\ job[t].op = op /\ job[t].nodes = {n}
  /\ LET new == [job[t].rows[n] EXCEPT !.state = state, !.heard = TRUE]
     IN node' = [node EXCEPT ![n] = Saved(@, job[t].rows[n], new)]
  /\ silent' = [silent EXCEPT ![n] = 0]
  /\ End(t) /\ UNCHANGED <<tenant, requests>>

HeartbeatCommit(t, n) == TouchCommit(t, n, "heartbeat", Promoted(job[t].rows[n].state))

RemoveCommit(t, n) == TouchCommit(t, n, "remove", "REMOVED")

-------------------------------------------------------------------------------
(* The licence authority.  The tenant row is read and saved, the states of    *)
(* its nodes are set by one bulk UPDATE, whatever they were.                  *)

LicenceOps == {"revoke", "deregister", "restore"}

LicenceBegin(t, op, d) ==
  /\ tenant[d] # Missing
  /\ Request
  /\ Begin(t, op, {}, {d})

LicenceTenant(op, row) ==
  CASE op = "revoke" -> [row EXCEPT !.active = FALSE, !.reg = "revoked"]
    [] op = "deregister" -> [row EXCEPT !.active = FALSE, !.reg = "deregistered"]
    [] op = "restore" -> [row EXCEPT !.active = TRUE, !.reg = "active"]

LicenceNodeStateAsTenant(op) == IF op = "restore" THEN "active" ELSE "REVOKED"

LicenceNodeState(op) ==
  CASE op = "revoke" -> "REVOKED"
    [] op = "deregister" -> "DEREGISTERED"
    [] op = "restore" -> "ACTIVE"

WithState(ns, state) ==
  [n \in Nodes |-> IF n \in ns THEN [node[n] EXCEPT !.state = state] ELSE node[n]]

NodesOf(d) == {n \in Nodes : node[n] # Missing /\ node[n].domain = d}

LicenceCommit(t, op, d) ==
  /\ job[t].op = op /\ job[t].domains = {d}
  /\ tenant' = [tenant EXCEPT ![d] =
       Saved(@, job[t].tenant, LicenceTenant(op, job[t].tenant))]
  /\ node' = WithState(NodesOf(d), LicenceNodeState(op))
  /\ End(t) /\ UNCHANGED <<silent, requests>>

(* force_sync: one UPDATE, no read before it.                                *)
ForceSync(d) ==
  /\ Request
  /\ node' = WithState({n \in NodesOf(d) : node[n].state = "SYNCED"}, "ACTIVE")
  /\ UNCHANGED <<tenant, silent, job>>

-------------------------------------------------------------------------------
(* The recovery engine: one node by an administrator, or the ten-minute pass  *)
(* over degraded nodes and over registrations that were never heard from.     *)

RecoverBegin(t, n) ==
  /\ node[n] # Missing
  /\ Request
  /\ Begin(t, "recover", {n}, {})

RecoverCommit(t, n) ==
  /\ job[t].op = "recover" /\ job[t].nodes = {n}
  /\ node' = [node EXCEPT ![n] =
       Saved(@, job[t].rows[n], [job[t].rows[n] EXCEPT !.state = "ACTIVE"])]
  /\ End(t) /\ UNCHANGED <<tenant, silent, requests>>

StuckDegraded(n) == node[n].state = "DEGRADED" /\ silent[n] >= OfflineAfter

NeverHeard(n) == node[n].state = "REGISTERED" /\ ~node[n].heard /\ silent[n] >= StaleAfter

RecoveryBegin(t) ==
  /\ Request
  /\ Begin(t, "recovery",
       {n \in Nodes : node[n] # Missing /\ (StuckDegraded(n) \/ NeverHeard(n))}, {})

RecoveryCommit(t) ==
  /\ job[t].op = "recovery"
  /\ LET after(row) == [row EXCEPT !.state = IF @ = "DEGRADED" THEN "ACTIVE" ELSE "REMOVED"]
     IN node' = [n \in Nodes |->
          IF n \in job[t].nodes THEN Saved(node[n], job[t].rows[n], after(job[t].rows[n]))
          ELSE node[n]]
  /\ End(t) /\ UNCHANGED <<tenant, silent, requests>>

-------------------------------------------------------------------------------
(* Time passes without a word from node n.                                   *)
Silence(n) ==
  /\ node[n] # Missing /\ silent[n] < StaleAfter
  /\ silent' = [silent EXCEPT ![n] = @ + 1]
  /\ UNCHANGED <<tenant, node, job, requests>>

BeginRequest(t) ==
  \/ \E n \in Nodes, d \in Domains : RegisterBegin(t, n, d)
  \/ \E n \in Nodes : RemoveBegin(t, n) \/ RecoverBegin(t, n)
  \/ \E op \in LicenceOps, d \in Domains : LicenceBegin(t, op, d)
  \/ RecoveryBegin(t)

Commit(t) ==
  \/ \E n \in Nodes, d \in Domains : RegisterCommit(t, n, d)
  \/ \E n \in Nodes : RemoveCommit(t, n) \/ RecoverCommit(t, n)
  \/ \E op \in LicenceOps, d \in Domains : LicenceCommit(t, op, d)
  \/ RecoveryCommit(t)
===============================================================================
