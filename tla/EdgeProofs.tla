------------------------------ MODULE EdgeProofs ------------------------------
(* Theorems about the edge tables, for any tasks, nodes, domains, windows and  *)
(* tickets: EdgeNodes and the outage code of OutageWindows on top of it.       *)
EXTENDS OutageWindows, FiniteSetTheorems, TLAPS

-------------------------------------------------------------------------------
(* A set of numbers has a least: of its initial segments, which are finite,   *)
(* one contains no other.                                                    *)
LEMMA MinIsMember ==
  ASSUME NEW S \in SUBSET Nat, S # {}
  PROVE  Min(S) \in S
<1> DEFINE Segment(k) == S \cap (0 .. k)
           R == StrictSubsetOrdering(Nat)
<1>1. \A k \in S : Segment(k) \in FiniteSubsetsOf(Nat)
  <2> SUFFICES ASSUME NEW k \in S PROVE Segment(k) \in FiniteSubsetsOf(Nat)
    OBVIOUS
  <2>1. k \in Int /\ 0 \in Int /\ Segment(k) \in SUBSET (0 .. k) /\ Segment(k) \subseteq Nat
    OBVIOUS
  <2>2. IsFiniteSet(0 .. k)
    BY <2>1, FS_Interval
  <2>3. IsFiniteSet(Segment(k))
    BY <2>1, <2>2, FS_Subset
  <2> QED
    BY <2>1, <2>3 DEF FiniteSubsetsOf
<1>2. IsWellFoundedOn(R, FiniteSubsetsOf(Nat))
  BY FS_StrictSubsetOrderingWellFounded
<1> DEFINE T == {Segment(k) : k \in S}
<1>3. T \subseteq FiniteSubsetsOf(Nat) /\ T # {}
  BY <1>1
<1>4. \E x \in T : \A y \in T : <<y, x>> \notin R
  <2> HIDE DEF T, R
  <2> QED
    BY <1>2, <1>3, WFMin
<1>5. PICK m \in S : \A k \in S : <<Segment(k), Segment(m)>> \notin R
  BY <1>4
<1>6. ASSUME NEW k \in S PROVE m =< k
  <2>1. SUFFICES ASSUME k < m PROVE FALSE
    OBVIOUS
  <2>2. /\ Segment(k) \subseteq Segment(m) /\ Segment(k) # Segment(m)
        /\ Segment(k) \in SUBSET Nat /\ Segment(m) \in SUBSET Nat
    BY <2>1
  <2> QED
    BY <1>5, <2>2 DEF StrictSubsetOrdering
<1> QED
  BY <1>6 DEF Min

-------------------------------------------------------------------------------
(* What a transaction writes over a row.                                      *)

LEMMA SavedNodeRow ==
  ASSUME NEW current \in NodeRow, NEW read \in NodeRow, NEW new \in NodeRow
  PROVE  /\ Saved(current, read, new) \in NodeRow
         /\ Saved(current, read, new).state
              = IF new.state = read.state THEN current.state ELSE new.state
BY DEF Saved, NodeRow

LEMMA SavedTenantRow ==
  ASSUME NEW current \in TenantRow, NEW read \in TenantRow, NEW new \in TenantRow
  PROVE  Saved(current, read, new) \in TenantRow
BY DEF Saved, TenantRow

LEMMA PromotedType ==
  ASSUME NEW state \in NodeStates
  PROVE  Promoted(state) \in NodeStates /\ (state = "REVOKED" => Promoted(state) = state)
BY DEF Promoted, NodeStates

-------------------------------------------------------------------------------
(* The rows of the nodes: what a transaction has read, it read from a row that *)
(* is still there, for no row is ever deleted; and what the recovery pass has   *)
(* picked it has not seen revoked.                                            *)

NodesTyped ==
  /\ tenant \in [Domains -> TenantRow \union {Missing}]
  /\ node \in [Nodes -> NodeRow \union {Missing}]
  /\ silent \in [Nodes -> 0 .. StaleAfter]
  /\ job \in [Tasks -> Job]
  /\ requests \in 0 .. MaxRequests

WorksOnRead == {"heartbeat", "remove", "recover", "recovery"}

Grounded(j) ==
  /\ \A n \in Nodes : j.rows[n] # Missing => node[n] # Missing
  /\ \A d \in j.domains : j.tenant # Missing => tenant[d] # Missing
  /\ j.op \in LicenceOps => j.tenant # Missing
  /\ j.op \in WorksOnRead => \A n \in j.nodes : j.rows[n] # Missing
  /\ j.op = "recovery" => \A n \in j.nodes : j.rows[n].state # "REVOKED"

NodesInv == NodesTyped /\ \A t \in Tasks : Grounded(job[t])

(* A step that removes no row and leaves the jobs alone or ends one. *)
LEMMA RowsStay ==
  ASSUME NodesInv, NodesTyped',
         \A n \in Nodes : node[n] # Missing => node'[n] # Missing,
         \A d \in Domains : tenant[d] # Missing => tenant'[d] # Missing,
         \A t \in Tasks : job'[t] \in {job[t], Idle}
  PROVE  NodesInv'
<1> SUFFICES ASSUME NEW t \in Tasks PROVE Grounded(job[t])'
  BY DEF NodesInv
<1>1. CASE job'[t] = Idle
  BY <1>1 DEF Grounded, Idle, Unread, LicenceOps, WorksOnRead
<1>2. CASE job'[t] = job[t]
  <2>1. Grounded(job[t]) /\ job[t] \in Job
    BY DEF NodesInv, NodesTyped
  <2>2. job[t].domains \subseteq Domains
    BY <2>1 DEF Job
  <2> QED
    BY <1>2, <2>1, <2>2 DEF Grounded
<1> QED
  BY <1>1, <1>2

LEMMA IdleIsJob == Idle \in Job
BY DEF Idle, Unread, Job, Ops

(* A transaction that begins has read what is there. *)
LEMMA BeginKeeps ==
  ASSUME NodesInv, NEW t \in Tasks, NEW op \in Ops, NEW ns \in SUBSET Nodes,
         NEW ds, ds = {} \/ \E d \in Domains : ds = {d},
         Begin(t, op, ns, ds), requests' \in 0 .. MaxRequests,
         op \in LicenceOps => ds # {} /\ \A d \in ds : tenant[d] # Missing,
         op \in WorksOnRead => \A n \in ns : node[n] # Missing,
         op = "recovery" => \A n \in ns : node[n].state # "REVOKED"
  PROVE  NodesInv'
<1> DEFINE j == [op |-> op, nodes |-> ns, domains |-> ds,
                 tenant |-> IF ds = {} THEN Missing ELSE tenant[CHOOSE d \in ds : TRUE],
                 rows |-> [n \in Nodes |-> IF n \in ns THEN node[n] ELSE Missing]]
<1>1. /\ job' = [job EXCEPT ![t] = j] /\ UNCHANGED <<tenant, node, silent>>
      /\ NodesTyped /\ \A u \in Tasks : job'[u] = IF u = t THEN j ELSE job[u]
  BY DEF NodesInv, NodesTyped, Begin
<1>2. /\ j.op = op /\ j.nodes = ns /\ j.domains = ds
      /\ \A n \in Nodes : j.rows[n] = IF n \in ns THEN node[n] ELSE Missing
      /\ j.rows \in [Nodes -> NodeRow \union {Missing}]
  BY <1>1 DEF NodesTyped
<1>3. IF ds = {} THEN j.tenant = Missing ELSE \A d \in ds : d \in Domains /\ j.tenant = tenant[d]
  OBVIOUS
<1>4. j \in Job
  BY <1>1, <1>2, <1>3 DEF Job, NodesTyped
<1> HIDE DEF j
<1>5. Grounded(j)
  BY <1>2, <1>3 DEF Grounded, WorksOnRead
<1>6. NodesTyped'
  BY <1>1, <1>4 DEF NodesTyped
<1>7. ASSUME NEW u \in Tasks PROVE Grounded(job[u])'
  BY <1>1, <1>5 DEF Grounded, NodesInv
<1> QED
  BY <1>6, <1>7 DEF NodesInv

-------------------------------------------------------------------------------
(* Each step on the rows keeps the invariant, and takes a node out of REVOKED  *)
(* only for one of the reasons RevokedReturns gives.                          *)

Excused(t, n) ==
  /\ job[t].op # "none" /\ job'[t].op = "none"
  /\ \/ job[t].op \in LicenceOps \union {"recover", "remove"}
     \/ job[t].rows[n] # Missing /\ job[t].rows[n].state # "REVOKED"

NodesKept ==
  /\ NodesInv'
  /\ \A n \in Nodes :
       node[n] # Missing /\ node[n].state = "REVOKED" /\ node'[n].state # "REVOKED" =>
         \E t \in Tasks : Excused(t, n)

LEMMA BeginRequestKeeps ==
  ASSUME NodesInv, NEW t \in Tasks,
         BeginRequest(t) \/ \E n \in Nodes : HeartbeatBegin(t, n)
  PROVE  NodesKept
<1>0. /\ requests \in 0 .. MaxRequests /\ MaxRequests \in Nat
      /\ Request => requests' \in 0 .. MaxRequests
      /\ UNCHANGED requests => requests' \in 0 .. MaxRequests
  BY EdgeAssumption DEF NodesInv, NodesTyped, Request
<1>1. ASSUME NEW op, NEW ns, NEW ds, Begin(t, op, ns, ds), NodesInv' PROVE NodesKept
  BY <1>1 DEF Begin, NodesKept
<1>2. ASSUME NEW n \in Nodes, NEW d \in Domains, RegisterBegin(t, n, d) PROVE NodesKept
  <2>1. Begin(t, "register", {n}, {d}) /\ requests' \in 0 .. MaxRequests
    BY <1>0, <1>2 DEF RegisterBegin
  <2>2. NodesInv'
    BY <2>1, BeginKeeps DEF Ops, LicenceOps, WorksOnRead
  <2> QED
    BY <1>1, <2>1, <2>2
<1>3. ASSUME NEW n \in Nodes, RemoveBegin(t, n) \/ RecoverBegin(t, n) \/ HeartbeatBegin(t, n)
      PROVE  NodesKept
  <2>1. PICK op \in {"remove", "recover", "heartbeat"} : Begin(t, op, {n}, {})
    BY <1>3 DEF RemoveBegin, RecoverBegin, HeartbeatBegin
  <2>2. node[n] # Missing /\ requests' \in 0 .. MaxRequests
    BY <1>0, <1>3 DEF RemoveBegin, RecoverBegin, HeartbeatBegin
  <2>3. op \in Ops /\ op \notin LicenceOps /\ op # "recovery"
    BY DEF Ops, LicenceOps
  <2>4. NodesInv'
    BY <2>1, <2>2, <2>3, BeginKeeps
  <2> QED
    BY <1>1, <2>1, <2>4
<1>4. ASSUME NEW op \in LicenceOps, NEW d \in Domains, LicenceBegin(t, op, d) PROVE NodesKept
  <2>1. /\ Begin(t, op, {}, {d}) /\ requests' \in 0 .. MaxRequests /\ tenant[d] # Missing
    BY <1>0, <1>4 DEF LicenceBegin
  <2>2. op \in Ops /\ op \notin WorksOnRead /\ op # "recovery"
    BY DEF Ops, LicenceOps, WorksOnRead
  <2>3. NodesInv'
    BY <2>1, <2>2, BeginKeeps
  <2> QED
    BY <1>1, <2>1, <2>3
<1>5. ASSUME RecoveryBegin(t) PROVE NodesKept
  <2> DEFINE ns == {n \in Nodes : node[n] # Missing /\ (StuckDegraded(n) \/ NeverHeard(n))}
  <2>1. Begin(t, "recovery", ns, {}) /\ requests' \in 0 .. MaxRequests
    BY <1>0, <1>5 DEF RecoveryBegin
  <2>2. /\ ns \in SUBSET Nodes /\ "recovery" \in Ops /\ "recovery" \notin LicenceOps
        /\ \A n \in ns : node[n] # Missing /\ node[n].state # "REVOKED"
    BY DEF Ops, LicenceOps, StuckDegraded, NeverHeard
  <2> HIDE DEF ns
  <2>3. NodesInv'
    BY <2>1, <2>2, BeginKeeps
  <2> QED
    BY <1>1, <2>1, <2>3
<1> QED
  BY <1>2, <1>3, <1>4, <1>5 DEF BeginRequest

(* A commit ends its job; the rows of the other nodes are left alone.         *)
LEMMA CommitOne ==
  ASSUME NodesInv, NEW t \in Tasks, NEW n \in Nodes, NEW row \in NodeRow,
         node' = [node EXCEPT ![n] = row], tenant' \in [Domains -> TenantRow \union {Missing}],
         \A d \in Domains : tenant[d] # Missing => tenant'[d] # Missing,
         silent' \in [Nodes -> 0 .. StaleAfter], UNCHANGED requests,
         job[t].op # "none", job' = [job EXCEPT ![t] = Idle],
         node[n] # Missing /\ node[n].state = "REVOKED" /\ row.state # "REVOKED" =>
            \/ job[t].op \in LicenceOps \union {"recover", "remove"}
            \/ job[t].rows[n] # Missing /\ job[t].rows[n].state # "REVOKED"
  PROVE  NodesKept
<1>1. /\ NodesTyped /\ node' \in [Nodes -> NodeRow \union {Missing}]
      /\ \A m \in Nodes : node'[m] = IF m = n THEN row ELSE node[m]
      /\ job' \in [Tasks -> Job] /\ \A u \in Tasks : job'[u] = IF u = t THEN Idle ELSE job[u]
  BY IdleIsJob DEF NodesInv, NodesTyped
<1>2. NodesTyped'
  BY <1>1 DEF NodesTyped
<1>3. row # Missing
  BY EdgeAssumption
<1>4. NodesInv'
  BY <1>1, <1>2, <1>3, RowsStay
<1>5. ASSUME NEW m \in Nodes, node[m] # Missing, node[m].state = "REVOKED",
             node'[m].state # "REVOKED"
      PROVE  Excused(t, m)
  BY <1>1, <1>5 DEF Excused, Idle
<1> QED
  BY <1>4, <1>5 DEF NodesKept

LEMMA TouchKeeps ==
  ASSUME NodesInv, NEW t \in Tasks, NEW n \in Nodes,
         HeartbeatCommit(t, n) \/ RemoveCommit(t, n) \/ RecoverCommit(t, n)
  PROVE  NodesKept
<1> DEFINE read == job[t].rows[n]
<1>1. /\ NodesTyped /\ Grounded(job[t]) /\ job[t] \in Job
      /\ job[t].op \in {"heartbeat", "remove", "recover"} /\ job[t].nodes = {n}
      /\ job' = [job EXCEPT ![t] = Idle] /\ UNCHANGED <<tenant, requests>>
  BY DEF NodesInv, NodesTyped, HeartbeatCommit, RemoveCommit, RecoverCommit, TouchCommit, End
<1>2. read \in NodeRow /\ node[n] \in NodeRow
  BY <1>1 DEF Grounded, WorksOnRead, Job, NodesTyped
<1>3. silent' \in [Nodes -> 0 .. StaleAfter]
  BY <1>1, EdgeAssumption
     DEF NodesTyped, HeartbeatCommit, RemoveCommit, RecoverCommit, TouchCommit
<1>4. PICK new \in NodeRow :
        /\ node' = [node EXCEPT ![n] = Saved(@, read, new)]
        /\ job[t].op = "heartbeat" /\ read.state = "REVOKED" => new.state = "REVOKED"
  <2>1. CASE HeartbeatCommit(t, n)
    <3> DEFINE new == [read EXCEPT !.state = Promoted(read.state), !.heard = TRUE]
    <3>1. /\ Promoted(read.state) \in NodeStates
          /\ read.state = "REVOKED" => Promoted(read.state) = "REVOKED"
      BY <1>2, PromotedType DEF NodeRow
    <3>2. new \in NodeRow /\ (read.state = "REVOKED" => new.state = "REVOKED")
      BY <1>2, <3>1 DEF NodeRow
    <3>3. node' = [node EXCEPT ![n] = Saved(@, read, new)]
      BY <2>1 DEF HeartbeatCommit, TouchCommit
    <3> QED
      BY <3>2, <3>3
  <2>2. CASE RemoveCommit(t, n)
    <3> DEFINE new == [read EXCEPT !.state = "REMOVED", !.heard = TRUE]
    <3>1. new \in NodeRow
      BY <1>2 DEF NodeRow, NodeStates
    <3>2. node' = [node EXCEPT ![n] = Saved(@, read, new)] /\ job[t].op = "remove"
      BY <2>2 DEF RemoveCommit, TouchCommit
    <3> QED
      BY <3>1, <3>2
  <2>3. CASE RecoverCommit(t, n)
    <3> DEFINE new == [read EXCEPT !.state = "ACTIVE"]
    <3>1. new \in NodeRow
      BY <1>2 DEF NodeRow, NodeStates
    <3>2. node' = [node EXCEPT ![n] = Saved(@, read, new)] /\ job[t].op = "recover"
      BY <2>3 DEF RecoverCommit
    <3> QED
      BY <3>1, <3>2
  <2> QED
    BY <2>1, <2>2, <2>3
<1> DEFINE row == Saved(node[n], read, new)
<1>5. row \in NodeRow /\ row.state = IF new.state = read.state THEN node[n].state ELSE new.state
  BY <1>2, SavedNodeRow
<1>6. node' = [node EXCEPT ![n] = row]
  BY <1>4
<1>7. tenant' \in [Domains -> TenantRow \union {Missing}]
  BY <1>1 DEF NodesTyped
<1>8. read # Missing
  BY <1>1 DEF Grounded, WorksOnRead
<1> HIDE DEF row
<1>9. row.state # "REVOKED" /\ node[n].state = "REVOKED" =>
        job[t].op \in {"recover", "remove"} \/ (read # Missing /\ read.state # "REVOKED")
  BY <1>1, <1>4, <1>5, <1>8
<1>10. /\ \A d \in Domains : tenant[d] # Missing => tenant'[d] # Missing
       /\ job[t].op # "none" /\ UNCHANGED requests
  BY <1>1
<1> QED
  BY <1>1, <1>3, <1>5, <1>6, <1>7, <1>9, <1>10, CommitOne

LEMMA RegisterKeeps ==
  ASSUME NodesInv, NEW t \in Tasks, NEW n \in Nodes, NEW d \in Domains,
         RegisterCommit(t, n, d)
  PROVE  NodesKept
<1> DEFINE read == job[t].rows[n]
           old == job[t].tenant
           newTenant == TenantAfter(old)
           newNode == NodeAfter(read, d)
<1>1. /\ NodesTyped /\ Grounded(job[t]) /\ job[t] \in Job /\ job[t].op = "register"
      /\ job' = [job EXCEPT ![t] = Idle] /\ UNCHANGED requests
      /\ job[t].domains = {d}
      /\ read \in NodeRow \union {Missing} /\ old \in TenantRow \union {Missing}
      /\ node[n] \in NodeRow \union {Missing} /\ tenant[d] \in TenantRow \union {Missing}
  BY DEF NodesInv, NodesTyped, RegisterCommit, End, Job
<1>2. CASE Collides(t, n, d)
  <2>1. UNCHANGED <<tenant, node, silent>>
    BY <1>2 DEF RegisterCommit
  <2>2. NodesTyped' /\ \A u \in Tasks : job'[u] \in {job[u], Idle}
    BY <1>1, <2>1, IdleIsJob DEF NodesTyped
  <2>3. NodesInv'
    BY <2>1, <2>2, RowsStay
  <2> QED
    BY <2>1, <2>3 DEF NodesKept
<1>3. CASE ~Collides(t, n, d)
  <2> DEFINE row == IF node[n] = Missing THEN newNode ELSE Saved(node[n], read, newNode)
             tenantRow == IF tenant[d] = Missing THEN newTenant
                          ELSE Saved(tenant[d], old, newTenant)
  <2>1. /\ tenant[d] # Missing => old # Missing
        /\ node[n] # Missing => read # Missing
        /\ node' = [node EXCEPT ![n] = row] /\ tenant' = [tenant EXCEPT ![d] = tenantRow]
        /\ silent' = [silent EXCEPT ![n] = 0]
    BY <1>3 DEF RegisterCommit, Collides
  <2>2. newTenant \in TenantRow
    BY <1>1 DEF TenantAfter, TenantRow
  <2>3. tenantRow \in TenantRow /\ tenantRow # Missing
    BY <1>1, <2>1, <2>2, SavedTenantRow, EdgeAssumption
  <2>4. /\ newNode \in NodeRow
        /\ read # Missing /\ read.state = "REVOKED" => newNode.state = read.state
    <3>1. CASE read = Missing
      BY <3>1 DEF NodeAfter, NodeRow, NodeStates
    <3>2. CASE read # Missing
      <4>1. read \in NodeRow /\ newNode = [read EXCEPT !.state = Promoted(@), !.heard = TRUE]
        BY <1>1, <3>2 DEF NodeAfter
      <4>2. /\ Promoted(read.state) \in NodeStates
            /\ read.state = "REVOKED" => Promoted(read.state) = read.state
        BY <4>1, PromotedType DEF NodeRow
      <4> HIDE DEF newNode, read
      <4> QED
        BY <4>1, <4>2 DEF NodeRow
    <3> QED
      BY <3>1, <3>2
  <2> HIDE DEF newNode, newTenant
  <2>5. /\ row \in NodeRow
        /\ node[n] # Missing =>
             row.state = IF newNode.state = read.state THEN node[n].state ELSE newNode.state
    BY <1>1, <2>1, <2>4, SavedNodeRow
  <2>6. /\ tenant' \in [Domains -> TenantRow \union {Missing}]
        /\ silent' \in [Nodes -> 0 .. StaleAfter]
        /\ \A c \in Domains : tenant[c] # Missing => tenant'[c] # Missing
    BY <1>1, <2>1, <2>3, EdgeAssumption DEF NodesTyped
  <2>7. node[n] # Missing /\ node[n].state = "REVOKED" /\ row.state # "REVOKED" =>
          read # Missing /\ read.state # "REVOKED"
    BY <2>1, <2>4, <2>5
  <2> HIDE DEF row, tenantRow
  <2> QED
    BY <1>1, <2>1, <2>5, <2>6, <2>7, CommitOne
<1> QED
  BY <1>2, <1>3

(* A commit that writes the rows of several nodes. *)
LEMMA CommitMany ==
  ASSUME NodesInv, NodesTyped',
         \A n \in Nodes : node[n] # Missing => node'[n] # Missing,
         \A d \in Domains : tenant[d] # Missing => tenant'[d] # Missing,
         NEW t \in Tasks, job[t].op # "none", job' = [job EXCEPT ![t] = Idle],
         \A n \in Nodes :
           node[n] # Missing /\ node[n].state = "REVOKED" /\ node'[n].state # "REVOKED" =>
             \/ job[t].op \in LicenceOps
             \/ job[t].rows[n] # Missing /\ job[t].rows[n].state # "REVOKED"
  PROVE  NodesKept
<1>1. \A u \in Tasks : job'[u] = IF u = t THEN Idle ELSE job[u]
  BY DEF NodesInv, NodesTyped
<1>2. NodesInv'
  BY <1>1, RowsStay
<1>3. ASSUME NEW n \in Nodes, node[n] # Missing, node[n].state = "REVOKED",
             node'[n].state # "REVOKED"
      PROVE  Excused(t, n)
  BY <1>1, <1>3 DEF Excused, Idle
<1> QED
  BY <1>2, <1>3 DEF NodesKept

LEMMA WithStateType ==
  ASSUME NodesTyped, NEW ns \in SUBSET Nodes, NEW state \in NodeStates,
         \A n \in ns : node[n] # Missing, node' = WithState(ns, state)
  PROVE  /\ node' \in [Nodes -> NodeRow \union {Missing}]
         /\ \A n \in Nodes : node[n] # Missing => node'[n] # Missing
<1>1. ASSUME NEW n \in Nodes
      PROVE  /\ node'[n] \in NodeRow \union {Missing}
             /\ node[n] # Missing => node'[n] \in NodeRow
  <2>1. node[n] \in NodeRow \union {Missing}
    BY DEF NodesTyped
  <2>2. node'[n] = IF n \in ns THEN [node[n] EXCEPT !.state = state] ELSE node[n]
    BY DEF WithState
  <2> QED
    BY <2>1, <2>2 DEF NodeRow
<1> QED
  BY <1>1, EdgeAssumption DEF WithState

LEMMA LicenceKeeps ==
  ASSUME NodesInv, NEW t \in Tasks, NEW op \in LicenceOps, NEW d \in Domains,
         LicenceCommit(t, op, d)
  PROVE  NodesKept
<1> DEFINE old == job[t].tenant
           new == LicenceTenant(op, old)
<1>1. /\ NodesTyped /\ Grounded(job[t]) /\ job[t] \in Job
      /\ job[t].op = op /\ job[t].domains = {d}
      /\ job' = [job EXCEPT ![t] = Idle] /\ UNCHANGED <<silent, requests>>
      /\ tenant' = [tenant EXCEPT ![d] = Saved(@, old, new)]
      /\ node' = WithState(NodesOf(d), LicenceNodeState(op))
  BY DEF NodesInv, NodesTyped, LicenceCommit, End
<1>2. old \in TenantRow /\ tenant[d] \in TenantRow
  BY <1>1 DEF Grounded, Job, NodesTyped
<1>3. new \in TenantRow
  BY <1>2 DEF LicenceTenant, LicenceOps, TenantRow
<1>4. Saved(tenant[d], old, new) \in TenantRow
  BY <1>2, <1>3, SavedTenantRow
<1>5. /\ tenant' \in [Domains -> TenantRow \union {Missing}]
      /\ \A c \in Domains : tenant[c] # Missing => tenant'[c] # Missing
  <2> HIDE DEF new
  <2> QED
    BY <1>1, <1>4, EdgeAssumption DEF NodesTyped
<1>6. /\ node' \in [Nodes -> NodeRow \union {Missing}]
      /\ \A n \in Nodes : node[n] # Missing => node'[n] # Missing
  <2>1. LicenceNodeState(op) \in NodeStates
    BY DEF LicenceNodeState, LicenceOps, NodeStates
  <2>2. NodesOf(d) \in SUBSET Nodes /\ \A n \in NodesOf(d) : node[n] # Missing
    BY DEF NodesOf
  <2> QED
    BY <1>1, <2>1, <2>2, WithStateType
<1>7. NodesTyped'
  BY <1>1, <1>5, <1>6, IdleIsJob DEF NodesTyped
<1>8. job[t].op # "none"
  BY <1>1 DEF LicenceOps
<1> QED
  BY <1>1, <1>5, <1>6, <1>7, <1>8, CommitMany

LEMMA RecoveryKeeps ==
  ASSUME NodesInv, NEW t \in Tasks, RecoveryCommit(t)
  PROVE  NodesKept
<1> DEFINE After(row) == [row EXCEPT !.state = IF @ = "DEGRADED" THEN "ACTIVE" ELSE "REMOVED"]
           read(n) == job[t].rows[n]
<1>1. /\ NodesTyped /\ Grounded(job[t]) /\ job[t] \in Job /\ job[t].op = "recovery"
      /\ job' = [job EXCEPT ![t] = Idle] /\ UNCHANGED <<tenant, silent, requests>>
      /\ node' = [n \in Nodes |-> IF n \in job[t].nodes
                                  THEN Saved(node[n], read(n), After(read(n)))
                                  ELSE node[n]]
  BY DEF NodesInv, NodesTyped, RecoveryCommit, End
<1>2. ASSUME NEW n \in Nodes
      PROVE  /\ node'[n] \in NodeRow \union {Missing}
             /\ node[n] # Missing => node'[n] # Missing
             /\ node'[n] # node[n] => read(n) # Missing /\ read(n).state # "REVOKED"
  <2>1. CASE n \in job[t].nodes
    <3>1. read(n) \in NodeRow /\ node[n] \in NodeRow /\ read(n).state # "REVOKED"
          /\ read(n) # Missing
      BY <1>1, <2>1 DEF Grounded, WorksOnRead, Job, NodesTyped
    <3>2. After(read(n)) \in NodeRow
      BY <3>1 DEF NodeRow, NodeStates
    <3>3. Saved(node[n], read(n), After(read(n))) \in NodeRow
      BY <3>1, <3>2, SavedNodeRow
    <3>4. node'[n] \in NodeRow
      BY <1>1, <2>1, <3>3
    <3> QED
      BY <3>1, <3>4, EdgeAssumption
  <2>2. CASE n \notin job[t].nodes
    BY <1>1, <2>2 DEF NodesTyped
  <2> QED
    BY <2>1, <2>2
<1>3. node' \in [Nodes -> NodeRow \union {Missing}]
  BY <1>1, <1>2
<1>4. NodesTyped'
  BY <1>1, <1>3, IdleIsJob DEF NodesTyped
<1> HIDE DEF After
<1> QED
  BY <1>1, <1>2, <1>4, CommitMany

(* One bulk UPDATE, of nodes in state SYNCED. *)
LEMMA ForceSyncKeeps ==
  ASSUME NodesInv, NEW d \in Domains, ForceSync(d)
  PROVE  NodesKept
<1> DEFINE ns == {n \in NodesOf(d) : node[n].state = "SYNCED"}
<1>1. /\ NodesTyped /\ node' = WithState(ns, "ACTIVE") /\ UNCHANGED <<tenant, silent, job>>
      /\ requests' \in 0 .. MaxRequests
  BY EdgeAssumption DEF NodesInv, NodesTyped, ForceSync, Request
<1>2. ns \in SUBSET Nodes /\ \A n \in ns : node[n] # Missing /\ node[n].state = "SYNCED"
  BY DEF NodesOf
<1> HIDE DEF ns
<1>3. /\ node' \in [Nodes -> NodeRow \union {Missing}]
      /\ \A n \in Nodes : node[n] # Missing => node'[n] # Missing
  BY <1>1, <1>2, WithStateType DEF NodeStates
<1>4. NodesTyped'
  BY <1>1, <1>3 DEF NodesTyped
<1>5. NodesInv'
  BY <1>1, <1>3, <1>4, RowsStay
<1>6. \A n \in Nodes : node[n].state = "REVOKED" => node'[n] = node[n]
  BY <1>1, <1>2 DEF WithState
<1> QED
  BY <1>5, <1>6 DEF NodesKept

LEMMA QuietKeeps ==
  ASSUME NodesInv, UNCHANGED <<tenant, node>>, silent' \in [Nodes -> 0 .. StaleAfter],
         requests' \in 0 .. MaxRequests, \A t \in Tasks : job'[t] \in {job[t], Idle},
         job' \in [Tasks -> Job]
  PROVE  NodesKept
<1>1. NodesTyped'
  BY DEF NodesInv, NodesTyped
<1>2. NodesInv'
  BY <1>1, RowsStay
<1> QED
  BY <1>2 DEF NodesKept

LEMMA NodesInit == OutageInit => NodesInv
<1> SUFFICES ASSUME OutageInit PROVE NodesInv
  OBVIOUS
<1>1. NodesTyped
  BY IdleIsJob, EdgeAssumption DEF OutageInit, Init, NodesTyped
<1>2. ASSUME NEW t \in Tasks PROVE Grounded(job[t])
  BY DEF OutageInit, Init, Grounded, Idle, Unread, LicenceOps, WorksOnRead
<1> QED
  BY <1>1, <1>2 DEF NodesInv

LEMMA NodesStep == NodesInv /\ [OutageNext]_vars => NodesKept
<1> SUFFICES ASSUME NodesInv, [OutageNext]_vars PROVE NodesKept
  OBVIOUS
<1>0. /\ NodesTyped /\ requests \in 0 .. MaxRequests /\ MaxRequests \in Nat
      /\ Request => requests' \in 0 .. MaxRequests
  BY EdgeAssumption DEF NodesInv, NodesTyped, Request
<1>1. ASSUME UNCHANGED <<tenant, node, silent, job>>,
             Request \/ UNCHANGED requests
      PROVE  NodesKept
  BY <1>0, <1>1, QuietKeeps DEF NodesTyped
<1>2. CASE NodeStep
  <2>1. ASSUME NEW t \in Tasks, BeginRequest(t) PROVE NodesKept
    BY <2>1, BeginRequestKeeps
  <2>2. ASSUME NEW t \in Tasks, Commit(t) PROVE NodesKept
    BY <2>2, RegisterKeeps, TouchKeeps, LicenceKeeps, RecoveryKeeps DEF Commit
  <2>3. ASSUME NEW d \in Domains, ForceSync(d) PROVE NodesKept
    BY <2>3, ForceSyncKeeps
  <2>4. ASSUME NEW n \in Nodes, Silence(n) PROVE NodesKept
    <3>1. silent' \in [Nodes -> 0 .. StaleAfter]
      BY <1>0, <2>4, EdgeAssumption DEF NodesTyped, Silence
    <3> QED
      BY <1>0, <2>4, <3>1, QuietKeeps DEF NodesTyped, Silence
  <2> QED
    BY <1>2, <2>1, <2>2, <2>3, <2>4 DEF NodeStep
<1>3. ASSUME NEW t \in Tasks, ScanStep(t) \/ AlertStep(t) PROVE NodesKept
  BY <1>1, <1>3 DEF ScanStep, ScanBegin, ScanFails, ScanCommit, ScanRelease, AlertStep,
       FindIssue, FindFails, Append, Create, CreateFails, TicketEnd, ReportCommit, edgeVars
<1>4. ASSUME NEW t \in Tasks, NEW n \in Nodes, Hear(t, n) \/ Heard(t, n) \/ TicketBegin(t, n)
      PROVE  NodesKept
  <2>1. CASE Hear(t, n)
    BY <2>1, BeginRequestKeeps DEF Hear
  <2>2. CASE Heard(t, n)
    BY <2>2, TouchKeeps DEF Heard
  <2>3. CASE TicketBegin(t, n)
    BY <1>1, <2>3 DEF TicketBegin
  <2> QED
    BY <1>4, <2>1, <2>2, <2>3
<1>5. ASSUME NEW t \in Tasks, NEW n \in Nodes, NEW resolved \in BOOLEAN,
             ReportBegin(t, n, resolved)
      PROVE  NodesKept
  BY <1>1, <1>5 DEF ReportBegin
<1>6. ASSUME NEW t \in Tasks, NEW restart \in BOOLEAN, Abort(t, restart) PROVE NodesKept
  <2>1. /\ UNCHANGED <<tenant, node, silent>> /\ requests' \in 0 .. MaxRequests
        /\ job' = [job EXCEPT ![t] = Idle]
    BY <1>0, <1>6 DEF Abort, End
  <2>2. job' \in [Tasks -> Job] /\ \A u \in Tasks : job'[u] \in {job[u], Idle}
    BY <1>0, <2>1, IdleIsJob DEF NodesTyped
  <2> QED
    BY <1>0, <2>1, <2>2, QuietKeeps DEF NodesTyped
<1>7. CASE UNCHANGED vars
  BY <1>1, <1>7 DEF vars, edgeVars
<1> QED
  BY <1>2, <1>3, <1>4, <1>5, <1>6, <1>7 DEF OutageNext

LEMMA NodesKeep == OutageSpec => []NodesInv
<1>1. NodesInv /\ [OutageNext]_vars => NodesInv'
  BY NodesStep DEF NodesKept
<1> QED
  BY NodesInit, <1>1, PTL DEF OutageSpec

(* Whatever transactions overlap, and for any number of them, a revoked node   *)
(* stays revoked unless a licence action, an administrator, a removal or a     *)
(* transaction that had read it before ends at that step (edge_service.py).    *)
THEOREM RevokedStays == OutageSpec => RevokedReturns
<1>1. ASSUME NodesInv, [OutageNext]_vars
      PROVE  [\A n \in Nodes :
                node[n] # Missing /\ node[n].state = "REVOKED" /\ node'[n].state # "REVOKED" =>
                  \E t \in Tasks :
                    /\ job[t].op # "none" /\ job'[t].op = "none"
                    /\ \/ job[t].op \in LicenceOps \union {"recover", "remove"}
                       \/ job[t].rows[n] # Missing /\ job[t].rows[n].state # "REVOKED"]_vars
  BY <1>1, NodesStep DEF NodesKept, Excused
<1> QED
  BY NodesKeep, <1>1, PTL DEF OutageSpec, RevokedReturns

-------------------------------------------------------------------------------
(* The outage code: one scan at a time, which has read every window of its own *)
(* kind that is open; and of the tickets of a node, one more at most for each   *)
(* task that has found none.                                                  *)

OutagesTyped ==
  /\ windows \in [Ids -> Window \union {Missing}]
  /\ issues \in [Nodes -> SUBSET Issues]
  /\ lock \in Lock
  /\ alert \in [Tasks -> Alert]
  /\ blind \in BOOLEAN

MissIn(w, i) == w[i] # Missing /\ w[i].kind = "miss"
Unique(w) == \A i, j \in Ids : MissIn(w, i) /\ MissIn(w, j) /\ w[i].node = w[j].node => i = j

Scanning(a) == a.job = "scan" /\ a.pc # "release"
Holds(t, l) == l # Missing /\ l.conn[1] = t
Sees(open, w) == \A i \in Ids : MissIn(w, i) => open[i] = w[i]
Exclusive(al, l, w) ==
  \A t \in Tasks : Scanning(al[t]) => Holds(t, l) /\ Sees(al[t].open, w)

Creates(a) == a.pc = "file" /\ a.found = NoIssue
Creators(al, n) == {t \in Tasks : Creates(al[t]) /\ al[t].at = n}
Bounded(tickets, creators) ==
  /\ IsFiniteSet(tickets)
  /\ Cardinality(tickets) + Cardinality(creators) <= Cardinality(Tasks)
Counted(is, al) == \A n \in Nodes : Bounded(is[n], Creators(al, n))

Placed(a) == a.pc = "file" => a.at \in Nodes

OutageInv ==
  /\ OutagesTyped
  /\ Unique(windows)
  /\ Exclusive(alert, lock, windows)
  /\ \A t \in Tasks : Placed(alert[t])
  /\ ~blind => Counted(issues, alert)

LEMMA QuietIsAlert == Quiet \in Alert
BY DEF Quiet, Alert, NoWindows

(* A step of one task that opens no window of the detector and takes the lock  *)
(* from no other task.                                                        *)
LEMMA ScansKept ==
  ASSUME OutageInv, NEW t \in Tasks, NEW a \in Alert, alert' = [alert EXCEPT ![t] = a],
         \A i \in Ids : MissIn(windows', i) => windows'[i] = windows[i],
         \A u \in Tasks \ {t} : Holds(u, lock) => Holds(u, lock'),
         Scanning(a) => Holds(t, lock') /\ Sees(a.open, windows')
  PROVE  Unique(windows') /\ Exclusive(alert', lock', windows')
<1>1. \A i \in Ids : MissIn(windows', i) => MissIn(windows, i)
  BY DEF MissIn
<1>2. Unique(windows')
  BY <1>1 DEF OutageInv, Unique
<1>3. ASSUME NEW u \in Tasks, Scanning(alert'[u])
      PROVE  Holds(u, lock') /\ Sees(alert'[u].open, windows')
  <2>1. alert'[u] = IF u = t THEN a ELSE alert[u]
    BY DEF OutageInv, OutagesTyped
  <2>2. CASE u = t
    BY <1>3, <2>1, <2>2
  <2>3. CASE u # t
    <3>1. Holds(u, lock) /\ Sees(alert[u].open, windows) /\ alert'[u] = alert[u]
      BY <1>3, <2>1, <2>3 DEF OutageInv, Exclusive
    <3>2. Sees(alert[u].open, windows')
      BY <1>1, <3>1 DEF Sees
    <3> QED
      BY <2>3, <3>1, <3>2
  <2> QED
    BY <2>2, <2>3
<1> QED
  BY <1>2, <1>3 DEF Exclusive

(* Tickets are resolved and creators give up, or none is looked for. *)
LEMMA FewerTickets ==
  ASSUME IsFiniteSet(Tasks), NEW tickets, NEW fewer \in SUBSET tickets,
         NEW creators \in SUBSET Tasks, NEW rest \in SUBSET creators,
         Bounded(tickets, creators)
  PROVE  Bounded(fewer, rest)
<1>1. /\ IsFiniteSet(fewer) /\ Cardinality(fewer) <= Cardinality(tickets)
      /\ IsFiniteSet(tickets)
  BY FS_Subset DEF Bounded
<1>2. IsFiniteSet(creators) /\ IsFiniteSet(rest) /\ Cardinality(rest) <= Cardinality(creators)
  BY FS_Subset
<1>3. /\ Cardinality(fewer) \in Nat /\ Cardinality(tickets) \in Nat
      /\ Cardinality(rest) \in Nat /\ Cardinality(creators) \in Nat /\ Cardinality(Tasks) \in Nat
  BY <1>1, <1>2, FS_CardinalityType
<1> QED
  BY <1>1, <1>2, <1>3 DEF Bounded

LEMMA TicketsKept ==
  ASSUME OutageInv, NEW t \in Tasks, NEW a \in Alert, alert' = [alert EXCEPT ![t] = a],
         \A n \in Nodes : issues'[n] \subseteq issues[n], ~Creates(a), ~blind
  PROVE  Counted(issues', alert')
<1> SUFFICES ASSUME NEW n \in Nodes PROVE Bounded(issues'[n], Creators(alert', n))
  BY DEF Counted
<1>1. \A u \in Tasks : alert'[u] = IF u = t THEN a ELSE alert[u]
  BY DEF OutageInv, OutagesTyped
<1>2. Creators(alert', n) \subseteq Creators(alert, n) /\ Creators(alert, n) \subseteq Tasks
  BY <1>1 DEF Creators
<1>3. Bounded(issues[n], Creators(alert, n))
  BY DEF OutageInv, Counted
<1>4. /\ issues'[n] \in SUBSET issues[n] /\ IsFiniteSet(Tasks)
      /\ Creators(alert, n) \in SUBSET Tasks /\ Creators(alert', n) \in SUBSET Creators(alert, n)
  BY <1>2, OutageAssumption
<1> QED
  BY <1>3, <1>4, FewerTickets

(* What most steps do: they leave the detector's windows that stay as they     *)
(* are, and file no ticket.                                                   *)
LEMMA PlainStep ==
  ASSUME OutageInv, NEW t \in Tasks, NEW a \in Alert, alert' = [alert EXCEPT ![t] = a],
         windows' \in [Ids -> Window \union {Missing}], issues' \in [Nodes -> SUBSET Issues],
         lock' \in Lock, blind' \in BOOLEAN,
         \A i \in Ids : MissIn(windows', i) => windows'[i] = windows[i],
         \A u \in Tasks \ {t} : Holds(u, lock) => Holds(u, lock'),
         Scanning(a) => Holds(t, lock') /\ Sees(a.open, windows'),
         Placed(a),
         blind' \/ (~blind /\ ~Creates(a) /\ \A n \in Nodes : issues'[n] \subseteq issues[n])
  PROVE  OutageInv'
<1>1. /\ alert' \in [Tasks -> Alert]
      /\ \A u \in Tasks : alert'[u] = IF u = t THEN a ELSE alert[u]
  BY DEF OutageInv, OutagesTyped
<1>2. OutagesTyped'
  BY <1>1 DEF OutagesTyped
<1>3. Unique(windows') /\ Exclusive(alert', lock', windows')
  BY ScansKept
<1>4. \A u \in Tasks : Placed(alert'[u])
  BY <1>1 DEF OutageInv
<1>5. ~blind' => Counted(issues', alert')
  BY TicketsKept
<1> QED
  BY <1>2, <1>3, <1>4, <1>5 DEF OutageInv

-------------------------------------------------------------------------------
(* Step by step. *)

(* A step on the tickets goes on with what its task has read. *)
LEMMA GoesOn ==
  ASSUME OutageInv, NEW t \in Tasks, NEW a \in Alert, alert' = [alert EXCEPT ![t] = a],
         a.job = alert[t].job, a.pc # "release", alert[t].pc # "release",
         a.open = alert[t].open, UNCHANGED <<windows, lock>>,
         issues' \in [Nodes -> SUBSET Issues], blind' \in BOOLEAN, Placed(a),
         blind' \/ (~blind /\ ~Creates(a) /\ \A n \in Nodes : issues'[n] \subseteq issues[n])
  PROVE  OutageInv'
<1>1. Scanning(a) => Holds(t, lock') /\ Sees(a.open, windows')
  BY DEF OutageInv, Exclusive, Scanning
<1>2. windows' \in [Ids -> Window \union {Missing}] /\ lock' \in Lock
  BY DEF OutageInv, OutagesTyped
<1> QED
  BY <1>1, <1>2, PlainStep

LEMMA FiledAlert ==
  ASSUME OutageInv, NEW t \in Tasks, NEW ticket \in Issues \union {NoIssue}, Filed(t, ticket)
  PROVE  \E a \in Alert :
           /\ alert' = [alert EXCEPT ![t] = a]
           /\ a.job = alert[t].job /\ a.open = alert[t].open /\ a.pc \in {"commit", "find"}
<1> DEFINE rest == alert[t].left \ {alert[t].at}
           a == [alert[t] EXCEPT !.pc = IF rest = {} THEN "commit" ELSE "find",
                                 !.left = rest, !.at = Missing, !.found = NoIssue,
                                 !.tickets[alert[t].at] = ticket]
<1>1. alert[t] \in Alert
  BY DEF OutageInv, OutagesTyped
<1>2. alert' = [alert EXCEPT ![t] = a]
  BY DEF Filed, Start
<1>3. a \in Alert /\ a.job = alert[t].job /\ a.open = alert[t].open /\ a.pc \in {"commit", "find"}
  BY <1>1 DEF Alert
<1> QED
  BY <1>2, <1>3

LEMMA FindKeeps ==
  ASSUME OutageInv, NEW t \in Tasks, FindIssue(t) \/ FindFails(t)
  PROVE  OutageInv'
<1>1. PICK n \in alert[t].left, f \in Issues \union {NoIssue} :
        /\ Start(t, [alert[t] EXCEPT !.pc = "file", !.at = n, !.found = f])
        /\ \/ blind' = TRUE
           \/ blind' = blind /\ (f = NoIssue => issues[n] = {})
  <2>1. CASE FindIssue(t)
    <3>1. PICK n \in alert[t].left : \E f \in IF issues[n] = {} THEN {NoIssue} ELSE issues[n] :
            Start(t, [alert[t] EXCEPT !.pc = "file", !.at = n, !.found = f])
      BY <2>1 DEF FindIssue
    <3>2. issues[n] \subseteq Issues /\ NoIssue \notin Issues
      BY OutageAssumption DEF OutageInv, OutagesTyped, Alert
    <3> QED
      BY <2>1, <3>1, <3>2 DEF FindIssue
  <2>2. CASE FindFails(t)
    <3>1. PICK n \in alert[t].left : Start(t, [alert[t] EXCEPT !.pc = "file", !.at = n])
      BY <2>2 DEF FindFails
    <3>2. alert[t] \in Alert
      BY DEF OutageInv, OutagesTyped
    <3>3. [alert[t] EXCEPT !.pc = "file", !.at = n]
            = [alert[t] EXCEPT !.pc = "file", !.at = n, !.found = alert[t].found]
      BY <3>2 DEF Alert
    <3>4. alert[t].found \in Issues \union {NoIssue}
      BY <3>2 DEF Alert
    <3> QED
      BY <2>2, <3>1, <3>3, <3>4 DEF FindFails
  <2> QED
    BY <2>1, <2>2
<1> DEFINE a == [alert[t] EXCEPT !.pc = "file", !.at = n, !.found = f]
<1>2. /\ alert[t] \in Alert /\ alert[t].pc = "find" /\ UNCHANGED <<windows, issues, lock>>
      /\ issues \in [Nodes -> SUBSET Issues]
  BY DEF OutageInv, OutagesTyped, FindIssue, FindFails
<1>3. /\ a \in Alert /\ a.job = alert[t].job /\ a.open = alert[t].open /\ a.pc = "file"
      /\ a.at = n /\ a.found = f /\ n \in Nodes
  BY <1>2 DEF Alert
<1>4. alert' = [alert EXCEPT ![t] = a]
  BY <1>1 DEF Start
<1> HIDE DEF a
<1>5. blind' \in BOOLEAN
  BY <1>1 DEF OutageInv, OutagesTyped
<1>6. CASE blind' \/ f # NoIssue
  <2>1. blind' \/ (~blind /\ ~Creates(a) /\ \A m \in Nodes : issues'[m] \subseteq issues[m])
    BY <1>1, <1>2, <1>3, <1>5, <1>6 DEF Creates
  <2>2. Placed(a) /\ a.pc # "release" /\ alert[t].pc # "release"
    BY <1>2, <1>3 DEF Placed
  <2>3. issues' \in [Nodes -> SUBSET Issues]
    BY <1>2
  <2> QED
    BY <1>2, <1>3, <1>4, <1>5, <2>1, <2>2, <2>3, GoesOn
<1>7. CASE ~blind' /\ f = NoIssue
  <2>1. /\ issues[n] = {} /\ ~blind /\ \A u \in Tasks : alert'[u] = IF u = t THEN a ELSE alert[u]
    BY <1>1, <1>2, <1>4, <1>7 DEF OutageInv, OutagesTyped
  <2>2. ASSUME NEW m \in Nodes PROVE Bounded(issues'[m], Creators(alert', m))
    <3>1. CASE m = n
      <4>1. Creators(alert', n) \subseteq Tasks /\ IsFiniteSet(Tasks)
        BY OutageAssumption DEF Creators
      <4>2. Cardinality(Creators(alert', n)) <= Cardinality(Tasks)
        BY <4>1, FS_Subset
      <4>3. Cardinality(Creators(alert', n)) \in Nat
        BY <4>1, FS_Subset, FS_CardinalityType
      <4>4. issues'[m] = {} /\ IsFiniteSet({}) /\ Cardinality({}) = 0
        BY <1>2, <2>1, <3>1, FS_EmptySet
      <4> QED
        BY <3>1, <4>2, <4>3, <4>4 DEF Bounded
    <3>2. CASE m # n
      <4>1. Creators(alert', m) \in SUBSET Creators(alert, m)
        BY <1>3, <2>1, <3>2 DEF Creators
      <4>2. Creators(alert, m) \in SUBSET Tasks
        BY DEF Creators
      <4>3. Bounded(issues[m], Creators(alert, m)) /\ issues'[m] \in SUBSET issues[m]
        BY <1>2, <2>1 DEF OutageInv, Counted
      <4> QED
        BY <4>1, <4>2, <4>3, FewerTickets, OutageAssumption
    <3> QED
      BY <3>1, <3>2
  <2>3. Unique(windows') /\ Exclusive(alert', lock', windows')
    <3>1. Scanning(a) => Holds(t, lock') /\ Sees(a.open, windows')
      BY <1>2, <1>3 DEF OutageInv, Exclusive, Scanning
    <3> QED
      BY <1>2, <1>3, <1>4, <3>1, ScansKept
  <2>4. OutagesTyped' /\ \A u \in Tasks : Placed(alert'[u])
    BY <1>2, <1>3, <1>4, <1>5, <2>1 DEF OutageInv, OutagesTyped, Placed
  <2> QED
    BY <2>2, <2>3, <2>4 DEF OutageInv, Counted
<1> QED
  BY <1>6, <1>7

(* Filing: the task that files was counted as one that creates. *)
LEMMA FileKeeps ==
  ASSUME OutageInv, NEW t \in Tasks, Append(t) \/ Create(t) \/ CreateFails(t)
  PROVE  OutageInv'
<1>1. /\ alert[t] \in Alert /\ alert[t].pc = "file" /\ UNCHANGED <<windows, lock, blind>>
      /\ blind \in BOOLEAN /\ issues \in [Nodes -> SUBSET Issues]
      /\ alert[t].at \in Nodes /\ alert[t].found \in Issues \union {NoIssue}
  BY DEF OutageInv, OutagesTyped, Append, Create, CreateFails, Placed, Alert
<1>2. ASSUME NEW ticket \in Issues \union {NoIssue}, Filed(t, ticket),
             issues' \in [Nodes -> SUBSET Issues],
             \/ UNCHANGED issues
             \/ ~blind => Counted(issues', alert')
      PROVE  OutageInv'
  <2>1. PICK a \in Alert :
          /\ alert' = [alert EXCEPT ![t] = a]
          /\ a.job = alert[t].job /\ a.open = alert[t].open /\ a.pc \in {"commit", "find"}
    BY <1>2, FiledAlert
  <2>2. ~Creates(a) /\ Placed(a) /\ a.pc # "release" /\ alert[t].pc # "release"
    BY <1>1, <2>1 DEF Creates, Placed
  <2>3. ~blind => Counted(issues', alert')
    <3>1. ASSUME ~blind, UNCHANGED issues PROVE Counted(issues', alert')
      BY <2>1, <2>2, <3>1, TicketsKept
    <3> QED
      BY <1>2, <3>1
  <2>4. Unique(windows') /\ Exclusive(alert', lock', windows')
    <3>1. Scanning(a) => Holds(t, lock') /\ Sees(a.open, windows')
      BY <1>1, <2>1, <2>2 DEF OutageInv, Exclusive, Scanning
    <3> QED
      BY <1>1, <2>1, <3>1, ScansKept
  <2>5. OutagesTyped' /\ \A u \in Tasks : Placed(alert'[u])
    BY <1>1, <1>2, <2>1, <2>2 DEF OutageInv, OutagesTyped
  <2> QED
    BY <1>1, <2>3, <2>4, <2>5 DEF OutageInv
<1>3. CASE Append(t)
  BY <1>1, <1>2, <1>3 DEF Append
<1>4. CASE CreateFails(t)
  BY <1>1, <1>2, <1>4 DEF CreateFails
<1>5. CASE Create(t)
  <2> DEFINE n == alert[t].at
             new == Issues \ UNION {issues[m] : m \in Nodes}
  <2>1. /\ alert[t].found = NoIssue /\ new # {} /\ Filed(t, Min(new))
        /\ issues' = [issues EXCEPT ![n] = @ \union {Min(new)}]
    BY <1>5 DEF Create
  <2>2. Min(new) \in new
    <3>1. new \in SUBSET Nat
      BY OutageAssumption
    <3> QED
      BY <2>1, <3>1, MinIsMember
  <2>3. Min(new) \in Issues /\ Min(new) \notin issues[n]
    BY <1>1, <2>2
  <2> HIDE DEF new
  <2>4. issues' \in [Nodes -> SUBSET Issues]
    BY <1>1, <2>1, <2>3
  <2>5. PICK a \in Alert : alert' = [alert EXCEPT ![t] = a] /\ a.pc \in {"commit", "find"}
    BY <2>1, <2>3, FiledAlert
  <2>6. \A u \in Tasks : alert'[u] = IF u = t THEN a ELSE alert[u]
    BY <2>5 DEF OutageInv, OutagesTyped
  <2>7. ASSUME NEW m \in Nodes, ~blind PROVE Bounded(issues'[m], Creators(alert', m))
    <3>1. Bounded(issues[m], Creators(alert, m))
      BY <2>7 DEF OutageInv, Counted
    <3>2. /\ Creators(alert', m) \in SUBSET Creators(alert, m)
          /\ Creators(alert, m) \in SUBSET Tasks
      BY <2>5, <2>6 DEF Creators, Creates
    <3>3. CASE m = n
      <4>1. t \in Creators(alert, n) /\ Creators(alert', n) = Creators(alert, n) \ {t}
        BY <1>1, <2>1, <2>5, <2>6 DEF Creators, Creates
      <4>2. IsFiniteSet(Creators(alert, n)) /\ Cardinality(Creators(alert, n)) \in Nat
        BY <3>2, <3>3, FS_Subset, FS_CardinalityType, OutageAssumption
      <4>3. Cardinality(Creators(alert', n)) = Cardinality(Creators(alert, n)) - 1
        BY <4>1, <4>2, FS_RemoveElement
      <4>4. /\ IsFiniteSet(issues[n] \union {Min(new)})
            /\ Cardinality(issues[n] \union {Min(new)}) = Cardinality(issues[n]) + 1
            /\ Cardinality(issues[n]) \in Nat
        BY <2>3, <3>1, <3>3, FS_AddElement, FS_CardinalityType DEF Bounded
      <4>5. issues'[n] = issues[n] \union {Min(new)}
        BY <1>1, <2>1
      <4>6. Cardinality(issues[n]) + Cardinality(Creators(alert, n)) <= Cardinality(Tasks)
        BY <3>1, <3>3 DEF Bounded
      <4>7. Cardinality(Tasks) \in Nat
        BY FS_CardinalityType, OutageAssumption
      <4> QED
        BY <3>3, <4>2, <4>3, <4>4, <4>5, <4>6, <4>7 DEF Bounded
    <3>4. CASE m # n
      <4>1. issues'[m] \in SUBSET issues[m]
        BY <1>1, <2>1, <3>4
      <4> QED
        BY <3>1, <3>2, <4>1, FewerTickets, OutageAssumption
    <3> QED
      BY <3>3, <3>4
  <2>8. ~blind => Counted(issues', alert')
    BY <2>7 DEF Counted
  <2> QED
    BY <1>2, <2>1, <2>3, <2>4, <2>8
<1> QED
  BY <1>3, <1>4, <1>5

(* A task that starts anew, or that is done, files nothing. *)
LEMMA FreshStep ==
  ASSUME OutageInv, NEW t \in Tasks, NEW a \in Alert, alert' = [alert EXCEPT ![t] = a],
         a.pc # "file", ~Scanning(a),
         windows' \in [Ids -> Window \union {Missing}],
         \A i \in Ids : MissIn(windows', i) => windows'[i] = windows[i],
         issues' \in [Nodes -> SUBSET Issues], \A n \in Nodes : issues'[n] \subseteq issues[n],
         lock' \in Lock, \A u \in Tasks \ {t} : Holds(u, lock) => Holds(u, lock'),
         UNCHANGED blind
  PROVE  OutageInv'
<1>1. blind' \in BOOLEAN /\ ~Creates(a) /\ Placed(a)
  BY DEF OutageInv, OutagesTyped, Creates, Placed
<1>2. blind' \/ (~blind /\ ~Creates(a) /\ \A n \in Nodes : issues'[n] \subseteq issues[n])
  BY <1>1
<1> QED
  BY <1>1, <1>2, PlainStep

LEMMA TicketKeeps ==
  ASSUME OutageInv, NEW t \in Tasks,
         TicketEnd(t) \/ \E n \in Nodes : TicketBegin(t, n)
                                          \/ \E resolved \in BOOLEAN : ReportBegin(t, n, resolved)
  PROVE  OutageInv'
<1>1. UNCHANGED <<windows, issues, lock, blind>>
  BY DEF TicketEnd, TicketBegin, ReportBegin
<1>2. PICK a \in Alert : alert' = [alert EXCEPT ![t] = a] /\ a.pc # "file" /\ ~Scanning(a)
  <2>1. CASE TicketEnd(t)
    BY <2>1, QuietIsAlert DEF TicketEnd, Silenced, Quiet, Scanning
  <2>2. ASSUME NEW n \in Nodes, NEW resolved \in BOOLEAN,
               TicketBegin(t, n) \/ ReportBegin(t, n, resolved)
        PROVE  \E a \in Alert : alert' = [alert EXCEPT ![t] = a] /\ a.pc # "file" /\ ~Scanning(a)
    <3>1. [Quiet EXCEPT !.job = "ticket", !.pc = "find", !.left = {n}] \in Alert
      BY QuietIsAlert DEF Alert
    <3>2. [Quiet EXCEPT !.job = "report", !.pc = "find", !.left = {n}, !.tracked = {n},
                        !.resolved = resolved] \in Alert
      BY QuietIsAlert DEF Alert
    <3> QED
      BY <2>2, <3>1, <3>2 DEF TicketBegin, ReportBegin, Start, Scanning, Quiet
  <2> QED
    BY <2>1, <2>2
<1>3. /\ windows' \in [Ids -> Window \union {Missing}] /\ issues' \in [Nodes -> SUBSET Issues]
      /\ lock' \in Lock
  BY <1>1 DEF OutageInv, OutagesTyped
<1>4. \A n \in Nodes : issues'[n] \subseteq issues[n]
  BY <1>1
<1> QED
  BY <1>1, <1>2, <1>3, <1>4, FreshStep

(* A plugin's window is not one of the detector's. *)
LEMMA ReportKeeps ==
  ASSUME OutageInv, NEW t \in Tasks, ReportCommit(t)
  PROVE  OutageInv'
<1>1. /\ OutagesTyped /\ alert[t] \in Alert /\ alert' = [alert EXCEPT ![t] = Quiet]
      /\ UNCHANGED <<lock, blind>>
  BY DEF OutageInv, OutagesTyped, ReportCommit, Silenced
<1>2. PICK n \in alert[t].tracked :
        IF alert[t].resolved
        THEN /\ issues' \in {issues, [issues EXCEPT ![n] = @ \ {alert[t].tickets[n]}]}
             /\ UNCHANGED windows
        ELSE /\ Unused # {}
             /\ windows' = [windows EXCEPT ![Min(Unused)] =
                  [node |-> n, kind |-> "plugin", ticket |-> alert[t].tickets[n]]]
             /\ UNCHANGED issues
  BY DEF ReportCommit
<1>3. /\ issues' \in [Nodes -> SUBSET Issues] /\ \A m \in Nodes : issues'[m] \subseteq issues[m]
  BY <1>1, <1>2 DEF OutagesTyped
<1> DEFINE w == [node |-> n, kind |-> "plugin", ticket |-> alert[t].tickets[n]]
<1>4. /\ windows' \in [Ids -> Window \union {Missing}]
      /\ \A i \in Ids : MissIn(windows', i) => windows'[i] = windows[i]
  <2>1. w \in Window /\ w.kind # "miss"
    BY <1>1 DEF Window, Alert
  <2>2. windows \in [Ids -> Window \union {Missing}]
    BY <1>1 DEF OutagesTyped
  <2>3. UNCHANGED windows \/ windows' = [windows EXCEPT ![Min(Unused)] = w]
    BY <1>2
  <2> HIDE DEF w
  <2>4. \A i \in Ids : windows'[i] \in {windows[i], w}
    BY <2>2, <2>3
  <2> QED
    BY <2>1, <2>2, <2>3, <2>4 DEF MissIn
<1>5. Quiet \in Alert /\ Quiet.pc # "file" /\ ~Scanning(Quiet) /\ lock' \in Lock
  BY <1>1, QuietIsAlert DEF Quiet, Scanning, OutagesTyped
<1> QED
  BY <1>1, <1>3, <1>4, <1>5, FreshStep

LEMMA CloseResolves ==
  ASSUME OutagesTyped, NEW is, NEW open, Close(is, open)
  PROVE  issues' \in [Nodes -> SUBSET Issues] /\ \A n \in Nodes : issues'[n] \subseteq issues[n]
BY DEF OutagesTyped, Close

LEMMA HearKeeps ==
  ASSUME OutageInv, NEW t \in Tasks, NEW n \in Nodes, Hear(t, n) \/ Heard(t, n)
  PROVE  OutageInv'
<1>1. OutagesTyped
  BY DEF OutageInv
<1>2. CASE Hear(t, n)
  <2> DEFINE open == [i \in Ids |-> IF i \in MissOf(windows, n) THEN windows[i] ELSE Missing]
             a == [Quiet EXCEPT !.job = "close", !.open = open]
  <2>1. open \in [Ids -> Window \union {Missing}]
    BY <1>1 DEF OutagesTyped
  <2>2. alert' = [alert EXCEPT ![t] = a] /\ UNCHANGED <<windows, issues, lock, blind>>
    BY <1>2 DEF Hear, Start
  <2> HIDE DEF open
  <2>3. a \in Alert /\ a.pc # "file" /\ ~Scanning(a)
    BY <2>1, QuietIsAlert DEF Quiet, Alert, Scanning
  <2>4. /\ windows' \in [Ids -> Window \union {Missing}] /\ issues' \in [Nodes -> SUBSET Issues]
        /\ lock' \in Lock /\ \A m \in Nodes : issues'[m] \subseteq issues[m]
    BY <1>1, <2>2 DEF OutagesTyped
  <2> HIDE DEF a
  <2> QED
    BY <2>2, <2>3, <2>4, FreshStep
<1>3. CASE Heard(t, n)
  <2> DEFINE closing == MissOf(alert[t].open, n)
  <2>1. /\ alert' = [alert EXCEPT ![t] = Quiet] /\ UNCHANGED <<lock, blind>>
        /\ windows' = [i \in Ids |-> IF i \in closing THEN Missing ELSE windows[i]]
        /\ Close(closing, alert[t].open)
    BY <1>3 DEF Heard, Silenced
  <2>2. issues' \in [Nodes -> SUBSET Issues] /\ \A m \in Nodes : issues'[m] \subseteq issues[m]
    BY <1>1, <2>1, CloseResolves
  <2> HIDE DEF closing
  <2>3. /\ windows' \in [Ids -> Window \union {Missing}] /\ lock' \in Lock
        /\ \A i \in Ids : MissIn(windows', i) => windows'[i] = windows[i]
    BY <1>1, <2>1 DEF OutagesTyped, MissIn
  <2>4. Quiet \in Alert /\ Quiet.pc # "file" /\ ~Scanning(Quiet)
    BY QuietIsAlert DEF Quiet, Scanning
  <2> QED
    BY <2>1, <2>2, <2>3, <2>4, FreshStep
<1> QED
  BY <1>2, <1>3

-------------------------------------------------------------------------------
(* The scan. *)

LEMMA ScanBeginKeeps ==
  ASSUME OutageInv, NEW t \in Tasks, ScanBegin(t)
  PROVE  OutageInv'
<1> DEFINE tracked == {n \in Nodes : node[n] # Missing
                           /\ node[n].state \in {"ACTIVE", "SYNCED", "DEGRADED"}}
           a == [Quiet EXCEPT !.job = "scan", !.tracked = tracked, !.open = windows,
                              !.late = {n \in tracked : silent[n] >= DegradedAfter}]
           b == [a EXCEPT !.left = ToOpen(a), !.pc = IF ToOpen(a) = {} THEN "commit" ELSE "find"]
<1>1. /\ OutagesTyped /\ alert' = [alert EXCEPT ![t] = b]
      /\ UNCHANGED <<windows, issues, blind>> /\ GetLock(t)
  BY DEF OutageInv, ScanBegin, Start
<1>2. a \in Alert
  BY <1>1, QuietIsAlert DEF OutagesTyped, Alert
<1>3. ToOpen(a) \in SUBSET Nodes
  BY <1>2 DEF ToOpen, Alert
<1>4. b \in Alert /\ b.pc \in {"commit", "find"} /\ b.open = windows
  <2>1. a.open = windows
    BY QuietIsAlert DEF Alert
  <2> HIDE DEF a
  <2> QED
    BY <1>2, <1>3, <2>1 DEF Alert
<1>5. PICK c \in {t} \X Conns :
        (lock # Missing => lock.conn = c) /\ lock' = [conn |-> c, again |-> lock # Missing]
  BY <1>1 DEF GetLock
<1>6. c[1] = t /\ c \in Tasks \X Conns
  OBVIOUS
<1>7. lock' \in Held /\ lock' # Missing /\ lock'.conn = c
  <2>1. (lock # Missing) \in BOOLEAN
    OBVIOUS
  <2>2. lock' \in Held
    BY <1>5, <1>6, <2>1 DEF Held
  <2> QED
    BY <1>5, <2>2, OutageAssumption
<1>8. \A u \in Tasks \ {t} : Holds(u, lock) => Holds(u, lock')
  BY <1>5, <1>6 DEF Holds
<1>9. Holds(t, lock') /\ Sees(b.open, windows')
  BY <1>1, <1>4, <1>6, <1>7 DEF Holds, Sees
<1>10. /\ windows' \in [Ids -> Window \union {Missing}] /\ issues' \in [Nodes -> SUBSET Issues]
       /\ lock' \in Lock /\ blind' \in BOOLEAN /\ \A n \in Nodes : issues'[n] \subseteq issues[n]
       /\ \A i \in Ids : MissIn(windows', i) => windows'[i] = windows[i]
  BY <1>1, <1>7 DEF OutagesTyped, Lock
<1> HIDE DEF b
<1>11. Placed(b) /\ ~Creates(b)
  BY <1>4 DEF Placed, Creates
<1>12. blind' \/ (~blind /\ ~Creates(b) /\ \A n \in Nodes : issues'[n] \subseteq issues[n])
  BY <1>1, <1>10, <1>11
<1> QED
  BY <1>1, <1>4, <1>8, <1>9, <1>10, <1>11, <1>12, PlainStep

LEMMA ScanEndKeeps ==
  ASSUME OutageInv, NEW t \in Tasks,
         ScanFails(t) \/ ScanRelease(t) \/ \E restart \in BOOLEAN : Abort(t, restart)
  PROVE  OutageInv'
<1>1. OutagesTyped /\ alert' = [alert EXCEPT ![t] = Quiet] /\ UNCHANGED <<windows, issues, blind>>
  BY DEF OutageInv, ScanFails, ScanRelease, Abort, Silenced
<1>2. Quiet \in Alert /\ Quiet.pc # "file" /\ ~Scanning(Quiet)
  BY QuietIsAlert DEF Quiet, Scanning
<1>3. lock' \in Lock /\ \A u \in Tasks \ {t} : Holds(u, lock) => Holds(u, lock')
  <2>1. CASE lock' = lock
    BY <1>1, <2>1 DEF OutagesTyped
  <2>2. CASE lock' # lock /\ ScanRelease(t)
    <3>1. PICK c \in {t} \X Conns :
            lock' = IF lock = Missing \/ lock.conn # c THEN lock
                    ELSE IF lock.again THEN [lock EXCEPT !.again = FALSE] ELSE Missing
      BY <2>2 DEF ScanRelease
    <3>2. lock \in Held /\ lock.conn[1] = t
      BY <1>1, <2>2, <3>1 DEF OutagesTyped, Lock
    <3>3. lock' \in Lock
      BY <3>1, <3>2 DEF Lock, Held
    <3> QED
      BY <3>2, <3>3 DEF Holds
  <2>3. CASE lock' # lock /\ \E restart \in BOOLEAN : Abort(t, restart)
    <3>1. lock' = Missing /\ lock.conn[1] = t
      BY <2>3 DEF Abort
    <3> QED
      BY <3>1 DEF Holds, Lock
  <2>4. ScanFails(t) => lock' = lock
    BY DEF ScanFails
  <2> QED
    BY <2>1, <2>2, <2>3, <2>4
<1>4. /\ windows' \in [Ids -> Window \union {Missing}] /\ issues' \in [Nodes -> SUBSET Issues]
      /\ \A n \in Nodes : issues'[n] \subseteq issues[n]
      /\ \A i \in Ids : MissIn(windows', i) => windows'[i] = windows[i]
  BY <1>1 DEF OutagesTyped
<1> QED
  BY <1>1, <1>2, <1>3, <1>4, FreshStep

(* The windows a scan opens are of nodes that had none when it began, and while *)
(* it held the lock no other scan has opened one.                             *)
LEMMA ScanCommitKeeps ==
  ASSUME OutageInv, NEW t \in Tasks, ScanCommit(t)
  PROVE  OutageInv'
<1> DEFINE a == alert[t]
           closing == UNION {MissOf(a.open, n) : n \in a.tracked \ a.late}
           done == [Quiet EXCEPT !.job = "scan", !.pc = "release"]
<1>1. /\ OutagesTyped /\ a \in Alert /\ Scanning(a)
      /\ alert' = [alert EXCEPT ![t] = done] /\ UNCHANGED <<lock, blind>>
      /\ Close(closing, a.open)
  BY DEF OutageInv, OutagesTyped, ScanCommit, Scanning, Start
<1>2. Holds(t, lock) /\ Sees(a.open, windows)
  BY <1>1 DEF OutageInv, Exclusive
<1>3. /\ ToOpen(a) \in SUBSET Nodes /\ \A n \in ToOpen(a) : OpenOf(a.open, n) = {}
  BY <1>1 DEF ToOpen, Alert
<1>4. PICK number \in [ToOpen(a) -> Unused] :
        /\ \A m, n \in ToOpen(a) : number[m] = number[n] => m = n
        /\ windows' = [i \in Ids |->
             IF \E n \in ToOpen(a) : number[n] = i
             THEN LET n == CHOOSE x \in ToOpen(a) : number[x] = i
                  IN [node |-> n, kind |-> "miss", ticket |-> a.tickets[n]]
             ELSE IF i \in closing THEN Missing ELSE windows[i]]
  BY DEF ScanCommit
<1> DEFINE opened(i) == CHOOSE x \in ToOpen(a) : number[x] = i
           w(n) == [node |-> n, kind |-> "miss", ticket |-> a.tickets[n]]
<1>5. issues' \in [Nodes -> SUBSET Issues] /\ \A n \in Nodes : issues'[n] \subseteq issues[n]
  BY <1>1, CloseResolves
<1>6. \A n \in ToOpen(a) : w(n) \in Window /\ w(n).node = n
  BY <1>1, <1>3 DEF Window, Alert
<1> HIDE DEF closing, w
<1>7. ASSUME NEW i \in Ids
      PROVE  \/ /\ opened(i) \in ToOpen(a) /\ number[opened(i)] = i
                /\ windows'[i] = w(opened(i))
             \/ windows'[i] = Missing
             \/ windows'[i] = windows[i]
  <2>1. CASE \E n \in ToOpen(a) : number[n] = i
    <3>1. opened(i) \in ToOpen(a) /\ number[opened(i)] = i
      BY <2>1
    <3> QED
      BY <1>4, <2>1, <3>1 DEF w
  <2>2. CASE ~\E n \in ToOpen(a) : number[n] = i
    BY <1>4, <2>2
  <2> QED
    BY <2>1, <2>2
<1> HIDE DEF opened
<1>8. windows' \in [Ids -> Window \union {Missing}]
  <2>1. \A i \in Ids : windows'[i] \in Window \union {Missing}
    BY <1>1, <1>6, <1>7 DEF OutagesTyped
  <2> QED
    BY <1>4, <2>1
<1>9. ASSUME NEW i \in Ids, MissIn(windows', i)
      PROVE  \/ /\ opened(i) \in ToOpen(a) /\ number[opened(i)] = i
                /\ windows'[i].node = opened(i)
             \/ windows'[i] = windows[i] /\ windows[i].node \notin ToOpen(a)
  <2>1. CASE windows'[i] = windows[i]
    <3>1. MissIn(windows, i) /\ a.open[i] = windows[i]
      BY <1>2, <1>9, <2>1 DEF MissIn, Sees
    <3>2. i \in OpenOf(a.open, windows[i].node)
      BY <3>1 DEF MissIn, OpenOf
    <3> QED
      BY <1>3, <2>1, <3>2
  <2>2. CASE windows'[i] # windows[i]
    BY <1>6, <1>7, <1>9, <2>2 DEF MissIn
  <2> QED
    BY <2>1, <2>2
<1>10. Unique(windows')
  <2> SUFFICES ASSUME NEW i \in Ids, NEW j \in Ids, MissIn(windows', i), MissIn(windows', j),
                      windows'[i].node = windows'[j].node
               PROVE  i = j
    BY DEF Unique
  <2>1. CASE windows'[i] = windows[i] /\ windows'[j] = windows[j]
    BY <2>1 DEF OutageInv, Unique, MissIn
  <2>2. CASE windows'[i] # windows[i] \/ windows'[j] # windows[j]
    BY <1>9, <2>2
  <2> QED
    BY <2>1, <2>2
<1>11. \A u \in Tasks : alert'[u] = IF u = t THEN done ELSE alert[u]
  BY <1>1 DEF OutagesTyped
<1>12. done \in Alert /\ ~Scanning(done) /\ ~Creates(done) /\ Placed(done)
  BY QuietIsAlert DEF Alert, Quiet, Scanning, Creates, Placed
<1> HIDE DEF done
<1>13. \A u \in Tasks : ~Scanning(alert'[u])
  BY <1>2, <1>11, <1>12 DEF OutageInv, Exclusive, Holds
<1>14. OutagesTyped' /\ \A u \in Tasks : Placed(alert'[u])
  BY <1>1, <1>5, <1>8, <1>11, <1>12 DEF OutageInv, OutagesTyped
<1>15. ~blind => Counted(issues', alert')
  BY <1>1, <1>5, <1>12, TicketsKept
<1>16. Exclusive(alert', lock', windows')
  BY <1>13 DEF Exclusive
<1> QED
  BY <1>1, <1>10, <1>14, <1>15, <1>16 DEF OutageInv

LEMMA OutagesInit == OutageInit => OutageInv
<1> SUFFICES ASSUME OutageInit PROVE OutageInv
  OBVIOUS
<1>1. OutagesTyped
  BY QuietIsAlert DEF OutageInit, OutagesTyped, NoWindows, Lock
<1>2. Unique(windows)
  BY DEF OutageInit, Unique, MissIn, NoWindows
<1>3. \A t \in Tasks : ~Scanning(alert[t]) /\ Placed(alert[t]) /\ ~Creates(alert[t])
  BY DEF OutageInit, Quiet, Scanning, Placed, Creates
<1>4. ASSUME NEW n \in Nodes PROVE Bounded(issues[n], Creators(alert, n))
  <2>1. issues[n] = {} /\ Creators(alert, n) = {}
    BY <1>3 DEF OutageInit, Creators
  <2>2. IsFiniteSet({}) /\ Cardinality({}) = 0 /\ Cardinality(Tasks) \in Nat
    BY FS_EmptySet, FS_CardinalityType, OutageAssumption
  <2> QED
    BY <2>1, <2>2 DEF Bounded
<1> QED
  BY <1>1, <1>2, <1>3, <1>4 DEF OutageInv, Exclusive, Counted

LEMMA OutagesStep == OutageInv /\ [OutageNext]_vars => OutageInv'
<1> SUFFICES ASSUME OutageInv, [OutageNext]_vars PROVE OutageInv'
  OBVIOUS
<1>1. CASE UNCHANGED outageVars
  BY <1>1 DEF OutageInv, OutagesTyped, Unique, Exclusive, Counted, outageVars
<1>2. ASSUME NEW t \in Tasks, ScanStep(t) PROVE OutageInv'
  BY <1>2, ScanBeginKeeps, ScanCommitKeeps, ScanEndKeeps DEF ScanStep
<1>3. ASSUME NEW t \in Tasks, AlertStep(t) PROVE OutageInv'
  BY <1>3, FindKeeps, FileKeeps, TicketKeeps, ReportKeeps DEF AlertStep
<1>4. ASSUME NEW t \in Tasks, NEW n \in Nodes, Hear(t, n) \/ Heard(t, n) \/ TicketBegin(t, n)
      PROVE  OutageInv'
  BY <1>4, HearKeeps, TicketKeeps
<1>5. ASSUME NEW t \in Tasks, NEW n \in Nodes, NEW resolved \in BOOLEAN,
             ReportBegin(t, n, resolved)
      PROVE  OutageInv'
  BY <1>5, TicketKeeps
<1>6. ASSUME NEW t \in Tasks, NEW restart \in BOOLEAN, Abort(t, restart) PROVE OutageInv'
  BY <1>6, ScanEndKeeps
<1> QED
  BY <1>1, <1>2, <1>3, <1>4, <1>5, <1>6 DEF OutageNext, NodeStep, vars

LEMMA OutagesKeep == OutageSpec => []OutageInv
BY OutagesInit, OutagesStep, PTL DEF OutageSpec

(* The rows, the locals of every task and the lock keep their types, whatever  *)
(* the number of tasks, nodes, sites and connections.                         *)
THEOREM EdgeTypes == OutageSpec => []TypeOK
<1>1. NodesInv /\ OutageInv => TypeOK
  BY DEF NodesInv, NodesTyped, OutageInv, OutagesTyped, TypeOK
<1> QED
  BY NodesKeep, OutagesKeep, <1>1, PTL

(* detect_offline_nodes under its named lock, in any number of processes, over *)
(* any pool of connections, with the lock taken twice or never released, opens *)
(* at most one window of its own for a node.                                  *)
THEOREM OneMissForAll == OutageSpec => []OneMissWindow
<1>1. ASSUME OutageInv, NEW n \in Nodes PROVE Cardinality(MissOf(windows, n)) <= 1
  <2>1. CASE MissOf(windows, n) = {}
    BY <2>1, FS_EmptySet
  <2>2. CASE MissOf(windows, n) # {}
    <3>1. PICK i \in MissOf(windows, n) : TRUE
      BY <2>2
    <3>2. \A j \in MissOf(windows, n) : j = i
      BY <1>1, <3>1 DEF OutageInv, Unique, MissIn, MissOf, OpenOf
    <3>3. MissOf(windows, n) = {i}
      BY <3>1, <3>2
    <3>4. Cardinality({i}) = 1
      BY FS_Singleton
    <3> QED
      BY <3>3, <3>4
  <2> QED
    BY <2>1, <2>2
<1>2. OutageInv => OneMissWindow
  BY <1>1 DEF OneMissWindow
<1> QED
  BY OutagesKeep, <1>2, PTL

(* find_open_issue before create_issue: as long as every search for an open    *)
(* ticket is answered, a node has no more open tickets than there are tasks,   *)
(* for its tickets and the tasks that have found none never outnumber them.    *)
THEOREM TicketsBoundedForAll == OutageSpec => []TicketsBounded
<1>1. ASSUME OutageInv, ~blind, NEW n \in Nodes
      PROVE  Cardinality(issues[n]) <= Cardinality(Tasks)
  <2>1. Bounded(issues[n], Creators(alert, n))
    BY <1>1 DEF OutageInv, Counted
  <2>2. /\ Cardinality(issues[n]) \in Nat /\ Cardinality(Tasks) \in Nat
        /\ Cardinality(Creators(alert, n)) \in Nat
    <3>1. IsFiniteSet(Creators(alert, n)) /\ IsFiniteSet(issues[n])
      BY <2>1, FS_Subset, OutageAssumption DEF Creators, Bounded
    <3> QED
      BY <3>1, FS_CardinalityType, OutageAssumption
  <2> QED
    BY <2>1, <2>2 DEF Bounded
<1>2. OutageInv => TicketsBounded
  BY <1>1 DEF TicketsBounded
<1> QED
  BY OutagesKeep, <1>2, PTL
===============================================================================
