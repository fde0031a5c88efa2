----------------------------- MODULE AnomalyEvents -----------------------------
(* Anomaly events: the scans that write them (every five minutes in each        *)
(* process, and on demand) and the administrators who acknowledge them.  A scan *)
(* is one transaction: its four passes and its searches for open events read    *)
(* the snapshot of its first query and what the scan itself has added.          *)
EXTENDS Naturals, FiniteSets

CONSTANTS
  Scanners,     \* scans in progress at once
  Sites,        \* tenants
  Sources,      \* attacking addresses
  Networks,     \* /24 networks
  MaxOpen,      \* bound on the open events about one thing
  Unscoped

ASSUME AnomalyAssumption == MaxOpen \in Nat \ {0} /\ IsFiniteSet(Scanners)

VARIABLES
  events,    \* what an event is about -> how many are open
  scan       \* scanner -> the events it will commit

anomalyVars == <<events, scan>>

(* What each of the four passes can find.                                    *)
TrafficSpike == [type : {"traffic_spike"}, tenant : Sites, of : {Unscoped}]
CrossTenantAttack == [type : {"cross_tenant_attack"}, tenant : {Unscoped}, of : Sources]
SystematicScan == [type : {"systematic_scan"}, tenant : Sites, of : Networks]
RapidEscalation == [type : {"rapid_escalation"}, tenant : Sites, of : Sources]

Anomalies == TrafficSpike \union CrossTenantAttack \union SystematicScan \union RapidEscalation

(* What _already_open compares: the type, and the tenant and the address the  *)
(* pass gives it, so that a second network of a tenant is the same event.    *)
Scope(a) == IF a \in SystematicScan THEN [a EXCEPT !.of = Unscoped] ELSE a

AlreadyOpenExactly(a) == events[a] > 0

AlreadyOpen(a) == \E e \in Anomalies : Scope(e) = Scope(a) /\ events[e] > 0

NoScan == [running |-> FALSE, adds |-> {}]

AnomalyInit ==
  /\ events = [a \in Anomalies |-> 0]
  /\ scan = [s \in Scanners |-> NoScan]

(* Whatever the reports show; of the finds with one scope the first is kept.  *)
RunScan(s) ==
  /\ ~scan[s].running
  /\ \E adds \in SUBSET {a \in Anomalies : ~AlreadyOpen(a)} :
       /\ \A a, b \in adds : Scope(a) = Scope(b) => a = b
       /\ scan' = [scan EXCEPT ![s] = [running |-> TRUE, adds |-> adds]]
  /\ UNCHANGED events

ScanCommits(s) ==
  /\ scan[s].running
  /\ \A a \in scan[s].adds : events[a] < MaxOpen
  /\ events' = [a \in Anomalies |-> IF a \in scan[s].adds THEN events[a] + 1 ELSE events[a]]
  /\ scan' = [scan EXCEPT ![s] = NoScan]

ScanRollsBack(s) ==
  /\ scan[s].running
  /\ scan' = [scan EXCEPT ![s] = NoScan]
  /\ UNCHANGED events

(* acknowledge_event; or the window within which _already_open looks is over. *)
Acknowledge(a) ==
  /\ events[a] > 0
  /\ events' = [events EXCEPT ![a] = @ - 1]
  /\ UNCHANGED scan

AnomalyNext ==
  \/ \E s \in Scanners : RunScan(s) \/ ScanCommits(s) \/ ScanRollsBack(s)
  \/ \E a \in Anomalies : Acknowledge(a)

AnomalySpec == AnomalyInit /\ [][AnomalyNext]_anomalyVars

-------------------------------------------------------------------------------
AnomalyTypeOK ==
  /\ events \in [Anomalies -> 0 .. MaxOpen]
  /\ scan \in [Scanners -> [running : BOOLEAN, adds : SUBSET Anomalies]]

(* The open events of the type and the scope of a, numbered.                   *)
OpenEvents(a) ==
  {p \in Anomalies \X (1 .. MaxOpen) : Scope(p[1]) = Scope(a) /\ p[2] <= events[p[1]]}

(* A condition that lasts floods no one: of one type and scope there are      *)
(* never more open events than scans that can overlap, as a scan that begins  *)
(* after another has committed sees what it wrote.                           *)
FewOpenEvents == \A a \in Anomalies : Cardinality(OpenEvents(a)) <= Cardinality(Scanners)
===============================================================================
