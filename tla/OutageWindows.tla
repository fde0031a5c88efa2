----------------------------- MODULE OutageWindows -----------------------------
(* Outage windows of edge nodes and their support tickets: the reports of      *)
(* plugins, the detector every process runs under a named lock, and the        *)
(* heartbeats that close what the detector opened, over the rows of EdgeNodes. *)
(*                                                                             *)
(* Only open windows are kept: a closed one is never read again, except by a   *)
(* transaction that began before, which is why its number is not used again    *)
(* while such a transaction runs.  Tickets live in ERPNext, outside of the     *)
(* transaction: they are filed before the commit and survive a rollback.       *)
EXTENDS EdgeNodes, FiniteSetsExt

CONSTANTS
  Ids,        \* numbers of windows (bound on those open at once)
  Issues,     \* numbers of tickets (bound on those open at once)
  Conns       \* database connections in the pool of each process

NoIssue == 0

VARIABLES
  windows,    \* id -> row of edge_outage_events, if it is open
  issues,     \* edge_id -> open ERPNext tickets that carry its tag
  lock,       \* who holds frothiq_outage_detector, and whether more than once
  alert,      \* per task: the outage code in progress, with what it has read
  blind       \* a search that would have found a ticket has failed

outageVars == <<windows, issues, lock, alert, blind>>
vars == <<edgeVars, outageVars>>

(* The severity is left out: nothing but the text of a ticket depends on it.  *)
Window == [node : Nodes, kind : {"miss", "plugin"}, ticket : Issues \union {NoIssue}]

(* tracked, late, open: what a scan or a heartbeat has read; left: nodes     *)
(* whose ticket is still to be filed, the one at hand in at; found: what     *)
(* find_open_issue answered for it.                                          *)
Alert == [job : {"none", "close", "report", "ticket", "scan"},
          pc : {"find", "file", "commit", "release"},
          tracked : SUBSET Nodes, late : SUBSET Nodes,
          open : [Ids -> Window \union {Missing}],
          left : SUBSET Nodes, at : Nodes \union {Missing},
          found : Issues \union {NoIssue},
          tickets : [Nodes -> Issues \union {NoIssue}], resolved : BOOLEAN]

Held == [conn : Tasks \X Conns, again : BOOLEAN]
Lock == Held \union {Missing}

ASSUME OutageAssumption ==
  /\ IsFiniteSet(Tasks)
  /\ Ids \subseteq Nat /\ Issues \subseteq Nat \ {NoIssue}
  /\ Missing \notin Window \union Held

NoWindows == [i \in Ids |-> Missing]
Quiet == [job |-> "none", pc |-> "commit", tracked |-> {}, late |-> {}, open |-> NoWindows,
          left |-> {}, at |-> Missing, found |-> NoIssue,
          tickets |-> [n \in Nodes |-> NoIssue], resolved |-> FALSE]

OutageInit ==
  /\ Init
  /\ windows = NoWindows
  /\ issues = [n \in Nodes |-> {}]
  /\ lock = Missing
  /\ alert = [t \in Tasks |-> Quiet]
  /\ blind = FALSE

Ready(t) == job[t].op = "none" /\ alert[t].job = "none"
Start(t, a) == alert' = [alert EXCEPT ![t] = a]
Silenced(t) == alert' = [alert EXCEPT ![t] = Quiet]

OpenOf(open, n) == {i \in Ids : open[i] # Missing /\ open[i].node = n}
MissOf(open, n) == {i \in OpenOf(open, n) : open[i].kind = "miss"}

(* Numbers no open window has and no running transaction has read.           *)
Unused == {i \in Ids : windows[i] = Missing /\ \A t \in Tasks : alert[t].open[i] = Missing}

(* _close_window: the row is closed, its ticket resolved if ERPNext answers.  *)
Close(is, open) ==
  \E resolved \in SUBSET {open[i].ticket : i \in is} :
    issues' = [n \in Nodes |-> issues[n] \ resolved]

-------------------------------------------------------------------------------
(* The ticket of one node: find_open_issue, then create_issue if there is    *)
(* none or append_to_issue.  Another task may file one between the two.  The *)
(* client swallows every error of ERPNext.                                   *)

FindIssueNever(t) ==
  /\ alert[t].pc = "find"
  /\ \E n \in alert[t].left : Start(t, [alert[t] EXCEPT !.pc = "file", !.at = n])
  /\ UNCHANGED <<edgeVars, windows, issues, lock, blind>>

FindIssue(t) ==
  /\ alert[t].pc = "find"
  /\ \E n \in alert[t].left :
       \E f \in IF issues[n] = {} THEN {NoIssue} ELSE issues[n] :
         Start(t, [alert[t] EXCEPT !.pc = "file", !.at = n, !.found = f])
  /\ UNCHANGED <<edgeVars, windows, issues, lock, blind>>

(* A search that fails answers as one that finds nothing.                    *)
FindFails(t) ==
  /\ alert[t].pc = "find"
  /\ \E n \in alert[t].left :
       /\ issues[n] # {}
       /\ Start(t, [alert[t] EXCEPT !.pc = "file", !.at = n])
  /\ Request
  /\ blind' = TRUE
  /\ UNCHANGED <<tenant, node, silent, job, windows, issues, lock>>

Filed(t, ticket) ==
  LET rest == alert[t].left \ {alert[t].at}
  IN  Start(t, [alert[t] EXCEPT !.pc = IF rest = {} THEN "commit" ELSE "find",
                                !.left = rest, !.at = Missing, !.found = NoIssue,
                                !.tickets[alert[t].at] = ticket])

Append(t) ==
  /\ alert[t].pc = "file" /\ alert[t].found # NoIssue
  /\ Filed(t, alert[t].found)
  /\ UNCHANGED <<edgeVars, windows, issues, lock, blind>>

Create(t) ==
  /\ alert[t].pc = "file" /\ alert[t].found = NoIssue
  /\ LET new == Issues \ UNION {issues[n] : n \in Nodes}
     IN /\ new # {}
        /\ issues' = [issues EXCEPT ![alert[t].at] = @ \union {Min(new)}]
        /\ Filed(t, Min(new))
  /\ UNCHANGED <<edgeVars, windows, lock, blind>>

(* The window is opened without a ticket.                                    *)
CreateFails(t) ==
  /\ alert[t].pc = "file" /\ alert[t].found = NoIssue
  /\ Request
  /\ Filed(t, NoIssue)
  /\ UNCHANGED <<tenant, node, silent, job, windows, issues, lock, blind>>

(* POST /edge/ticket stops there.                                            *)
TicketBegin(t, n) ==
  /\ Ready(t) /\ node[n] # Missing
  /\ Request
  /\ Start(t, [Quiet EXCEPT !.job = "ticket", !.pc = "find", !.left = {n}])
  /\ UNCHANGED <<tenant, node, silent, job, windows, issues, lock, blind>>

TicketEnd(t) ==
  /\ alert[t].job = "ticket" /\ alert[t].pc = "commit"
  /\ Silenced(t)
  /\ UNCHANGED <<edgeVars, windows, issues, lock, blind>>

-------------------------------------------------------------------------------
(* POST /edge/outage: a plugin reports an outage, which it may have resolved. *)

ReportBegin(t, n, resolved) ==
  /\ Ready(t) /\ node[n] # Missing
  /\ Request
  /\ Start(t, [Quiet EXCEPT !.job = "report", !.pc = "find", !.left = {n}, !.tracked = {n},
                            !.resolved = resolved])
  /\ UNCHANGED <<tenant, node, silent, job, windows, issues, lock, blind>>

ReportCommit(t) ==
  /\ alert[t].job = "report" /\ alert[t].pc = "commit"
  /\ \E n \in alert[t].tracked :
       /\ IF alert[t].resolved
          THEN /\ issues' \in {issues, [issues EXCEPT ![n] = @ \ {alert[t].tickets[n]}]}
               /\ UNCHANGED windows
          ELSE /\ Unused # {}
               /\ windows' = [windows EXCEPT ![Min(Unused)] =
                    [node |-> n, kind |-> "plugin", ticket |-> alert[t].tickets[n]]]
               /\ UNCHANGED issues
  /\ Silenced(t)
  /\ UNCHANGED <<edgeVars, lock, blind>>

-------------------------------------------------------------------------------
(* A heartbeat closes the heartbeat-miss windows it has read.                *)

Hear(t, n) ==
  /\ Ready(t)
  /\ HeartbeatBegin(t, n)
  /\ Start(t, [Quiet EXCEPT !.job = "close",
        !.open = [i \in Ids |-> IF i \in MissOf(windows, n) THEN windows[i] ELSE Missing]])
  /\ UNCHANGED <<windows, issues, lock, blind>>

Heard(t, n) ==
  /\ HeartbeatCommit(t, n)
  /\ LET closing == MissOf(alert[t].open, n)
     IN /\ windows' = [i \in Ids |-> IF i \in closing THEN Missing ELSE windows[i]]
        /\ Close(closing, alert[t].open)
  /\ Silenced(t) /\ UNCHANGED <<lock, blind>>

-------------------------------------------------------------------------------
(* detect_offline_nodes.  GET_LOCK without waiting on any connection of the  *)
(* pool, which succeeds again on the one that has it.                        *)

ToOpen(a) == {n \in a.late : OpenOf(a.open, n) = {}}

(* scalar_one_or_none raises when a node has two open windows.               *)
Ambiguous(a) == \E n \in a.tracked : Cardinality(OpenOf(a.open, n)) > 1

GetLockAnyway(t) ==
  \E c \in {t} \X Conns : lock' = [conn |-> c, again |-> FALSE]

GetLock(t) ==
  \E c \in {t} \X Conns :
    /\ lock # Missing => lock.conn = c
    /\ lock' = [conn |-> c, again |-> lock # Missing]

ScanBegin(t) ==
  /\ Ready(t)
  /\ GetLock(t)
  /\ LET tracked == {n \in Nodes : node[n] # Missing
                         /\ node[n].state \in {"ACTIVE", "SYNCED", "DEGRADED"}}
         a == [Quiet EXCEPT !.job = "scan", !.tracked = tracked, !.open = windows,
                            !.late = {n \in tracked : silent[n] >= DegradedAfter}]
     IN Start(t, [a EXCEPT !.left = ToOpen(a),
                           !.pc = IF ToOpen(a) = {} THEN "commit" ELSE "find"])
  /\ UNCHANGED <<edgeVars, windows, issues, blind>>

(* The exception ends the scan at the node it meets, in whatever order the    *)
(* nodes come; RELEASE_LOCK is not reached.                                   *)
ScanFails(t) ==
  /\ alert[t].job = "scan" /\ alert[t].pc # "release" /\ Ambiguous(alert[t])
  /\ Silenced(t)
  /\ UNCHANGED <<edgeVars, windows, issues, lock, blind>>

(* The detector's windows of nodes that are heard again are closed, and those *)
(* of nodes that have fallen silent and have none are opened.                 *)
ScanCommit(t) ==
  /\ alert[t].job = "scan" /\ alert[t].pc = "commit" /\ ~Ambiguous(alert[t])
  /\ LET a == alert[t]
         closing == UNION {MissOf(a.open, n) : n \in a.tracked \ a.late}
     IN /\ \E number \in [ToOpen(a) -> Unused] :
             /\ \A m, n \in ToOpen(a) : number[m] = number[n] => m = n
             /\ windows' = [i \in Ids |->
                  IF \E n \in ToOpen(a) : number[n] = i
                  THEN LET n == CHOOSE x \in ToOpen(a) : number[x] = i
                       IN [node |-> n, kind |-> "miss", ticket |-> a.tickets[n]]
                  ELSE IF i \in closing THEN Missing ELSE windows[i]]
        /\ Close(closing, a.open)
  /\ Start(t, [Quiet EXCEPT !.job = "scan", !.pc = "release"])
  /\ UNCHANGED <<edgeVars, lock, blind>>

(* The commit has returned the connection to the pool: RELEASE_LOCK goes over *)
(* any of them, and does nothing on one that does not have the lock.          *)
ScanRelease(t) ==
  /\ alert[t].job = "scan" /\ alert[t].pc = "release"
  /\ \E c \in {t} \X Conns :
       lock' = IF lock = Missing \/ lock.conn # c THEN lock
               ELSE IF lock.again THEN [lock EXCEPT !.again = FALSE] ELSE Missing
  /\ Silenced(t)
  /\ UNCHANGED <<edgeVars, windows, issues, blind>>

-------------------------------------------------------------------------------
(* A statement fails and the transaction is rolled back, or the process is    *)
(* restarted, which closes its connections.                                   *)
Abort(t, restart) ==
  /\ ~Ready(t)
  /\ Request
  /\ End(t) /\ Silenced(t)
  /\ lock' = IF restart /\ lock # Missing /\ lock.conn[1] = t THEN Missing ELSE lock
  /\ UNCHANGED <<tenant, node, silent, windows, issues, blind>>

ScanStep(t) == ScanBegin(t) \/ ScanFails(t) \/ ScanCommit(t) \/ ScanRelease(t)

AlertStep(t) ==
  \/ FindIssue(t) \/ FindFails(t) \/ Append(t) \/ Create(t) \/ CreateFails(t)
  \/ TicketEnd(t) \/ ReportCommit(t)

NodeStep ==
  /\ \/ \E t \in Tasks : alert[t].job = "none" /\ (BeginRequest(t) \/ Commit(t))
     \/ \E d \in Domains : ForceSync(d)
     \/ \E n \in Nodes : Silence(n)
  /\ UNCHANGED outageVars

OutageNext ==
  \/ NodeStep
  \/ \E t \in Tasks : ScanStep(t) \/ AlertStep(t)
  \/ \E t \in Tasks, n \in Nodes : Hear(t, n) \/ Heard(t, n) \/ TicketBegin(t, n)
  \/ \E t \in Tasks, n \in Nodes, resolved \in BOOLEAN : ReportBegin(t, n, resolved)
  \/ \E t \in Tasks, restart \in BOOLEAN : Abort(t, restart)

OutageSpec == OutageInit /\ [][OutageNext]_vars

-------------------------------------------------------------------------------
(* What the edge tables promise: EdgeNodes and OutageWindows together.         *)

(* The rows and locals keep their types.                                      *)
TypeOK ==
  /\ tenant \in [Domains -> TenantRow \union {Missing}]
  /\ node \in [Nodes -> NodeRow \union {Missing}]
  /\ silent \in [Nodes -> 0 .. StaleAfter]
  /\ job \in [Tasks -> Job]
  /\ requests \in 0 .. MaxRequests
  /\ windows \in [Ids -> Window \union {Missing}]
  /\ issues \in [Nodes -> SUBSET Issues]
  /\ lock \in Lock
  /\ alert \in [Tasks -> Alert]
  /\ blind \in BOOLEAN

(* However scans, heartbeats, reports and restarts interleave, the detector   *)
(* never opens a second window of its own for a node: GET_LOCK keeps two      *)
(* scans apart until the first has committed.                                 *)
OneMissWindow == \A n \in Nodes : Cardinality(MissOf(windows, n)) <= 1

(* The search for an open ticket before filing one, as long as it is answered, *)
(* leaves a node with no more open tickets than tasks that can run at once:   *)
(* duplicates come from tasks between the two calls, and never pile up.       *)
TicketsBounded ==
  ~blind => \A n \in Nodes : Cardinality(issues[n]) <= Cardinality(Tasks)

(* Nothing but a licence action, a recovery by an administrator or a          *)
(* transaction that read the node before its revocation takes it out of       *)
(* REVOKED: heartbeats and registrations that see a revoked node leave it so. *)
RevokedReturns ==
  [][\A n \in Nodes :
       node[n] # Missing /\ node[n].state = "REVOKED" /\ node'[n].state # "REVOKED" =>
         \E t \in Tasks :
           /\ job[t].op # "none" /\ job'[t].op = "none"
           /\ \/ job[t].op \in LicenceOps \union {"recover", "remove"}
              \/ job[t].rows[n] # Missing /\ job[t].rows[n].state # "REVOKED"]_vars
===============================================================================
