--------------------------- MODULE MCReconciliation ---------------------------
(* Model values, reports and payloads for checking Reconciliation. *)
EXTENDS Reconciliation

CONSTANTS pro, free

(* past_due is reachable from active, suspended only from past_due. *)
MCReports ==
  {[status |-> "active", plan |-> pro],
   [status |-> "unpaid", plan |-> pro],
   [status |-> "suspended", plan |-> free]}

(* An edge that is stale and disagrees with every other source. *)
MCEdges == {[status |-> "expired", plan |-> free, stale |-> TRUE]}
=============================================================================
