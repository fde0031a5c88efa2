------------------------------ MODULE MCBilling ------------------------------
(* Model values and reports for checking BillingSync. *)
EXTENDS BillingProperties, TLC

CONSTANTS pro, free

(* Workers are interchangeable. *)
MCSymmetry == Permutations(Workers)

(* Three reports: past_due is reachable, suspended only from past_due. *)
MCReports ==
  {[status |-> "active", plan |-> pro],
   [status |-> "unpaid", plan |-> pro],
   [status |-> "suspended", plan |-> free]}

(* Two reports, one of which the store will never accept as it stands. *)
MCTrialReports ==
  {[status |-> "trialling", plan |-> pro],
   [status |-> "cancelled", plan |-> free]}
=============================================================================
