------------------------- MODULE SubscriptionStates -------------------------
(***************************************************************************)
(* The subscription state machine of mc2/billing/                          *)
(* subscription_state_machine.py: pure operators, no variables.            *)
(*                                                                         *)
(* A tenant's subscription is in one of six states.  ERPNext proposes a    *)
(* state with every report (webhook or pull); the machine accepts it when  *)
(* the transition is listed, or when nothing changes, and then counts the  *)
(* report in the version.                                                  *)
(***************************************************************************)
EXTENDS Naturals

States == {"trial", "active", "past_due", "suspended", "canceled", "expired"}

(* The status words ERPNext uses besides the names of States.              *)
(* "unrecognised" stands for every other word, and for no word at all.     *)
ErpWords == {"trialling", "past due date", "unpaid", "cancelled", "unrecognised"}

RawStatuses == States \cup ErpWords

(* _ALLOWED_TRANSITIONS *)
AllowedTransitions ==
  [s \in States |->
     CASE s = "trial"     -> {"active", "canceled", "expired"}
       [] s = "active"    -> {"past_due", "canceled", "expired"}
       [] s = "past_due"  -> {"active", "suspended", "canceled", "expired"}
       [] s = "suspended" -> {"active", "canceled", "expired"}
       [] s = "canceled"  -> {"active"}
       [] s = "expired"   -> {"active"}]

(* validate_transition(...).accepted: staying put is accepted as a no-op. *)
Accepted(current, proposed) ==
  \/ proposed = current
  \/ proposed \in AllowedTransitions[current]

(* Slip of ApplyEvent: an accepted no-op is not counted. *)
ApplyEventUncounted(current, version, proposed) ==
  IF proposed \in AllowedTransitions[current]
  THEN [status |-> proposed, version |-> version + 1]
  ELSE [status |-> current, version |-> version]

(* apply_event: the state and the version after a report; a rejected report *)
(* leaves both alone, an accepted no-op still counts.                       *)
ApplyEvent(current, version, proposed) ==
  IF Accepted(current, proposed)
  THEN [status |-> proposed, version |-> version + 1]
  ELSE [status |-> current, version |-> version]

(* Slip of ErpStatusToState: the underscore of past_due is not normalised. *)
ErpStatusToStateLosingPastDue(raw) ==
  CASE raw \in States \ {"past_due"}       -> raw
    [] raw = "trialling"                 -> "trial"
    [] raw \in {"past due date", "unpaid"} -> "past_due"
    [] raw = "cancelled"                 -> "canceled"
    [] OTHER                             -> "active"

(* erpnext_status_to_state: what is not a known word counts as active. *)
ErpStatusToState(raw) ==
  CASE raw \in States                    -> raw
    [] raw = "trialling"                 -> "trial"
    [] raw \in {"past due date", "unpaid"} -> "past_due"
    [] raw = "cancelled"                 -> "canceled"
    [] OTHER                             -> "active"
=============================================================================
