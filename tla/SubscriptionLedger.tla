------------------------- MODULE SubscriptionLedger -------------------------
(***************************************************************************)
(* What the billing store of one tenant promises, without its layers: one  *)
(* entry, and every report of ERPNext applied to it whole and in turn by   *)
(* the subscription state machine.                                         *)
(***************************************************************************)
EXTENDS SubscriptionStates

CONSTANTS Plans, Free, Missing

VARIABLE entry

Entry == [status : States, plan : Plans, version : Nat]

LedgerInit == entry = Missing

(* A report: an unknown tenant counts as active at version 0. *)
Apply(proposed, plan) ==
  LET old == IF entry = Missing THEN [status |-> "active", version |-> 0] ELSE entry
      new == ApplyEvent(old.status, old.version, proposed)
  IN  entry' = [status |-> new.status, plan |-> plan, version |-> new.version]

(* Nothing is known and ERPNext does not answer: the free plan. *)
FallBack ==
  /\ entry = Missing
  /\ entry' = [status |-> "active", plan |-> Free, version |-> 0]

LedgerNext ==
  \/ \E proposed \in States, plan \in Plans : Apply(proposed, plan)
  \/ FallBack

LedgerSpec == LedgerInit /\ [][LedgerNext]_entry
=============================================================================
