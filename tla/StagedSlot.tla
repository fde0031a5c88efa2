----------------------------- MODULE StagedSlot -----------------------------
(***************************************************************************)
(* What the predictive sync of one tenant promises (Rule 2 of              *)
(* mc2/predictive_sync/staged_contract_dispatcher.py): a slot holds at     *)
(* most one staged contract, a newer contract replaces the older one for   *)
(* good, and the contract in the slot is resolved at most once.            *)
(***************************************************************************)
EXTENDS Naturals

CONSTANT Contracts  \* identifiers, in the order in which they were generated

VARIABLES
  live,     \* the contract in the slot, 0 for none
  newest,   \* the newest contract that was ever in the slot
  outcome   \* what was recorded of each contract

SlotInit ==
  live = 0 /\ newest = 0 /\ outcome = [c \in Contracts |-> "none"]

Stage(c) ==
  /\ c > newest
  /\ live' = c /\ newest' = c
  /\ UNCHANGED outcome

Resolve(verdict) ==
  /\ live # 0 /\ outcome[live] = "none"
  /\ outcome' = [outcome EXCEPT ![live] = verdict]
  /\ UNCHANGED <<live, newest>>

Vacate == live' = 0 /\ UNCHANGED <<newest, outcome>>

SlotNext ==
  \/ \E c \in Contracts : Stage(c)
  \/ \E verdict \in {"correct", "incorrect"} : Resolve(verdict)
  \/ Vacate

SlotSpec == SlotInit /\ [][SlotNext]_<<live, newest, outcome>>
=============================================================================
