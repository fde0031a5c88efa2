-------------------------- MODULE StagedProperties --------------------------
(***************************************************************************)
(* What StagedContracts should guarantee.  As in the billing store, most   *)
(* promises need one task at a time, for the rows and the key are written  *)
(* by tenant and not by contract.                                          *)
(***************************************************************************)
EXTENDS StagedContracts

(* What was recorded of contract c; a second record is no verdict at all. *)
RecordsOf(c) == {i \in DOMAIN outcomes : outcomes[i].contract = c}

OutcomeOf(c) ==
  CASE RecordsOf(c) = {} -> "none"
    [] \E i \in DOMAIN outcomes : RecordsOf(c) = {i} ->
         outcomes[CHOOSE i \in RecordsOf(c) : TRUE].verdict
    [] OTHER -> "repeated"

Slot == INSTANCE StagedSlot WITH
          live    <- IF Active THEN row.contract ELSE 0,
          newest  <- row.contract,
          outcome <- [c \in Contracts |-> OutcomeOf(c)]

AllIdle == \A w \in Workers : task[w].pc = "idle"

-----------------------------------------------------------------------------
(* Whatever runs concurrently and whatever fails. *)

(* Rule 4: a contract that had expired before a billing event came in is    *)
(* not resolved by it, although the Redis key may outlive the contract by a *)
(* minute (the TTL is at least 60 s) and the row for ever (nothing calls    *)
(* expire_stale_contracts).                                                 *)
ExpiredNotResolved ==
  \A w \in Workers : task[w].pc = "outcome" => task[w].found \notin task[w].late

(* A contract that a race or a failure left behind in Redis, even one that  *)
(* was resolved, goes away: once no new contract is generated the readers   *)
(* that copy the row back into Redis stop doing so.                         *)
NothingStaysStaged == <>[](key = 0)

-----------------------------------------------------------------------------
(* While one task at a time handles the tenant and nothing fails. *)

(* Rule 2: one contract at a time is live, a replaced one never returns,    *)
(* and each is resolved at most once, by an event that came while it was    *)
(* live.                                                                    *)
ImplementsSlot == Slot!SlotSpec

(* Redis first, then the row: both name the same contract, so a reader that *)
(* falls back to the row gets what the key held.                            *)
OneStagedContract ==
  AllIdle /\ key \notin {0} \cup expired => Active /\ row.contract = key

(* confirmation_listener.py:59, "Only act on contracts that haven't already *)
(* been resolved": a resolved contract leaves the key and the active row    *)
(* for good, whichever way it was settled.                                  *)
ResolvedIsGone ==
  \A c \in Contracts :
    OutcomeOf(c) # "none" ~> [](key # c /\ ~(Active /\ row.contract = c))
=============================================================================
