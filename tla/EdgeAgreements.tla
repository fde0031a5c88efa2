----------------------------- MODULE EdgeAgreements ----------------------------
(* Rows of the edge plane that are looked for and inserted when missing, under a    *)
(* unique key: a feature flag, which every start of a process seeds and an operator *)
(* sets, and the agreements, their texts and who accepted them.  A transaction       *)
(* sees the rows as its first SELECT found them.                                  *)
EXTENDS FiniteSets

CONSTANTS
  Callers,      \* transactions in progress at once
  Versions,     \* versions of the agreement
  Known         \* those of the first release

ASSUME AgreementsAssumption == Known \subseteq Versions

VARIABLES
  flag,         \* the row: absent, or its value
  chosen,       \* the values operators have set
  published,    \* versions whose text this release has
  texts,        \* versions with a row in eula_versions
  accepted,     \* version -> hash of the row in edge_eula_records, or absent
  call          \* caller -> what it is doing and what its first SELECT found

agreementVars == <<flag, chosen, published, texts, accepted, call>>

Resting == [op |-> "none", version |-> "none", hash |-> "none", found |-> "none", hasText |-> FALSE]

AgreementsInit ==
  /\ flag = "absent" /\ chosen = {}
  /\ published = Known /\ texts = {}
  /\ accepted = [v \in Versions |-> "absent"]
  /\ call = [c \in Callers |-> Resting]

Begins(c, record) == call[c] = Resting /\ call' = [call EXCEPT ![c] = record]
CallEnds(c) == call' = [call EXCEPT ![c] = Resting]

-------------------------------------------------------------------------------
(* _seed_default_flags at the start of a process, and set_feature_flag.            *)
SeedBegin(c) ==
  /\ Begins(c, [Resting EXCEPT !.op = "seed", !.found = flag])
  /\ UNCHANGED <<flag, chosen, published, texts, accepted>>

SetBegin(c) ==
  /\ Begins(c, [Resting EXCEPT !.op = "set", !.found = flag])
  /\ UNCHANGED <<flag, chosen, published, texts, accepted>>

SeededAnyway(found, current) == "off"

(* Whoever found no row inserts one, and fails if there is one by now; who found    *)
(* one leaves it alone.                                                           *)
Seeded(found, current) == IF found = "absent" /\ current = "absent" THEN "off" ELSE current

SeedCommit(c) ==
  /\ call[c].op = "seed"
  /\ flag' = Seeded(call[c].found, flag)
  /\ CallEnds(c)
  /\ UNCHANGED <<chosen, published, texts, accepted>>

(* A value equal to the one that was found is no change, and not written.          *)
SetCommit(c) ==
  /\ call[c].op = "set"
  /\ IF call[c].found = "absent" /\ flag # "absent"
     THEN UNCHANGED <<flag, chosen>>
     ELSE \E value \in {"on", "off"} :
            /\ flag' = IF value = call[c].found THEN flag ELSE value
            /\ chosen' = chosen \union {value}
  /\ CallEnds(c)
  /\ UNCHANGED <<published, texts, accepted>>

-------------------------------------------------------------------------------
(* Slip of HasTextFor: a version without a text is stored as well.                        *)
HasAny(v) == TRUE
HasTextFor(v) == v \in published     \* _EULA_CANONICAL

(* get_eula_version stores the text the first time it is asked for.                *)
FetchBegin(c, v) ==
  /\ HasTextFor(v)
  /\ Begins(c, [op |-> "fetch", version |-> v, hash |-> "none", found |-> "none",
                hasText |-> v \in texts])
  /\ UNCHANGED <<flag, chosen, published, texts, accepted>>

FetchCommit(c) ==
  /\ call[c].op = "fetch"
  /\ texts' = texts \union {call[c].version}
  /\ CallEnds(c)
  /\ UNCHANGED <<flag, chosen, published, accepted>>

HashOfClient(v, hash) == hash

(* record_eula_acceptance: the hash of the text this release has for the version,  *)
(* and what the client says for a version it does not know.                       *)
HashToStore(v, hash) == IF v \in published THEN "canonical" ELSE hash

AcceptBegin(c, v, hash) ==
  /\ Begins(c, [op |-> IF v \in published THEN "accept" ELSE "accept_unknown", version |-> v,
                hash |-> HashToStore(v, hash), found |-> accepted[v], hasText |-> v \in texts])
  /\ UNCHANGED <<flag, chosen, published, texts, accepted>>

(* One commit for text and record: the failure of either insert undoes both.       *)
AcceptCommit(c) ==
  LET record == call[c] known == record.op = "accept"
      collides == \/ known /\ ~record.hasText /\ record.version \in texts
                  \/ record.found = "absent" /\ accepted[record.version] # "absent"
  IN /\ record.op \in {"accept", "accept_unknown"}
     /\ IF collides
        THEN UNCHANGED <<texts, accepted>>
        ELSE /\ texts' = IF known THEN texts \union {record.version} ELSE texts
             /\ accepted' = IF record.found = "absent"
                            THEN [accepted EXCEPT ![record.version] = record.hash] ELSE accepted
     /\ CallEnds(c)
     /\ UNCHANGED <<flag, chosen, published>>

(* A newer release; the requests of the old one end first.                         *)
Released(v) ==
  /\ v \notin published /\ \A c \in Callers : call[c] = Resting
  /\ published' = published \union {v}
  /\ UNCHANGED <<flag, chosen, texts, accepted, call>>

AgreementsNext ==
  \/ \E c \in Callers :
       \/ SeedBegin(c) \/ SeedCommit(c) \/ SetBegin(c) \/ SetCommit(c)
       \/ FetchCommit(c) \/ AcceptCommit(c)
       \/ \E v \in Versions : FetchBegin(c, v) \/ \E hash \in {"canonical", "other"} : AcceptBegin(c, v, hash)
  \/ \E v \in Versions : Released(v)

AgreementsSpec == AgreementsInit /\ [][AgreementsNext]_agreementVars

-------------------------------------------------------------------------------
Hashes == {"canonical", "other"}
AgreementsTypeOK ==
  /\ flag \in {"absent", "on", "off"} /\ chosen \subseteq {"on", "off"}
  /\ Known \subseteq published /\ published \subseteq Versions /\ texts \subseteq published
  /\ accepted \in [Versions -> Hashes \union {"absent"}]
  /\ \A c \in Callers : call[c].op \in {"none", "seed", "set", "fetch", "accept", "accept_unknown"}

(* What operators chose for a flag stands: no start of a process seeds over it,     *)
(* however it overlaps with them.                                                 *)
ChoiceStands == chosen # {} => flag \in chosen

(* An acceptance of a version that was known from the start proves its text: the    *)
(* text is stored, and the hash is that of the text and not of what was shown.      *)
AcceptanceProvesText ==
  \A v \in Known : accepted[v] # "absent" => accepted[v] = "canonical" /\ v \in texts
===============================================================================
