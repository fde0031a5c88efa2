------------------------------ MODULE ThreatPool -------------------------------
(* The community threat pool (table threat_reports) and the blacklisting it     *)
(* drives: reports of edge nodes, the promotion of addresses several tenants    *)
(* have reported, the start-up pass that applies what was promoted, and the     *)
(* recovery pass that takes promoted addresses off again.                       *)
EXTENDS Firewall

CONSTANTS
  Tenants,
  Spellings,   \* addresses as plugins write them
  Canonical    \* spelling -> address: what ipaddress makes of it

ASSUME PoolAssumption ==
  /\ Canonical \in [Spellings -> Addresses]
  /\ Addresses \subseteq Spellings /\ \A ip \in Addresses : Canonical[ip] = ip
  /\ \A s \in Spellings : Canonical[s] \in V4 => Canonical[s] = s
  /\ IsFiniteSet(Tenants) /\ Tenants # {}

VARIABLES
  score,     \* (spelling, tenant) -> threat_score of its row, 0 if there is none
  report     \* worker -> the report it stores, with what its transaction has read

poolVars == <<score, report>>
meshVars == <<firewallVars, poolVars>>

PromoteAt == 65
DemoteBelowPro == 70
DemoteBelow == 50

Scores == {40, 65, 80, 88, 95}
ScoreOf(tenants) ==
  CASE tenants = 2 -> 65 [] tenants = 3 -> 80 [] tenants = 4 -> 88
    [] tenants >= 5 -> 95 [] OTHER -> 40

Report == [ip : Spellings, tenant : Tenants, others : 0 .. Cardinality(Tenants),
           had : Scores \union {0}] \union {Missing}

BestScore(s) == Max({score[<<s, t>>] : t \in Tenants})

PoolInit ==
  /\ FirewallInit
  /\ score = [st \in Spellings \X Tenants |-> 0]
  /\ report = [w \in Workers |-> Missing]

ReportersOf(s, t) == {u \in Tenants \ {t} : score[<<s, u>>] # 0}

(* POST /edge/event and /edge/report/attack: report_edge_event.  Its row and   *)
(* the number of tenants come from one snapshot (REPEATABLE READ).           *)
ReportBegin(w, s, t) ==
  /\ Available(w)
  /\ Call
  /\ report' = [report EXCEPT ![w] =
       [ip |-> s, tenant |-> t, others |-> Cardinality(ReportersOf(s, t)),
        had |-> score[<<s, t>>]]]
  /\ Go(w, "report")
  /\ UNCHANGED <<rows, live, bootFile, recs, score>>

(* Slip of PairTaken: no unique key, the later insert stands.                *)
PairNeverTaken(r) == FALSE

(* A second first report of the pair violates its unique key.                *)
PairTaken(r) == r.had = 0 /\ score[<<r.ip, r.tenant>>] # 0

(* The unit of work writes the score only if it differs from the one read.   *)
Written(r) ==
  [score EXCEPT ![<<r.ip, r.tenant>>] = IF ScoreOf(r.others + 1) = r.had THEN @ ELSE ScoreOf(r.others + 1)]

(* A score that calls for it starts the promotion, in a task of its own.     *)
ReportCommit(w) ==
  /\ work[w].step = "report"
  /\ LET r == report[w]
     IN IF PairTaken(r) THEN UNCHANGED score /\ Stop(w)
        ELSE /\ score' = Written(r)
             /\ IF ScoreOf(r.others + 1) >= PromoteAt
                THEN Set(w, [Free EXCEPT !.step = "promote", !.left = {Canonical[r.ip]}])
                ELSE Stop(w)
  /\ report' = [report EXCEPT ![w] = Missing]
  /\ UNCHANGED <<rows, live, bootFile, recs, calls>>

(* _auto_promote_to_blacklist: a whitelisted address is refused, one that has *)
(* a row is applied again, and two rows of it make the query raise.          *)
Promote(w) ==
  /\ work[w].step = "promote"
  /\ \E ip \in work[w].left :
       LET blacklisted == {i \in RowIds : rows[i] # Missing
                             /\ rows[i].ip = ip /\ rows[i].list = "blacklist"}
           rest == [work[w] EXCEPT !.left = @ \ {ip}]
           row == [ip |-> ip, list |-> "blacklist", by |-> "system"]
       IN IF ip \in Listed("whitelist") THEN Set(w, rest)
          ELSE \/ Cardinality(blacklisted) > 1 /\ Set(w, [work[w] EXCEPT !.left = {}])
               \/ Cardinality(blacklisted) = 1 /\ Set(w, [rest EXCEPT !.step = "apply", !.row = row])
               \/ blacklisted = {} /\ Set(w, [rest EXCEPT !.step = "insert", !.row = row])
  /\ UNCHANGED <<rows, live, bootFile, recs, calls, poolVars>>

Promoted(w) ==
  /\ work[w].step = "promote" /\ work[w].left = {}
  /\ IF work[w].then = "push" THEN Set(w, [Free EXCEPT !.step = "push"]) ELSE Stop(w)
  /\ UNCHANGED <<rows, live, bootFile, recs, calls, poolVars>>

(* sync_community_ips_to_nft, when the process starts.  The addresses to      *)
(* backfill are compared with the table as they are spelled.                 *)
SyncBegin(w) ==
  /\ Available(w)
  /\ Call
  /\ LET found == {s \in Spellings : BestScore(s) >= PromoteAt} \ Listed("blacklist")
     IN Set(w, [Free EXCEPT !.step = "promote", !.then = "push",
                            !.left = {Canonical[s] : s \in found}])
  /\ UNCHANGED <<rows, live, bootFile, recs, poolVars>>

(* Every address the table lists is added again, each command on its own.    *)
SyncPush(w) ==
  /\ work[w].step = "push"
  /\ \E done \in SUBSET (Listed("blacklist") \intersect V4) :
       live' = [live EXCEPT !.blacklist = @ \union done]
  /\ Stop(w)
  /\ UNCHANGED <<rows, bootFile, recs, calls, poolVars>>

(* _demote_stale_ips, in the snapshot of the recovery pass: the rows the mesh *)
(* made whose address, as spelled there, has no report that warrants them.    *)
Stale(i) ==
  /\ rows[i] # Missing
  /\ rows[i].list = "blacklist" /\ rows[i].by = "system"
  /\ BestScore(rows[i].ip) < DemoteBelow

(* The kernel's set first, the row when the pass commits.                    *)
DemoteBegin(w, i) ==
  /\ Available(w) /\ Stale(i)
  /\ Call
  /\ live' \in {live, [live EXCEPT !.blacklist = @ \ {rows[i].ip}]}
  /\ Set(w, [Free EXCEPT !.step = "demote", !.id = i])
  /\ UNCHANGED <<rows, bootFile, recs, poolVars>>

DemoteCommit(w) ==
  /\ work[w].step = "demote"
  /\ rows' = [rows EXCEPT ![work[w].id] = Missing]
  /\ Stop(w)
  /\ UNCHANGED <<live, bootFile, recs, calls, poolVars>>

(* The transaction fails or the process is restarted: what the kernel and     *)
(* the file were told stays.                                                 *)
Interrupt(w) ==
  /\ ~Available(w)
  /\ Call
  /\ Stop(w)
  /\ report' = [report EXCEPT ![w] = Missing]
  /\ UNCHANGED <<rows, live, bootFile, recs, score>>

PoolStep(w) ==
  \/ \E s \in Spellings, t \in Tenants : ReportBegin(w, s, t)
  \/ \E i \in RowIds : DemoteBegin(w, i)
  \/ ReportCommit(w) \/ Promote(w) \/ Promoted(w) \/ SyncBegin(w) \/ SyncPush(w) \/ DemoteCommit(w)

MeshNext ==
  \/ FirewallNext /\ UNCHANGED poolVars
  \/ \E w \in Workers : PoolStep(w) \/ Interrupt(w)

MeshSpec == PoolInit /\ [][MeshNext]_meshVars

-------------------------------------------------------------------------------
(* What the threat pool and the firewall's lists promise together.             *)

(* The tables, the kernel's sets and the locals keep their types.             *)
MeshTypeOK ==
  /\ rows \in [RowIds -> Row \union {Missing}]
  /\ live.whitelist \subseteq V4 /\ live.temp_ban \subseteq V4
  /\ live.blacklist \subseteq V4 \union {Net}
  /\ bootFile \in [Lists -> SUBSET Addresses]
  /\ recs \in [RecIds -> Rec \union {Missing}]
  /\ work \in [Workers -> Work]
  /\ calls \in 0 .. MaxCalls
  /\ score \in [Spellings \X Tenants -> Scores \union {0}]
  /\ report \in [Workers -> Report]

(* A score never falls below what promotes the address, and falls at all only *)
(* where two reports of one tenant overlap: one counted fewer tenants than the *)
(* other, whose score it had not read and writes over.                       *)
ScoresHold ==
  [][\A st \in Spellings \X Tenants :
       score'[st] < score[st] =>
         /\ score'[st] >= PromoteAt
         /\ \E w \in Workers : /\ work[w].step = "report" /\ work'[w].step # "report"
                               /\ <<report[w].ip, report[w].tenant>> = st
                               /\ report[w].had # score[st]]_meshVars

(* What the mesh blacklisted on the word of two tenants stays: the recovery   *)
(* pass only ever takes off addresses plugins spell otherwise than the table, *)
(* which it finds no report of.                                              *)
OnlyMisspeltDemoted ==
  \A w \in Workers :
    (work[w].step = "demote" /\ rows[work[w].id] # Missing)
      => \E s \in Spellings : s # rows[work[w].id].ip /\ Canonical[s] = rows[work[w].id].ip
                              /\ BestScore(s) >= PromoteAt
===============================================================================
