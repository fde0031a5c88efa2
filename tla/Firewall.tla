------------------------------- MODULE Firewall --------------------------------
(* The operator's IP list (table frothiq_ip_list), the nftables sets it is      *)
(* applied to, the boot file that restores those sets, the recommendations to   *)
(* merge addresses into a network, and the loop that bans abusers for an hour.  *)
(*                                                                              *)
(* The kernel sets and the file are outside of the database: a request changes  *)
(* them with commands that may fail, before or after its transaction.           *)
EXTENDS Naturals, FiniteSets, FiniteSetsExt

CONSTANTS
  Workers,     \* requests and loops in progress at once
  Addresses,   \* addresses in canonical spelling
  V4,          \* those of IPv4, all within one /24
  Net,         \* that /24
  Threshold24, \* addresses of a /24 that call for its recommendation (5 in the code)
  RowIds,      \* numbers of rows of frothiq_ip_list (bound)
  RecIds,      \* numbers of recommendations (bound)
  MaxCalls,    \* bound on requests and restarts
  Missing

ASSUME FirewallAssumption ==
  /\ V4 \subseteq Addresses /\ Net \notin Addresses
  /\ RowIds \subseteq Nat /\ RecIds \subseteq Nat
  /\ Threshold24 \in Nat \ {0} /\ MaxCalls \in Nat

VARIABLES
  rows,      \* id -> row of frothiq_ip_list
  live,      \* the kernel's sets
  bootFile,  \* the elements NFT_PERSIST_FILE lists for two of them
  recs,      \* id -> recommendation
  work,      \* what each worker is doing, with what it has read
  calls      \* requests and restarts so far

firewallVars == <<rows, live, bootFile, recs, work, calls>>

Lists == {"whitelist", "blacklist"}
Row == [ip : Addresses, list : Lists, by : {"system", "admin"}]
Rec == [status : {"pending", "applied", "dismissed"}, covered : SUBSET V4]

Listed(list) == {rows[i].ip : i \in {j \in RowIds : rows[j] # Missing /\ rows[j].list = list}}

(* row, id: the row to write or delete; left: addresses still to be handled;  *)
(* files: the contents a file sync has built; then: what follows.            *)
Steps == {"none", "insert", "apply", "read", "rename", "erase",           \* list
          "scan", "merge", "forget", "dismiss",                           \* CIDR
          "banned", "white", "ban",                                       \* enforcement
          "report", "promote", "push", "demote"}              \* threat pool
Work == [step : Steps, then : {"none", "push"}, row : Row \union {Missing},
         id : RowIds \union RecIds \union {Missing},
         left : SUBSET Addresses, files : [Lists -> SUBSET Addresses]]

NoFiles == [l \in Lists |-> {}]
Free == [step |-> "none", then |-> "none", row |-> Missing, id |-> Missing, left |-> {},
         files |-> NoFiles]

FirewallInit ==
  /\ rows = [i \in RowIds |-> Missing]
  /\ live = [whitelist |-> {}, blacklist |-> {}, temp_ban |-> {}]
  /\ bootFile = NoFiles
  /\ recs = [i \in RecIds |-> Missing]
  /\ work = [w \in Workers |-> Free]
  /\ calls = 0

Call == calls < MaxCalls /\ calls' = calls + 1
Available(w) == work[w].step = "none"
Set(w, new) == work' = [work EXCEPT ![w] = new]
Go(w, step) == Set(w, [work[w] EXCEPT !.step = step])
Stop(w) == Set(w, Free)

(* Numbers that no row has and no worker holds.                              *)
UnusedIds == {i \in RowIds : rows[i] = Missing /\ \A w \in Workers : work[w].id # i}

-------------------------------------------------------------------------------
(* POST /ip-list.  An address on the whitelist is not blacklisted; a          *)
(* whitelisting overrides a blacklisting, both rows stay.                    *)

AddEntry(w, ip, list) ==
  /\ Available(w)
  /\ list = "blacklist" => ip \notin Listed("whitelist")
  /\ Call
  /\ Set(w, [Free EXCEPT !.step = "insert",
                         !.row = [ip |-> ip, list |-> list, by |-> "admin"]])
  /\ UNCHANGED <<rows, live, bootFile, recs>>

(* The table has no unique key on the address.                               *)
InsertRow(w) ==
  /\ work[w].step = "insert" /\ UnusedIds # {}
  /\ rows' = [rows EXCEPT ![Min(UnusedIds)] = work[w].row]
  /\ Go(w, "apply")
  /\ UNCHANGED <<live, bootFile, recs, calls>>

(* nft add element, whose sets hold IPv4 only; a failure is logged.          *)
ApplyRow(w) ==
  /\ work[w].step = "apply"
  /\ LET row == work[w].row
     IN \/ row.ip \in V4 /\ live' = [live EXCEPT ![row.list] = @ \union {row.ip}]
        \/ UNCHANGED live
  /\ Go(w, IF work[w].row.by = "admin" THEN "read" ELSE "promote")
  /\ UNCHANGED <<rows, bootFile, recs, calls>>

(* _sync_nft_file, first half: the new contents are made from the table.  A   *)
(* set the table has no address for keeps the elements the file has.         *)
ReadRows(w) ==
  /\ work[w].step = "read"
  /\ Set(w, [Free EXCEPT !.step = "rename",
       !.files = [l \in Lists |-> IF Listed(l) = {} THEN bootFile[l] ELSE Listed(l)]])
  /\ UNCHANGED <<rows, live, bootFile, recs, calls>>

(* Second half: nft -c accepts the temporary file and it replaces the other,  *)
(* or the file is left alone.                                                *)
RenameFile(w) ==
  /\ work[w].step = "rename"
  /\ bootFile' \in {bootFile, work[w].files}
  /\ Stop(w)
  /\ UNCHANGED <<rows, live, recs, calls>>

(* DELETE /ip-list/{id}: the kernel first, then the row, then the file.       *)
RemoveEntry(w, i) ==
  /\ Available(w) /\ rows[i] # Missing
  /\ Call
  /\ live' \in {live, [live EXCEPT ![rows[i].list] = @ \ {rows[i].ip}]}
  /\ Set(w, [Free EXCEPT !.step = "erase", !.id = i])
  /\ UNCHANGED <<rows, bootFile, recs>>

EraseRow(w) ==
  /\ work[w].step = "erase"
  /\ rows' = [rows EXCEPT ![work[w].id] = Missing]
  /\ Set(w, [Free EXCEPT !.step = "read"])
  /\ UNCHANGED <<live, bootFile, recs, calls>>

(* DELETE /nft-element: the kernel set only.                                  *)
RemoveElement(ip, list) ==
  /\ Call
  /\ live' = [live EXCEPT ![list] = @ \ {ip}]
  /\ UNCHANGED <<rows, bootFile, recs, work>>

(* frothiq-nft.service loads the file again.                                 *)
RestartNft ==
  /\ Call
  /\ live' = [whitelist |-> bootFile["whitelist"] \intersect V4,
              blacklist |-> bootFile["blacklist"] \intersect V4, temp_ban |-> {}]
  /\ UNCHANGED <<rows, bootFile, recs, work>>

-------------------------------------------------------------------------------
(* cidr_analyzer.  The /16 pass and the order of recommendations are left     *)
(* out: one /24 is modelled.                                                 *)

Uncovered == IF Net \in live.blacklist THEN {} ELSE live.blacklist \intersect V4

Proposed == {i \in RecIds : recs[i] # Missing /\ recs[i].status \in {"pending", "applied"}}

ScanBegin(w) ==
  /\ Available(w) /\ Proposed = {}
  /\ Call
  /\ Go(w, "scan")
  /\ UNCHANGED <<rows, live, bootFile, recs>>

(* The sets are read after the recommendations; a commit makes it pending.    *)
ScanEnd(w) ==
  /\ work[w].step = "scan"
  /\ LET new == {i \in RecIds : recs[i] = Missing}
     IN IF Cardinality(Uncovered) >= Threshold24 /\ new # {}
        THEN recs' = [recs EXCEPT ![Min(new)] = [status |-> "pending", covered |-> Uncovered]]
        ELSE UNCHANGED recs
  /\ Stop(w)
  /\ UNCHANGED <<rows, live, bootFile, calls>>

(* POST .../apply.  nft adds the network; or refuses because it overlaps what *)
(* the set holds, which is taken for a success; or fails, which ends it.      *)
ApplyRec(w, i) ==
  /\ Available(w) /\ recs[i] # Missing /\ recs[i].status = "pending"
  /\ Call
  /\ \/ /\ live' = [live EXCEPT !.blacklist = @ \union {Net}]
        /\ Set(w, [Free EXCEPT !.step = "merge", !.id = i])
     \/ /\ live.blacklist \intersect (recs[i].covered \union {Net}) # {}
        /\ Set(w, [Free EXCEPT !.step = "merge", !.id = i])
        /\ UNCHANGED live
     \/ UNCHANGED <<live, work>>
  /\ UNCHANGED <<rows, bootFile, recs>>

(* The addresses it covers leave the set, one command each.                  *)
MergeElements(w) ==
  /\ work[w].step = "merge"
  /\ \E gone \in SUBSET recs[work[w].id].covered :
       live' = [live EXCEPT !.blacklist = @ \ gone]
  /\ Go(w, "forget")
  /\ UNCHANGED <<rows, bootFile, recs, calls>>

(* Then their rows go, whoever made them, and it is marked applied, whatever  *)
(* its status is by now.  The boot file is not written.                      *)
ForgetRows(w) ==
  /\ work[w].step = "forget"
  /\ LET rec == work[w].id
         gone(i) == rows[i] # Missing /\ rows[i].list = "blacklist" /\ rows[i].ip \in recs[rec].covered
     IN /\ rows' = [i \in RowIds |-> IF gone(i) THEN Missing ELSE rows[i]]
        /\ recs' = [recs EXCEPT ![rec].status = "applied"]
  /\ Stop(w)
  /\ UNCHANGED <<live, bootFile, calls>>

DismissRec(w, i) ==
  /\ Available(w) /\ recs[i] # Missing /\ recs[i].status = "pending"
  /\ Call
  /\ Set(w, [Free EXCEPT !.step = "dismiss", !.id = i])
  /\ UNCHANGED <<rows, live, bootFile, recs>>

DismissEnd(w) ==
  /\ work[w].step = "dismiss"
  /\ recs' = [recs EXCEPT ![work[w].id].status = "dismissed"]
  /\ Stop(w)
  /\ UNCHANGED <<rows, live, bootFile, calls>>

-------------------------------------------------------------------------------
(* enforce_policies: an address whose traffic of the last five minutes breaks *)
(* a rule is banned, unless it is banned already or on the kernel's whitelist.*)

RateThreshold == 300
ErrorCountMin == 8

BreaksRule(traffic) ==
  \/ traffic.malicious \/ traffic.scanner
  \/ traffic.req >= RateThreshold
  \/ traffic.req >= ErrorCountMin /\ 100 * traffic.errors >= 65 * traffic.req

(* On either side of each threshold.                                         *)
Traffic == [malicious : BOOLEAN, scanner : BOOLEAN, req : {7, 8, 299, 300}, errors : {0, 5, 6}]

SweepBegin(w, ip) ==
  /\ Available(w) /\ ip \in V4
  /\ \E t \in Traffic : BreaksRule(t)
  /\ Call
  /\ Set(w, [Free EXCEPT !.step = "banned", !.left = {ip}])
  /\ UNCHANGED <<rows, live, bootFile, recs>>

Held(ip, set) == ip \in live[set] \/ (set = "blacklist" /\ ip \in V4 /\ Net \in live.blacklist)

SweepBanned(w) ==
  /\ work[w].step = "banned"
  /\ \E ip \in work[w].left :
       IF Held(ip, "blacklist") \/ Held(ip, "temp_ban") THEN Stop(w) ELSE Go(w, "white")
  /\ UNCHANGED <<rows, live, bootFile, recs, calls>>

(* A lookup that fails counts as not whitelisted.                            *)
SweepWhite(w) ==
  /\ work[w].step = "white"
  /\ \E ip \in work[w].left :
       \/ Held(ip, "whitelist") /\ Stop(w)
       \/ Go(w, "ban")
  /\ UNCHANGED <<rows, live, bootFile, recs, calls>>

SweepBan(w) ==
  /\ work[w].step = "ban"
  /\ live' \in {live, [live EXCEPT !.temp_ban = @ \union work[w].left]}
  /\ Stop(w)
  /\ UNCHANGED <<rows, bootFile, recs, calls>>

(* The hour is over.                                                         *)
BanExpires(ip) ==
  /\ ip \in live.temp_ban
  /\ live' = [live EXCEPT !.temp_ban = @ \ {ip}]
  /\ UNCHANGED <<rows, bootFile, recs, work, calls>>

-------------------------------------------------------------------------------
ListStep(w) ==
  \/ \E ip \in Addresses, list \in Lists : AddEntry(w, ip, list)
  \/ \E i \in RowIds : RemoveEntry(w, i)
  \/ InsertRow(w) \/ ApplyRow(w) \/ ReadRows(w) \/ RenameFile(w) \/ EraseRow(w)

RecStep(w) ==
  \/ ScanBegin(w) \/ ScanEnd(w) \/ MergeElements(w) \/ ForgetRows(w) \/ DismissEnd(w)
  \/ \E i \in RecIds : ApplyRec(w, i) \/ DismissRec(w, i)

SweepStep(w) ==
  \/ \E ip \in Addresses : SweepBegin(w, ip)
  \/ SweepBanned(w) \/ SweepWhite(w) \/ SweepBan(w)

FirewallNext ==
  \/ \E w \in Workers : ListStep(w) \/ RecStep(w) \/ SweepStep(w)
  \/ \E ip \in V4, list \in Lists : RemoveElement(ip, list)
  \/ \E ip \in V4 : BanExpires(ip)
  \/ RestartNft
===============================================================================
