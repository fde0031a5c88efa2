-------------------------------- MODULE EdgeFeed -------------------------------
(* What an edge node is told to block: the firewall's own blacklist, the community *)
(* pool above the score of its plan and the feed of frothiq-core, less what an     *)
(* operator has whitelisted.  The four are read one after the other while they      *)
(* change.  With it, the attack reports that feed the pool.                       *)
(* Two more parts are about what other sites are told: the envelopes an operator    *)
(* pushes by hand, and the reference data that consumers keep a copy of.           *)
EXTENDS Naturals, FiniteSets

CONSTANTS
  FeedAddresses,
  MaxTenants,    \* sites that may report one address (bound)
  Pushers,       \* requests to distribute an envelope
  Envelopes,
  Writers,       \* transactions that write reference data
  RecordKeys,    \* of the records of a dataset
  MaxBumps       \* the bound on the version of the dataset

ASSUME FeedAssumption == MaxTenants \in Nat /\ MaxBumps \in Nat \ {0}

VARIABLES
  edgeNode,     \* [state, plan]: the row of the node that asks
  blacklist,    \* the nftables set
  reporters,    \* address -> how many sites have reported it to the pool
  coreFeed,     \* address -> the lowest score under which frothiq-core lists it
  whitelist,    \* frothiq_ip_list
  pull,         \* the request in progress, or the last one
  incident,     \* an attack report is stored and not yet in the pool: its address
  reports,      \* addresses with a row in attack_reports
  queue,        \* envelopes pending at frothiq-core
  received,     \* envelopes a site has got
  acked,        \* envelopes frothiq-core was told to drop
  pusher,       \* request -> where it is, with which envelope
  dataset,      \* [active, version], version 0 while there is no row
  entries,      \* record key -> [stored, text, active]
  stamps,       \* version -> how many commits gave it to the dataset
  writer,       \* writer -> the transaction in progress
  apiKey,       \* the key of the consumer: "none", "active", "elsewhere", "revoked"
  consumer      \* the copy a consumer keeps: its ETag and the records

feedVars == <<edgeNode, blacklist, reporters, coreFeed, whitelist, pull, incident, reports>>
sources == <<blacklist, reporters, coreFeed, whitelist>>

Idle == [at |-> "idle", plan |-> "free", ips |-> {}, spared |-> {}]

FeedInit ==
  /\ edgeNode \in [state : {"ACTIVE"}, plan : {"free", "pro"}]
  /\ blacklist = {} /\ whitelist = {}
  /\ reporters = [a \in FeedAddresses |-> 0] /\ coreFeed = [a \in FeedAddresses |-> 0]
  /\ pull = Idle /\ incident = {} /\ reports = {}

-------------------------------------------------------------------------------
ScoreFor(sites) ==
  CASE sites = 0 -> 0 [] sites = 1 -> 40 [] sites = 2 -> 65 [] sites = 3 -> 80
    [] sites = 4 -> 88 [] OTHER -> 95

(* The free plan gets what enterprise gets while plans are not enforced.          *)
Threshold(plan) == IF plan = "pro" THEN 70 ELSE 50

Advances(at, ips) == pull' = [pull EXCEPT !.at = at, !.ips = @ \union ips]

GetNode ==
  /\ pull.at = "idle"
  /\ edgeNode.state # "REMOVED"
  /\ pull' = [at |-> "nft", plan |-> edgeNode.plan, ips |-> {}, spared |-> whitelist]
  /\ UNCHANGED <<edgeNode, sources, incident, reports>>

(* Each source that cannot be read counts as empty.                               *)
ReadNft ==
  /\ pull.at = "nft"
  /\ \E ips \in {blacklist, {}} : Advances("pool", ips)
  /\ UNCHANGED <<edgeNode, sources, incident, reports>>

(* With "since" the rows not seen lately are left out.                            *)
ReadPool ==
  LET eligible == {a \in FeedAddresses : ScoreFor(reporters[a]) >= Threshold(pull.plan)} IN
  /\ pull.at = "pool"
  /\ \E ips \in SUBSET eligible : Advances("core", ips)
  /\ UNCHANGED <<edgeNode, sources, incident, reports>>

ReadCore ==
  LET eligible == {a \in FeedAddresses : coreFeed[a] >= Threshold(pull.plan)} IN
  /\ pull.at = "core"
  /\ \E ips \in {eligible, {}} : Advances("whitelist", ips)
  /\ UNCHANGED <<edgeNode, sources, incident, reports>>

DeliveredFirst(ips, white) == ips
Delivered(ips, white) == ips \ white

(* A whitelist that cannot be read spares nobody.                                 *)
ReadWhitelist ==
  /\ pull.at = "whitelist"
  /\ \/ pull' = [pull EXCEPT !.at = "answered", !.ips = Delivered(@, whitelist)]
     \/ pull' = [pull EXCEPT !.at = "answered", !.spared = {}]
  /\ UNCHANGED <<edgeNode, sources, incident, reports>>

NextPull ==
  /\ pull.at = "answered"
  /\ pull' = Idle
  /\ UNCHANGED <<edgeNode, sources, incident, reports>>

-------------------------------------------------------------------------------
(* store_attack_report commits the report, then reports the address as a threat.   *)
StoreAttackReport(a) ==
  /\ incident = {}
  /\ reports' = reports \union {a} /\ incident' = {a}
  /\ UNCHANGED <<edgeNode, sources, pull>>

(* The event of another site raises the score, one of the same site does not; the   *)
(* process may end first.                                                        *)
FeedThreat ==
  /\ incident # {}
  /\ \/ UNCHANGED reporters
     \/ \E a \in incident : /\ reporters[a] < MaxTenants
                            /\ reporters' = [reporters EXCEPT ![a] = @ + 1]
  /\ incident' = {}
  /\ UNCHANGED <<edgeNode, blacklist, coreFeed, whitelist, pull, reports>>

(* Operators, the firewall's own rules and frothiq-core.                           *)
SourceChanges ==
  /\ \/ \E a \in FeedAddresses :
          \/ a \notin blacklist /\ blacklist' = blacklist \union {a} /\ UNCHANGED <<coreFeed, whitelist, pull>>
          \/ a \notin whitelist /\ whitelist' = whitelist \union {a} /\ UNCHANGED <<blacklist, coreFeed, pull>>
          \/ /\ a \in whitelist /\ whitelist' = whitelist \ {a}
             /\ pull' = [pull EXCEPT !.spared = @ \ {a}]
             /\ UNCHANGED <<blacklist, coreFeed>>
          \/ /\ \E score \in {50, 70} : coreFeed' = [coreFeed EXCEPT ![a] = score]
             /\ UNCHANGED <<blacklist, whitelist, pull>>
  /\ UNCHANGED <<edgeNode, reporters, incident, reports>>

NodeRemoved ==
  /\ edgeNode' = [edgeNode EXCEPT !.state = "REMOVED"]
  /\ UNCHANGED <<sources, pull, incident, reports>>

FeedNext ==
  \/ GetNode \/ ReadNft \/ ReadPool \/ ReadCore \/ ReadWhitelist \/ NextPull
  \/ \E a \in FeedAddresses : StoreAttackReport(a)
  \/ FeedThreat \/ SourceChanges \/ NodeRemoved

FeedSpec == FeedInit /\ [][FeedNext]_feedVars

-------------------------------------------------------------------------------
FeedTypeOK ==
  /\ edgeNode \in [state : {"ACTIVE", "REMOVED"}, plan : {"free", "pro"}]
  /\ blacklist \subseteq FeedAddresses /\ whitelist \subseteq FeedAddresses
  /\ reporters \in [FeedAddresses -> 0 .. MaxTenants]
  /\ coreFeed \in [FeedAddresses -> {0, 50, 70}]
  /\ pull \in [at : {"idle", "nft", "pool", "core", "whitelist", "answered"},
               plan : {"free", "pro"}, ips : SUBSET FeedAddresses, spared : SUBSET FeedAddresses]
  /\ incident \subseteq reports /\ reports \subseteq FeedAddresses

(* No node is told to block an address that was whitelisted before it asked and     *)
(* stayed so, whichever source lists it and whatever changed while they were read,  *)
(* unless the whitelist could not be read.                                         *)
WhitelistedSpared == pull.at = "answered" => pull.ips \intersect pull.spared = {}

-------------------------------------------------------------------------------
(* Envelopes.  distribute_envelope looks for the envelope among the pending ones,   *)
(* pushes it to the site and then acknowledges it.                                *)
envelopeVars == <<queue, received, acked, pusher>>

NoPush == [at |-> "idle", envelopes |-> {}]

EnvelopesInit ==
  /\ queue = Envelopes /\ received = {} /\ acked = {}
  /\ pusher = [p \in Pushers |-> NoPush]

FetchPending(p, e) ==
  /\ pusher[p] = NoPush /\ e \in queue
  /\ pusher' = [pusher EXCEPT ![p] = [at |-> "push", envelopes |-> {e}]]
  /\ UNCHANGED <<queue, received, acked>>

(* Without an active node nothing is sent; a site may get the envelope although     *)
(* its answer does not arrive; only an answer 200 goes on to the acknowledgement.  *)
PushToEdge(p) ==
  /\ pusher[p].at = "push"
  /\ \/ pusher' = [pusher EXCEPT ![p] = NoPush] /\ UNCHANGED received
     \/ /\ received' = received \union pusher[p].envelopes
        /\ \/ pusher' = [pusher EXCEPT ![p] = NoPush]
           \/ pusher' = [pusher EXCEPT ![p].at = "ack"]
  /\ UNCHANGED <<queue, acked>>

(* An acknowledgement that fails is only logged.  The log_action that follows is   *)
(* called with arguments it does not have: the answer is an error all the same.    *)
AckEnvelope(p) ==
  /\ pusher[p].at = "ack"
  /\ \/ UNCHANGED <<queue, acked>>
     \/ queue' = queue \ pusher[p].envelopes /\ acked' = acked \union pusher[p].envelopes
  /\ pusher' = [pusher EXCEPT ![p] = NoPush]
  /\ UNCHANGED received

(* frothiq-core drops an envelope of its own accord.                              *)
CoreDrops(e) ==
  /\ e \in queue /\ queue' = queue \ {e}
  /\ UNCHANGED <<received, acked, pusher>>

EnvelopesNext ==
  \/ \E p \in Pushers : PushToEdge(p) \/ AckEnvelope(p) \/ \E e \in Envelopes : FetchPending(p, e)
  \/ \E e \in Envelopes : CoreDrops(e)

EnvelopesTypeOK ==
  /\ queue \subseteq Envelopes /\ received \subseteq Envelopes /\ acked \subseteq Envelopes
  /\ pusher \in [Pushers -> [at : {"idle", "push", "ack"}, envelopes : SUBSET Envelopes]]

(* However requests overlap and whichever of their calls fail, an envelope is       *)
(* dropped from the queue at this program's word only after a site got it.         *)
AckedWasReceived == acked \subseteq received

-------------------------------------------------------------------------------
(* Reference data.  A dataset has a version that every write of its records counts  *)
(* up and that is the ETag of a consumer's copy.  A transaction sees the rows as    *)
(* its first SELECT found them; its own UPDATEs go to the rows as they are.        *)
referenceVars == <<dataset, entries, stamps, writer, apiKey, consumer>>

Texts == {"old", "new"}
NoEntry == [stored |-> FALSE, text |-> "old", active |-> FALSE]
NoWrite == [op |-> "none", bump |-> 0, keys |-> {}, lost |-> {}, found |-> [k \in RecordKeys |-> NoEntry],
            given |-> [k \in RecordKeys |-> NoEntry]]

ReferenceInit ==
  /\ dataset = [active |-> FALSE, version |-> 0]
  /\ entries = [k \in RecordKeys |-> NoEntry]
  /\ stamps = [v \in 1 .. MaxBumps |-> 0]
  /\ writer = [w \in Writers |-> NoWrite]
  /\ apiKey = "none"
  /\ consumer = [at |-> "idle", etag |-> 0, asked |-> 0, holds |-> {}, stored |-> {}]

(* What a consumer is given: key and text of the active records.                  *)
Offered == {<<k, entries[k].text>> : k \in {j \in RecordKeys : entries[j].active}}

UpsertDataset(active) ==
  /\ dataset' = [active |-> active, version |-> IF dataset.version = 0 THEN 1 ELSE dataset.version]
  /\ stamps' = IF dataset.version = 0 THEN [stamps EXCEPT ![1] = 1] ELSE stamps
  /\ UNCHANGED <<entries, writer, apiKey, consumer>>

Bumped(version) == version + 1     \* _bump_dataset_version

(* upsert_records.  With replace the active records that are not given are given    *)
(* again, inactive.                                                              *)
UpsertBegin(w, text, replace) ==
  LET named == {k \in RecordKeys : text[k] # "none"}
      retired == IF replace THEN {k \in RecordKeys \ named : entries[k].active} ELSE {} IN
  /\ writer[w] = NoWrite /\ dataset.version \in 1 .. MaxBumps - 1
  /\ writer' = [writer EXCEPT ![w] =
       [op |-> "upsert", bump |-> Bumped(dataset.version), keys |-> named \union retired,
        lost |-> {}, found |-> entries,
        given |-> [k \in RecordKeys |->
                    IF k \in named THEN [stored |-> TRUE, text |-> text[k], active |-> TRUE]
                    ELSE [entries[k] EXCEPT !.active = FALSE]]]]
  /\ UNCHANGED <<dataset, entries, stamps, apiKey, consumer>>

(* A column is written if it differs from what was found.                         *)
Column(found, given, current) == IF given = found THEN current ELSE given

EntryAfter(k, found, given) ==
  [stored |-> TRUE, text |-> IF found.stored THEN Column(found.text, given.text, entries[k].text)
                             ELSE given.text,
   active |-> IF found.stored THEN Column(found.active, given.active, entries[k].active)
              ELSE given.active]

Stamp(version) ==
  /\ dataset' = [dataset EXCEPT !.version = version]
  /\ stamps' = [stamps EXCEPT ![version] = IF @ = 2 THEN 2 ELSE @ + 1]

(* It waits for a deletion that holds a record it writes, and fails if a record it  *)
(* inserts is there by now, or one it updates was deleted.                         *)
UpsertCommit(w) ==
  LET write == writer[w]
      fits(k) == write.found[k].stored = entries[k].stored /\ k \notin write.lost IN
  /\ write.op = "upsert"
  /\ \A u \in Writers : writer[u].op = "delete" => writer[u].keys \intersect write.keys = {}
  /\ IF \A k \in write.keys : fits(k)
     THEN /\ entries' = [k \in RecordKeys |->
                          IF k \in write.keys THEN EntryAfter(k, write.found[k], write.given[k])
                          ELSE entries[k]]
          /\ Stamp(write.bump)
     ELSE UNCHANGED <<dataset, entries, stamps>>
  /\ writer' = [writer EXCEPT ![w] = NoWrite]
  /\ UNCHANGED <<apiKey, consumer>>

(* delete_record holds the row from its first statement; only then does it look at  *)
(* the version.                                                                  *)
DeleteBegin(w, k) ==
  /\ writer[w] = NoWrite /\ dataset.version \in 1 .. MaxBumps - 1
  /\ \A u \in Writers : writer[u].op = "delete" => k \notin writer[u].keys
  /\ writer' = [writer EXCEPT ![w] = [NoWrite EXCEPT !.op = "delete", !.keys = {k},
                                                     !.bump = Bumped(dataset.version)]]
  /\ UNCHANGED <<dataset, entries, stamps, apiKey, consumer>>

DeleteCommit(w) ==
  /\ writer[w].op = "delete"
  /\ entries' = [k \in RecordKeys |-> IF k \in writer[w].keys THEN NoEntry ELSE entries[k]]
  /\ Stamp(writer[w].bump)
  /\ writer' = [u \in Writers |->
       IF u = w THEN NoWrite
       ELSE [writer[u] EXCEPT !.lost = @ \union {k \in writer[w].keys : writer[u].found[k].stored}]]
  /\ UNCHANGED <<apiKey, consumer>>

(* A connection is lost, or a deadlock broken: nothing is written.                 *)
WriteFails(w) ==
  /\ writer[w] # NoWrite
  /\ writer' = [writer EXCEPT ![w] = NoWrite]
  /\ UNCHANGED <<dataset, entries, stamps, apiKey, consumer>>

(* A consumer is given a new key, for this dataset or for others.                 *)
IssueKey ==
  /\ apiKey' \in {"active", "elsewhere"}
  /\ UNCHANGED <<dataset, entries, stamps, writer, consumer>>

RevokeKey ==
  /\ apiKey \in {"active", "elsewhere"} /\ apiKey' = "revoked"
  /\ UNCHANGED <<dataset, entries, stamps, writer, consumer>>

(* consumer_get_dataset looks at key and version in one transaction.  A copy of     *)
(* that version is confirmed, if the consumer names one.                          *)
ConsumerAsks ==
  /\ consumer.at # "reading"
  /\ apiKey = "active" /\ dataset.active
  /\ \/ /\ consumer.etag = dataset.version
        /\ consumer' = [consumer EXCEPT !.at = "confirmed", !.stored = Offered]
     \/ consumer' = [consumer EXCEPT !.at = "reading", !.asked = dataset.version, !.stored = {}]
  /\ UNCHANGED <<dataset, entries, stamps, writer, apiKey>>

(* The records are read in the next one, and the answer carries the version that    *)
(* was read before.                                                              *)
ConsumerReads ==
  /\ consumer.at = "reading"
  /\ consumer' = [consumer EXCEPT !.at = "idle", !.etag = consumer.asked, !.holds = Offered]
  /\ UNCHANGED <<dataset, entries, stamps, writer, apiKey>>

ReferenceNext ==
  \/ \E active \in BOOLEAN : UpsertDataset(active)
  \/ \E w \in Writers :
       \/ UpsertCommit(w) \/ DeleteCommit(w) \/ WriteFails(w)
       \/ \E k \in RecordKeys : DeleteBegin(w, k)
       \/ \E text \in [RecordKeys -> Texts \union {"none"}], replace \in BOOLEAN :
            UpsertBegin(w, text, replace)
  \/ IssueKey \/ RevokeKey \/ ConsumerAsks \/ ConsumerReads

Entry == [stored : BOOLEAN, text : Texts, active : BOOLEAN]
Copies == SUBSET (RecordKeys \X Texts)

ReferenceTypeOK ==
  /\ dataset \in [active : BOOLEAN, version : 0 .. MaxBumps]
  /\ entries \in [RecordKeys -> Entry]
  /\ \A k \in RecordKeys : entries[k].active => entries[k].stored
  /\ stamps \in [1 .. MaxBumps -> 0 .. 2]
  /\ \A w \in Writers :
       /\ writer[w].op \in {"none", "upsert", "delete"} /\ writer[w].bump \in 0 .. MaxBumps
       /\ writer[w].keys \subseteq RecordKeys /\ writer[w].lost \subseteq RecordKeys
       /\ writer[w].found \in [RecordKeys -> Entry] /\ writer[w].given \in [RecordKeys -> Entry]
  /\ apiKey \in {"none", "active", "elsewhere", "revoked"}
  /\ consumer.at \in {"idle", "reading", "confirmed"}
  /\ consumer.etag \in 0 .. MaxBumps /\ consumer.asked \in 0 .. MaxBumps
  /\ consumer.holds \in Copies /\ consumer.stored \in Copies

(* A consumer is told that its copy is current only if it has what is stored,       *)
(* though version and records are read in two transactions; unless two writes that  *)
(* overlapped have given the dataset one version.                                 *)
ConfirmedIsCurrent ==
  consumer.at = "confirmed" =>
    stamps[consumer.etag] = 2 \/ consumer.holds = consumer.stored
===============================================================================
