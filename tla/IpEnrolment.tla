----------------------------- MODULE IpEnrolment ------------------------------
(* The allowlist of addresses: the request of a user, the administrator's       *)
(* approval link, and the merged list every other request is checked against,   *)
(* which Redis caches.  A request's queries all read the snapshot of its first. *)
EXTENDS Naturals, FiniteSets

CONSTANTS
  Clients,     \* requests in progress at once
  ClientAddresses,
  EnvAddresses, \* CC_ADMIN_IP_ALLOWLIST
  Links,       \* approval links a run sends (bound)
  NoRow

ASSUME EnrolmentAssumption == /\ EnvAddresses \subseteq ClientAddresses
                              /\ IsFiniteSet(Clients)
                              /\ NoRow \notin [ip : ClientAddresses, status : {"live", "over"}]

VARIABLES
  approved,    \* cc_ip_allowlist
  safeAddresses, \* safe_ips of portal_settings.json
  cache,       \* cc:ip_allowlist_cache, or NoRow
  links,       \* cc_ip_enrollment_pending: link -> row, or NoRow
  mailed,      \* links whose message reached the administrator
  enrolChallenges, \* addresses with a live cc:enroll_challenge
  codeUsed,    \* cc:totp_used of the code of the moment
  client       \* client -> where its request is and what it has read

enrolmentVars == <<approved, safeAddresses, cache, links, mailed, enrolChallenges, codeUsed, client>>

NoRequest == [at |-> "ready", of |-> NoRow, read |-> NoRow]
At(place, of, read) == [at |-> place, of |-> of, read |-> read]

EnrolmentInit ==
  /\ approved = {} /\ safeAddresses = {}
  /\ cache = NoRow
  /\ links = [l \in Links |-> NoRow]
  /\ mailed = {} /\ enrolChallenges = {}
  /\ codeUsed = FALSE
  /\ client = [c \in Clients |-> NoRequest]

ClientMoves(c, from, record) ==
  /\ client[c].at = from
  /\ client' = [client EXCEPT ![c] = record]

LivePending(ip) ==
  {l \in Links : links[l] # NoRow /\ links[l].ip = ip /\ links[l].status = "live"}

MayEnrolUnlessApproved(ip) == ip \notin approved

(* Neither approved nor waiting; two waiting rows make the query raise, which *)
(* ends the request too.                                                     *)
MayEnrol(ip) == ip \notin approved /\ LivePending(ip) = {}

-------------------------------------------------------------------------------
(* enroll_start, with the right password: a challenge for a user with a second *)
(* factor, else the approval request.                                        *)
EnrolStart(c, ip) ==
  /\ MayEnrol(ip)
  /\ \/ /\ ClientMoves(c, "ready", At("insert", ip, NoRow))
        /\ UNCHANGED enrolChallenges
     \/ /\ client[c].at = "ready"
        /\ enrolChallenges' = enrolChallenges \union {ip}
        /\ UNCHANGED client
  /\ UNCHANGED <<approved, safeAddresses, cache, links, mailed, codeUsed>>

(* The token is random: any link that was never used stands for it.            *)
InsertPending(c) ==
  /\ \E m \in Links : links[m] = NoRow
  /\ LET l == CHOOSE m \in Links : links[m] = NoRow IN
       /\ ClientMoves(c, "insert", At("mail", l, NoRow))
       /\ links' = [links EXCEPT ![l] = [ip |-> client[c].of, status |-> "live"]]
  /\ UNCHANGED <<approved, safeAddresses, cache, mailed, enrolChallenges, codeUsed>>

(* The link is sent once its row is committed.  Without an administrator, or a   *)
(* server that takes it, it is lost, and the row still stands in the way of      *)
(* another.                                                                    *)
SendApprovalEmail(c) ==
  /\ ClientMoves(c, "mail", NoRequest)
  /\ mailed' \in {mailed, mailed \union {client[c].of}}
  /\ UNCHANGED <<approved, safeAddresses, cache, links, enrolChallenges, codeUsed>>

(* enroll_complete: the challenge is read before the snapshot is taken; what  *)
(* the snapshot said decides after the code is used.                         *)
GetChallenge(c, ip) ==
  /\ ip \in enrolChallenges
  /\ ClientMoves(c, "ready", At("load", ip, NoRow))
  /\ UNCHANGED <<approved, safeAddresses, cache, links, mailed, enrolChallenges, codeUsed>>

LoadUser(c) ==
  /\ ClientMoves(c, "load", At("code", client[c].of, MayEnrol(client[c].of)))
  /\ UNCHANGED <<approved, safeAddresses, cache, links, mailed, enrolChallenges, codeUsed>>

CheckCode(c) ==
  /\ ClientMoves(c, "code", IF codeUsed THEN NoRequest ELSE [client[c] EXCEPT !.at = "use"])
  /\ UNCHANGED <<approved, safeAddresses, cache, links, mailed, enrolChallenges, codeUsed>>

SpendCode(c) ==
  /\ ClientMoves(c, "use", IF client[c].read THEN At("insert", client[c].of, NoRow) ELSE NoRequest)
  /\ codeUsed' = TRUE
  /\ enrolChallenges' = enrolChallenges \ {client[c].of}
  /\ UNCHANGED <<approved, safeAddresses, cache, links, mailed>>

TimePasses ==
  /\ \/ codeUsed /\ codeUsed' = FALSE /\ UNCHANGED <<links, enrolChallenges, cache>>
     \/ \E ip \in enrolChallenges :
          enrolChallenges' = enrolChallenges \ {ip} /\ UNCHANGED <<links, codeUsed, cache>>
     \/ \E l \in Links :
          /\ links[l] # NoRow /\ links[l].status = "live"
          /\ links' = [links EXCEPT ![l].status = "over"]
          /\ UNCHANGED <<enrolChallenges, codeUsed, cache>>
     \/ cache # NoRow /\ cache' = NoRow /\ UNCHANGED <<links, enrolChallenges, codeUsed>>
  /\ UNCHANGED <<approved, safeAddresses, mailed, client>>

-------------------------------------------------------------------------------
(* approve_ip: the address is unique in the table, so an approval that did not *)
(* see the row of another fails at its commit.                                *)
OpenLink(c, l) ==
  /\ l \in mailed /\ links[l].status = "live"
  /\ ClientMoves(c, "ready", At("approve", l, links[l].ip \in approved))
  /\ UNCHANGED <<approved, safeAddresses, cache, links, mailed, enrolChallenges, codeUsed>>

Approve(c) ==
  /\ client[c].at = "approve"
  /\ LET ip == links[client[c].of].ip IN
     /\ IF ~client[c].read /\ ip \in approved
        THEN ClientMoves(c, "approve", NoRequest) /\ UNCHANGED <<approved, links, mailed>>
        ELSE /\ ClientMoves(c, "approve", At("invalidate", NoRow, NoRow))
             /\ approved' = approved \union {ip}
             /\ links' = [links EXCEPT ![client[c].of].status = "over"]
     /\ UNCHANGED <<safeAddresses, cache, mailed, enrolChallenges, codeUsed>>

Invalidate(c) ==
  /\ ClientMoves(c, "invalidate", NoRequest)
  /\ cache' = NoRow
  /\ UNCHANGED <<approved, safeAddresses, links, mailed, enrolChallenges, codeUsed>>

(* update_portal_settings replaces safe_ips and leaves the cache alone.       *)
ReplaceSafeAddresses ==
  /\ \E ips \in SUBSET ClientAddresses : safeAddresses' = ips
  /\ UNCHANGED <<approved, cache, links, mailed, enrolChallenges, codeUsed, client>>

(* build_allowlist when nothing is cached; a failed query reads as no rows.    *)
BuildRead(c) ==
  /\ cache = NoRow
  /\ \E rows \in {approved, {}} :
       ClientMoves(c, "ready", At("cache", NoRow, EnvAddresses \union safeAddresses \union rows))
  /\ UNCHANGED <<approved, safeAddresses, cache, links, mailed, enrolChallenges, codeUsed>>

BuildStore(c) ==
  /\ ClientMoves(c, "cache", NoRequest)
  /\ cache' = client[c].read
  /\ UNCHANGED <<approved, safeAddresses, links, mailed, enrolChallenges, codeUsed>>

EnrolmentNext ==
  \/ \E c \in Clients :
       \/ \E ip \in ClientAddresses : EnrolStart(c, ip) \/ GetChallenge(c, ip)
       \/ \E l \in Links : OpenLink(c, l)
       \/ InsertPending(c) \/ SendApprovalEmail(c) \/ LoadUser(c) \/ CheckCode(c) \/ SpendCode(c)
       \/ Approve(c) \/ Invalidate(c) \/ BuildRead(c) \/ BuildStore(c)
  \/ TimePasses \/ ReplaceSafeAddresses

EnrolmentSpec == EnrolmentInit /\ [][EnrolmentNext]_enrolmentVars

-------------------------------------------------------------------------------
EnrolmentTypeOK ==
  /\ approved \subseteq ClientAddresses /\ safeAddresses \subseteq ClientAddresses
  /\ cache \in (SUBSET ClientAddresses) \union {NoRow}
  /\ links \in [Links -> [ip : ClientAddresses, status : {"live", "over"}] \union {NoRow}]
  /\ mailed \subseteq {l \in Links : links[l] # NoRow}
  /\ enrolChallenges \subseteq ClientAddresses /\ codeUsed \in BOOLEAN
  /\ \A c \in Clients : client[c].of \in ClientAddresses \union Links \union {NoRow}

(* An address that asks again and again has no more approval links that work  *)
(* than requests can overlap: whoever comes after one is sent finds it.       *)
FewLinks == \A ip \in ClientAddresses : Cardinality(LivePending(ip)) <= Cardinality(Clients)
===============================================================================
