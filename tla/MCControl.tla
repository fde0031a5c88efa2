------------------------------- MODULE MCControl -------------------------------
(* The parts of the console and of the edge plane that share no state with each  *)
(* other, side by side.  As no step of one reads or writes what is another's,    *)
(* nothing is lost by following one of them, the focus, at a time: the states of  *)
(* a part in the product are those it has alone.                                *)
EXTENDS ThreatPool, AnomalyEvents, Accounts, IpEnrolment, PortalSettings, TeleopsRegistry,
        RecordLocks, RoutingDesigner, EventFanout, EdgeFeed, EdgeAgreements,
        PredictiveSignals, DefenseSettings, TLC

CONSTANTS a, b, B, x, y, z, r1, r2

VARIABLE focus

ControlParts ==
  {"mesh", "anomalies", "accounts", "enrolment", "portal", "themes", "registry", "calls",
   "locks", "routing", "fanout", "feed", "envelopes", "reference", "agreements", "signals", "tally", "defense"}

controlVars ==
  <<focus, meshVars, anomalyVars, accountVars, enrolmentVars, portalVars, themeVars,
    registryVars, callVars, lockVars, routingVars, fanoutVars, feedVars, envelopeVars,
    referenceVars, agreementVars,
    predVars, tallyVars, defenseVars>>

(* The parts that start in several ways do so when they are followed.            *)
ControlInit ==
  /\ focus \in ControlParts
  /\ PoolInit /\ AnomalyInit /\ EnrolmentInit /\ PortalInit /\ ThemeInit /\ RegistryInit
  /\ CallsInit /\ LocksInit /\ RoutingInit /\ FanoutInit /\ AgreementsInit /\ PredInit
  /\ TallyInit /\ DefenseInit /\ EnvelopesInit /\ ReferenceInit
  /\ AccountsInit /\ (focus = "accounts" \/ account.role = CHOOSE r \in Roles : TRUE)
  /\ FeedInit /\ (focus = "feed" \/ edgeNode.plan = "free")

Only(part) ==
  /\ focus = part /\ UNCHANGED focus
  /\ part # "mesh" => UNCHANGED meshVars
  /\ part # "anomalies" => UNCHANGED anomalyVars
  /\ part # "accounts" => UNCHANGED accountVars
  /\ part # "enrolment" => UNCHANGED enrolmentVars
  /\ part # "portal" => UNCHANGED portalVars
  /\ part # "themes" => UNCHANGED themeVars
  /\ part # "registry" => UNCHANGED registryVars
  /\ part # "calls" => UNCHANGED callVars
  /\ part # "locks" => UNCHANGED lockVars
  /\ part # "routing" => UNCHANGED routingVars
  /\ part # "fanout" => UNCHANGED fanoutVars
  /\ part # "feed" => UNCHANGED feedVars
  /\ part # "envelopes" => UNCHANGED envelopeVars
  /\ part # "reference" => UNCHANGED referenceVars
  /\ part # "agreements" => UNCHANGED agreementVars
  /\ part # "signals" => UNCHANGED predVars
  /\ part # "tally" => UNCHANGED tallyVars
  /\ part # "defense" => UNCHANGED defenseVars

ControlNext ==
  \/ Only("mesh") /\ MeshNext
  \/ Only("anomalies") /\ AnomalyNext
  \/ Only("accounts") /\ AccountsNext
  \/ Only("enrolment") /\ EnrolmentNext
  \/ Only("portal") /\ PortalNext
  \/ Only("themes") /\ ThemeNext
  \/ Only("registry") /\ RegistryNext
  \/ Only("calls") /\ CallsNext
  \/ Only("locks") /\ LocksNext
  \/ Only("routing") /\ RoutingNext
  \/ Only("fanout") /\ FanoutNext
  \/ Only("feed") /\ FeedNext
  \/ Only("envelopes") /\ EnvelopesNext
  \/ Only("reference") /\ ReferenceNext
  \/ Only("agreements") /\ AgreementsNext
  \/ Only("signals") /\ PredNext
  \/ Only("tally") /\ TallyNext
  \/ Only("defense") /\ DefenseNext

ControlSpec == ControlInit /\ [][ControlNext]_controlVars

-------------------------------------------------------------------------------
(* Every table, file, set of the kernel and local of the part that is followed    *)
(* keeps its type.                                                              *)
ControlTypeOK ==
  CASE focus = "mesh" -> MeshTypeOK
    [] focus = "anomalies" -> AnomalyTypeOK
    [] focus = "accounts" -> AccountsTypeOK
    [] focus = "enrolment" -> EnrolmentTypeOK
    [] focus = "portal" -> PortalTypeOK
    [] focus = "themes" -> ThemeTypeOK
    [] focus = "registry" -> RegistryTypeOK
    [] focus = "calls" -> CallsTypeOK
    [] focus = "locks" -> LocksTypeOK
    [] focus = "routing" -> RoutingTypeOK
    [] focus = "fanout" -> FanoutTypeOK
    [] focus = "feed" -> FeedTypeOK
    [] focus = "envelopes" -> EnvelopesTypeOK
    [] focus = "reference" -> ReferenceTypeOK
    [] focus = "agreements" -> AgreementsTypeOK
    [] focus = "signals" -> PredTypeOK
    [] focus = "tally" -> TallyTypeOK
    [] focus = "defense" -> DefenseTypeOK

(* What the sites are told and what is kept of them stands whatever overlaps: a    *)
(* whitelisted address is spared, only misspelt rows leave the blacklist, an       *)
(* operator's choice of a flag holds, an acceptance proves its text, an envelope   *)
(* is dropped once a site got it, a copy of reference data is confirmed if current. *)
EdgeKept ==
  /\ WhitelistedSpared /\ OnlyMisspeltDemoted /\ ChoiceStands /\ AcceptanceProvesText
  /\ AckedWasReceived /\ ConfirmedIsCurrent

(* Requests that look before they write, at once, leave no more than the code      *)
(* allows for: of open anomalies, of approval links, of sources of the logo, of    *)
(* active themes; and of two rows of a setting the latest is read.               *)
FewDoubles == FewOpenEvents /\ FewLinks /\ OneLogoSource /\ OneThemeActive /\ LatestIsRead

(* The records add up: none refers to one that is gone, a call is billed once, an  *)
(* accuracy report shows what was recorded, nothing is granted that needed a       *)
(* confirmation and had none, and a circular routing is found.                  *)
RecordsKept ==
  NoOrphans /\ BilledOnce /\ ReportAddsUp /\ NothingGrantedUnconfirmed /\ CyclesFound

-------------------------------------------------------------------------------
MCCanonical == (a :> a) @@ (b :> b) @@ (B :> b)

MCEdges == {x, y, z} \X {x, y, z}
MCPayloads == {{}} \union {{e} : e \in MCEdges}

(* Two requests, scans or processes at once: which is which makes no difference.  *)
MCSymmetry == Permutations({r1, r2})
===============================================================================
