---------------------------- MODULE TeleopsRegistry ----------------------------
(* The telephony registry: sites, provider accounts, numbers, and what a site   *)
(* is made of, at most one record of each kind.  A handler reads, checks what   *)
(* its record refers to or who refers to it, and commits; others commit in      *)
(* between, and the foreign keys have the last word.                            *)
EXTENDS Naturals, FiniteSets

CONSTANTS
  Operators,   \* requests in progress at once
  MaxRows      \* bound on the records that exist at once

ASSUME RegistryAssumption == MaxRows \in Nat

VARIABLES
  records,        \* the kinds of which there is a record
  refs,        \* who refers to whom, <<child, parent>>
  operator     \* request -> what it will commit, or idle

registryVars == <<records, refs, operator>>

SiteChildren == {"voicemail", "extension", "ivr_menu", "ring_group", "time_rule", "call_queue"}
AccountKinds == {"account", "subaccount"}
Kinds == SiteChildren \union AccountKinds \union {"site", "number", "ivr_option"}

ForeignKeysButVoicemail ==
  (SiteChildren \X {"site"}) \union ({"number"} \X (AccountKinds \union {"site"}))
    \union {<<"ivr_option", "ivr_menu">>}

(* The ForeignKey columns.                                                   *)
ForeignKeys ==
  (SiteChildren \X {"site"}) \union ({"number"} \X (AccountKinds \union {"site"}))
    \union {<<"extension", "voicemail">>, <<"ivr_option", "ivr_menu">>}

NoOperation == [op |-> "ready", kind |-> "none", to |-> {}, column |-> {}]

RegistryInit ==
  /\ records = {} /\ refs = {}
  /\ operator = [r \in Operators |-> NoOperation]

(* A request whose checks passed on its snapshot.                            *)
Checked(r, op, kind, to) ==
  /\ operator[r] = NoOperation
  /\ operator' = [operator EXCEPT ![r] = [NoOperation EXCEPT !.op = op, !.kind = kind, !.to = to]]
  /\ UNCHANGED <<records, refs>>

(* An update of the columns that hold one of these parents.                    *)
Assigns(r, kind, column, to) ==
  /\ operator[r] = NoOperation
  /\ operator' = [operator EXCEPT ![r] =
                    [op |-> "update", kind |-> kind, to |-> to, column |-> column]]
  /\ UNCHANGED <<records, refs>>

-------------------------------------------------------------------------------
CreateVoipAccount(r) == Checked(r, "insert", "account", {})

CreateSite(r) == Checked(r, "insert", "site", {})

CreateNumber(r) ==
  \E account \in AccountKinds \intersect records, site \in {{}, {"site"} \intersect records} :
    Checked(r, "insert", "number", {account} \union site)

(* The numbers of the account that are not there yet, in one commit.          *)
ImportFromTwilio(r) ==
  \E account \in AccountKinds \intersect records :
    "number" \notin records /\ Checked(r, "insert", "number", {account})

BuyNumber(r) == \E account \in AccountKinds \intersect records : Checked(r, "insert", "number", {account})

CreateSubaccount(r) == "account" \in records /\ Checked(r, "insert", "subaccount", {})

TransferNumber(r) ==
  /\ AccountKinds \union {"number"} \subseteq records
  /\ \E account \in AccountKinds : Assigns(r, "number", AccountKinds, {account})

CreateVoicemail(r) == "site" \in records /\ Checked(r, "insert", "voicemail", {"site"})

CreateExtension(r) ==
  /\ "site" \in records
  /\ \E voicemail \in {{}, {"voicemail"} \intersect records} :
       Checked(r, "insert", "extension", {"site"} \union voicemail)

CreateIvrMenu(r) == "site" \in records /\ Checked(r, "insert", "ivr_menu", {"site"})

CreateIvrOption(r) == "ivr_menu" \in records /\ Checked(r, "insert", "ivr_option", {"ivr_menu"})

CreateRingGroup(r) == "site" \in records /\ Checked(r, "insert", "ring_group", {"site"})

CreateTimeRule(r) == "site" \in records /\ Checked(r, "insert", "time_rule", {"site"})

CreateCallQueue(r) == "site" \in records /\ Checked(r, "insert", "call_queue", {"site"})

(* A number can be given another account and another site; an extension        *)
(* another voicemail.  Other updates change no reference.                      *)
UpdateNumber(r) ==
  /\ "number" \in records
  /\ \/ \E account \in AccountKinds \intersect records : Assigns(r, "number", AccountKinds, {account})
     \/ \E site \in {{}, {"site"} \intersect records} : Assigns(r, "number", {"site"}, site)

UpdateExtension(r) ==
  /\ "extension" \in records
  /\ \E voicemail \in {{}, {"voicemail"} \intersect records} :
       Assigns(r, "extension", {"voicemail"}, voicemail)

-------------------------------------------------------------------------------
DeleteVoipAccount(r) ==
  \E account \in AccountKinds \intersect records :
    <<"number", account>> \notin refs /\ Checked(r, "delete", account, {})

DeleteSite(r) ==
  /\ "site" \in records
  /\ {<<"number", "site">>, <<"extension", "site">>} \intersect refs = {}
  /\ Checked(r, "delete", "site", {})

DeleteVoicemail(r) ==
  /\ "voicemail" \in records
  /\ <<"extension", "voicemail">> \notin refs
  /\ Checked(r, "delete", "voicemail", {})

(* The options the snapshot shows go with their menu.                          *)
DeleteIvrMenu(r) ==
  "ivr_menu" \in records /\ Checked(r, "delete", "ivr_menu", {"ivr_option"} \intersect records)

DeleteLeaf(r, kind) == kind \in records /\ Checked(r, "delete", kind, {})

DeleteNumber(r) == DeleteLeaf(r, "number")
DeleteExtension(r) == DeleteLeaf(r, "extension")
DeleteIvrOption(r) == DeleteLeaf(r, "ivr_option")
DeleteRingGroup(r) == DeleteLeaf(r, "ring_group")
DeleteTimeRule(r) == DeleteLeaf(r, "time_rule")
DeleteCallQueue(r) == DeleteLeaf(r, "call_queue")

-------------------------------------------------------------------------------
(* The commits.  A row that is gone cannot be updated; one that is there is    *)
(* not inserted again (the unique columns); a foreign key must find its row.   *)
Resolves(kind, to) == \A p \in to : <<kind, p>> \in ForeignKeys => p \in records

Insert(r) ==
  LET o == operator[r] IN
  /\ o.op = "insert"
  /\ o.kind \notin records /\ Resolves(o.kind, o.to)
  /\ Cardinality(records) < MaxRows
  /\ records' = records \union {o.kind}
  /\ refs' = refs \union ({o.kind} \X o.to)
  /\ operator' = [operator EXCEPT ![r] = NoOperation]

Update(r) ==
  LET o == operator[r] IN
  /\ o.op = "update"
  /\ o.kind \in records /\ Resolves(o.kind, o.to)
  /\ refs' = {ref \in refs : ~(ref[1] = o.kind /\ ref[2] \in o.column)} \union ({o.kind} \X o.to)
  /\ operator' = [operator EXCEPT ![r] = NoOperation]
  /\ UNCHANGED records

(* The rows go unless a foreign key of another row still finds them.           *)
Delete(r) ==
  LET o == operator[r]
      gone == {o.kind} \union o.to
  IN
  /\ o.op = "delete"
  /\ \A ref \in refs : ref[2] \in gone /\ ref \in ForeignKeys => ref[1] \in gone
  /\ records' = records \ gone
  /\ refs' = {ref \in refs : ref[1] \notin gone}
  /\ operator' = [operator EXCEPT ![r] = NoOperation]

(* A commit the database refuses, or a request that fails before it; the order *)
(* in which a menu and its options are deleted is not fixed.                   *)
Fail(r) ==
  /\ operator[r] # NoOperation
  /\ operator' = [operator EXCEPT ![r] = NoOperation]
  /\ UNCHANGED <<records, refs>>

RegistryNext ==
  \E r \in Operators :
    \/ CreateVoipAccount(r) \/ CreateSite(r) \/ CreateNumber(r) \/ ImportFromTwilio(r)
    \/ BuyNumber(r) \/ CreateSubaccount(r) \/ TransferNumber(r) \/ CreateVoicemail(r)
    \/ CreateExtension(r) \/ CreateIvrMenu(r) \/ CreateIvrOption(r) \/ CreateRingGroup(r)
    \/ CreateTimeRule(r) \/ CreateCallQueue(r) \/ UpdateNumber(r) \/ UpdateExtension(r)
    \/ DeleteVoipAccount(r) \/ DeleteSite(r) \/ DeleteVoicemail(r) \/ DeleteIvrMenu(r)
    \/ DeleteNumber(r) \/ DeleteExtension(r) \/ DeleteIvrOption(r) \/ DeleteRingGroup(r)
    \/ DeleteTimeRule(r) \/ DeleteCallQueue(r)
    \/ Insert(r) \/ Update(r) \/ Delete(r) \/ Fail(r)

RegistrySpec == RegistryInit /\ [][RegistryNext]_registryVars

-------------------------------------------------------------------------------
RegistryTypeOK ==
  /\ records \subseteq Kinds
  /\ refs \subseteq Kinds \X Kinds
  /\ operator \in [Operators ->
       [op : {"ready", "insert", "update", "delete"}, kind : Kinds \union {"none"}, to : SUBSET Kinds,
        column : SUBSET Kinds]]

(* Whatever checks pass while others commit, no record refers to one that is   *)
(* gone, and every number keeps one account.                                   *)
NoOrphans ==
  /\ \A ref \in refs : ref[1] \in records /\ ref[2] \in records
  /\ "number" \in records => Cardinality({a \in AccountKinds : <<"number", a>> \in refs}) = 1

-------------------------------------------------------------------------------
(* The calls of a provider account, pulled page by page while they go on and while  *)
(* others pull them too, and the bills of a month made from the rows.              *)

CONSTANTS
  Pullers,      \* pulls in progress at once
  Calls         \* call sids

ASSUME CallsAssumption == IsFiniteSet(Calls)

VARIABLES
  provider,     \* call -> what Twilio says of it now
  number,       \* the registered number of the calls: absent, or its site
  log,          \* teleops_call_logs: call -> row, or Unlogged
  priced,       \* calls whose price was ever committed
  puller        \* pull -> what it read and what it will commit

callVars == <<provider, number, log, priced, puller>>

Statuses == {"queued", "ringing", "completed"}
Unlogged == [status |-> "none", cost |-> FALSE, site |-> "none"]
NotCalled == [status |-> "none", cost |-> FALSE]
NoPull == [op |-> "none", rows |-> <<>>, number |-> "absent", pages |-> <<>>]

CallsInit ==
  /\ provider = [c \in Calls |-> NotCalled]
  /\ number = "absent"
  /\ log = [c \in Calls |-> Unlogged] /\ priced = {}
  /\ puller = [p \in Pullers |-> NoPull]

Does(p, record) == puller' = [puller EXCEPT ![p] = record]

-------------------------------------------------------------------------------
(* The calls themselves, and the number they are of.                              *)
CallGoesOn(c) ==
  /\ provider' = [provider EXCEPT ![c] =
       CASE @.status = "none"    -> [@ EXCEPT !.status = "queued"]
         [] @.status = "queued"  -> [@ EXCEPT !.status = "ringing"]
         [] @.status = "ringing" -> [@ EXCEPT !.status = "completed"]
         [] OTHER                -> [@ EXCEPT !.cost = TRUE]]
  /\ provider' # provider
  /\ UNCHANGED <<number, log, priced, puller>>

(* A number with calls stays: their foreign key holds it.                          *)
NumberChanges ==
  /\ \/ number = "absent" /\ number' = "site"
     \/ /\ number = "site" /\ number' = "absent"
        /\ \A c \in Calls : log[c].site # "site"
  /\ UNCHANGED <<provider, log, priced, puller>>

-------------------------------------------------------------------------------
(* cdr_refresh: the rows and the numbers as its first SELECT finds them, then the   *)
(* pages, each as the provider has it when it is asked, then one commit.           *)
RefreshBegin(p) ==
  /\ puller[p] = NoPull
  /\ Does(p, [NoPull EXCEPT !.op = "refresh", !.rows = log, !.number = number])
  /\ UNCHANGED <<provider, number, log, priced>>

FetchPage(p) ==
  /\ puller[p].op = "refresh"
  /\ \E page \in SUBSET {c \in Calls : provider[c].status # "none"} \ {{}} :
       Does(p, [puller[p] EXCEPT
         !.pages = [c \in DOMAIN @ \union page |-> IF c \in page THEN provider[c] ELSE @[c]]])
  /\ puller' # puller
  /\ UNCHANGED <<provider, number, log, priced>>

MergedWhole(old, row, call, site) == [status |-> call.status, cost |-> call.cost, site |-> old.site]

(* A row that was found keeps what the page does not change in it as it is by now;   *)
(* one that was not found is inserted, with the site of its number.                *)
Merged(old, row, call, site) ==
  IF old = Unlogged
  THEN [status |-> call.status, cost |-> call.cost, site |-> site]
  ELSE [row EXCEPT !.status = IF call.status = old.status THEN @ ELSE call.status,
                   !.cost = @ \/ (call.cost /\ ~old.cost)]

(* A call that another pull has inserted fails them all, as does a number that is    *)
(* gone, or a page that cannot be had.                                            *)
Commits(p) ==
  LET pull == puller[p]
      new == {c \in DOMAIN pull.pages : pull.rows[c] = Unlogged}
  IN /\ \A c \in new : log[c] = Unlogged
     /\ new # {} /\ pull.number # "absent" => number # "absent"

RefreshCommit(p) ==
  LET pull == puller[p]
      site == IF pull.number = "absent" THEN "none" ELSE pull.number
  IN /\ pull.op = "refresh" /\ Commits(p)
     /\ log' = [c \in Calls |-> IF c \in DOMAIN pull.pages
                                THEN Merged(pull.rows[c], log[c], pull.pages[c], site)
                                ELSE log[c]]
     /\ priced' = priced \union {c \in Calls : log'[c].cost}
     /\ Does(p, NoPull)
     /\ UNCHANGED <<provider, number>>

RefreshFails(p) ==
  /\ puller[p].op = "refresh"
  /\ Does(p, NoPull)
  /\ UNCHANGED <<provider, number, log, priced>>

(* billing_rollup: what a site, or no site, has to pay for.                        *)
Rollup(site) == Cardinality({c \in Calls : log[c].cost /\ log[c].site = site})

CallsNext ==
  \/ \E p \in Pullers : RefreshBegin(p) \/ FetchPage(p) \/ RefreshCommit(p) \/ RefreshFails(p)
  \/ \E c \in Calls : CallGoesOn(c)
  \/ NumberChanges

CallsSpec == CallsInit /\ [][CallsNext]_callVars

-------------------------------------------------------------------------------
Rows == [status : Statuses, cost : BOOLEAN, site : {"none", "site"}]
CallsTypeOK ==
  /\ provider \in [Calls -> [status : Statuses \union {"none"}, cost : BOOLEAN]]
  /\ log \in [Calls -> Rows \union {Unlogged}]
  /\ number \in {"absent", "site"} /\ priced \subseteq Calls
  /\ \A p \in Pullers : puller[p].op \in {"none", "refresh"} /\ DOMAIN puller[p].pages \subseteq Calls

(* A call whose price was ever stored is billed from then on, once, whatever older    *)
(* pages other pulls still commit, and to no site whose number is gone.             *)
BilledOnce ==
  /\ Rollup("site") + Rollup("none") = Cardinality(priced)
  /\ \A c \in Calls : log[c].site # "none" => number = log[c].site
===============================================================================
