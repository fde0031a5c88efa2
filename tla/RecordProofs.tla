----------------------------- MODULE RecordProofs ------------------------------
(* Theorems about the records of the console: what refers to what, what is billed,  *)
(* what a report adds up to, what is granted, and the search of a routing.         *)
EXTENDS TeleopsRegistry, PredictiveSignals, RoutingDesigner,
        FiniteSetTheorems, SequenceTheorems, TLAPS

-------------------------------------------------------------------------------
(* TeleopsRegistry.  What a request will commit refers along foreign keys, and keeps *)
(* the one account of a number.                                                    *)
Operation ==
  [op : {"ready", "insert", "update", "delete"}, kind : Kinds \union {"none"}, to : SUBSET Kinds,
   column : SUBSET Kinds]

OneAccount(to) == \E k \in AccountKinds : to \intersect AccountKinds = {k}
AccountsOf(links) == {k \in AccountKinds : <<"number", k>> \in links}

OperationFits(o) ==
  /\ o.op # "ready" => o.kind \in Kinds
  /\ o.op \in {"insert", "update"} => \A p \in o.to : <<o.kind, p>> \in ForeignKeys
  /\ o.op = "insert" /\ o.kind = "number" => OneAccount(o.to)
  /\ o.op = "update" /\ o.kind = "number" =>
       \/ o.column = AccountKinds /\ OneAccount(o.to)
       \/ o.column \intersect AccountKinds = {} /\ o.to \intersect AccountKinds = {}

RegistryInv ==
  /\ records \subseteq Kinds /\ refs \subseteq ForeignKeys
  /\ operator \in [Operators -> Operation]
  /\ \A r \in Operators : OperationFits(operator[r])
  /\ \A ref \in refs : ref[1] \in records /\ ref[2] \in records
  /\ "number" \in records => \E k \in AccountKinds : AccountsOf(refs) = {k}

LEMMA ForeignKeysAreKinds ==
  /\ ForeignKeys \subseteq Kinds \X Kinds /\ AccountKinds \subseteq Kinds
  /\ \A k \in Kinds : <<"number", k>> \in ForeignKeys <=> k \in AccountKinds \union {"site"}
BY DEF ForeignKeys, Kinds, AccountKinds, SiteChildren

LEMMA NoOperationFits == NoOperation \in Operation /\ OperationFits(NoOperation)
BY DEF NoOperation, Operation, OperationFits

LEMMA RegistryInvInit == RegistryInit => RegistryInv
BY NoOperationFits DEF RegistryInit, RegistryInv

(* The table stands while a request looks, or is done.                             *)
LEMMA RegistryLooks ==
  ASSUME RegistryInv, NEW r \in Operators, NEW o \in Operation, OperationFits(o),
         operator' = [operator EXCEPT ![r] = o], UNCHANGED <<records, refs>>
  PROVE  RegistryInv'
BY DEF RegistryInv

LEMMA CheckedFits ==
  ASSUME RegistryInv, NEW r \in Operators, NEW op \in {"insert", "delete"}, NEW kind \in Kinds,
         NEW to \in SUBSET Kinds, Checked(r, op, kind, to),
         op = "insert" => (\A p \in to : <<kind, p>> \in ForeignKeys)
                            /\ (kind = "number" => OneAccount(to))
  PROVE  RegistryInv'
<1> DEFINE o == [NoOperation EXCEPT !.op = op, !.kind = kind, !.to = to]
<1>1. o \in Operation /\ o.op = op /\ o.kind = kind /\ o.to = to
  BY DEF Operation, NoOperation
<1>2. operator' = [operator EXCEPT ![r] = o] /\ UNCHANGED <<records, refs>>
  BY DEF Checked
<1> HIDE DEF o
<1>3. OperationFits(o)
  BY <1>1 DEF OperationFits
<1> QED
  BY <1>1, <1>2, <1>3, RegistryLooks

LEMMA AssignsFits ==
  ASSUME RegistryInv, NEW r \in Operators, NEW kind \in Kinds, NEW column \in SUBSET Kinds,
         NEW to \in SUBSET Kinds, Assigns(r, kind, column, to),
         \A p \in to : <<kind, p>> \in ForeignKeys,
         kind = "number" =>
           \/ column = AccountKinds /\ OneAccount(to)
           \/ column \intersect AccountKinds = {} /\ to \intersect AccountKinds = {}
  PROVE  RegistryInv'
<1> DEFINE o == [op |-> "update", kind |-> kind, to |-> to, column |-> column]
<1>1. o \in Operation /\ OperationFits(o)
  BY DEF Operation, OperationFits
<1>2. operator' = [operator EXCEPT ![r] = o] /\ UNCHANGED <<records, refs>>
  BY DEF Assigns
<1> HIDE DEF o
<1> QED
  BY <1>1, <1>2, RegistryLooks

(* What each check lets through.                                                   *)
LEMMA CreatesFit ==
  ASSUME RegistryInv, NEW r \in Operators,
         \/ CreateVoipAccount(r) \/ CreateSite(r) \/ CreateNumber(r) \/ ImportFromTwilio(r)
         \/ BuyNumber(r) \/ CreateSubaccount(r) \/ CreateVoicemail(r)
         \/ CreateExtension(r) \/ CreateIvrMenu(r) \/ CreateIvrOption(r) \/ CreateRingGroup(r)
         \/ CreateTimeRule(r) \/ CreateCallQueue(r)
  PROVE  RegistryInv'
<1> USE DEF Kinds, SiteChildren, ForeignKeys
<1>1. PICK kind \in Kinds, to \in SUBSET Kinds :
        /\ Checked(r, "insert", kind, to)
        /\ \A p \in to : <<kind, p>> \in ForeignKeys
        /\ kind = "number" => OneAccount(to)
  <2>1. CASE CreateVoipAccount(r)
    BY <2>1 DEF CreateVoipAccount, AccountKinds
  <2>2. CASE CreateSite(r)
    BY <2>2 DEF CreateSite
  <2>3. CASE CreateNumber(r)
    <3>1. PICK account \in AccountKinds, site \in {{}, {"site"} \intersect records} :
            Checked(r, "insert", "number", {account} \union site)
      BY <2>3 DEF CreateNumber
    <3>2. site \subseteq {"site"}
      OBVIOUS
    <3>3. ({account} \union site) \intersect AccountKinds = {account}
      BY <3>2 DEF AccountKinds
    <3>4. "number" \in Kinds /\ {account} \union site \in SUBSET Kinds
      BY <3>2
    <3>5. \A p \in {account} \union site : <<"number", p>> \in ForeignKeys
      BY <3>2
    <3> HIDE DEF Kinds, SiteChildren, ForeignKeys
    <3> QED
      BY <3>1, <3>3, <3>4, <3>5 DEF OneAccount
  <2>4. CASE ImportFromTwilio(r) \/ BuyNumber(r)
    <3>1. PICK account \in AccountKinds : Checked(r, "insert", "number", {account})
      BY <2>4 DEF ImportFromTwilio, BuyNumber
    <3>2. {account} \intersect AccountKinds = {account}
      OBVIOUS
    <3>3. "number" \in Kinds /\ {account} \in SUBSET Kinds
      OBVIOUS
    <3>4. \A p \in {account} : <<"number", p>> \in ForeignKeys
      OBVIOUS
    <3> HIDE DEF Kinds, SiteChildren, ForeignKeys
    <3> QED
      BY <3>1, <3>2, <3>3, <3>4 DEF OneAccount
  <2>5. CASE CreateSubaccount(r)
    BY <2>5 DEF CreateSubaccount, AccountKinds
  <2>6. CASE CreateExtension(r)
    <3>1. PICK voicemail \in {{}, {"voicemail"} \intersect records} :
            Checked(r, "insert", "extension", {"site"} \union voicemail)
      BY <2>6 DEF CreateExtension
    <3>2. voicemail \subseteq {"voicemail"}
      OBVIOUS
    <3>3. /\ "extension" \in Kinds /\ {"site"} \union voicemail \in SUBSET Kinds
          /\ \A p \in {"site"} \union voicemail : <<"extension", p>> \in ForeignKeys
      BY <3>2
    <3> HIDE DEF Kinds, SiteChildren, ForeignKeys
    <3> QED
      BY <3>1, <3>3
  <2>7. CASE CreateIvrOption(r)
    BY <2>7 DEF CreateIvrOption
  <2>8. CASE \/ CreateVoicemail(r) \/ CreateIvrMenu(r) \/ CreateRingGroup(r)
             \/ CreateTimeRule(r) \/ CreateCallQueue(r)
    <3>1. \E kind \in SiteChildren : Checked(r, "insert", kind, {"site"})
      BY <2>8 DEF CreateVoicemail, CreateIvrMenu, CreateRingGroup, CreateTimeRule, CreateCallQueue
    <3> QED
      BY <3>1
  <2> QED
    BY <2>1, <2>2, <2>3, <2>4, <2>5, <2>6, <2>7, <2>8
<1> QED
  BY <1>1, CheckedFits

LEMMA DeletesFit ==
  ASSUME RegistryInv, NEW r \in Operators,
         \/ DeleteVoipAccount(r) \/ DeleteSite(r) \/ DeleteVoicemail(r) \/ DeleteIvrMenu(r)
         \/ DeleteNumber(r) \/ DeleteExtension(r) \/ DeleteIvrOption(r) \/ DeleteRingGroup(r)
         \/ DeleteTimeRule(r) \/ DeleteCallQueue(r)
  PROVE  RegistryInv'
<1>1. PICK kind \in Kinds, to \in SUBSET Kinds : Checked(r, "delete", kind, to)
  <2> USE DEF Kinds, SiteChildren
  <2>1. CASE DeleteVoipAccount(r)
    BY <2>1 DEF DeleteVoipAccount
  <2>2. CASE DeleteSite(r) \/ DeleteVoicemail(r)
    BY <2>2 DEF DeleteSite, DeleteVoicemail
  <2>3. CASE DeleteIvrMenu(r)
    BY <2>3 DEF DeleteIvrMenu
  <2>4. CASE \/ DeleteNumber(r) \/ DeleteExtension(r) \/ DeleteIvrOption(r) \/ DeleteRingGroup(r)
             \/ DeleteTimeRule(r) \/ DeleteCallQueue(r)
    <3>1. \E kind \in Kinds : Checked(r, "delete", kind, {})
      BY <2>4 DEF DeleteNumber, DeleteExtension, DeleteIvrOption, DeleteRingGroup, DeleteTimeRule,
                  DeleteCallQueue, DeleteLeaf
    <3> QED
      BY <3>1
  <2> QED
    BY <2>1, <2>2, <2>3, <2>4
<1> QED
  BY <1>1, CheckedFits

LEMMA UpdatesFit ==
  ASSUME RegistryInv, NEW r \in Operators,
         TransferNumber(r) \/ UpdateNumber(r) \/ UpdateExtension(r)
  PROVE  RegistryInv'
<1>1. CASE \E account \in AccountKinds : Assigns(r, "number", AccountKinds, {account})
  <2>1. PICK account \in AccountKinds : Assigns(r, "number", AccountKinds, {account})
    BY <1>1
  <2>2. OneAccount({account}) /\ AccountKinds = AccountKinds
    BY DEF OneAccount
  <2>3. /\ "number" \in Kinds /\ AccountKinds \in SUBSET Kinds /\ {account} \in SUBSET Kinds
        /\ \A p \in {account} : <<"number", p>> \in ForeignKeys
    BY ForeignKeysAreKinds DEF Kinds
  <2> QED
    BY <2>1, <2>2, <2>3, AssignsFits
<1>2. CASE \E site \in SUBSET {"site"} : Assigns(r, "number", {"site"}, site)
  <2>1. PICK site \in SUBSET {"site"} : Assigns(r, "number", {"site"}, site)
    BY <1>2
  <2>2. {"site"} \intersect AccountKinds = {} /\ site \intersect AccountKinds = {}
    BY DEF AccountKinds
  <2>3. "number" \in Kinds /\ {"site"} \in SUBSET Kinds /\ site \in SUBSET Kinds
    BY DEF Kinds
  <2>4. \A p \in site : <<"number", p>> \in ForeignKeys
    BY <2>3, ForeignKeysAreKinds
  <2> QED
    BY <2>1, <2>2, <2>3, <2>4, AssignsFits
<1>3. CASE UpdateExtension(r)
  <2>1. PICK voicemail \in SUBSET {"voicemail"} :
          Assigns(r, "extension", {"voicemail"}, voicemail)
    BY <1>3 DEF UpdateExtension
  <2>2. /\ "extension" \in Kinds /\ {"voicemail"} \in SUBSET Kinds /\ voicemail \in SUBSET Kinds
        /\ \A p \in voicemail : <<"extension", p>> \in ForeignKeys
    BY DEF Kinds, SiteChildren, ForeignKeys
  <2> QED
    BY <2>1, <2>2, AssignsFits
<1>4. CASE TransferNumber(r) \/ UpdateNumber(r)
  BY <1>1, <1>2, <1>4 DEF TransferNumber, UpdateNumber
<1> QED
  BY <1>3, <1>4

(* The commits.                                                                  *)
LEMMA RegistryCommits ==
  ASSUME RegistryInv, NEW r \in Operators, Insert(r) \/ Update(r) \/ Delete(r)
  PROVE  RegistryInv'
<1>0. /\ records \subseteq Kinds /\ refs \subseteq ForeignKeys
      /\ operator \in [Operators -> Operation]
      /\ \A u \in Operators : OperationFits(operator[u])
      /\ \A ref \in refs : ref[1] \in records /\ ref[2] \in records
      /\ "number" \in records => \E k \in AccountKinds : AccountsOf(refs) = {k}
      /\ operator[r] \in Operation /\ OperationFits(operator[r])
  BY DEF RegistryInv
<1>1. operator' = [operator EXCEPT ![r] = NoOperation]
  BY DEF Insert, Update, Delete
<1>2. operator' \in [Operators -> Operation] /\ \A u \in Operators : OperationFits(operator'[u])
  BY <1>0, <1>1, NoOperationFits
<1> DEFINE o == operator[r]
<1>3. o.kind \in Kinds \union {"none"} /\ o.to \subseteq Kinds /\ o.column \subseteq Kinds
  BY <1>0 DEF Operation
<1>4. CASE Insert(r)
  <2>1. /\ o.op = "insert" /\ o.kind \notin records /\ Resolves(o.kind, o.to)
        /\ records' = records \union {o.kind} /\ refs' = refs \union ({o.kind} \X o.to)
    BY <1>4 DEF Insert
  <2>2. /\ \A p \in o.to : <<o.kind, p>> \in ForeignKeys /\ p \in records
        /\ o.kind = "number" => OneAccount(o.to)
    BY <1>0, <2>1 DEF OperationFits, Resolves
  <2>3. o.kind \in Kinds
    BY <1>0, <2>1 DEF OperationFits
  <2>4. refs' \subseteq ForeignKeys /\ records' \subseteq Kinds
    BY <1>0, <2>1, <2>2, <2>3
  <2>5. \A ref \in refs' : ref[1] \in records' /\ ref[2] \in records'
    BY <1>0, <2>1, <2>2
  <2>6. ASSUME "number" \in records' PROVE \E k \in AccountKinds : AccountsOf(refs') = {k}
    <3>1. CASE o.kind = "number"
      <4>1. AccountsOf(refs) = {}
        BY <1>0, <2>1, <3>1 DEF AccountsOf
      <4>2. AccountsOf(refs') = o.to \intersect AccountKinds
        BY <2>1, <3>1, <4>1 DEF AccountsOf
      <4> QED
        BY <2>2, <3>1, <4>2 DEF OneAccount
    <3>2. CASE o.kind # "number"
      BY <1>0, <2>1, <2>6, <3>2 DEF AccountsOf
    <3> QED
      BY <3>1, <3>2
  <2> QED
    BY <1>2, <2>4, <2>5, <2>6 DEF RegistryInv
<1>5. CASE Update(r)
  <2>1. /\ o.op = "update" /\ o.kind \in records /\ Resolves(o.kind, o.to) /\ records' = records
        /\ refs' = {ref \in refs : ~(ref[1] = o.kind /\ ref[2] \in o.column)} \union ({o.kind} \X o.to)
    BY <1>5 DEF Update
  <2>2. \A p \in o.to : <<o.kind, p>> \in ForeignKeys /\ p \in records
    BY <1>0, <2>1 DEF OperationFits, Resolves
  <2>4. refs' \subseteq ForeignKeys /\ records' \subseteq Kinds
    BY <1>0, <2>1, <2>2
  <2>5. \A ref \in refs' : ref[1] \in records' /\ ref[2] \in records'
    BY <1>0, <2>1, <2>2
  <2>6. ASSUME "number" \in records' PROVE \E k \in AccountKinds : AccountsOf(refs') = {k}
    <3>1. CASE o.kind = "number" /\ o.column = AccountKinds /\ OneAccount(o.to)
      <4>1. AccountsOf(refs') = o.to \intersect AccountKinds
        BY <2>1, <3>1 DEF AccountsOf
      <4> QED
        BY <3>1, <4>1 DEF OneAccount
    <3>2. CASE /\ o.kind = "number" /\ o.column \intersect AccountKinds = {}
               /\ o.to \intersect AccountKinds = {}
      <4>1. AccountsOf(refs') = AccountsOf(refs)
        BY <2>1, <3>2 DEF AccountsOf
      <4> QED
        BY <1>0, <2>1, <2>6, <4>1
    <3>3. CASE o.kind # "number"
      <4>1. AccountsOf(refs') = AccountsOf(refs)
        BY <2>1, <3>3 DEF AccountsOf
      <4> QED
        BY <1>0, <2>1, <2>6, <4>1
    <3> QED
      BY <1>0, <2>1, <3>1, <3>2, <3>3 DEF OperationFits
  <2> QED
    BY <1>2, <2>4, <2>5, <2>6 DEF RegistryInv
<1>6. CASE Delete(r)
  <2> DEFINE gone == {o.kind} \union o.to
  <2>1. /\ \A ref \in refs : ref[2] \in gone /\ ref \in ForeignKeys => ref[1] \in gone
        /\ records' = records \ gone /\ refs' = {ref \in refs : ref[1] \notin gone}
    BY <1>6 DEF Delete
  <2>2. refs' \subseteq ForeignKeys /\ records' \subseteq Kinds
    BY <1>0, <2>1
  <2>3. \A ref \in refs' : ref[1] \in records' /\ ref[2] \in records'
    BY <1>0, <2>1
  <2>4. ASSUME "number" \in records' PROVE \E k \in AccountKinds : AccountsOf(refs') = {k}
    <3>1. "number" \notin gone /\ "number" \in records
      BY <2>1, <2>4
    <3>2. AccountsOf(refs') = AccountsOf(refs)
      BY <2>1, <3>1 DEF AccountsOf
    <3> QED
      BY <1>0, <3>1, <3>2
  <2> QED
    BY <1>2, <2>2, <2>3, <2>4 DEF RegistryInv
<1> QED
  BY <1>4, <1>5, <1>6

LEMMA RegistryInvStep == RegistryInv /\ [RegistryNext]_registryVars => RegistryInv'
<1> SUFFICES ASSUME RegistryInv, [RegistryNext]_registryVars PROVE RegistryInv'
  OBVIOUS
<1>1. ASSUME NEW r \in Operators, Fail(r) PROVE RegistryInv'
  BY <1>1, NoOperationFits, RegistryLooks DEF Fail
<1>2. CASE UNCHANGED registryVars
  BY <1>2 DEF RegistryInv, registryVars
<1> QED
  BY <1>1, <1>2, CreatesFit, DeletesFit, UpdatesFit, RegistryCommits DEF RegistryNext

LEMMA NoOrphansFromInv == RegistryInv => RegistryTypeOK /\ NoOrphans
<1> SUFFICES ASSUME RegistryInv PROVE RegistryTypeOK /\ NoOrphans
  OBVIOUS
<1>1. RegistryTypeOK
  BY ForeignKeysAreKinds DEF RegistryInv, RegistryTypeOK, Operation
<1>2. ASSUME "number" \in records PROVE Cardinality(AccountsOf(refs)) = 1
  BY <1>2, FS_Singleton DEF RegistryInv
<1> QED
  BY <1>1, <1>2 DEF RegistryInv, NoOrphans, AccountsOf

LEMMA RegistryInvariant == RegistrySpec => []RegistryInv
BY RegistryInvInit, RegistryInvStep, PTL DEF RegistrySpec

(* No record refers to one that is gone and a number keeps one account, whatever any       *)
(* number of operators create, assign and delete at once.                            *)
THEOREM RowsHaveParents == RegistrySpec => [](RegistryTypeOK /\ NoOrphans)
<1>1. RegistryInv => RegistryTypeOK /\ NoOrphans
  BY NoOrphansFromInv
<1> QED
  BY RegistryInvariant, <1>1, PTL

-------------------------------------------------------------------------------
(* TeleopsRegistry, its calls.  A row a pull has found stays; what has a price is what *)
(* had one.                                                                       *)
LogRow == Rows \union {Unlogged}
Page == [status : Statuses, cost : BOOLEAN]
Pages == UNION {[D -> Page] : D \in SUBSET Calls}
Pull ==
  [op : {"none", "refresh"}, rows : [Calls -> LogRow] \union {<<>>}, number : {"absent", "site"},
   pages : Pages]

PullFits(pull) ==
  pull.op = "refresh" =>
    /\ pull.rows \in [Calls -> LogRow]
    /\ \A c \in Calls : pull.rows[c] # Unlogged => log[c] # Unlogged

CallsInv ==
  /\ provider \in [Calls -> [status : Statuses \union {"none"}, cost : BOOLEAN]]
  /\ log \in [Calls -> LogRow] /\ number \in {"absent", "site"}
  /\ priced = {c \in Calls : log[c].cost = TRUE}
  /\ \A c \in Calls : log[c].site # "none" => number = "site"
  /\ puller \in [Pullers -> Pull] /\ \A p \in Pullers : PullFits(puller[p])

LEMMA NoPullFits == NoPull \in Pull /\ NoPull.op = "none"
<1>1. <<>> \in Pages
  <2>1. <<>> \in [{} -> Page]
    OBVIOUS
  <2> QED
    BY <2>1 DEF Pages
<1> QED
  BY <1>1 DEF NoPull, Pull

LEMMA CallsInvInit == CallsInit => CallsInv
<1> SUFFICES ASSUME CallsInit PROVE CallsInv
  OBVIOUS
<1>1. Unlogged \in LogRow /\ Unlogged.cost = FALSE /\ Unlogged.site = "none"
  BY DEF Unlogged, LogRow
<1>2. NotCalled \in [status : Statuses \union {"none"}, cost : BOOLEAN]
  BY DEF NotCalled
<1> QED
  BY <1>1, <1>2, NoPullFits DEF CallsInit, CallsInv, PullFits

LEMMA RowFacts ==
  ASSUME NEW row \in LogRow
  PROVE  /\ row.cost \in BOOLEAN /\ row.site \in {"none", "site"}
         /\ row # Unlogged => row \in Rows
         /\ Unlogged.cost = FALSE /\ Unlogged.site = "none" /\ Unlogged \notin Rows
<1>1. Unlogged.cost = FALSE /\ Unlogged.site = "none" /\ Unlogged.status = "none"
  BY DEF Unlogged
<1>2. \A other \in Rows :
        /\ other.status \in Statuses /\ other.cost \in BOOLEAN /\ other.site \in {"none", "site"}
  BY DEF Rows
<1>3. "none" \notin Statuses
  BY DEF Statuses
<1>4. row \in Rows \/ row = Unlogged
  BY DEF LogRow
<1>5. row.cost \in BOOLEAN
  BY <1>1, <1>2, <1>4, Zenon
<1> QED
  BY <1>1, <1>2, <1>3, <1>4, <1>5

(* What is merged into a row: its price stays, and its site.                        *)
LEMMA MergedRow ==
  ASSUME NEW old \in LogRow, NEW row \in LogRow, NEW call \in Page, NEW site \in {"none", "site"},
         old = Unlogged <=> row = Unlogged
  PROVE  /\ Merged(old, row, call, site) \in Rows
         /\ row.cost = TRUE => Merged(old, row, call, site).cost = TRUE
         /\ row = Unlogged => Merged(old, row, call, site).site = site
         /\ row # Unlogged => Merged(old, row, call, site).site = row.site
<1>1. CASE old = Unlogged
  <2>1. Merged(old, row, call, site) = [status |-> call.status, cost |-> call.cost, site |-> site]
    BY <1>1 DEF Merged
  <2>2. call.status \in Statuses /\ call.cost \in BOOLEAN
    BY DEF Page
  <2>3. row = Unlogged /\ row.cost = FALSE
    BY <1>1, RowFacts
  <2>4. Merged(old, row, call, site) \in Rows
    BY <2>1, <2>2 DEF Rows
  <2>5. Merged(old, row, call, site).site = site
    BY <2>1
  <2> QED
    BY <2>3, <2>4, <2>5
<1>2. CASE old # Unlogged
  <2> DEFINE status == IF call.status = old.status THEN row.status ELSE call.status
             cost == row.cost \/ (call.cost /\ ~old.cost)
  <2>1. row \in Rows
    BY <1>2, RowFacts
  <2>2. Merged(old, row, call, site) = [row EXCEPT !.status = status, !.cost = cost]
    BY <1>2 DEF Merged
  <2>3. status \in Statuses /\ cost \in BOOLEAN /\ (row.cost = TRUE => cost = TRUE)
    BY <2>1 DEF Rows, Page
  <2> HIDE DEF status, cost
  <2>4. /\ [row EXCEPT !.status = status, !.cost = cost] \in Rows
        /\ [row EXCEPT !.status = status, !.cost = cost].cost = cost
        /\ [row EXCEPT !.status = status, !.cost = cost].site = row.site
    BY <2>1, <2>3 DEF Rows
  <2> QED
    BY <1>2, <2>2, <2>3, <2>4
<1> QED
  BY <1>1, <1>2

(* A pull goes on; the log stands.                                                *)
LEMMA PullGoesOn ==
  ASSUME CallsInv, NEW p \in Pullers, NEW pull \in Pull, PullFits(pull), Does(p, pull),
         UNCHANGED <<provider, number, log, priced>>
  PROVE  CallsInv'
BY DEF CallsInv, PullFits, Does

LEMMA RefreshCommitted ==
  ASSUME CallsInv, NEW p \in Pullers, RefreshCommit(p)
  PROVE  CallsInv'
<1> DEFINE pull == puller[p]
           place == IF pull.number = "absent" THEN "none" ELSE pull.number
           new == {c \in DOMAIN pull.pages : pull.rows[c] = Unlogged}
           result(c) == Merged(pull.rows[c], log[c], pull.pages[c], place)
<1>1. /\ pull.op = "refresh"
      /\ \A c \in new : log[c] = Unlogged
      /\ new # {} /\ pull.number # "absent" => number # "absent"
      /\ log' = [c \in Calls |-> IF c \in DOMAIN pull.pages THEN result(c) ELSE log[c]]
      /\ priced' = priced \union {c \in Calls : log'[c].cost}
      /\ puller' = [puller EXCEPT ![p] = NoPull] /\ UNCHANGED <<provider, number>>
  BY DEF RefreshCommit, Commits, Does
<1>2. /\ pull \in Pull /\ PullFits(pull) /\ place \in {"none", "site"}
      /\ log \in [Calls -> LogRow] /\ number \in {"absent", "site"}
      /\ \A c \in Calls : log[c].site # "none" => number = "site"
  BY DEF CallsInv, Pull
<1>3. /\ DOMAIN pull.pages \subseteq Calls /\ \A c \in DOMAIN pull.pages : pull.pages[c] \in Page
  <2>1. pull.pages \in Pages
    BY <1>2 DEF Pull
  <2>2. PICK D \in SUBSET Calls : pull.pages \in [D -> Page]
    BY <2>1 DEF Pages
  <2> HIDE DEF pull
  <2> QED
    BY <2>2
<1>4. \A c \in DOMAIN pull.pages :
        /\ pull.rows[c] \in LogRow /\ log[c] \in LogRow
        /\ pull.rows[c] = Unlogged <=> log[c] = Unlogged
  BY <1>1, <1>2, <1>3 DEF PullFits
<1>5. \A c \in DOMAIN pull.pages :
        /\ result(c) \in Rows /\ (log[c].cost = TRUE => result(c).cost = TRUE)
        /\ log[c] = Unlogged => result(c).site = place
        /\ log[c] # Unlogged => result(c).site = log[c].site
  <2> SUFFICES ASSUME NEW c \in DOMAIN pull.pages
               PROVE  /\ result(c) \in Rows /\ (log[c].cost = TRUE => result(c).cost = TRUE)
                      /\ log[c] = Unlogged => result(c).site = place
                      /\ log[c] # Unlogged => result(c).site = log[c].site
    OBVIOUS
  <2>1. /\ pull.rows[c] \in LogRow /\ log[c] \in LogRow /\ pull.pages[c] \in Page
        /\ place \in {"none", "site"} /\ (pull.rows[c] = Unlogged <=> log[c] = Unlogged)
    BY <1>2, <1>3, <1>4
  <2> HIDE DEF pull, place
  <2>2. result(c) = Merged(pull.rows[c], log[c], pull.pages[c], place)
    OBVIOUS
  <2> HIDE DEF result
  <2>3. \A old, now \in LogRow, call \in Page, site \in {"none", "site"} :
          (old = Unlogged <=> now = Unlogged) =>
            /\ Merged(old, now, call, site) \in Rows
            /\ now.cost = TRUE => Merged(old, now, call, site).cost = TRUE
            /\ now = Unlogged => Merged(old, now, call, site).site = site
            /\ now # Unlogged => Merged(old, now, call, site).site = now.site
    BY MergedRow
  <2> QED
    BY <2>1, <2>2, <2>3
<1> HIDE DEF result
<1>6. log' \in [Calls -> LogRow]
  BY <1>1, <1>2, <1>5 DEF LogRow
<1>7. \A c \in Calls : log[c].cost = TRUE => log'[c].cost = TRUE
  <2>1. \A c \in Calls : log'[c] = IF c \in DOMAIN pull.pages THEN result(c) ELSE log[c]
    BY <1>1
  <2> HIDE DEF pull
  <2> QED
    BY <1>5, <2>1
<1>8. priced' = {c \in Calls : log'[c].cost = TRUE}
  <2>1. \A c \in Calls : log'[c].cost \in BOOLEAN
    BY <1>6, RowFacts
  <2>2. {c \in Calls : log'[c].cost} = {c \in Calls : log'[c].cost = TRUE}
    BY <2>1
  <2>3. priced \subseteq {c \in Calls : log'[c].cost = TRUE}
    BY <1>7 DEF CallsInv
  <2> QED
    BY <1>1, <2>2, <2>3
<1>9. \A c \in Calls : log'[c].site # "none" => number' = "site"
  <2>1. ASSUME NEW c \in Calls, log'[c].site # "none" PROVE number = "site"
    <3>1. CASE c \notin DOMAIN pull.pages
      BY <1>1, <1>2, <2>1, <3>1
    <3>2. CASE c \in DOMAIN pull.pages /\ log[c] # Unlogged
      BY <1>1, <1>2, <1>5, <2>1, <3>2
    <3>3. CASE c \in DOMAIN pull.pages /\ log[c] = Unlogged
      <4>1. c \in new
        BY <1>4, <3>3
      <4>2. place # "none"
        BY <1>1, <1>5, <2>1, <3>3
      <4> QED
        BY <1>1, <1>2, <4>1, <4>2
    <3> QED
      BY <3>1, <3>2, <3>3
  <2> QED
    BY <1>1, <2>1
<1>10. /\ puller' \in [Pullers -> Pull] /\ \A q \in Pullers : PullFits(puller[q])'
  <2>1. \A c \in Calls : log[c] # Unlogged => log'[c] # Unlogged
    <3>1. \A c \in DOMAIN pull.pages : result(c) # Unlogged
      <4>1. \A c \in DOMAIN pull.pages : result(c) \in Rows
        BY <1>5
      <4>2. Unlogged \notin Rows
        BY DEF Unlogged, Rows, Statuses
      <4> QED
        BY <4>1, <4>2
    <3> QED
      BY <1>1, <3>1
  <2>2. puller' \in [Pullers -> Pull] /\ puller'[p] = NoPull
        /\ \A q \in Pullers \ {p} : puller'[q] = puller[q]
    BY <1>1, NoPullFits DEF CallsInv
  <2> QED
    BY <2>1, <2>2, NoPullFits DEF CallsInv, PullFits
<1> QED
  BY <1>1, <1>6, <1>8, <1>9, <1>10 DEF CallsInv

LEMMA CallsInvStep == CallsInv /\ [CallsNext]_callVars => CallsInv'
<1> SUFFICES ASSUME CallsInv, [CallsNext]_callVars PROVE CallsInv'
  OBVIOUS
<1>1. ASSUME NEW p \in Pullers, RefreshBegin(p) PROVE CallsInv'
  <2> DEFINE pull == [NoPull EXCEPT !.op = "refresh", !.rows = log, !.number = number]
  <2>1. /\ pull \in Pull /\ PullFits(pull)
    <3>1. /\ pull \in Pull /\ pull.rows = log
      BY NoPullFits DEF CallsInv, Pull
    <3> HIDE DEF pull
    <3> QED
      BY <3>1 DEF CallsInv, PullFits
  <2>2. Does(p, pull) /\ UNCHANGED <<provider, number, log, priced>>
    BY <1>1 DEF RefreshBegin
  <2> HIDE DEF pull
  <2> QED
    BY <2>1, <2>2, PullGoesOn
<1>2. ASSUME NEW p \in Pullers, FetchPage(p) PROVE CallsInv'
  <2>1. PICK page \in SUBSET {c \in Calls : provider[c].status # "none"} :
          Does(p, [puller[p] EXCEPT
            !.pages = [c \in DOMAIN @ \union page |-> IF c \in page THEN provider[c] ELSE @[c]]])
    BY <1>2 DEF FetchPage
  <2> DEFINE old == puller[p].pages
             pages == [c \in DOMAIN old \union page |-> IF c \in page THEN provider[c] ELSE old[c]]
             pull == [puller[p] EXCEPT !.pages = pages]
  <2>2. puller[p] \in Pull /\ PullFits(puller[p]) /\ old \in Pages
    BY DEF CallsInv, Pull
  <2>3. PICK D \in SUBSET Calls : old \in [D -> Page]
    BY <2>2 DEF Pages
  <2>4. \A c \in page : provider[c] \in Page
    BY <2>1 DEF CallsInv, Page
  <2>5. pages \in [D \union page -> Page] /\ D \union page \in SUBSET Calls
    BY <2>1, <2>3, <2>4
  <2>6. pages \in Pages
    BY <2>5 DEF Pages
  <2>7. Does(p, pull) /\ UNCHANGED <<provider, number, log, priced>>
    BY <1>2, <2>1 DEF FetchPage
  <2> HIDE DEF pages
  <2>8. pull \in Pull /\ pull.op = puller[p].op /\ pull.rows = puller[p].rows
    BY <2>2, <2>6 DEF Pull
  <2> HIDE DEF pull
  <2>9. PullFits(pull)
    BY <2>2, <2>8 DEF PullFits
  <2> QED
    BY <2>7, <2>8, <2>9, PullGoesOn
<1>3. ASSUME NEW p \in Pullers, RefreshFails(p) PROVE CallsInv'
  BY <1>3, NoPullFits, PullGoesOn DEF RefreshFails, PullFits
<1>4. ASSUME NEW c \in Calls, CallGoesOn(c) PROVE CallsInv'
  <2>1. UNCHANGED <<number, log, priced, puller>>
    BY <1>4 DEF CallGoesOn
  <2>2. provider' \in [Calls -> [status : Statuses \union {"none"}, cost : BOOLEAN]]
    <3> DEFINE Call == [status : Statuses \union {"none"}, cost : BOOLEAN]
    <3>1. provider \in [Calls -> Call] /\ provider[c] \in Call
      BY DEF CallsInv
    <3>2. /\ [provider[c] EXCEPT !.status = "queued"] \in Call
          /\ [provider[c] EXCEPT !.status = "ringing"] \in Call
          /\ [provider[c] EXCEPT !.status = "completed"] \in Call
          /\ [provider[c] EXCEPT !.cost = TRUE] \in Call
      BY <3>1 DEF Statuses
    <3>3. \E call \in Call : provider' = [provider EXCEPT ![c] = call]
      BY <1>4, <3>2 DEF CallGoesOn
    <3> HIDE DEF Call
    <3>4. provider' \in [Calls -> Call]
      BY <3>1, <3>3
    <3> QED
      BY <3>4 DEF Call
  <2> QED
    BY <2>1, <2>2 DEF CallsInv, PullFits
<1>5. CASE NumberChanges
  BY <1>5, RowFacts DEF CallsInv, PullFits, NumberChanges
<1>6. CASE UNCHANGED callVars
  BY <1>6 DEF CallsInv, PullFits, callVars
<1> QED
  BY <1>1, <1>2, <1>3, <1>4, <1>5, <1>6, RefreshCommitted DEF CallsNext

LEMMA BilledFromInv == CallsInv => CallsTypeOK /\ BilledOnce
<1> SUFFICES ASSUME CallsInv PROVE CallsTypeOK /\ BilledOnce
  OBVIOUS
<1>1. CallsTypeOK
  <2>1. \A p \in Pullers :
          puller[p].op \in {"none", "refresh"} /\ DOMAIN puller[p].pages \subseteq Calls
    <3> SUFFICES ASSUME NEW p \in Pullers
                 PROVE  puller[p].op \in {"none", "refresh"} /\ DOMAIN puller[p].pages \subseteq Calls
      OBVIOUS
    <3>1. puller[p].op \in {"none", "refresh"} /\ puller[p].pages \in Pages
      BY DEF CallsInv, Pull
    <3>2. PICK D \in SUBSET Calls : puller[p].pages \in [D -> Page]
      BY <3>1 DEF Pages
    <3> QED
      BY <3>1, <3>2
  <2> QED
    BY <2>1 DEF CallsInv, CallsTypeOK, LogRow
<1> DEFINE Of(site) == {c \in Calls : log[c].cost /\ log[c].site = site}
<1>2. \A c \in Calls : log[c].cost \in BOOLEAN /\ log[c].site \in {"none", "site"}
  BY RowFacts DEF CallsInv
<1>3. /\ priced = Of("site") \union Of("none") /\ Of("site") \intersect Of("none") = {}
  <2>1. priced = {c \in Calls : log[c].cost = TRUE}
    BY DEF CallsInv
  <2> QED
    BY <1>2, <2>1
<1>4. IsFiniteSet(Of("site")) /\ IsFiniteSet(Of("none"))
  BY CallsAssumption, FS_Subset
<1>5. /\ Rollup("site") = Cardinality(Of("site")) /\ Rollup("none") = Cardinality(Of("none"))
  BY DEF Rollup
<1> HIDE DEF Of
<1>6. Cardinality(priced) = Cardinality(Of("site")) + Cardinality(Of("none"))
  <2>1. /\ Cardinality(Of("site") \union Of("none")) =
             Cardinality(Of("site")) + Cardinality(Of("none"))
               - Cardinality(Of("site") \intersect Of("none"))
        /\ Cardinality(Of("site")) \in Nat /\ Cardinality(Of("none")) \in Nat
    BY <1>4, FS_Union, FS_CardinalityType
  <2> QED
    BY <1>3, <2>1, FS_EmptySet
<1>7. \A c \in Calls : log[c].site # "none" => number = log[c].site
  BY <1>2 DEF CallsInv
<1> QED
  BY <1>1, <1>5, <1>6, <1>7 DEF BilledOnce

LEMMA CallsInvariant == CallsSpec => []CallsInv
BY CallsInvInit, CallsInvStep, PTL DEF CallsSpec

(* However many pulls overlap, for any finite number of calls, a call whose price was       *)
(* stored is billed once, and to no site whose number is gone.                        *)
THEOREM CallsBilledOnce == CallsSpec => [](CallsTypeOK /\ BilledOnce)
<1>1. CallsInv => CallsTypeOK /\ BilledOnce
  BY BilledFromInv
<1> QED
  BY CallsInvariant, <1>1, PTL

-------------------------------------------------------------------------------
(* PredictiveSignals, its tally.  What the first aggregate counted is the snapshot. *)
Tally == {tally \in TallyType : Total(tally) <= MaxOutcomes}
Reader ==
  [pc : {"idle", "counted", "rows", "done"}, snapshot : Tally, counts : Tally,
   bySignal : 0 .. MaxOutcomes, totals : Tally]

TallyInv ==
  /\ outcomes \in Tally /\ rolling \in Tally /\ metrics \in Reader
  /\ metrics.pc = "counted" => metrics.counts = metrics.snapshot
  /\ ReportAddsUp

LEMMA NoneCounted == NoTally \in Tally /\ Total(NoTally) = 0 /\ NoReader \in Reader
<1>1. NoTally \in Tally /\ Total(NoTally) = 0
  BY TallyAssumption DEF NoTally, Tally, TallyType, Total, Verdicts
<1>2. 0 \in 0 .. MaxOutcomes
  BY TallyAssumption
<1> QED
  BY <1>1, <1>2 DEF NoReader, Reader

LEMMA TotalFits ==
  ASSUME NEW tally \in Tally
  PROVE  Total(tally) \in 0 .. MaxOutcomes
BY TallyAssumption DEF Tally, TallyType, Total, Verdicts

LEMMA OneMoreFits ==
  ASSUME NEW tally \in Tally, NEW verdict \in Verdicts, Total(tally) < MaxOutcomes
  PROVE  OneMore(tally, verdict) \in Tally
<1>1. /\ tally \in [Verdicts -> 0 .. MaxOutcomes] /\ "correct" \in Verdicts /\ "incorrect" \in Verdicts
      /\ tally["correct"] \in Nat /\ tally["incorrect"] \in Nat
      /\ tally["correct"] + tally["incorrect"] < MaxOutcomes
  BY TallyAssumption DEF Tally, TallyType, Total, Verdicts
<1>2. tally[verdict] + 1 \in 0 .. MaxOutcomes
  BY <1>1, TallyAssumption DEF Verdicts
<1> DEFINE more == [tally EXCEPT ![verdict] = tally[verdict] + 1]
<1>3. more \in [Verdicts -> 0 .. MaxOutcomes] /\ OneMore(tally, verdict) = more
  BY <1>1, <1>2 DEF OneMore
<1>4. more["correct"] + more["incorrect"] = tally["correct"] + tally["incorrect"] + 1
  BY <1>1 DEF Verdicts
<1> HIDE DEF more
<1>5. more["correct"] + more["incorrect"] <= MaxOutcomes
  BY <1>1, <1>4, TallyAssumption
<1> QED
  BY <1>3, <1>5 DEF Tally, TallyType, Total

LEMMA TallyInvInit == TallyInit => TallyInv
BY NoneCounted DEF TallyInit, TallyInv, ReportAddsUp, NoReader

LEMMA TallyInvStep == TallyInv /\ [TallyNext]_tallyVars => TallyInv'
<1> SUFFICES ASSUME TallyInv, [TallyNext]_tallyVars PROVE TallyInv'
  OBVIOUS
<1>0. /\ outcomes \in Tally /\ rolling \in Tally /\ metrics \in Reader
      /\ metrics.pc = "counted" => metrics.counts = metrics.snapshot
      /\ metrics.pc \in {"rows", "done"} => metrics.bySignal = Total(metrics.counts)
      /\ metrics.snapshot \in Tally /\ metrics.counts \in Tally
  BY DEF TallyInv, ReportAddsUp, Reader
<1>1. ASSUME NEW verdict \in Verdicts, RecordOutcome(verdict) PROVE TallyInv'
  <2>1. /\ Total(outcomes) < MaxOutcomes /\ Total(rolling) < MaxOutcomes /\ metrics' = metrics
        /\ rolling' \in {rolling, OneMore(rolling, verdict)}
        /\ outcomes' \in {outcomes, OneMore(outcomes, verdict)}
    BY <1>1 DEF RecordOutcome
  <2>2. outcomes' \in Tally /\ rolling' \in Tally
    BY <1>0, <2>1, OneMoreFits
  <2> QED
    BY <1>0, <2>1, <2>2 DEF TallyInv, ReportAddsUp
<1>2. CASE RollingExpires
  BY <1>0, <1>2, NoneCounted DEF RollingExpires, TallyInv, ReportAddsUp
<1>3. CASE CountOutcomes
  <2> DEFINE q == [NoReader EXCEPT !.pc = "counted", !.snapshot = outcomes, !.counts = outcomes]
  <2>1. metrics' = q /\ UNCHANGED <<outcomes, rolling>>
    BY <1>3 DEF CountOutcomes
  <2>2. q \in Reader /\ q.pc = "counted" /\ q.counts = q.snapshot
    BY <1>0, NoneCounted DEF Reader
  <2> HIDE DEF q
  <2> QED
    BY <1>0, <2>1, <2>2 DEF TallyInv, ReportAddsUp
<1>4. CASE CountSignals
  <2>1. UNCHANGED <<outcomes, rolling>> /\ metrics.pc = "counted"
    BY <1>4 DEF CountSignals
  <2>2. CASE metrics' = [metrics EXCEPT !.pc = "rows", !.bySignal = SignalRows]
    <3>1. SignalRows \in 0 .. MaxOutcomes /\ SignalRows = Total(metrics.counts)
      BY <1>0, <2>1, TotalFits DEF SignalRows
    <3>2. metrics' \in Reader /\ metrics'.pc = "rows" /\ metrics'.bySignal = SignalRows
          /\ metrics'.counts = metrics.counts
      BY <1>0, <2>2, <3>1 DEF Reader
    <3> QED
      BY <1>0, <2>1, <3>1, <3>2 DEF TallyInv, ReportAddsUp
  <2>3. CASE metrics' = [NoReader EXCEPT !.pc = "rows"]
    <3>1. /\ metrics' \in Reader /\ metrics'.pc = "rows" /\ metrics'.bySignal = 0
          /\ metrics'.counts = NoTally
      BY <2>3, NoneCounted DEF Reader, NoReader
    <3> QED
      BY <1>0, <2>1, <3>1, NoneCounted DEF TallyInv, ReportAddsUp
  <2> QED
    BY <1>4, <2>2, <2>3 DEF CountSignals
<1>5. CASE ReadRolling
  <2>1. PICK totals \in {rolling, NoTally} :
          metrics' = [metrics EXCEPT !.pc = "done", !.snapshot = NoTally, !.totals = totals]
    BY <1>5 DEF ReadRolling
  <2>2. metrics.pc = "rows" /\ UNCHANGED <<outcomes, rolling>> /\ totals \in Tally /\ NoTally \in Tally
    BY <1>0, <1>5, NoneCounted DEF ReadRolling
  <2>3. /\ metrics' \in Reader /\ metrics'.pc = "done" /\ metrics'.bySignal = metrics.bySignal
        /\ metrics'.counts = metrics.counts
    BY <1>0, <2>1, <2>2 DEF Reader
  <2> QED
    BY <1>0, <2>2, <2>3 DEF TallyInv, ReportAddsUp
<1>6. CASE UNCHANGED tallyVars
  BY <1>0, <1>6 DEF tallyVars, TallyInv, ReportAddsUp
<1> QED
  BY <1>1, <1>2, <1>3, <1>4, <1>5, <1>6 DEF TallyNext

LEMMA AddsUpFromInv == TallyInv => TallyTypeOK /\ ReportAddsUp
BY DEF TallyInv, TallyTypeOK, Reader, Tally

LEMMA TallyInvariant == TallySpec => []TallyInv
BY TallyInvInit, TallyInvStep, PTL DEF TallySpec

(* The two parts of an accuracy report count the same outcomes, however many are         *)
(* recorded between its queries.                                                    *)
THEOREM ReportsAddUp == TallySpec => [](TallyTypeOK /\ ReportAddsUp)
<1>1. TallyInv => TallyTypeOK /\ ReportAddsUp
  BY AddsUpFromInv
<1> QED
  BY TallyInvariant, <1>1, PTL

(* PredictiveSignals.  An upgrade is never sure enough to be activated unconfirmed.  *)
SignalTypes == {"near_expiry", "invoice", "due_soon", "grace", "retry", "suspension", "upgrade"}
SignalType ==
  {s \in [type : SignalTypes, confidence : (12 * 70) .. (12 * 95), from : States,
          to : States \union Plans, opens : Nat] :
     IF s.type = "upgrade" THEN s.confidence = 12 * 78 /\ s.to \in Plans ELSE s.to \in States}

ContractType ==
  [to : States, plan : Plans, confirm : BOOLEAN, basis : [status : States, plan : Plans]]

PredInv ==
  /\ sub \in SubType /\ upgrade \in Plans \union {"none"}
  /\ signalScan \in [pc : {"idle", "counting", "asking", "building"}, signals : SUBSET SignalType]
  /\ contract = NoContract \/ contract \in ContractType
  /\ NothingGrantedUnconfirmed

LEMMA NoSignals ==
  NoSignalScan \in [pc : {"idle", "counting", "asking", "building"}, signals : SUBSET SignalType]
BY DEF NoSignalScan

LEMMA PredInvInit == PredInit => PredInv
BY NoSignals, PredAssumption
DEF PredInit, PredInv, SubType, States, Plans, NothingGrantedUnconfirmed

LEMMA SignalFits ==
  ASSUME NEW type \in SignalTypes \ {"upgrade"}, NEW confidence \in Nat, NEW to \in States,
         NEW opens \in Nat, sub \in SubType, confidence <= 12 * 95,
         Signal(type, confidence, to, opens).confidence >= 12 * 70
  PROVE  Signal(type, confidence, to, opens) \in SignalType
BY DEF Signal, SignalType, SubType

LEMMA DetectedFits == sub \in SubType => Detected \subseteq SignalType
<1> SUFFICES ASSUME sub \in SubType, NEW s \in Detected PROVE s \in SignalType
  OBVIOUS
<1> DEFINE d == sub.left
<1>1. /\ d \in Nat /\ sub.age \in Nat /\ sub.status \in States
      /\ \A n \in Int : FromNow(n) \in Nat
  BY PredAssumption DEF SubType, FromNow
<1>2. s.confidence >= 12 * 70
  BY DEF Detected
<1>3. \/ d \in 1 .. 3
           /\ s = Signal("near_expiry", Lerp(d, 3, 0, 92, 75), "expired", FromNow(24 * d - 1))
      \/ d \in 4 .. 7 /\ s = Signal("invoice", Lerp(d, 7, 3, 65, 75), "past_due", 24 * d - 24)
      \/ d \in 1 .. 3
           /\ s = Signal("due_soon", Lerp(d, 3, 0, 92, 80), "past_due", FromNow(24 * d - 2))
      \/ \E to \in {"suspended", "canceled"} :
           d \in 1 .. 2 /\ s = Signal("grace", Lerp(d, 2, 0, 95, 85), to, FromNow(24 * d - 1))
      \/ s = Signal("retry", 12 * Least(80, 60 + 5 * sub.age), "active", 0)
      \/ sub.age >= 3
           /\ s = Signal("suspension", 12 * Least(88, 72 + 4 * (sub.age - 3)), "suspended", 0)
  BY <1>1 DEF Detected
<1>4. /\ States = {"trial", "active", "past_due", "suspended", "canceled", "expired"}
      /\ \A m, n \in Nat : Least(m, n) \in Nat /\ Least(m, n) <= m
  BY DEF States, Least
<1>5. CASE /\ d \in 1 .. 3
           /\ s = Signal("near_expiry", Lerp(d, 3, 0, 92, 75), "expired", FromNow(24 * d - 1))
  <2>1. Lerp(d, 3, 0, 92, 75) \in Nat /\ Lerp(d, 3, 0, 92, 75) <= 12 * 95
    BY <1>5 DEF Lerp
  <2>2. FromNow(24 * d - 1) \in Nat
    BY <1>1
  <2> QED
    BY <1>2, <1>4, <1>5, <2>1, <2>2, SignalFits DEF SignalTypes
<1>6. CASE d \in 4 .. 7 /\ s = Signal("invoice", Lerp(d, 7, 3, 65, 75), "past_due", 24 * d - 24)
  <2>1. Lerp(d, 7, 3, 65, 75) \in Nat /\ Lerp(d, 7, 3, 65, 75) <= 12 * 95 /\ 24 * d - 24 \in Nat
    BY <1>6 DEF Lerp
  <2> QED
    BY <1>2, <1>4, <1>6, <2>1, SignalFits DEF SignalTypes
<1>7. CASE /\ d \in 1 .. 3
           /\ s = Signal("due_soon", Lerp(d, 3, 0, 92, 80), "past_due", FromNow(24 * d - 2))
  <2>1. Lerp(d, 3, 0, 92, 80) \in Nat /\ Lerp(d, 3, 0, 92, 80) <= 12 * 95
    BY <1>7 DEF Lerp
  <2>2. FromNow(24 * d - 2) \in Nat
    BY <1>1
  <2> QED
    BY <1>2, <1>4, <1>7, <2>1, <2>2, SignalFits DEF SignalTypes
<1>8. CASE \E to \in {"suspended", "canceled"} :
             d \in 1 .. 2 /\ s = Signal("grace", Lerp(d, 2, 0, 95, 85), to, FromNow(24 * d - 1))
  <2>1. PICK to \in {"suspended", "canceled"} :
          d \in 1 .. 2 /\ s = Signal("grace", Lerp(d, 2, 0, 95, 85), to, FromNow(24 * d - 1))
    BY <1>8
  <2>2. Lerp(d, 2, 0, 95, 85) \in Nat /\ Lerp(d, 2, 0, 95, 85) <= 12 * 95
    BY <2>1 DEF Lerp
  <2>3. FromNow(24 * d - 1) \in Nat /\ to \in States
    <3>1. 24 * d - 1 \in Int
      BY <1>1
    <3> QED
      BY <1>1, <1>4, <3>1
  <2> QED
    BY <1>2, <2>1, <2>2, <2>3, SignalFits DEF SignalTypes
<1>9. CASE s = Signal("retry", 12 * Least(80, 60 + 5 * sub.age), "active", 0)
  <2>1. 12 * Least(80, 60 + 5 * sub.age) \in Nat /\ 12 * Least(80, 60 + 5 * sub.age) <= 12 * 95
    <3>1. 60 + 5 * sub.age \in Nat
      BY <1>1
    <3>2. /\ Least(80, 60 + 5 * sub.age) \in Nat /\ Least(80, 60 + 5 * sub.age) <= 80
      BY <1>4, <3>1
    <3> QED
      BY <3>2
  <2> QED
    BY <1>2, <1>4, <1>9, <2>1, SignalFits DEF SignalTypes
<1>10. CASE /\ sub.age >= 3
            /\ s = Signal("suspension", 12 * Least(88, 72 + 4 * (sub.age - 3)), "suspended", 0)
  <2> DEFINE c == 72 + 4 * (sub.age - 3)
  <2>1. 12 * Least(88, c) \in Nat /\ 12 * Least(88, c) <= 12 * 95
    <3>1. c \in Nat
      <4>1. sub.age \in Nat /\ sub.age >= 3
        BY <1>1, <1>10
      <4> QED
        BY <4>1
    <3> HIDE DEF c
    <3>2. Least(88, c) \in Nat /\ Least(88, c) <= 88
      BY <1>4, <3>1
    <3> QED
      BY <3>2
  <2> QED
    BY <1>2, <1>4, <1>10, <2>1, SignalFits DEF SignalTypes
<1> QED
  BY <1>3, <1>5, <1>6, <1>7, <1>8, <1>9, <1>10

LEMMA WithUpgradeFits == PredInv => WithUpgrade \subseteq SUBSET SignalType
<1> SUFFICES ASSUME PredInv PROVE WithUpgrade \subseteq SUBSET SignalType
  OBVIOUS
<1> DEFINE s == [type |-> "upgrade", confidence |-> 12 * 78, from |-> "active",
                 to |-> upgrade, opens |-> 0]
<1>1. signalScan.signals \subseteq SignalType
  BY DEF PredInv
<1>2. ASSUME upgrade # "none" PROVE s \in SignalType
  BY <1>2 DEF PredInv, SignalType, SignalTypes, States
<1> QED
  BY <1>1, <1>2 DEF WithUpgrade

(* The state, the report and the scan move on; the contract stands or is dropped.   *)
LEMMA PredGoesOn ==
  ASSUME PredInv, sub' \in SubType, upgrade' \in Plans \union {"none"},
         signalScan' \in [pc : {"idle", "counting", "asking", "building"}, signals : SUBSET SignalType],
         contract' \in {contract, NoContract}
  PROVE  PredInv'
BY DEF PredInv, NothingGrantedUnconfirmed

(* What is built of a signal.                                                      *)
LEMMA ContractFits ==
  ASSUME PredInv, NEW signal \in SignalType,
         contract' = [to |-> signal.to, plan |-> sub.plan, confirm |-> RequiresConfirmation(signal),
                      basis |-> [status |-> sub.status, plan |-> sub.plan]],
         signal.type # "upgrade", Accepted(sub.status, signal.to)
  PROVE  contract' \in ContractType /\ NothingGrantedUnconfirmed'
<1>1. /\ signal.to \in States /\ sub.status \in States /\ sub.plan \in Plans
  BY DEF SignalType, PredInv, SubType
<1>2. RequiresConfirmation(signal) \in BOOLEAN
  BY DEF RequiresConfirmation
<1>3. contract' \in ContractType
  BY <1>1, <1>2 DEF ContractType
<1>4. ASSUME ~contract'.confirm
      PROVE  /\ Restriction[signal.to] > Restriction[sub.status]
             /\ signal.to \in AllowedTransitions[sub.status]
  <2>1. Restriction[signal.to] > Restriction[sub.status]
    BY <1>4 DEF RequiresConfirmation
  <2>2. Restriction[sub.status] \in Nat
    BY <1>1 DEF Restriction, States
  <2> QED
    BY <2>1, <2>2 DEF Accepted
<1> QED
  BY <1>3, <1>4 DEF NothingGrantedUnconfirmed

LEMMA PredInvStep == PredInv /\ [PredNext]_predVars => PredInv'
<1> SUFFICES ASSUME PredInv, [PredNext]_predVars PROVE PredInv'
  OBVIOUS
<1> DEFINE Scans == [pc : {"idle", "counting", "asking", "building"}, signals : SUBSET SignalType]
<1>0. /\ sub \in SubType /\ upgrade \in Plans \union {"none"} /\ signalScan \in Scans
      /\ NoSignalScan \in Scans /\ Detected \subseteq SignalType
      /\ WithUpgrade \subseteq SUBSET SignalType
  BY NoSignals, DetectedFits, WithUpgradeFits DEF PredInv
<1>1. CASE ReportArrives
  <2>1. PICK status \in States, plan \in Plans, left \in 0 .. MaxLeft :
          sub' = [status |-> status, plan |-> plan, left |-> left, age |-> 0]
    BY <1>1 DEF ReportArrives
  <2>2. sub' \in SubType
    BY <2>1, PredAssumption DEF SubType
  <2> QED
    BY <1>0, <1>1, <2>2, PredGoesOn DEF ReportArrives
<1>2. CASE DayPasses
  <2> DEFINE left == FromNow(sub.left - 1)
             age == IF sub.status = "past_due" THEN Least(MaxAge, sub.age + 1) ELSE 0
  <2>1. left \in 0 .. MaxLeft /\ age \in 0 .. MaxAge
    BY <1>0, PredAssumption DEF SubType, FromNow, Least
  <2>2. sub' = [sub EXCEPT !.left = left, !.age = age]
    BY <1>2 DEF DayPasses
  <2> HIDE DEF left, age
  <2>3. sub' \in SubType
    BY <1>0, <2>1, <2>2 DEF SubType
  <2> QED
    BY <1>0, <1>2, <2>3, PredGoesOn DEF DayPasses
<1>3. CASE UpgradePending
  BY <1>0, <1>3, PredGoesOn DEF UpgradePending
<1>4. CASE ScanTenant \/ ScanAll
  <2>1. signalScan' \in Scans /\ contract' = NoContract /\ UNCHANGED <<sub, upgrade>>
    BY <1>0, <1>4 DEF ScanTenant, ScanAll
  <2> QED
    BY <1>0, <2>1, PredGoesOn
<1>5. CASE AskCounted
  <2>1. signalScan' \in Scans /\ UNCHANGED <<sub, upgrade, contract>>
    BY <1>0, <1>5 DEF AskCounted
  <2> QED
    BY <1>0, <2>1, PredGoesOn
<1>6. CASE Ask
  <2>1. PICK signals \in WithUpgrade :
          IF signals = {} THEN signalScan' = NoSignalScan
          ELSE \E best \in Best(signals) : signalScan' = [pc |-> "building", signals |-> {best}]
    BY <1>6 DEF Ask
  <2>2. Best(signals) \subseteq SignalType
    BY <1>0 DEF Best
  <2>3. signalScan' \in Scans
    BY <1>0, <2>1, <2>2
  <2> QED
    BY <1>0, <1>6, <2>3, PredGoesOn DEF Ask
<1>7. CASE Project
  <2>1. signalScan' = NoSignalScan /\ UNCHANGED <<sub, upgrade>>
    BY <1>7 DEF Project
  <2>2. PICK signal \in signalScan.signals :
          LET upgrades == signal.type = "upgrade"
              s == IF upgrades THEN [signal EXCEPT !.to = "active"] ELSE signal
          IN contract' = IF ~Accepted(sub.status, s.to) THEN NoContract
                         ELSE [to |-> s.to, plan |-> IF upgrades THEN signal.to ELSE sub.plan,
                               confirm |-> RequiresConfirmation(s),
                               basis |-> [status |-> sub.status, plan |-> sub.plan]]
    BY <1>7 DEF Project
  <2>3. signal \in SignalType
    BY <1>0
  <2>4. CASE contract' = NoContract
    BY <1>0, <2>1, <2>4, PredGoesOn
  <2>5. CASE contract' # NoContract /\ signal.type # "upgrade"
    <3>1. /\ contract' = [to |-> signal.to, plan |-> sub.plan, confirm |-> RequiresConfirmation(signal),
                          basis |-> [status |-> sub.status, plan |-> sub.plan]]
          /\ Accepted(sub.status, signal.to)
      BY <2>2, <2>5
    <3>2. contract' \in ContractType /\ NothingGrantedUnconfirmed'
      BY <2>3, <2>5, <3>1, ContractFits
    <3> QED
      BY <1>0, <2>1, <3>2 DEF PredInv
  <2>6. CASE contract' # NoContract /\ signal.type = "upgrade"
    <3> DEFINE s == [signal EXCEPT !.to = "active"]
    <3>1. contract' = [to |-> s.to, plan |-> signal.to, confirm |-> RequiresConfirmation(s),
                       basis |-> [status |-> sub.status, plan |-> sub.plan]]
      BY <2>2, <2>6
    <3>2. signal.confidence = 12 * 78 /\ signal.to \in Plans
      BY <2>3, <2>6 DEF SignalType
    <3>3. s.to = "active" /\ s.confidence = 12 * 78
      BY <2>3, <3>2 DEF SignalType
    <3>4. RequiresConfirmation(s) = TRUE
      BY <3>3 DEF RequiresConfirmation
    <3> HIDE DEF s
    <3>5. contract' = [to |-> "active", plan |-> signal.to, confirm |-> TRUE,
                       basis |-> [status |-> sub.status, plan |-> sub.plan]]
      BY <3>1, <3>3, <3>4
    <3>6. contract' \in ContractType /\ contract'.confirm = TRUE
      BY <1>0, <3>2, <3>5 DEF ContractType, SubType, States
    <3> QED
      BY <1>0, <2>1, <3>6 DEF PredInv, NothingGrantedUnconfirmed
  <2> QED
    BY <2>4, <2>5, <2>6
<1>8. CASE UNCHANGED predVars
  BY <1>0, <1>8, PredGoesOn DEF predVars
<1> QED
  BY <1>1, <1>2, <1>3, <1>4, <1>5, <1>6, <1>7, <1>8 DEF PredNext

LEMMA GrantsFromInv == PredInv => PredTypeOK /\ NothingGrantedUnconfirmed
<1> SUFFICES ASSUME PredInv PROVE PredTypeOK
  BY DEF PredInv
<1>1. \A s \in signalScan.signals : s.confidence \in (12 * 70) .. (12 * 95) /\ s.from \in States
  BY DEF PredInv, SignalType
<1> QED
  BY <1>1 DEF PredInv, PredTypeOK, ContractType

LEMMA PredInvariant == PredSpec => []PredInv
BY PredInvInit, PredInvStep, PTL DEF PredSpec

(* Whatever changes while signals are detected and a contract is built, one that needs     *)
(* no confirmation restricts the tenant further and grants no other plan.              *)
THEOREM GrantsAreConfirmed == PredSpec => [](PredTypeOK /\ NothingGrantedUnconfirmed)
<1>1. PredInv => PredTypeOK /\ NothingGrantedUnconfirmed
  BY GrantsFromInv
<1> QED
  BY PredInvariant, <1>1, PTL

-------------------------------------------------------------------------------
(* RoutingDesigner.  A search q: its path runs along edges and through the gray      *)
(* nodes; as long as it has found no cycle, no black node leads to another colour.   *)
Frame == [node : RouteNodes, left : SUBSET RouteNodes]
SearchType ==
  [at : {"idle", "sources", "answer"}, edges : SUBSET Edges, todo : SUBSET RouteNodes,
   colour : [RouteNodes -> {"white", "gray", "black"}], path : Seq(Frame),
   cycles : SUBSET RouteNodes]

Out(q, n) == {m \in RouteNodes : <<n, m>> \in q.edges}
BlackOf(q) == {n \in RouteNodes : q.colour[n] = "black"}
Closed(q, S) == \A n \in S : \E m \in S : <<n, m>> \in q.edges

PathFits(q) ==
  /\ \A i \in 1 .. Len(q.path) :
       /\ q.colour[q.path[i].node] = "gray"
       /\ q.path[i].left \subseteq Out(q, q.path[i].node)
  /\ \A i, j \in 1 .. Len(q.path) : q.path[i].node = q.path[j].node => i = j
  /\ \A i \in 1 .. Len(q.path) - 1 : q.path[i + 1].node \in Out(q, q.path[i].node)
  /\ \A n \in RouteNodes :
       q.colour[n] = "gray" => \E i \in 1 .. Len(q.path) : q.path[i].node = n

BlackFits(q) ==
  /\ \A n \in BlackOf(q) : Out(q, n) \subseteq BlackOf(q)
  /\ \A S \in SUBSET BlackOf(q) : Closed(q, S) => S = {}

(* The neighbours that were tried; but for the one that is tried now.               *)
TriedFits(q, but) ==
  \A i \in 1 .. Len(q.path) : \A m \in Out(q, q.path[i].node) \ q.path[i].left :
    \/ m \in BlackOf(q)
    \/ i < Len(q.path) /\ m = q.path[i + 1].node
    \/ i = Len(q.path) /\ m \in but

SearchShape(q) ==
  /\ q \in SearchType /\ PathFits(q)
  /\ q.at = "answer" => q.todo = {} /\ q.path = <<>>
  /\ q.cycles # {} => Cyclic(q.edges)

SourcesFit(q, but) ==
  \A n \in RouteNodes \ but : Out(q, n) # {} => n \in q.todo \/ q.colour[n] # "white"

SearchFits(q) == SearchShape(q) /\ SourcesFit(q, {})

SearchDone(q) == q.cycles = {} => BlackFits(q) /\ TriedFits(q, {})

RoutingInv ==
  /\ routes \subseteq Edges
  /\ canvas \in [Canvases -> [at : {"idle", "open", "commit"}, shows : SUBSET Edges,
                              saw : SUBSET Edges, inserts : SUBSET Edges]]
  /\ SearchFits(search) /\ SearchDone(search)

LEMMA FrameAt ==
  ASSUME NEW p \in Seq(Frame), NEW i \in 1 .. Len(p)
  PROVE  p[i] \in Frame /\ p[i].node \in RouteNodes /\ p[i].left \subseteq RouteNodes
<1>1. p[i] \in Frame
  BY ElementOfSeq
<1> QED
  BY <1>1 DEF Frame

LEMMA PathParts ==
  ASSUME NEW q, PathFits(q)
  PROVE  /\ \A i \in 1 .. Len(q.path) : q.colour[q.path[i].node] = "gray"
         /\ \A i \in 1 .. Len(q.path) : q.path[i].left \subseteq Out(q, q.path[i].node)
         /\ \A i, j \in 1 .. Len(q.path) : q.path[i].node = q.path[j].node => i = j
         /\ \A i \in 1 .. Len(q.path) - 1 : q.path[i + 1].node \in Out(q, q.path[i].node)
         /\ \A m \in RouteNodes :
              q.colour[m] = "gray" => \E i \in 1 .. Len(q.path) : q.path[i].node = m
BY DEF PathFits

(* What a search has found stays so while its edges, path and colours do.          *)
LEMMA SameSearch ==
  ASSUME NEW q, NEW r, r.edges = q.edges, r.path = q.path, r.colour = q.colour
  PROVE  /\ PathFits(q) => PathFits(r)
         /\ BlackFits(q) => BlackFits(r)
         /\ \A but : TriedFits(q, but) => TriedFits(r, but)
<1>1. \A n : Out(r, n) = Out(q, n)
  BY DEF Out
<1>2. BlackOf(r) = BlackOf(q) /\ \A S : Closed(r, S) <=> Closed(q, S)
  BY DEF BlackOf, Closed
<1>3. PathFits(q) => PathFits(r)
  BY <1>1 DEF PathFits
<1>4. BlackFits(q) => BlackFits(r)
  BY <1>1, <1>2 DEF BlackFits
<1>5. \A but : TriedFits(q, but) => TriedFits(r, but)
  BY <1>1, <1>2 DEF TriedFits
<1> QED
  BY <1>3, <1>4, <1>5

LEMMA FreshFits ==
  ASSUME NEW q \in SearchType, q.path = <<>>, q.cycles = {}, q.at # "answer",
         \A n \in RouteNodes : q.colour[n] = "white", \A e \in q.edges : e[1] \in q.todo
  PROVE  SearchFits(q) /\ SearchDone(q)
<1>1. 1 .. Len(q.path) = {} /\ 1 .. Len(q.path) - 1 = {}
  OBVIOUS
<1>2. PathFits(q) /\ TriedFits(q, {})
  BY <1>1 DEF PathFits, TriedFits
<1>3. BlackOf(q) = {}
  BY DEF BlackOf
<1>4. ASSUME NEW n \in RouteNodes, Out(q, n) # {} PROVE n \in q.todo
  <2>1. PICK m \in RouteNodes : <<n, m>> \in q.edges
    BY <1>4 DEF Out
  <2> QED
    BY <2>1
<1> QED
  BY <1>2, <1>3, <1>4 DEF SearchFits, SearchShape, SourcesFit, SearchDone, BlackFits

LEMMA NoSearchFits ==
  /\ NoSearch \in SearchType /\ NoSearch.path = <<>> /\ NoSearch.cycles = {}
  /\ NoSearch.at = "idle" /\ NoSearch.edges = {} /\ \A n \in RouteNodes : NoSearch.colour[n] = "white"
<1>1. <<>> \in Seq(Frame)
  OBVIOUS
<1> QED
  BY <1>1 DEF NoSearch, SearchType

LEMMA RoutingInvInit == RoutingInit => RoutingInv
<1> SUFFICES ASSUME RoutingInit PROVE RoutingInv
  OBVIOUS
<1>1. SearchFits(search) /\ SearchDone(search)
  BY NoSearchFits, FreshFits DEF RoutingInit
<1> QED
  BY <1>1 DEF RoutingInit, RoutingInv, NoSave

(* A white node is entered: from the last of the path, which was trying it, or at    *)
(* the start of a path.                                                          *)
LEMMA Entered ==
  ASSUME NEW q, SearchShape(q), NEW n \in RouteNodes, SourcesFit(q, {n}),
         q.colour[n] = "white", q.at # "answer",
         q.path # <<>> => n \in Out(q, Last(q.path).node),
         q.cycles = {} => BlackFits(q) /\ TriedFits(q, {n}),
         NEW r, r = [q EXCEPT !.colour[n] = "gray",
                              !.path = Append(q.path, [node |-> n, left |-> Out(q, n)])]
  PROVE  SearchFits(r) /\ SearchDone(r)
<1> DEFINE k == Len(q.path)
           f == [node |-> n, left |-> Out(q, n)]
<1>1. /\ q \in SearchType /\ PathFits(q) /\ q.path \in Seq(Frame) /\ k \in Nat
      /\ q.colour \in [RouteNodes -> {"white", "gray", "black"}]
  BY DEF SearchShape, SearchType
<1>2. f \in Frame /\ f.node = n /\ f.left = Out(q, n)
  BY DEF Frame, Out
<1> HIDE DEF f
<1>3. /\ r.path = Append(q.path, f) /\ r.colour = [q.colour EXCEPT ![n] = "gray"]
      /\ r.edges = q.edges /\ r.todo = q.todo /\ r.cycles = q.cycles /\ r.at = q.at
  BY <1>1 DEF SearchType, f
<1>4. /\ r.path \in Seq(Frame) /\ Len(r.path) = k + 1 /\ r.path[k + 1] = f
      /\ \A i \in 1 .. k : r.path[i] = q.path[i] /\ q.path[i] \in Frame
  BY <1>1, <1>2, <1>3, AppendProperties, ElementOfSeq
<1>5. r \in SearchType
  BY <1>1, <1>3, <1>4 DEF SearchType
<1>6. /\ \A m \in RouteNodes : r.colour[m] = IF m = n THEN "gray" ELSE q.colour[m]
      /\ \A m \in RouteNodes : Out(r, m) = Out(q, m)
      /\ BlackOf(r) = BlackOf(q)
  BY <1>1, <1>3 DEF Out, BlackOf
<1>7. \A i \in 1 .. k : q.path[i].node \in RouteNodes /\ q.path[i].node # n
  BY <1>1, <1>4 DEF PathFits, Frame
<1>8. PathFits(r)
  <2>1. ASSUME NEW i \in 1 .. k + 1
        PROVE  /\ r.colour[r.path[i].node] = "gray"
               /\ r.path[i].left \subseteq Out(r, r.path[i].node)
    <3>1. CASE i = k + 1
      BY <1>2, <1>4, <1>6, <3>1
    <3>2. CASE i # k + 1
      <4>1. i \in 1 .. k
        BY <1>1, <3>2
      <4> QED
        BY <1>1, <1>4, <1>6, <1>7, <4>1 DEF PathFits
    <3> QED
      BY <3>1, <3>2
  <2>2. ASSUME NEW i \in 1 .. k + 1, NEW j \in 1 .. k + 1, r.path[i].node = r.path[j].node
        PROVE  i = j
    <3>1. i \in 1 .. k \/ i = k + 1
      BY <1>1
    <3>2. j \in 1 .. k \/ j = k + 1
      BY <1>1
    <3> QED
      BY <1>1, <1>2, <1>4, <1>7, <2>2, <3>1, <3>2 DEF PathFits
  <2>3. ASSUME NEW i \in 1 .. k PROVE r.path[i + 1].node \in Out(r, r.path[i].node)
    <3>1. CASE i = k
      <4>1. q.path # <<>> /\ Last(q.path) = q.path[k]
        BY <1>1, <3>1 DEF Last
      <4> QED
        BY <1>2, <1>4, <1>6, <1>7, <3>1, <4>1
    <3>2. CASE i # k
      <4>1. i \in 1 .. k - 1 /\ i + 1 \in 1 .. k
        BY <1>1, <3>2
      <4> QED
        BY <1>1, <1>4, <1>6, <1>7, <4>1 DEF PathFits
    <3> QED
      BY <3>1, <3>2
  <2>4. ASSUME NEW m \in RouteNodes, r.colour[m] = "gray"
        PROVE  \E i \in 1 .. k + 1 : r.path[i].node = m
    <3>1. CASE m = n
      <4>1. k + 1 \in 1 .. k + 1
        BY <1>1
      <4> QED
        BY <1>2, <1>4, <3>1, <4>1
    <3>2. CASE m # n
      <4>1. PICK i \in 1 .. k : q.path[i].node = m
        BY <1>1, <1>6, <2>4, <3>2 DEF PathFits
      <4>2. i \in 1 .. k + 1
        BY <1>1
      <4> QED
        BY <1>4, <4>1, <4>2
    <3> QED
      BY <3>1, <3>2
  <2>5. 1 .. Len(r.path) = 1 .. k + 1 /\ 1 .. Len(r.path) - 1 = 1 .. k
    BY <1>1, <1>4
  <2> QED
    BY <2>1, <2>2, <2>3, <2>4, <2>5 DEF PathFits
<1>9. SearchFits(r)
  BY <1>3, <1>5, <1>6, <1>8 DEF SearchFits, SearchShape, SourcesFit
<1>10. ASSUME q.cycles = {} PROVE BlackFits(r) /\ TriedFits(r, {})
  <2>1. \A S : Closed(r, S) <=> Closed(q, S)
    BY <1>3 DEF Closed
  <2>2. BlackFits(r)
    BY <1>6, <1>10, <2>1 DEF BlackFits, BlackOf
  <2>3. ASSUME NEW i \in 1 .. k + 1, NEW m \in Out(r, r.path[i].node) \ r.path[i].left
        PROVE  m \in BlackOf(r) \/ (i < k + 1 /\ m = r.path[i + 1].node)
    <3>1. CASE i = k + 1
      BY <1>2, <1>4, <1>6, <2>3, <3>1
    <3>2. CASE i # k + 1
      <4>1. i \in 1 .. k
        BY <1>1, <3>2
      <4>2. m \in Out(q, q.path[i].node) \ q.path[i].left
        BY <1>4, <1>6, <1>7, <2>3, <4>1
      <4>3. \/ m \in BlackOf(q) \/ (i < k /\ m = q.path[i + 1].node)
            \/ (i = k /\ m = n)
        BY <1>10, <4>1, <4>2 DEF TriedFits
      <4>4. i < k => i + 1 \in 1 .. k
        BY <1>1, <4>1
      <4>5. i < k + 1
        BY <1>1, <4>1
      <4> QED
        BY <1>2, <1>4, <1>6, <4>3, <4>4, <4>5
    <3> QED
      BY <3>1, <3>2
  <2>4. Len(r.path) = k + 1 /\ 1 .. Len(r.path) = 1 .. k + 1
    BY <1>4
  <2>5. TriedFits(r, {})
    BY <2>3, <2>4 DEF TriedFits
  <2> QED
    BY <2>2, <2>5
<1> QED
  BY <1>3, <1>9, <1>10 DEF SearchDone

(* The last of the path tries its neighbour n.                                      *)
LEMMA NeighbourTried ==
  ASSUME NEW q, SearchFits(q), SearchDone(q), q.path # <<>>, NEW n \in Last(q.path).left,
         NEW r, r = [q EXCEPT !.path[Len(q.path)].left = @ \ {n}]
  PROVE  /\ SearchFits(r) /\ r.at # "answer" /\ n \in RouteNodes
         /\ r.path # <<>> /\ n \in Out(r, Last(r.path).node)
         /\ r.edges = q.edges /\ r.colour = q.colour /\ r.cycles = q.cycles
         /\ r.cycles = {} => BlackFits(r) /\ TriedFits(r, {n})
<1> DEFINE k == Len(q.path)
           f == [q.path[k] EXCEPT !.left = @ \ {n}]
           p == [q.path EXCEPT ![k] = f]
<1> HIDE DEF p
<1>1. /\ q \in SearchType /\ PathFits(q) /\ q.path \in Seq(Frame) /\ k \in Nat /\ k > 0
      /\ k \in 1 .. k /\ Last(q.path) = q.path[k] /\ q.at # "answer"
  BY DEF SearchFits, SearchShape, SearchType, Last
<1>2. /\ q.path[k] \in Frame /\ n \in q.path[k].left /\ n \in RouteNodes
      /\ f \in Frame /\ f.node = q.path[k].node /\ f.left = q.path[k].left \ {n}
  <2>1. q.path[k] \in Frame
    BY <1>1, FrameAt
  <2>2. n \in q.path[k].left
    BY <1>1
  <2> HIDE DEF k
  <2> QED
    BY <2>1, <2>2 DEF Frame
<1>4. r = [q EXCEPT !.path = p]
  BY DEF f, p
<1> HIDE DEF f
<1>3. p \in Seq(Frame) /\ Len(p) = k /\ p[k] = f /\ \A i \in (1 .. k) \ {k} : p[i] = q.path[i]
  <2>1. /\ p \in Seq(Frame) /\ Len(p) = k
        /\ \A j \in 1 .. k : p[j] = IF j = k THEN f ELSE q.path[j]
    BY <1>1, <1>2, ExceptSeq DEF p
  <2> QED
    BY <1>1, <2>1
<1>5. /\ r \in SearchType /\ r.path = p /\ r.edges = q.edges /\ r.colour = q.colour
      /\ r.todo = q.todo /\ r.cycles = q.cycles /\ r.at = q.at
  BY <1>1, <1>3, <1>4 DEF SearchType
<1>6. /\ \A m \in RouteNodes : Out(r, m) = Out(q, m)
      /\ BlackOf(r) = BlackOf(q)
  BY <1>5 DEF Out, BlackOf
<1>7. \A i \in 1 .. k : /\ p[i].node = q.path[i].node /\ p[i].left \subseteq q.path[i].left
                        /\ p[i].node \in RouteNodes
  <2>1. ASSUME NEW i \in 1 .. k PROVE /\ p[i].node = q.path[i].node /\ p[i].left \subseteq q.path[i].left
    BY <1>2, <1>3
  <2>2. \A i \in 1 .. k : q.path[i].node \in RouteNodes
    BY <1>1, FrameAt
  <2> QED
    BY <2>1, <2>2
<1>8. PathFits(r)
  <2>0. /\ \A i \in 1 .. k : q.colour[q.path[i].node] = "gray"
        /\ \A i \in 1 .. k : q.path[i].left \subseteq Out(q, q.path[i].node)
        /\ \A i, j \in 1 .. k : q.path[i].node = q.path[j].node => i = j
        /\ \A i \in 1 .. k - 1 : q.path[i + 1].node \in Out(q, q.path[i].node)
        /\ \A m \in RouteNodes : q.colour[m] = "gray" => \E i \in 1 .. k : q.path[i].node = m
    BY <1>1, PathParts
  <2>1. \A i \in 1 .. k - 1 : i \in 1 .. k /\ i + 1 \in 1 .. k
    BY <1>1
  <2>2. /\ Len(r.path) = k /\ r.path = p /\ r.colour = q.colour
    BY <1>3, <1>5
  <2>9. \A i \in 1 .. k : Out(r, p[i].node) = Out(q, q.path[i].node)
    BY <1>6, <1>7
  <2>3. \A i \in 1 .. Len(r.path) : r.colour[r.path[i].node] = "gray"
    BY <1>7, <2>0, <2>2
  <2>4. ASSUME NEW i \in 1 .. k PROVE r.path[i].left \subseteq Out(r, r.path[i].node)
    <3>1. p[i].left \subseteq q.path[i].left /\ q.path[i].left \subseteq Out(q, q.path[i].node)
      BY <1>7, <2>0
    <3> QED
      BY <2>2, <2>9, <3>1
  <2>5. \A i, j \in 1 .. Len(r.path) : r.path[i].node = r.path[j].node => i = j
    BY <1>7, <2>0, <2>2
  <2>6. ASSUME NEW i \in 1 .. k - 1 PROVE r.path[i + 1].node \in Out(r, r.path[i].node)
    <3>1. i \in 1 .. k /\ p[i + 1].node = q.path[i + 1].node
      BY <1>7, <2>1
    <3> QED
      BY <2>0, <2>2, <2>9, <3>1
  <2>7. \A m \in RouteNodes :
          r.colour[m] = "gray" => \E i \in 1 .. Len(r.path) : r.path[i].node = m
    BY <1>7, <2>0, <2>2
  <2> QED
    BY <2>2, <2>3, <2>4, <2>5, <2>6, <2>7 DEF PathFits
<1>9. SearchFits(r)
  BY <1>1, <1>5, <1>6, <1>8 DEF SearchFits, SearchShape, SourcesFit
<1>10. r.path # <<>> /\ Last(r.path) = f /\ n \in Out(r, f.node)
  <2>1. n \in Out(q, q.path[k].node)
    BY <1>1, <1>2 DEF PathFits
  <2>2. r.path # <<>> /\ Last(r.path) = f
    BY <1>1, <1>3, <1>5 DEF Last
  <2> QED
    BY <1>1, <1>2, <1>3, <1>6, <1>7, <2>1, <2>2
<1>11. ASSUME q.cycles = {} PROVE BlackFits(r) /\ TriedFits(r, {n})
  <2>1. \A S : Closed(r, S) <=> Closed(q, S)
    BY <1>5 DEF Closed
  <2>2. BlackFits(q) /\ TriedFits(q, {})
    BY <1>11 DEF SearchDone
  <2>3. BlackFits(r)
    BY <1>6, <2>1, <2>2 DEF BlackFits, BlackOf
  <2>4. ASSUME NEW i \in 1 .. k, NEW m \in Out(r, p[i].node) \ p[i].left
        PROVE  \/ m \in BlackOf(r)
               \/ i < k /\ m = p[i + 1].node
               \/ i = k /\ m \in {n}
    <3>1. CASE i = k /\ m = n
      BY <3>1
    <3>2. CASE ~(i = k /\ m = n)
      <4>1. m \in Out(q, q.path[i].node) \ q.path[i].left
        BY <1>2, <1>3, <1>6, <1>7, <2>4, <3>2
      <4>2. m \in BlackOf(q) \/ (i < k /\ m = q.path[i + 1].node)
        BY <2>2, <4>1 DEF TriedFits
      <4>3. i < k => i + 1 \in 1 .. k
        BY <1>1
      <4> QED
        BY <1>6, <1>7, <4>2, <4>3
    <3> QED
      BY <3>1, <3>2
  <2>5. Len(r.path) = k /\ r.path = p
    BY <1>3, <1>5
  <2>6. TriedFits(r, {n})
    BY <2>4, <2>5 DEF TriedFits
  <2> QED
    BY <2>3, <2>6
<1> QED
  BY <1>1, <1>2, <1>5, <1>9, <1>10, <1>11

(* A gray neighbour is on the path, which comes round to it.                        *)
LEMMA GrayIsCycle ==
  ASSUME NEW q, SearchFits(q), q.path # <<>>, NEW n \in Out(q, Last(q.path).node),
         q.colour[n] = "gray"
  PROVE  Cyclic(q.edges)
<1> DEFINE k == Len(q.path)
<1>1. /\ q \in SearchType /\ PathFits(q) /\ q.path \in Seq(Frame) /\ k \in Nat /\ k > 0
      /\ Last(q.path) = q.path[k] /\ n \in RouteNodes
  BY DEF SearchFits, SearchShape, SearchType, Last, Out
<1>2. PICK i \in 1 .. k : q.path[i].node = n
  BY <1>1 DEF PathFits
<1> DEFINE S == {q.path[j].node : j \in i .. k}
<1>3. S \subseteq RouteNodes /\ n \in S
  <2>1. \A j \in i .. k : q.path[j] \in Frame
    BY <1>1, <1>2, ElementOfSeq
  <2>2. i \in i .. k
    BY <1>1, <1>2
  <2> QED
    BY <1>2, <2>1, <2>2 DEF Frame
<1>4. ASSUME NEW j \in i .. k PROVE \E m \in S : <<q.path[j].node, m>> \in q.edges
  <2>1. CASE j = k
    BY <1>1, <1>3, <2>1 DEF Out
  <2>2. CASE j # k
    <3>1. j \in 1 .. k - 1 /\ j + 1 \in i .. k
      BY <1>1, <1>2, <2>2
    <3>2. q.path[j + 1].node \in Out(q, q.path[j].node)
      BY <1>1, <3>1 DEF PathFits
    <3> QED
      BY <3>1, <3>2 DEF Out
  <2> QED
    BY <2>1, <2>2
<1>5. \A m \in S : \E l \in S : <<m, l>> \in q.edges
  BY <1>4
<1> HIDE DEF S
<1> QED
  BY <1>3, <1>5 DEF Cyclic

(* The last of the path has tried them all, and turns black.                        *)
LEMMA Left ==
  ASSUME NEW q, SearchFits(q), SearchDone(q), q.path # <<>>, Last(q.path).left = {},
         NEW r, r = Leave(q, Last(q.path).node)
  PROVE  SearchFits(r) /\ SearchDone(r)
<1> DEFINE k == Len(q.path)
           n == q.path[k].node
           p == Front(q.path)
<1>1. /\ q \in SearchType /\ PathFits(q) /\ q.path \in Seq(Frame) /\ k \in Nat /\ k > 0
      /\ k \in 1 .. k /\ Last(q.path) = q.path[k] /\ q.at # "answer"
      /\ q.colour \in [RouteNodes -> {"white", "gray", "black"}]
  BY DEF SearchFits, SearchShape, SearchType, Last
<1>2. /\ \A i \in 1 .. k : q.path[i] \in Frame /\ q.path[i].node \in RouteNodes
      /\ n \in RouteNodes /\ q.path[k].left = {}
  <2>1. \A i \in 1 .. k : q.path[i] \in Frame /\ q.path[i].node \in RouteNodes
    BY <1>1, FrameAt
  <2> QED
    BY <1>1, <2>1
<1>3. /\ p \in Seq(Frame) /\ Len(p) = k - 1 /\ \A i \in 1 .. k - 1 : p[i] = q.path[i]
  <2>1. \A i \in 1 .. k - 1 : q.path[i] \in Frame
    BY <1>1, <1>2
  <2>2. 1 \in Int /\ k - 1 \in Int
    BY <1>1
  <2>3. /\ SubSeq(q.path, 1, k - 1) \in Seq(Frame)
        /\ Len(SubSeq(q.path, 1, k - 1)) = IF 1 <= k - 1 THEN (k - 1) - 1 + 1 ELSE 0
        /\ \A i \in 1 .. (k - 1) - 1 + 1 : SubSeq(q.path, 1, k - 1)[i] = q.path[1 + i - 1]
    BY <2>1, <2>2, SubSeqProperties
  <2>4. p = SubSeq(q.path, 1, k - 1)
    BY DEF Front
  <2> HIDE DEF p
  <2>5. Len(p) = k - 1
    BY <1>1, <2>3, <2>4
  <2>6. \A i \in 1 .. k - 1 : p[i] = q.path[i]
    <3> SUFFICES ASSUME NEW i \in 1 .. k - 1 PROVE p[i] = q.path[i]
      OBVIOUS
    <3>1. i \in 1 .. (k - 1) - 1 + 1 /\ 1 + i - 1 = i
      BY <1>1
    <3> QED
      BY <2>3, <2>4, <3>1
  <2> QED
    BY <2>3, <2>4, <2>5, <2>6
<1> HIDE DEF p
<1>4. r = [q EXCEPT !.path = p, !.colour = [q.colour EXCEPT ![n] = "black"]]
  BY <1>1 DEF Leave, p
<1>5. /\ r \in SearchType /\ r.path = p /\ r.edges = q.edges /\ r.todo = q.todo
      /\ r.cycles = q.cycles /\ r.at = q.at
      /\ r.colour = [q.colour EXCEPT ![n] = "black"]
  <2> DEFINE c == [q.colour EXCEPT ![n] = "black"]
  <2>1. c \in [RouteNodes -> {"white", "gray", "black"}]
    BY <1>1, <1>2
  <2>2. r = [q EXCEPT !.path = p, !.colour = c]
    BY <1>4
  <2> HIDE DEF c, n, k
  <2>3. /\ r \in SearchType /\ r.path = p /\ r.edges = q.edges /\ r.todo = q.todo
        /\ r.cycles = q.cycles /\ r.at = q.at /\ r.colour = c
    BY <1>1, <1>3, <2>1, <2>2 DEF SearchType
  <2> QED
    BY <2>3 DEF c
<1>6. /\ \A m \in RouteNodes : r.colour[m] = IF m = n THEN "black" ELSE q.colour[m]
      /\ \A m \in RouteNodes : Out(r, m) = Out(q, m)
      /\ BlackOf(r) = BlackOf(q) \union {n}
  BY <1>1, <1>2, <1>5 DEF Out, BlackOf
<1>7. /\ q.colour[n] = "gray" /\ n \notin BlackOf(q)
      /\ \A i \in 1 .. k - 1 : i \in 1 .. k /\ q.path[i].node # n
  <2>1. q.colour[n] = "gray"
    BY <1>1 DEF PathFits
  <2>2. \A i \in 1 .. k - 1 : i \in 1 .. k /\ i # k
    BY <1>1
  <2>3. \A i \in 1 .. k : q.path[i].node = q.path[k].node => i = k
    BY <1>1 DEF PathFits
  <2> QED
    BY <2>1, <2>2, <2>3 DEF BlackOf
<1> HIDE DEF n
<1>8. PathFits(r)
  <2>1. /\ Len(r.path) = k - 1 /\ r.path = p
    BY <1>3, <1>5
  <2>0. /\ \A i \in 1 .. k : q.colour[q.path[i].node] = "gray"
        /\ \A i \in 1 .. k : q.path[i].left \subseteq Out(q, q.path[i].node)
    BY <1>1, PathParts
  <2>2. ASSUME NEW i \in 1 .. k - 1
        PROVE  r.colour[p[i].node] = "gray" /\ p[i].left \subseteq Out(r, p[i].node)
    <3>1. i \in 1 .. k /\ q.path[i].node \in RouteNodes /\ q.path[i].node # n
      BY <1>2, <1>7
    <3>2. p[i] = q.path[i]
      BY <1>3
    <3>3. r.colour[p[i].node] = q.colour[q.path[i].node]
      BY <1>6, <3>1, <3>2
    <3>4. Out(r, p[i].node) = Out(q, q.path[i].node)
      BY <1>6, <3>1, <3>2
    <3> QED
      BY <2>0, <3>1, <3>2, <3>3, <3>4
  <2>3. \A i, j \in 1 .. k - 1 : p[i].node = p[j].node => i = j
    BY <1>1, <1>3, <1>7 DEF PathFits
  <2>4. ASSUME NEW i \in 1 .. (k - 1) - 1 PROVE p[i + 1].node \in Out(r, p[i].node)
    <3>1. i \in 1 .. k - 1 /\ i + 1 \in 1 .. k - 1
      BY <1>1
    <3>2. q.path[i + 1].node \in Out(q, q.path[i].node)
      BY <1>1, <3>1 DEF PathFits
    <3> QED
      BY <1>2, <1>3, <1>6, <1>7, <3>1, <3>2
  <2>5. ASSUME NEW m \in RouteNodes, r.colour[m] = "gray"
        PROVE  \E i \in 1 .. k - 1 : p[i].node = m
    <3>1. m # n /\ q.colour[m] = "gray"
      BY <1>6, <2>5
    <3>2. PICK i \in 1 .. k : q.path[i].node = m
      BY <1>1, <3>1 DEF PathFits
    <3>3. i \in 1 .. k - 1
      BY <1>1, <3>1, <3>2 DEF n
    <3> QED
      BY <1>3, <3>2, <3>3
  <2> QED
    BY <2>1, <2>2, <2>3, <2>4, <2>5 DEF PathFits
<1>9. SearchFits(r)
  BY <1>1, <1>5, <1>6, <1>8 DEF SearchFits, SearchShape, SourcesFit
<1>10. ASSUME q.cycles = {} PROVE BlackFits(r) /\ TriedFits(r, {})
  <2>1. BlackFits(q) /\ TriedFits(q, {})
    BY <1>10 DEF SearchDone
  <2>2. Out(q, n) \subseteq BlackOf(q)
    <3> SUFFICES ASSUME NEW m \in Out(q, n) PROVE m \in BlackOf(q)
      OBVIOUS
    <3>1. m \in Out(q, q.path[k].node) \ q.path[k].left
      BY <1>2 DEF n
    <3> QED
      BY <1>1, <2>1, <3>1 DEF TriedFits
  <2>3. ASSUME NEW m \in BlackOf(r) PROVE Out(r, m) \subseteq BlackOf(r)
    <3>1. m \in RouteNodes
      BY DEF BlackOf
    <3> QED
      BY <1>6, <2>1, <2>2, <2>3, <3>1 DEF BlackFits
  <2>4. ASSUME NEW S \in SUBSET BlackOf(r), Closed(r, S) PROVE S = {}
    <3> DEFINE T == S \ {n}
    <3>1. T \subseteq BlackOf(q) /\ S \subseteq RouteNodes
      BY <1>6 DEF BlackOf
    <3>2. \A m \in S : \E l \in S : <<m, l>> \in q.edges /\ l \in Out(q, m)
      BY <1>5, <2>4, <3>1 DEF Closed, Out
    <3>3. \A m \in T : Out(q, m) \subseteq BlackOf(q)
      BY <2>1, <3>1 DEF BlackFits
    <3>4. Closed(q, T)
      BY <1>7, <3>2, <3>3 DEF Closed
    <3>5. T = {}
      BY <2>1, <3>1, <3>4 DEF BlackFits
    <3>6. ASSUME n \in S PROVE FALSE
      <4>1. PICK l \in S : l \in Out(q, n)
        BY <3>2, <3>6
      <4>2. l # n
        BY <1>7, <2>2, <4>1
      <4> QED
        BY <3>5, <4>1, <4>2
    <3> QED
      BY <3>5, <3>6
  <2>5. BlackFits(r)
    BY <2>3, <2>4 DEF BlackFits
  <2>6. ASSUME NEW i \in 1 .. k - 1, NEW m \in Out(r, p[i].node) \ p[i].left
        PROVE  m \in BlackOf(r) \/ (i < k - 1 /\ m = p[i + 1].node)
    <3>1. i \in 1 .. k /\ i # k /\ p[i] = q.path[i] /\ q.path[i].node \in RouteNodes
      BY <1>1, <1>2, <1>3
    <3>2. m \in Out(q, q.path[i].node) \ q.path[i].left
      BY <1>6, <2>6, <3>1
    <3>3. m \in BlackOf(q) \/ m = q.path[i + 1].node
      BY <2>1, <3>1, <3>2 DEF TriedFits
    <3>4. CASE i + 1 = k
      BY <1>6, <3>3, <3>4 DEF n
    <3>5. CASE i + 1 # k
      <4>1. i + 1 \in 1 .. k - 1 /\ i < k - 1
        BY <1>1, <3>5
      <4> QED
        BY <1>3, <1>6, <3>3, <4>1
    <3> QED
      BY <3>4, <3>5
  <2>7. Len(r.path) = k - 1 /\ r.path = p
    BY <1>3, <1>5
  <2>8. TriedFits(r, {})
    BY <2>6, <2>7 DEF TriedFits
  <2> QED
    BY <2>5, <2>8
<1> QED
  BY <1>5, <1>9, <1>10 DEF SearchDone

LEMMA SearchGoesOn ==
  ASSUME RoutingInv, UNCHANGED <<routes, canvas>>, SearchFits(search'), SearchDone(search')
  PROVE  RoutingInv'
BY DEF RoutingInv

LEMMA NeighboursAreOut ==
  ASSUME search \in SearchType, NEW n \in RouteNodes
  PROVE  Neighbours(n) = Out(search, n)
<1>1. search.edges \subseteq RouteNodes \X RouteNodes
  BY DEF SearchType, Edges
<1> QED
  BY <1>1 DEF Neighbours, Out

LEMMA SourceTaken ==
  ASSUME RoutingInv, NextSource
  PROVE  RoutingInv'
<1>1. /\ search.at = "sources" /\ search.path = <<>> /\ UNCHANGED <<routes, canvas>>
      /\ SearchFits(search) /\ SearchDone(search) /\ search \in SearchType
  BY DEF NextSource, RoutingInv, SearchFits, SearchShape
<1>2. PICK n \in search.todo :
        search' = IF search.colour[n] = "white"
                  THEN Enter([search EXCEPT !.todo = @ \ {n}], n)
                  ELSE [search EXCEPT !.todo = @ \ {n}]
  BY DEF NextSource
<1> DEFINE r == [search EXCEPT !.todo = search.todo \ {n}]
<1>3. /\ r \in SearchType /\ r.edges = search.edges /\ r.colour = search.colour /\ r.at = "sources"
      /\ r.path = <<>> /\ r.cycles = search.cycles /\ r.todo = search.todo \ {n}
      /\ n \in RouteNodes
  BY <1>1 DEF SearchType
<1> HIDE DEF r
<1>4. /\ \A m \in RouteNodes : Out(r, m) = Out(search, m)
      /\ BlackOf(r) = BlackOf(search)
      /\ \A S : Closed(r, S) <=> Closed(search, S)
  BY <1>3 DEF Out, BlackOf, Closed
<1>5. PathFits(r) /\ TriedFits(r, {n}) /\ TriedFits(r, {})
  <2>1. 1 .. Len(r.path) = {} /\ 1 .. Len(r.path) - 1 = {}
    BY <1>3
  <2>2. \A m \in RouteNodes : search.colour[m] # "gray"
    <3>1. 1 .. Len(search.path) = {}
      BY <1>1
    <3> QED
      BY <1>1, <3>1 DEF SearchFits, SearchShape, PathFits
  <2> QED
    BY <1>3, <2>1, <2>2 DEF PathFits, TriedFits
<1>6. SearchShape(r)
  BY <1>1, <1>3, <1>5 DEF SearchFits, SearchShape
<1>7. r.cycles = {} => BlackFits(r)
  BY <1>1, <1>3, <1>4 DEF SearchDone, BlackFits, BlackOf
<1>8. SourcesFit(r, {n})
  BY <1>1, <1>3, <1>4 DEF SearchFits, SourcesFit
<1>9. CASE search.colour[n] # "white"
  <2>1. search' = r
    BY <1>2, <1>9 DEF r
  <2>2. SourcesFit(r, {})
    BY <1>3, <1>8, <1>9 DEF SourcesFit
  <2>3. SearchFits(r) /\ SearchDone(r)
    BY <1>5, <1>6, <1>7, <2>2 DEF SearchFits, SearchDone
  <2> QED
    BY <1>1, <2>1, <2>3, SearchGoesOn
<1>10. CASE search.colour[n] = "white"
  <2>1. search' = [r EXCEPT !.colour[n] = "gray",
                            !.path = Append(r.path, [node |-> n, left |-> Out(r, n)])]
    <3>1. Neighbours(n) = Out(r, n)
      BY <1>1, <1>3, <1>4, NeighboursAreOut
    <3>2. search' = Enter(r, n)
      BY <1>2, <1>10 DEF r
    <3> QED
      BY <3>1, <3>2 DEF Enter
  <2>2. SearchFits(search') /\ SearchDone(search')
    BY <1>3, <1>5, <1>6, <1>7, <1>8, <1>10, <2>1, Entered
  <2> QED
    BY <1>1, <2>2, SearchGoesOn
<1> QED
  BY <1>9, <1>10

LEMMA NeighbourVisited ==
  ASSUME RoutingInv, VisitNeighbour
  PROVE  RoutingInv'
<1>1. /\ search.path # <<>> /\ UNCHANGED <<routes, canvas>>
      /\ SearchFits(search) /\ SearchDone(search) /\ search \in SearchType
  BY DEF VisitNeighbour, RoutingInv, SearchFits, SearchShape
<1>2. PICK n \in Last(search.path).left :
        LET s == [search EXCEPT !.path[Len(search.path)].left = @ \ {n}] IN
        search' = CASE s.colour[n] = "gray" -> [s EXCEPT !.cycles = @ \union {n}]
                    [] s.colour[n] = "black" -> s
                    [] OTHER -> Enter(s, n)
  BY DEF VisitNeighbour
<1> DEFINE r == [search EXCEPT !.path[Len(search.path)].left = @ \ {n}]
<1>3. search' = CASE r.colour[n] = "gray" -> [r EXCEPT !.cycles = @ \union {n}]
                  [] r.colour[n] = "black" -> r
                  [] OTHER -> Enter(r, n)
  BY <1>2
<1>4. /\ SearchFits(r) /\ r.at # "answer" /\ n \in RouteNodes
      /\ r.path # <<>> /\ n \in Out(r, Last(r.path).node)
      /\ r.edges = search.edges /\ r.colour = search.colour /\ r.cycles = search.cycles
      /\ r.cycles = {} => BlackFits(r) /\ TriedFits(r, {n})
  BY <1>1, NeighbourTried
<1> HIDE DEF r
<1>5. r \in SearchType /\ SearchShape(r) /\ SourcesFit(r, {})
  BY <1>4 DEF SearchFits, SearchShape
<1>6. CASE r.colour[n] = "gray"
  <2> DEFINE s == [r EXCEPT !.cycles = @ \union {n}]
  <2>1. search' = s
    BY <1>3, <1>6
  <2>2. /\ s \in SearchType /\ s.at = r.at /\ s.edges = r.edges /\ s.todo = r.todo
        /\ s.colour = r.colour /\ s.path = r.path /\ n \in s.cycles
    BY <1>4, <1>5 DEF SearchType
  <2> HIDE DEF s
  <2>3. Cyclic(r.edges)
    BY <1>4, <1>6, GrayIsCycle
  <2>4. PathFits(s) /\ SourcesFit(s, {})
    <3>1. PathFits(s)
      BY <1>5, <2>2, SameSearch DEF SearchShape
    <3>2. \A m : Out(s, m) = Out(r, m)
      BY <2>2 DEF Out
    <3>3. SourcesFit(s, {})
      BY <1>5, <2>2, <3>2 DEF SourcesFit
    <3> QED
      BY <3>1, <3>3
  <2>5. SearchFits(s) /\ SearchDone(s)
    BY <1>4, <2>2, <2>3, <2>4 DEF SearchFits, SearchShape, SearchDone
  <2> QED
    BY <1>1, <2>1, <2>5, SearchGoesOn
<1>7. CASE r.colour[n] = "black"
  <2>1. search' = r
    BY <1>3, <1>7
  <2>2. TriedFits(r, {n}) => TriedFits(r, {})
    BY <1>4, <1>7 DEF TriedFits, BlackOf
  <2>3. SearchDone(r)
    BY <1>4, <2>2 DEF SearchDone
  <2> QED
    BY <1>1, <1>4, <2>1, <2>3, SearchGoesOn
<1>8. CASE r.colour[n] = "white"
  <2>1. search' = [r EXCEPT !.colour[n] = "gray",
                            !.path = Append(r.path, [node |-> n, left |-> Out(r, n)])]
    <3>1. Neighbours(n) = Out(search, n) /\ Out(search, n) = Out(r, n)
      BY <1>1, <1>4, NeighboursAreOut DEF Out
    <3>2. search' = Enter(r, n)
      BY <1>3, <1>8
    <3> QED
      BY <3>1, <3>2 DEF Enter
  <2>2. SourcesFit(r, {n})
    BY <1>5 DEF SourcesFit
  <2>3. SearchFits(search') /\ SearchDone(search')
    BY <1>4, <1>5, <1>8, <2>1, <2>2, Entered
  <2> QED
    BY <1>1, <2>3, SearchGoesOn
<1> QED
  BY <1>4, <1>5, <1>6, <1>7, <1>8 DEF SearchType

LEMMA RoutingInvStep == RoutingInv /\ [RoutingNext]_routingVars => RoutingInv'
<1> SUFFICES ASSUME RoutingInv, [RoutingNext]_routingVars PROVE RoutingInv'
  OBVIOUS
<1> DEFINE Saves == [at : {"idle", "open", "commit"}, shows : SUBSET Edges,
                     saw : SUBSET Edges, inserts : SUBSET Edges]
<1>0. /\ routes \in SUBSET Edges /\ canvas \in [Canvases -> Saves]
      /\ SearchFits(search) /\ SearchDone(search) /\ search \in SearchType
      /\ NoSave \in Saves
  BY DEF RoutingInv, SearchFits, SearchShape, NoSave
<1>1. ASSUME UNCHANGED search, routes' \in SUBSET Edges, canvas' \in [Canvases -> Saves]
      PROVE  RoutingInv'
  BY <1>0, <1>1 DEF RoutingInv
<1>2. ASSUME NEW c \in Canvases, OpenGraph(c) PROVE RoutingInv'
  <2>1. [NoSave EXCEPT !.at = "open", !.shows = routes] \in Saves
    BY <1>0
  <2> QED
    BY <1>0, <1>1, <1>2, <2>1 DEF OpenGraph
<1>3. ASSUME NEW c \in Canvases, ReadGraph(c) PROVE RoutingInv'
  <2>1. PICK change \in Payloads, replace \in BOOLEAN :
          LET edges == Redrawn(canvas[c].shows, change) IN
          canvas' = [canvas EXCEPT ![c] =
            [at |-> "commit", shows |-> {}, saw |-> IF replace THEN routes ELSE {},
             inserts |-> IF replace THEN edges ELSE edges \ routes]]
    BY <1>3 DEF ReadGraph
  <2>2. UNCHANGED <<routes, search>> /\ canvas[c] \in Saves
    BY <1>0, <1>3 DEF ReadGraph
  <2>3. Redrawn(canvas[c].shows, change) \subseteq Edges
    BY <2>2, RoutingAssumption DEF Redrawn, Edges
  <2>4. canvas' \in [Canvases -> Saves]
    BY <1>0, <2>1, <2>3
  <2> QED
    BY <1>0, <1>1, <2>2, <2>4
<1>4. ASSUME NEW c \in Canvases, CommitGraph(c) \/ SaveFails(c) PROVE RoutingInv'
  <2>1. canvas[c] \in Saves /\ UNCHANGED search
    BY <1>0, <1>4 DEF CommitGraph, SaveFails
  <2>2. canvas' \in [Canvases -> Saves] /\ routes' \in SUBSET Edges
    BY <1>0, <1>4, <2>1 DEF CommitGraph, SaveFails
  <2> QED
    BY <1>1, <2>1, <2>2
<1>5. CASE StartSearch
  <2> DEFINE todo == {e[1] : e \in routes}
             q == [NoSearch EXCEPT !.at = "sources", !.edges = routes, !.todo = todo]
  <2>1. search' = q /\ UNCHANGED <<routes, canvas>>
    BY <1>5 DEF StartSearch
  <2>2. todo \subseteq RouteNodes /\ \A e \in routes : e[1] \in todo
    BY <1>0 DEF Edges
  <2> HIDE DEF todo
  <2>3. /\ q \in SearchType /\ q.path = <<>> /\ q.cycles = {} /\ q.at = "sources"
        /\ q.edges = routes /\ q.todo = todo /\ \A n \in RouteNodes : q.colour[n] = "white"
    BY <1>0, <2>2, NoSearchFits DEF SearchType
  <2> HIDE DEF q
  <2> QED
    BY <2>1, <2>2, <2>3, FreshFits, SearchGoesOn
<1>6. CASE LeaveNode
  BY <1>0, <1>6, Left, SearchGoesOn DEF LeaveNode
<1>7. CASE AnswerSearch
  <2> DEFINE r == [search EXCEPT !.at = "answer"]
  <2>1. /\ search' = r /\ UNCHANGED <<routes, canvas>> /\ search.todo = {} /\ search.path = <<>>
    BY <1>7 DEF AnswerSearch
  <2>2. /\ r \in SearchType /\ r.edges = search.edges /\ r.todo = search.todo
        /\ r.colour = search.colour /\ r.path = search.path /\ r.cycles = search.cycles
    BY <1>0 DEF SearchType
  <2> HIDE DEF r
  <2>3. SearchFits(r)
    <3>1. PathFits(r)
      BY <1>0, <2>2, SameSearch DEF SearchFits, SearchShape
    <3>2. \A n : Out(r, n) = Out(search, n)
      BY <2>2 DEF Out
    <3>3. SourcesFit(r, {})
      BY <1>0, <2>2, <3>2 DEF SearchFits, SourcesFit
    <3> QED
      BY <1>0, <2>1, <2>2, <3>1, <3>3 DEF SearchFits, SearchShape
  <2>4. SearchDone(r)
    <3>1. /\ BlackFits(search) => BlackFits(r)
          /\ TriedFits(search, {}) => TriedFits(r, {})
      BY <2>2, SameSearch
    <3> QED
      BY <1>0, <2>2, <3>1 DEF SearchDone
  <2> QED
    BY <2>1, <2>3, <2>4, SearchGoesOn
<1>8. CASE ForgetSearch
  BY <1>8, NoSearchFits, FreshFits, SearchGoesOn DEF ForgetSearch
<1>9. CASE UNCHANGED routingVars
  BY <1>0, <1>1, <1>9 DEF routingVars
<1> QED
  BY <1>2, <1>3, <1>4, <1>5, <1>6, <1>7, <1>8, <1>9, SourceTaken, NeighbourVisited DEF RoutingNext

LEMMA CyclesFromInv == RoutingInv => CyclesFound
<1> SUFFICES ASSUME RoutingInv PROVE CyclesFound
  OBVIOUS
<1>1. SearchFits(search) /\ SearchDone(search) /\ search \in SearchType /\ PathFits(search)
  BY DEF RoutingInv, SearchFits, SearchShape
<1>2. \A n \in RouteNodes : search.colour[n] = "gray" => OnPath(n)
  <2>1. DOMAIN search.path = 1 .. Len(search.path)
    BY <1>1 DEF SearchType
  <2> QED
    BY <1>1, <2>1 DEF PathFits, OnPath
<1>3. ASSUME search.at = "answer", search.cycles = {} PROVE ~Cyclic(search.edges)
  <2> SUFFICES ASSUME NEW S \in (SUBSET RouteNodes) \ {{}},
                      \A n \in S : \E m \in S : <<n, m>> \in search.edges
               PROVE  FALSE
    BY DEF Cyclic
  <2>1. search.todo = {} /\ search.path = <<>> /\ BlackFits(search)
    BY <1>1, <1>3 DEF SearchFits, SearchShape, SearchDone
  <2>2. \A n \in RouteNodes : search.colour[n] # "gray"
    <3>1. 1 .. Len(search.path) = {}
      BY <2>1
    <3> QED
      BY <1>1, <3>1 DEF PathFits
  <2>3. \A n \in S : Out(search, n) # {}
    BY DEF Out
  <2>4. \A n \in S : search.colour[n] # "white"
    BY <1>1, <2>1, <2>3 DEF SearchFits, SourcesFit
  <2>5. S \subseteq BlackOf(search)
    BY <1>1, <2>2, <2>4 DEF BlackOf, SearchType
  <2> QED
    BY <2>1, <2>5 DEF BlackFits, Closed
<1>4. search.cycles # {} => Cyclic(search.edges)
  BY <1>1 DEF SearchFits, SearchShape
<1> QED
  BY <1>2, <1>3, <1>4 DEF CyclesFound

(* A path passes no node twice, so it is no longer than there are nodes.             *)
LEMMA RoutingTypesFromInv == RoutingInv => RoutingTypeOK
<1> SUFFICES ASSUME RoutingInv PROVE Len(search.path) <= Cardinality(RouteNodes)
  BY DEF RoutingInv, RoutingTypeOK, SearchFits, SearchShape, SearchType
<1> DEFINE k == Len(search.path)
           f == [i \in 1 .. k |-> search.path[i].node]
<1>1. search.path \in Seq(Frame) /\ PathFits(search) /\ k \in Nat
  BY DEF RoutingInv, SearchFits, SearchShape, SearchType
<1>2. \A i \in 1 .. k : search.path[i].node \in RouteNodes
  BY <1>1, FrameAt
<1>3. f \in Injection(1 .. k, RouteNodes)
  BY <1>1, <1>2 DEF PathFits, Injection, IsInjective
<1> HIDE DEF f
<1>4. Cardinality(1 .. k) <= Cardinality(RouteNodes)
  BY <1>3, RoutingAssumption, FS_Injection
<1>5. Cardinality(1 .. k) = k
  <2>1. 1 \in Int /\ k \in Int
    BY <1>1
  <2>2. Cardinality(1 .. k) = IF 1 > k THEN 0 ELSE k - 1 + 1
    BY <2>1, FS_Interval
  <2> QED
    BY <1>1, <2>2
<1> QED
  BY <1>4, <1>5

LEMMA RoutingInvariant == RoutingSpec => []RoutingInv
BY RoutingInvInit, RoutingInvStep, PTL DEF RoutingSpec

(* The validation finds a cycle exactly when the routes it read have one, for any finite    *)
(* set of nodes and any order of the sources and of the neighbours.                    *)
THEOREM SearchIsRight == RoutingSpec => [](RoutingTypeOK /\ CyclesFound)
<1>1. RoutingInv => RoutingTypeOK /\ CyclesFound
  BY RoutingTypesFromInv, CyclesFromInv
<1> QED
  BY RoutingInvariant, <1>1, PTL
===============================================================================
