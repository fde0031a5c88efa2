----------------------------- MODULE ControlProofs -----------------------------
(* Theorems about parts of the console, each for any number of requests and any     *)
(* bounds.                                                                       *)
EXTENDS RecordLocks, EventFanout, EdgeAgreements, EdgeFeed, PortalSettings, IpEnrolment,
        DefenseSettings, AnomalyEvents,
        FiniteSetTheorems, WellFoundedInduction, TLAPS

-------------------------------------------------------------------------------
(* RecordLocks.  Before any lock has lapsed, a handler that is to go on from a row *)
(* it read goes on from nobody's or from its own, and its own is still in place.   *)
LocksInv ==
  /\ LocksTypeOK
  /\ \A u \in Editors : editor[u].op = "update" => editor[u].version \in 1 .. MaxVersion - 1
  /\ ~lapsed =>
       /\ ~lock.expired
       /\ \A u \in told : lock.by = u
       /\ \A u \in Editors :
            /\ editor[u].op = "acquire" =>
                 /\ ~editor[u].row.expired
                 /\ editor[u].row.by = Nobody \/ (editor[u].row.by = u /\ lock.by = u)
            /\ editor[u].op \in {"heartbeat", "release"} => lock.by = u

LEMMA LocksInvInit == LocksInit => LocksInv
<1> SUFFICES ASSUME LocksInit PROVE LocksInv
  OBVIOUS
<1>1. NoLock \in LockRow
  BY DEF NoLock, LockRow
<1>2. NoHandler \in EditorHandler /\ NoHandler.op = "idle"
  BY <1>1, LocksAssumption DEF NoHandler, EditorHandler
<1>3. lock \in LockRow /\ told \subseteq Editors /\ lapsed \in BOOLEAN
  BY <1>1 DEF LocksInit
<1>4. version \in 1 .. MaxVersion
  BY LocksAssumption DEF LocksInit
<1>5. editor \in [Editors -> EditorHandler]
  BY <1>2 DEF LocksInit
<1> QED
  BY <1>2, <1>3, <1>4, <1>5 DEF LocksInit, LocksInv, LocksTypeOK, NoLock

(* What a handler that takes a step leaves of the others.                       *)
LEMMA EditorUpdate ==
  ASSUME LocksTypeOK, NEW u \in Editors, NEW h \in EditorHandler,
         editor' = [editor EXCEPT ![u] = h]
  PROVE  /\ editor' \in [Editors -> EditorHandler]
         /\ editor'[u] = h
         /\ \A v \in Editors \ {u} : editor'[v] = editor[v]
BY DEF LocksTypeOK

LEMMA EditorIdle ==
  ASSUME LocksTypeOK, NEW u \in Editors, EditorEnds(u)
  PROVE  /\ editor' \in [Editors -> EditorHandler]
         /\ editor'[u].op = "idle"
         /\ \A v \in Editors \ {u} : editor'[v] = editor[v]
<1>1. NoHandler \in EditorHandler /\ NoHandler.op = "idle"
  BY LocksAssumption DEF NoHandler, NoLock, EditorHandler, LockRow
<1> QED
  BY <1>1, EditorUpdate DEF EditorEnds

LEMMA EditorHasRead ==
  ASSUME LocksTypeOK, NEW u \in Editors,
         NEW op \in {"acquire", "heartbeat", "release", "force"}, EditorReads(u, op)
  PROVE  /\ editor' \in [Editors -> EditorHandler]
         /\ editor'[u].op = op /\ editor'[u].row = lock
         /\ \A v \in Editors \ {u} : editor'[v] = editor[v]
<1> DEFINE h == [op |-> op, row |-> lock, version |-> 0]
<1>1. h \in EditorHandler
  BY LocksAssumption DEF LocksTypeOK, EditorHandler, LockRow
<1> QED
  BY <1>1, EditorUpdate DEF EditorReads

LEMMA LocksInvStep == LocksInv /\ [LocksNext]_lockVars => LocksInv'
<1> SUFFICES ASSUME LocksInv, [LocksNext]_lockVars PROVE LocksInv'
  OBVIOUS
<1>0. LocksTypeOK /\ lock \in LockRow /\ editor \in [Editors -> EditorHandler]
  BY DEF LocksInv, LocksTypeOK, LockRow, EditorHandler
<1>1. ASSUME NEW u \in Editors, LockAcquire(u) PROVE LocksInv'
  <2>1. EditorReads(u, "acquire") /\ (lock.by \in {Nobody, u} \/ lock.expired)
    BY <1>1 DEF LockAcquire, MayAcquire
  <2> QED
    BY <1>0, <2>1, EditorHasRead DEF LocksInv, LocksTypeOK, EditorReads
<1>2. ASSUME NEW u \in Editors, AcquireCommits(u) PROVE LocksInv'
  <2>1. EditorEnds(u) /\ editor[u].op = "acquire" /\ UNCHANGED <<lapsed, version>>
    BY <1>2 DEF AcquireCommits
  <2>2. CASE (editor[u].row.by = Nobody) = (lock.by = Nobody)
    <3> DEFINE by == IF editor[u].row = [by |-> u, expired |-> FALSE] THEN lock.by ELSE u
    <3>1. lock' = [by |-> by, expired |-> FALSE] /\ told' = told \union {u}
      BY <1>2, <2>2 DEF AcquireCommits
    <3>2. lock' \in LockRow /\ lock'.by = by /\ ~lock'.expired
      BY <1>0, <3>1 DEF LockRow
    <3>3. ~lapsed => by = u /\ told \subseteq {u}
      <4> SUFFICES ASSUME ~lapsed PROVE by = u /\ told \subseteq {u}
        OBVIOUS
      <4>1. \A v \in told : v \in Editors /\ lock.by = v
        BY DEF LocksInv, LocksTypeOK
      <4>2. editor[u].row.by = Nobody \/ (editor[u].row.by = u /\ lock.by = u)
        BY <2>1 DEF LocksInv
      <4>3. CASE editor[u].row.by = Nobody
        BY <2>2, <4>1, <4>3, LocksAssumption
      <4>4. CASE editor[u].row.by = u /\ lock.by = u
        BY <4>1, <4>4
      <4> QED
        BY <4>2, <4>3, <4>4
    <3>4. ~lapsed => \A v \in Editors \ {u} : editor[v].op \notin {"heartbeat", "release"}
                       /\ (editor[v].op = "acquire" => editor[v].row.by = Nobody)
      BY <2>1, <2>2, LocksAssumption DEF LocksInv
    <3> QED
      BY <1>0, <2>1, <3>1, <3>2, <3>3, <3>4, EditorIdle
         DEF LocksInv, LocksTypeOK
  <2>3. CASE UNCHANGED <<lock, told>>
    BY <1>0, <2>1, <2>3, EditorIdle DEF LocksInv, LocksTypeOK
  <2> QED
    BY <1>2, <2>2, <2>3 DEF AcquireCommits
<1>3. ASSUME NEW u \in Editors, LockHeartbeat(u) PROVE LocksInv'
  <2>1. EditorReads(u, "heartbeat") /\ lock.by = u
    BY <1>3 DEF LockHeartbeat
  <2>2. /\ editor' \in [Editors -> EditorHandler] /\ editor'[u].op = "heartbeat"
        /\ \A v \in Editors \ {u} : editor'[v] = editor[v]
        /\ UNCHANGED <<lock, lapsed, told, version>>
    BY <1>0, <2>1, EditorHasRead DEF EditorReads
  <2> QED
    BY <2>1, <2>2 DEF LocksInv, LocksTypeOK
<1>4. ASSUME NEW u \in Editors, HeartbeatCommits(u) PROVE LocksInv'
  <2>1. EditorEnds(u) /\ editor[u].op = "heartbeat" /\ UNCHANGED <<lapsed, version>>
    BY <1>4 DEF HeartbeatCommits
  <2>2. CASE UNCHANGED <<lock, told>>
    BY <1>0, <2>1, <2>2, EditorIdle DEF LocksInv, LocksTypeOK
  <2>3. CASE lock' = [lock EXCEPT !.expired = FALSE] /\ told' = told \union {u}
    <3>1. lock' \in LockRow /\ lock'.by = lock.by /\ ~lock'.expired
      BY <1>0, <2>3 DEF LockRow
    <3>2. ~lapsed => lock.by = u
      BY <2>1 DEF LocksInv
    <3> QED
      BY <1>0, <2>1, <2>3, <3>1, <3>2, EditorIdle DEF LocksInv, LocksTypeOK
  <2> QED
    BY <1>4, <2>2, <2>3 DEF HeartbeatCommits
<1>5. ASSUME NEW u \in Editors, LockRelease(u) PROVE LocksInv'
  <2>1. EditorReads(u, "release") /\ lock.by = u
    BY <1>5 DEF LockRelease
  <2>2. /\ editor' \in [Editors -> EditorHandler] /\ editor'[u].op = "release"
        /\ \A v \in Editors \ {u} : editor'[v] = editor[v]
        /\ UNCHANGED <<lock, lapsed, told, version>>
    BY <1>0, <2>1, EditorHasRead DEF EditorReads
  <2> QED
    BY <2>1, <2>2 DEF LocksInv, LocksTypeOK
<1>6. ASSUME NEW u \in Editors, LockForceRelease(u) PROVE LocksInv'
  <2>1. EditorReads(u, "force")
    BY <1>6 DEF LockForceRelease
  <2> QED
    BY <1>0, <2>1, EditorHasRead DEF LocksInv, LocksTypeOK, EditorReads
<1>7. ASSUME NEW u \in Editors, ReleaseCommits(u) PROVE LocksInv'
  <2>1. /\ EditorEnds(u) /\ lock' = NoLock /\ UNCHANGED version
        /\ editor[u].op \in {"release", "force"}
        /\ told' = IF editor[u].op = "release" THEN told \ {u} ELSE {}
        /\ lapsed' = (lapsed \/ editor[u].op = "force")
    BY <1>7 DEF ReleaseCommits
  <2>2. NoLock \in LockRow /\ ~NoLock.expired
    BY DEF NoLock, LockRow
  <2>3. ~lapsed' => /\ ~lapsed /\ lock.by = u /\ told' = {}
                    /\ \A v \in Editors \ {u} : editor[v].op \notin {"heartbeat", "release"}
                         /\ (editor[v].op = "acquire" => editor[v].row.by = Nobody)
    BY <2>1, LocksAssumption DEF LocksInv
  <2> QED
    BY <1>0, <2>1, <2>2, <2>3, EditorIdle DEF LocksInv, LocksTypeOK
<1>8. ASSUME NEW u \in Editors, UpdateReads(u) PROVE LocksInv'
  <2> DEFINE h == [NoHandler EXCEPT !.op = "update", !.version = version]
  <2>0. NoHandler \in EditorHandler /\ version \in 0 .. MaxVersion
    BY <1>0, LocksAssumption DEF NoHandler, NoLock, EditorHandler, LockRow, LocksTypeOK
  <2>1. h \in EditorHandler /\ h.op = "update" /\ h.version = version
    BY <2>0 DEF EditorHandler
  <2>2. /\ editor' = [editor EXCEPT ![u] = h] /\ version < MaxVersion
        /\ UNCHANGED <<lock, lapsed, told, version>>
    BY <1>8 DEF UpdateReads
  <2> QED
    BY <1>0, <2>1, <2>2, EditorUpdate, LocksAssumption
       DEF LocksInv, LocksTypeOK, EditorHandler, LockRow
<1>9. ASSUME NEW u \in Editors, BumpVersion(u) PROVE LocksInv'
  <2>1. /\ EditorEnds(u) /\ editor[u].op = "update" /\ version' = editor[u].version + 1
        /\ UNCHANGED <<lock, lapsed, told>>
    BY <1>9 DEF BumpVersion
  <2>2. version' \in 1 .. MaxVersion
    BY <2>1, LocksAssumption DEF LocksInv
  <2> QED
    BY <1>0, <2>1, <2>2, EditorIdle DEF LocksInv, LocksTypeOK
<1>10. CASE Expire
  <2>1. [lock EXCEPT !.expired = TRUE] \in LockRow
    BY <1>0 DEF LockRow
  <2> QED
    BY <1>10, <2>1 DEF Expire, LocksInv, LocksTypeOK, LockRow
<1>11. CASE UNCHANGED lockVars
  BY <1>11 DEF lockVars, LocksInv, LocksTypeOK
<1> QED
  BY <1>1, <1>2, <1>3, <1>4, <1>5, <1>6, <1>7, <1>8, <1>9, <1>10, <1>11 DEF LocksNext

LEMMA OneHolderFromInv == LocksInv => OneHolder
<1> SUFFICES ASSUME LocksInv, ~lapsed PROVE ~(Cardinality(told) > 1)
  BY DEF OneHolder
<1>1. told = {} \/ told = {lock.by}
  BY DEF LocksInv
<1>2. Cardinality(told) \in {0, 1}
  BY <1>1, FS_EmptySet, FS_Singleton
<1> QED
  BY <1>2

(* The lock, the version of the record and the handlers keep their types.         *)
THEOREM LocksTypeCorrect == LocksSpec => []LocksTypeOK
<1>1. LocksInv => LocksTypeOK
  BY DEF LocksInv
<1> QED
  BY <1>1, LocksInvInit, LocksInvStep, PTL DEF LocksSpec

(* However many editors there are, two are told that they hold the lock of a record *)
(* only after a lock has expired or was forced.                                    *)
THEOREM LockHeldOnce == LocksSpec => []OneHolder
BY LocksInvInit, LocksInvStep, OneHolderFromInv, PTL DEF LocksSpec

-------------------------------------------------------------------------------
(* EventFanout.  Where a handler is tells whether its client is listed, and       *)
(* whether it was left behind.                                                  *)
FanoutInv ==
  /\ FanoutTypeOK
  /\ \A s \in Sockets :
       /\ socket[s] \in {"registered", "waiting", "closing"} => s \in clients /\ s \notin leaked
       /\ socket[s] \in {"new", "accepted"} => s \notin clients /\ s \notin leaked
       /\ socket[s] = "ended" => (s \in clients <=> s \in leaked)

LEMMA FanoutInvInit == FanoutInit => FanoutInv
BY DEF FanoutInit, FanoutInv, FanoutTypeOK

LEMMA FanoutInvStep == FanoutInv /\ [FanoutNext]_fanoutVars => FanoutInv'
<1> SUFFICES ASSUME FanoutInv, [FanoutNext]_fanoutVars PROVE FanoutInv'
  OBVIOUS
<1> USE DEF FanoutInv, FanoutTypeOK
<1>1. ASSUME NEW s \in Sockets, Refuse(s) PROVE FanoutInv'
  BY <1>1 DEF Refuse, HandlerAt
<1>2. ASSUME NEW s \in Sockets, Accept(s) PROVE FanoutInv'
  BY <1>2 DEF Accept, HandlerAt
<1>3. ASSUME NEW s \in Sockets, Register(s) PROVE FanoutInv'
  BY <1>3 DEF Register, HandlerAt
<1>4. ASSUME NEW s \in Sockets, Welcome(s) PROVE FanoutInv'
  BY <1>4 DEF Welcome, HandlerAt
<1>5. ASSUME NEW s \in Sockets, Receive(s) PROVE FanoutInv'
  BY <1>5 DEF Receive, HandlerAt
<1>6. ASSUME NEW s \in Sockets, Disconnect(s) PROVE FanoutInv'
  BY <1>6 DEF Disconnect, HandlerAt
<1>7. ASSUME NEW s \in Sockets, LinkDrops(s) PROVE FanoutInv'
  BY <1>7 DEF LinkDrops
<1>8. ASSUME Subscribe \/ Published \/ HandleMessage \/ RedisDrops PROVE FanoutInv'
  <2>1. dispatcher' \in {"starting", "listening", "ended"}
    BY <1>8 DEF Subscribe, Published, HandleMessage, RedisDrops
  <2>2. inbox' \in BOOLEAN /\ redisUp' \in BOOLEAN
    BY <1>8 DEF Subscribe, Published, HandleMessage, RedisDrops
  <2>3. UNCHANGED <<socket, link, clients, leaked>>
    BY <1>8 DEF Subscribe, Published, HandleMessage, RedisDrops
  <2> QED
    BY <2>1, <2>2, <2>3
<1>9. CASE UNCHANGED fanoutVars
  BY <1>9 DEF fanoutVars
<1> QED
  BY <1>1, <1>2, <1>3, <1>4, <1>5, <1>6, <1>7, <1>8, <1>9 DEF FanoutNext

LEMMA ListedIsServedFromInv == FanoutInv => ListedIsServed
BY DEF FanoutInv, FanoutTypeOK, ListedIsServed

(* However many clients there are, the manager lists one whose handler has ended    *)
(* exactly when its welcome could not be sent.                                     *)
THEOREM NoOtherLeak == FanoutSpec => []ListedIsServed
BY FanoutInvInit, FanoutInvStep, ListedIsServedFromInv, PTL DEF FanoutSpec

-------------------------------------------------------------------------------
(* EdgeAgreements.  What a transaction found still says what can have been chosen,  *)
(* and one that is to accept a version of the first release stores its text's hash. *)
CallRecord ==
  [op : {"none", "seed", "set", "fetch", "accept", "accept_unknown"},
   version : Versions \union {"none"}, hash : {"none", "canonical", "other"},
   found : {"none", "absent", "on", "off", "canonical", "other"}, hasText : BOOLEAN]

CallSound(c) ==
  /\ call[c].op \in {"seed", "set"} =>
       /\ call[c].found \in {"absent", "on", "off"}
       /\ call[c].found # "absent" => flag # "absent"
       /\ call[c].found = "on" => chosen # {}
  /\ call[c].op = "accept" => call[c].hash = "canonical"
  /\ call[c].op = "accept_unknown" => call[c].version \notin Known
  /\ call[c].op \in {"accept", "accept_unknown"} =>
       call[c].version \in Versions /\ call[c].hash \in {"canonical", "other"}

AgreementsInv ==
  /\ flag \in {"absent", "on", "off"} /\ chosen \subseteq {"on", "off"}
  /\ Known \subseteq published
  /\ accepted \in [Versions -> {"absent", "canonical", "other"}]
  /\ call \in [Callers -> CallRecord]
  /\ chosen = {} => flag # "on"
  /\ ChoiceStands /\ AcceptanceProvesText
  /\ \A c \in Callers : CallSound(c)

LEMMA RestingFacts == Resting \in CallRecord /\ Resting.op = "none"
BY DEF Resting, CallRecord

LEMMA AgreementsInvInit == AgreementsInit => AgreementsInv
<1> SUFFICES ASSUME AgreementsInit PROVE AgreementsInv
  OBVIOUS
<1>1. \A c \in Callers : CallSound(c)
  BY RestingFacts DEF AgreementsInit, CallSound
<1> QED
  BY <1>1, RestingFacts, AgreementsAssumption
     DEF AgreementsInit, AgreementsInv, ChoiceStands, AcceptanceProvesText

LEMMA AgreementsInvStep == AgreementsInv /\ [AgreementsNext]_agreementVars => AgreementsInv'
<1> SUFFICES ASSUME AgreementsInv, [AgreementsNext]_agreementVars PROVE AgreementsInv'
  OBVIOUS
<1>0. /\ call \in [Callers -> CallRecord] /\ \A c \in Callers : CallSound(c)
  BY DEF AgreementsInv
<1>1. ASSUME NEW c \in Callers, NEW new \in CallRecord, Begins(c, new),
             UNCHANGED <<flag, chosen, published, texts, accepted>>,
             /\ new.op \in {"seed", "set"} => new.found = flag
             /\ new.op = "accept" => new.hash = "canonical"
             /\ new.op = "accept_unknown" => new.version \notin Known
             /\ new.op \in {"accept", "accept_unknown"} =>
                  new.version \in Versions /\ new.hash \in {"canonical", "other"}
      PROVE  AgreementsInv'
  <2>1. /\ call' \in [Callers -> CallRecord] /\ call'[c] = new
        /\ \A d \in Callers \ {c} : call'[d] = call[d]
    BY <1>0, <1>1 DEF Begins
  <2>2. ASSUME NEW d \in Callers PROVE CallSound(d)'
    <3>1. CASE d = c
      BY <1>1, <2>1, <3>1 DEF AgreementsInv, CallSound
    <3>2. CASE d # c
      BY <1>0, <1>1, <2>1, <3>2 DEF CallSound
    <3> QED
      BY <3>1, <3>2
  <2> QED
    BY <1>1, <2>1, <2>2 DEF AgreementsInv, ChoiceStands, AcceptanceProvesText
<1>2. ASSUME NEW c \in Callers, SeedBegin(c) \/ SetBegin(c) PROVE AgreementsInv'
  <2>1. PICK op \in {"seed", "set"} : Begins(c, [Resting EXCEPT !.op = op, !.found = flag])
    BY <1>2 DEF SeedBegin, SetBegin
  <2> DEFINE new == [Resting EXCEPT !.op = op, !.found = flag]
  <2>2. new \in CallRecord /\ new.op = op /\ new.found = flag
    BY RestingFacts DEF AgreementsInv, CallRecord
  <2> QED
    BY <1>1, <1>2, <2>1, <2>2 DEF SeedBegin, SetBegin
<1>3. ASSUME NEW c \in Callers, NEW v \in Versions, FetchBegin(c, v) PROVE AgreementsInv'
  <2> DEFINE new == [op |-> "fetch", version |-> v, hash |-> "none", found |-> "none",
                     hasText |-> v \in texts]
  <2>1. new \in CallRecord /\ new.op = "fetch"
    BY DEF CallRecord
  <2> QED
    BY <1>1, <1>3, <2>1 DEF FetchBegin
<1>4. ASSUME NEW c \in Callers, NEW v \in Versions, NEW hash \in {"canonical", "other"},
             AcceptBegin(c, v, hash)
      PROVE  AgreementsInv'
  <2> DEFINE new == [op |-> IF v \in published THEN "accept" ELSE "accept_unknown",
                     version |-> v, hash |-> HashToStore(v, hash), found |-> accepted[v],
                     hasText |-> v \in texts]
  <2>1. new \in CallRecord
    BY DEF AgreementsInv, CallRecord, HashToStore
  <2>2. /\ new.op \notin {"seed", "set"}
        /\ new.op = "accept" => new.hash = "canonical"
        /\ new.op = "accept_unknown" => new.version \notin Known
        /\ new.version \in Versions /\ new.hash \in {"canonical", "other"}
    BY DEF AgreementsInv, HashToStore
  <2> QED
    BY <1>1, <1>4, <2>1, <2>2 DEF AcceptBegin
(* The end of a transaction. *)
<1>5. ASSUME NEW c \in Callers, CallEnds(c)
      PROVE  /\ call' \in [Callers -> CallRecord] /\ call'[c].op = "none"
             /\ \A d \in Callers \ {c} : call'[d] = call[d]
  BY <1>0, <1>5, RestingFacts DEF CallEnds
<1>6. ASSUME NEW c \in Callers, SeedCommit(c) PROVE AgreementsInv'
  <2>1. /\ flag' = (IF call[c].found = "absent" /\ flag = "absent" THEN "off" ELSE flag)
        /\ CallEnds(c) /\ UNCHANGED <<chosen, published, texts, accepted>>
    BY <1>6 DEF SeedCommit, Seeded
  <2>2. ChoiceStands' /\ flag' \in {"absent", "on", "off"} /\ (chosen' = {} => flag' # "on")
        /\ (flag # "absent" => flag' # "absent")
    BY <2>1 DEF AgreementsInv, ChoiceStands
  <2>3. \A d \in Callers : CallSound(d)'
    BY <1>0, <1>5, <2>1, <2>2 DEF CallSound
  <2> QED
    BY <1>5, <2>1, <2>2, <2>3 DEF AgreementsInv, AcceptanceProvesText
<1>7. ASSUME NEW c \in Callers, SetCommit(c) PROVE AgreementsInv'
  <2>1. CallEnds(c) /\ call[c].op = "set" /\ UNCHANGED <<published, texts, accepted>>
    BY <1>7 DEF SetCommit
  <2>2. /\ ChoiceStands' /\ flag' \in {"absent", "on", "off"} /\ (chosen' = {} => flag' # "on")
        /\ (flag # "absent" => flag' # "absent")
        /\ chosen \subseteq chosen' /\ chosen' \subseteq {"on", "off"}
    <3>1. CASE UNCHANGED <<flag, chosen>>
      BY <3>1 DEF AgreementsInv, ChoiceStands
    <3>2. ASSUME ~(call[c].found = "absent" /\ flag # "absent"),
                 NEW value \in {"on", "off"},
                 flag' = IF value = call[c].found THEN flag ELSE value,
                 chosen' = chosen \union {value}
          PROVE  flag' \in {"absent", "on", "off"} /\ flag' \in chosen'
                 /\ (flag # "absent" => flag' # "absent")
      <4>1. CASE value = call[c].found
        <5>1. flag # "absent" /\ (value = "on" => chosen # {})
          BY <1>0, <2>1, <4>1 DEF CallSound
        <5> QED
          BY <3>2, <4>1, <5>1 DEF AgreementsInv, ChoiceStands
      <4>2. CASE value # call[c].found
        BY <3>2, <4>2 DEF ChoiceStands
      <4> QED
        BY <4>1, <4>2
    <3> QED
      BY <1>7, <3>1, <3>2 DEF SetCommit, AgreementsInv, ChoiceStands
  <2>3. \A d \in Callers : CallSound(d)'
    <3> SUFFICES ASSUME NEW d \in Callers PROVE CallSound(d)'
      OBVIOUS
    <3>1. CASE d = c
      BY <1>5, <2>1, <3>1 DEF CallSound
    <3>2. CASE d # c
      <4>1. call'[d] = call[d] /\ (chosen # {} => chosen' # {})
        BY <1>5, <2>1, <2>2, <3>2
      <4> QED
        BY <1>0, <2>1, <2>2, <4>1 DEF CallSound
    <3> QED
      BY <3>1, <3>2
  <2> QED
    BY <1>5, <2>1, <2>2, <2>3 DEF AgreementsInv, AcceptanceProvesText
<1>8. ASSUME NEW c \in Callers, FetchCommit(c) PROVE AgreementsInv'
  <2>1. \A d \in Callers : CallSound(d)'
    BY <1>0, <1>5, <1>8 DEF FetchCommit, CallSound
  <2> QED
    BY <1>5, <1>8, <2>1 DEF FetchCommit, AgreementsInv, AcceptanceProvesText, ChoiceStands
<1>9. ASSUME NEW c \in Callers, AcceptCommit(c) PROVE AgreementsInv'
  <2>1. CallEnds(c) /\ UNCHANGED <<flag, chosen, published>>
    BY <1>9 DEF AcceptCommit
  <2>2. \A d \in Callers : CallSound(d)'
    BY <1>0, <1>5, <2>1 DEF CallSound
  <2>3. /\ accepted' \in [Versions -> {"absent", "canonical", "other"}]
        /\ AcceptanceProvesText'
    <3>1. CASE UNCHANGED <<texts, accepted>>
      BY <3>1 DEF AgreementsInv, AcceptanceProvesText
    <3>2. ASSUME call[c].op \in {"accept", "accept_unknown"},
                 texts' = IF call[c].op = "accept" THEN texts \union {call[c].version} ELSE texts,
                 accepted' = IF call[c].found = "absent"
                             THEN [accepted EXCEPT ![call[c].version] = call[c].hash]
                             ELSE accepted
          PROVE  /\ accepted' \in [Versions -> {"absent", "canonical", "other"}]
                 /\ AcceptanceProvesText'
      <4> DEFINE v == call[c].version
      <4>1. call[c].hash \in {"canonical", "other"} /\ v \in Versions
        BY <1>0, <3>2 DEF CallSound
      <4>2. v \in Known => call[c].op = "accept" /\ call[c].hash = "canonical"
        BY <1>0, <3>2 DEF CallSound
      <4> QED
        BY <3>2, <4>1, <4>2 DEF AgreementsInv, AcceptanceProvesText
    <3> QED
      BY <1>9, <3>1, <3>2 DEF AcceptCommit
  <2> QED
    BY <1>5, <2>1, <2>2, <2>3 DEF AgreementsInv, ChoiceStands
<1>10. ASSUME NEW v \in Versions, Released(v) PROVE AgreementsInv'
  BY <1>10 DEF Released, AgreementsInv, ChoiceStands, AcceptanceProvesText, CallSound
<1>11. CASE UNCHANGED agreementVars
  BY <1>11 DEF agreementVars, AgreementsInv, ChoiceStands, AcceptanceProvesText, CallSound
<1> QED
  BY <1>2, <1>3, <1>4, <1>6, <1>7, <1>8, <1>9, <1>10, <1>11 DEF AgreementsNext

(* However many processes start and operators choose at once, what is in force is a  *)
(* value some operator chose, once one did.                                        *)
THEOREM ChoiceIsKept == AgreementsSpec => []ChoiceStands
<1>1. AgreementsInv => ChoiceStands
  BY DEF AgreementsInv
<1> QED
  BY <1>1, AgreementsInvInit, AgreementsInvStep, PTL DEF AgreementsSpec

(* However many sites accept at once, whatever hash they send and whichever commits   *)
(* collide, an acceptance of a version of the first release proves its text.         *)
THEOREM AcceptanceIsProof == AgreementsSpec => []AcceptanceProvesText
<1>1. AgreementsInv => AcceptanceProvesText
  BY DEF AgreementsInv
<1> QED
  BY <1>1, AgreementsInvInit, AgreementsInvStep, PTL DEF AgreementsSpec

-------------------------------------------------------------------------------
(* EdgeFeed.  What is spared was whitelisted all the time since the node asked.        *)
PullRecord ==
  [at : {"idle", "nft", "pool", "core", "whitelist", "answered"}, plan : {"free", "pro"},
   ips : SUBSET FeedAddresses, spared : SUBSET FeedAddresses]

FeedInv ==
  /\ edgeNode \in [state : {"ACTIVE", "REMOVED"}, plan : {"free", "pro"}]
  /\ blacklist \subseteq FeedAddresses /\ whitelist \subseteq FeedAddresses
  /\ pull \in PullRecord
  /\ pull.spared \subseteq whitelist
  /\ WhitelistedSpared

LEMMA FeedInvInit == FeedInit => FeedInv
BY DEF FeedInit, FeedInv, WhitelistedSpared, Idle, PullRecord

LEMMA FeedInvStep == FeedInv /\ [FeedNext]_feedVars => FeedInv'
<1> SUFFICES ASSUME FeedInv, [FeedNext]_feedVars PROVE FeedInv'
  OBVIOUS
<1> USE DEF FeedInv, WhitelistedSpared, sources
<1>1. CASE GetNode
  BY <1>1 DEF GetNode, PullRecord
<1>2. ASSUME NEW at \in {"nft", "pool", "core", "whitelist"}, NEW ips \in SUBSET FeedAddresses,
             Advances(at, ips), UNCHANGED <<edgeNode, sources>>
      PROVE  FeedInv'
  BY <1>2 DEF Advances, PullRecord
<1>3. CASE ReadNft
  BY <1>2, <1>3 DEF ReadNft
<1>4. CASE ReadPool
  BY <1>2, <1>4 DEF ReadPool
<1>5. CASE ReadCore
  BY <1>2, <1>5 DEF ReadCore
<1>6. CASE ReadWhitelist
  <2> USE DEF PullRecord
  <2>1. CASE pull' = [pull EXCEPT !.at = "answered", !.ips = Delivered(@, whitelist)]
    BY <1>6, <2>1 DEF ReadWhitelist, Delivered
  <2>2. CASE pull' = [pull EXCEPT !.at = "answered", !.spared = {}]
    BY <1>6, <2>2 DEF ReadWhitelist
  <2> QED
    BY <1>6, <2>1, <2>2 DEF ReadWhitelist
<1>7. CASE NextPull
  BY <1>7 DEF NextPull, Idle, PullRecord
<1>8. ASSUME FeedThreat \/ NodeRemoved \/ \E a \in FeedAddresses : StoreAttackReport(a)
      PROVE  FeedInv'
  <2>1. edgeNode' \in [state : {"ACTIVE", "REMOVED"}, plan : {"free", "pro"}]
    BY <1>8 DEF FeedThreat, NodeRemoved, StoreAttackReport
  <2>2. UNCHANGED <<blacklist, whitelist, pull>>
    BY <1>8 DEF FeedThreat, NodeRemoved, StoreAttackReport
  <2> QED
    BY <2>1, <2>2
<1>9. CASE SourceChanges
  BY <1>9 DEF SourceChanges, PullRecord
<1>10. CASE UNCHANGED feedVars
  BY <1>10 DEF feedVars
<1> QED
  BY <1>1, <1>3, <1>4, <1>5, <1>6, <1>7, <1>8, <1>9, <1>10 DEF FeedNext

(* For any addresses, scores and changes of the four sources while they are read: a    *)
(* node is not told to block what was whitelisted before it asked and stayed so.     *)
THEOREM SparedIsSpared == FeedSpec => []WhitelistedSpared
<1>1. FeedInv => WhitelistedSpared
  BY DEF FeedInv
<1> QED
  BY <1>1, FeedInvInit, FeedInvStep, PTL DEF FeedSpec

-------------------------------------------------------------------------------
(* PortalSettings.  Whatever is about to be saved configures one source at most.    *)
OneSource(s) == ~(s.override /\ s.filename # Unset)

PortalInv ==
  /\ PortalTypeOK /\ OneLogoSource
  /\ \A p \in Processes : process[p].at \in {"truncate", "write"} => OneSource(process[p].s)

LEMMA PortalInvInit == PortalInit => PortalInv
<1> SUFFICES ASSUME PortalInit PROVE PortalInv
  OBVIOUS
<1>1. DefaultSettings \in PortalRecord /\ OneSource(DefaultSettings)
  BY DEF DefaultSettings, PortalRecord, OneSource
<1>2. FreeProcess \in [at : {"free", "load", "truncate", "write", "publish"},
                       op : {"none", "upload", "patch", "delete"},
                       s : PortalRecord, file : Files \union {Unset}]
      /\ FreeProcess.at = "free"
  BY <1>1 DEF FreeProcess
<1> QED
  BY <1>1, <1>2 DEF PortalInit, PortalInv, PortalTypeOK, OneLogoSource, OneSource

LEMMA PortalInvStep == PortalInv /\ [PortalNext]_portalVars => PortalInv'
<1> SUFFICES ASSUME PortalInv, [PortalNext]_portalVars PROVE PortalInv'
  OBVIOUS
<1> DEFINE Handler == [at : {"free", "load", "truncate", "write", "publish"},
                       op : {"none", "upload", "patch", "delete"},
                       s : PortalRecord, file : Files \union {Unset}]
<1>0. /\ process \in [Processes -> Handler] /\ settingsFile \in PortalRecord \union {Unset}
      /\ uploads \subseteq Files /\ brandFile \in BOOLEAN /\ OneLogoSource
      /\ \A p \in Processes : process[p].at \in {"truncate", "write"} => OneSource(process[p].s)
  BY DEF PortalInv, PortalTypeOK
<1>1. Load \in PortalRecord /\ DefaultSettings \in PortalRecord
  BY <1>0 DEF Load, DefaultSettings, PortalRecord
(* A step puts a handler that is about to save one source at most.                *)
<1>2. ASSUME NEW p \in Processes, NEW h \in Handler, process' = [process EXCEPT ![p] = h],
             h.at \in {"truncate", "write"} => OneSource(h.s),
             uploads' \subseteq Files, brandFile' \in BOOLEAN,
             \/ UNCHANGED settingsFile
             \/ settingsFile' = Unset
             \/ settingsFile' \in PortalRecord /\ OneSource(settingsFile')
      PROVE  PortalInv'
  <2> HIDE DEF Handler
  <2>1. process' \in [Processes -> Handler]
        /\ \A q \in Processes : process'[q].at \in {"truncate", "write"} => OneSource(process'[q].s)
    BY <1>0, <1>2
  <2>2. OneLogoSource' /\ settingsFile' \in PortalRecord \union {Unset}
    BY <1>0, <1>2 DEF OneLogoSource, OneSource
  <2> QED
    BY <1>2, <2>1, <2>2 DEF PortalInv, PortalTypeOK, Handler
<1>3. FreeProcess \in Handler /\ FreeProcess.at = "free"
  BY <1>1 DEF FreeProcess
<1>4. ASSUME NEW p \in Processes, NEW file \in Files, SaveUpload(p, file) PROVE PortalInv'
  <2> DEFINE h == [FreeProcess EXCEPT !.at = "load", !.op = "upload", !.file = file]
  <2>1. h \in Handler /\ h.at = "load"
    BY <1>1 DEF FreeProcess
  <2> HIDE DEF h, Handler
  <2>2. process' = [process EXCEPT ![p] = h] /\ UNCHANGED <<settingsFile, brandFile>>
        /\ uploads' = uploads \union {file}
    BY <1>4 DEF SaveUpload, h
  <2> QED
    BY <1>0, <1>2, <2>1, <2>2
<1>5. ASSUME NEW p \in Processes, LoadForUpload(p) PROVE PortalInv'
  <2> DEFINE h == [process[p] EXCEPT !.at = "truncate", !.s = Uploaded(Load, process[p].file),
                     !.file = IF Load.filename = process[p].file THEN Unset ELSE Load.filename]
  <2>0. Uploaded(Load, process[p].file) \in PortalRecord /\ OneSource(Uploaded(Load, process[p].file))
    <3>1. process[p].file \in Files \union {Unset}
      BY <1>0
    <3> QED
      BY <1>1, <3>1 DEF Uploaded, OneSource, PortalRecord
  <2>1. h \in Handler /\ OneSource(h.s)
    <3>1. process[p] \in Handler /\ Load.filename \in Files \union {Unset}
      BY <1>0, <1>1 DEF PortalRecord
    <3> QED
      BY <2>0, <3>1
  <2>2. process' = [process EXCEPT ![p] = h] /\ UNCHANGED <<settingsFile, uploads, brandFile>>
    BY <1>0, <1>5 DEF LoadForUpload
  <2> HIDE DEF h, Handler
  <2> QED
    BY <1>0, <1>2, <2>1, <2>2
<1>6. ASSUME NEW p \in Processes, Patch(p) PROVE PortalInv'
  <2> DEFINE new == [FreeProcess EXCEPT !.at = "truncate", !.op = "patch",
                       !.s = [override |-> TRUE, filename |-> Unset]]
             old == [FreeProcess EXCEPT !.at = "truncate", !.op = "patch",
                       !.s = [Load EXCEPT !.override = FALSE]]
  <2>1. new \in Handler /\ OneSource(new.s) /\ old \in Handler /\ OneSource(old.s)
    BY <1>1 DEF FreeProcess, OneSource, PortalRecord
  <2>2. /\ UNCHANGED settingsFile /\ uploads' \subseteq Files /\ brandFile' \in BOOLEAN
        /\ \/ UNCHANGED process
           \/ process' = [process EXCEPT ![p] = new]
           \/ process' = [process EXCEPT ![p] = old]
    BY <1>0, <1>6 DEF Patch
  <2>3. process = [process EXCEPT ![p] = process[p]] /\ process[p] \in Handler
    BY <1>0
  <2> HIDE DEF new, old, Handler
  <2> QED
    BY <1>0, <1>2, <2>1, <2>2, <2>3
<1>7. ASSUME NEW p \in Processes, DeleteLogo(p) PROVE PortalInv'
  <2> DEFINE h == [FreeProcess EXCEPT !.at = "truncate", !.op = "delete",
                     !.s = [Load EXCEPT !.filename = Unset]]
  <2>1. h \in Handler /\ OneSource(h.s)
    BY <1>1 DEF FreeProcess, OneSource, PortalRecord
  <2> HIDE DEF h, Handler
  <2>2. process' = [process EXCEPT ![p] = h] /\ UNCHANGED <<settingsFile, brandFile>>
        /\ uploads' \subseteq Files
    BY <1>0, <1>7 DEF DeleteLogo, h
  <2> QED
    BY <1>0, <1>2, <2>1, <2>2
<1>8. ASSUME NEW p \in Processes, Truncate(p) PROVE PortalInv'
  <2> DEFINE h == [process[p] EXCEPT !.at = "write"]
  <2>1. h \in Handler /\ OneSource(h.s)
    BY <1>0, <1>8 DEF Truncate
  <2>2. process' = [process EXCEPT ![p] = h] /\ settingsFile' = Unset
        /\ UNCHANGED <<uploads, brandFile>>
    BY <1>0, <1>8 DEF Truncate
  <2> HIDE DEF h, Handler
  <2> QED
    BY <1>0, <1>2, <2>1, <2>2
<1>9. ASSUME NEW p \in Processes, Write(p) PROVE PortalInv'
  <2> DEFINE h == IF process[p].op = "upload" THEN [process[p] EXCEPT !.at = "publish"]
                                              ELSE FreeProcess
  <2>1. h \in Handler /\ h.at \in {"publish", "free"}
    BY <1>0, <1>3
  <2>2. process' = [process EXCEPT ![p] = h] /\ settingsFile' = process[p].s
        /\ UNCHANGED <<uploads, brandFile>> /\ OneSource(process[p].s)
        /\ process[p].s \in PortalRecord
    BY <1>0, <1>9 DEF Write
  <2> HIDE DEF h, Handler
  <2> QED
    BY <1>0, <1>2, <2>1, <2>2
<1>10. ASSUME NEW p \in Processes, Publish(p) PROVE PortalInv'
  <2>1. process' = [process EXCEPT ![p] = FreeProcess] /\ UNCHANGED settingsFile
        /\ uploads' \subseteq Files /\ brandFile' \in BOOLEAN
    BY <1>0, <1>10 DEF Publish
  <2> HIDE DEF Handler
  <2> QED
    BY <1>0, <1>2, <1>3, <2>1
<1>11. CASE UNCHANGED portalVars
  BY <1>0, <1>11 DEF portalVars, PortalInv, PortalTypeOK, OneLogoSource
<1> QED
  BY <1>4, <1>5, <1>6, <1>7, <1>8, <1>9, <1>10, <1>11 DEF PortalNext

LEMMA PortalInvariant == PortalSpec => []PortalInv
BY PortalInvInit, PortalInvStep, PTL DEF PortalSpec

(* However uploads, patches and deletions overlap, in any number of processes, the     *)
(* settings never name both an uploaded file and an external address.              *)
THEOREM LogoHasOneSource == PortalSpec => [](PortalTypeOK /\ OneLogoSource)
<1>1. PortalInv => PortalTypeOK /\ OneLogoSource
  BY DEF PortalInv
<1> QED
  BY PortalInvariant, <1>1, PTL

-------------------------------------------------------------------------------
(* Themes.  The built-in one is d: once there, it keeps its name, and no handler  *)
(* that has checked a row is about to delete it or give it another name.          *)
BuiltinStands(d) ==
  /\ BuiltinThemes = {d} /\ themes[d].name = "Default"
  /\ \A p \in Processes :
       /\ themeTask[p].at = "rename" /\ themeTask[p].id = d => themeTask[p].name = "Default"
       /\ themeTask[p].at = "delete" => themeTask[p].id # d

ThemeInv ==
  /\ ThemeTypeOK
  /\ \A i, j \in DOMAIN themes : themes[i].name = themes[j].name => i = j
  /\ \A i, j \in ActiveThemes : i = j
  /\ \A p \in Processes : themeTask[p].at \in {"rename", "delete", "activate", "import"} =>
       themeTask[p].id <= drawn /\ drawn > 0
  /\ drawn > 0 => (\E d \in DOMAIN themes : BuiltinStands(d)) /\ (crossed \/ ActiveThemes # {})

ThemeHandler ==
  [at : {"free", "seed", "rename", "delete", "activate", "import"},
   id : 0 .. MaxThemes, name : ThemeNames]

LEMMA ThemeFacts ==
  ASSUME ThemeInv
  PROVE  /\ drawn \in 0 .. MaxThemes /\ drawn \in Nat /\ MaxThemes \in Nat
         /\ DOMAIN themes \subseteq 1 .. drawn
         /\ \A i \in DOMAIN themes : themes[i] \in ThemeRow
         /\ crossed \in BOOLEAN
         /\ themeTask \in [Processes -> ThemeHandler]
         /\ NoThemeTask \in ThemeHandler /\ NoThemeTask.at = "free"
BY PortalAssumption DEF ThemeInv, ThemeTypeOK, ThemeHandler, NoThemeTask

LEMMA ThemeInvInit == ThemeInit => ThemeInv
<1> SUFFICES ASSUME ThemeInit PROVE ThemeInv
  OBVIOUS
<1>1. DOMAIN themes = {} /\ drawn = 0 /\ MaxThemes \in Nat /\ crossed \in BOOLEAN
  <2>1. drawn = 0 /\ MaxThemes \in Nat /\ crossed \in BOOLEAN
    BY PortalAssumption DEF ThemeInit
  <2>2. DOMAIN themes = 1 .. 0
    BY DEF ThemeInit
  <2> QED
    BY <2>1, <2>2
<1>2. NoThemeTask \in ThemeHandler /\ NoThemeTask.at = "free"
  BY PortalAssumption DEF NoThemeTask, ThemeHandler
<1>3. themeTask \in [Processes -> ThemeHandler] /\ \A p \in Processes : themeTask[p].at = "free"
  BY <1>2 DEF ThemeInit
<1>4. ThemeTypeOK
  BY <1>1, <1>3 DEF ThemeTypeOK, ThemeHandler
<1> QED
  BY <1>1, <1>3, <1>4 DEF ThemeInv, ActiveThemes

(* A handler that has checked a row and has still to change it.                   *)
LEMMA ThemeChecked ==
  ASSUME ThemeInv, NEW p \in Processes, NEW h \in ThemeHandler,
         themeTask' = [themeTask EXCEPT ![p] = h], UNCHANGED <<themes, drawn, crossed>>,
         h.at \in {"rename", "delete", "activate", "import"} => h.id <= drawn /\ drawn > 0,
         h.at = "rename" => (h.id \in BuiltinThemes => h.name = "Default"),
         h.at = "delete" => h.id \notin BuiltinThemes
  PROVE  ThemeInv'
<1>1. themeTask' \in [Processes -> ThemeHandler]
      /\ \A q \in Processes : themeTask'[q] = IF q = p THEN h ELSE themeTask[q]
  BY ThemeFacts
<1>2. ActiveThemes' = ActiveThemes /\ BuiltinThemes' = BuiltinThemes
  BY DEF ActiveThemes, BuiltinThemes
<1>3. ASSUME NEW d \in DOMAIN themes, BuiltinStands(d) PROVE BuiltinStands(d)'
  BY <1>1, <1>2, <1>3 DEF BuiltinStands
<1>4. ThemeTypeOK'
  BY <1>1 DEF ThemeInv, ThemeTypeOK, ThemeHandler
<1> QED
  BY <1>1, <1>2, <1>3, <1>4 DEF ThemeInv

(* The end of a handler p that has changed the rows.                              *)
LEMMA ThemeChanged ==
  ASSUME ThemeInv, NEW p \in Processes,
         \/ ThemeEnds(p)
         \/ UNCHANGED themeTask,
         drawn' \in 0 .. MaxThemes, drawn <= drawn', crossed' \in BOOLEAN,
         DOMAIN themes' \subseteq 1 .. drawn',
         \A i \in DOMAIN themes' : themes'[i] \in ThemeRow,
         \A i, j \in DOMAIN themes' : themes'[i].name = themes'[j].name => i = j,
         \A i, j \in ActiveThemes' : i = j,
         drawn' > 0 => crossed' \/ ActiveThemes' # {},
         \/ drawn > 0 /\ \A d \in DOMAIN themes : BuiltinThemes = {d} /\ themes[d].name = "Default" =>
              d \in DOMAIN themes' /\ BuiltinThemes' = {d} /\ themes'[d].name = "Default"
         \/ drawn = 0 /\ BuiltinThemes' = {1} /\ 1 \in DOMAIN themes' /\ themes'[1].name = "Default"
  PROVE  ThemeInv'
<1>1. themeTask' \in [Processes -> ThemeHandler]
      /\ \A q \in Processes : themeTask'[q] = themeTask[q] \/ themeTask'[q] = NoThemeTask
  BY ThemeFacts DEF ThemeEnds
<1>2. ThemeTypeOK'
  BY <1>1 DEF ThemeTypeOK, ThemeHandler
<1>3. \A q \in Processes : themeTask'[q].at \in {"rename", "delete", "activate", "import"} =>
        themeTask'[q].id <= drawn' /\ drawn' > 0
  <2> SUFFICES ASSUME NEW q \in Processes,
                      themeTask'[q].at \in {"rename", "delete", "activate", "import"}
               PROVE  themeTask'[q].id <= drawn' /\ drawn' > 0
    OBVIOUS
  <2>1. themeTask'[q] = themeTask[q] /\ themeTask[q].id \in 0 .. MaxThemes
    BY <1>1, ThemeFacts DEF ThemeHandler
  <2> QED
    BY <2>1, ThemeFacts DEF ThemeInv
<1>4. \E d \in DOMAIN themes' : BuiltinStands(d)'
  <2>1. CASE drawn > 0
    <3>1. PICK d \in DOMAIN themes : BuiltinStands(d)
      BY <2>1 DEF ThemeInv
    <3>2. d \in DOMAIN themes' /\ BuiltinThemes' = {d} /\ themes'[d].name = "Default"
      BY <2>1, <3>1 DEF BuiltinStands
    <3> QED
      BY <1>1, <3>1, <3>2, ThemeFacts DEF BuiltinStands
  <2>2. CASE drawn = 0
    <3>1. \A q \in Processes : themeTask[q].at \notin {"rename", "delete"}
      BY <2>2 DEF ThemeInv
    <3> QED
      BY <1>1, <2>2, <3>1, ThemeFacts DEF BuiltinStands
  <2> QED
    BY <2>1, <2>2, ThemeFacts
<1> QED
  BY <1>2, <1>3, <1>4 DEF ThemeInv

LEMMA ThemeInserted ==
  ASSUME ThemeInv, NEW p \in Processes, NEW name \in ThemeNames, NEW k \in BOOLEAN,
         ThemeEnds(p) \/ UNCHANGED themeTask, UNCHANGED crossed, InsertTheme(name, k, k),
         (drawn > 0 /\ k = FALSE) \/ (name = "Default" /\ k = TRUE)
  PROVE  ThemeInv'
<1> DEFINE new == drawn + 1
<1>1. /\ Named(name) = {} /\ drawn < MaxThemes /\ drawn' = new
      /\ DOMAIN themes' = DOMAIN themes \union {new}
      /\ \A i \in DOMAIN themes : themes'[i] = themes[i]
      /\ themes'[new] = [name |-> name, active |-> k, builtin |-> k]
  BY ThemeFacts DEF InsertTheme
<1>2. /\ themes'[new].name = name /\ themes'[new].active = k /\ themes'[new].builtin = k
      /\ themes'[new] \in ThemeRow /\ new \notin DOMAIN themes
  BY <1>1, ThemeFacts DEF ThemeRow
<1> HIDE DEF new
<1>3. /\ new \in 1 .. MaxThemes /\ new \in 0 .. MaxThemes /\ drawn <= new
      /\ DOMAIN themes' \subseteq 1 .. new
  BY <1>1, ThemeFacts DEF new
<1>4. \A i \in DOMAIN themes' : themes'[i] \in ThemeRow
  BY <1>1, <1>2, ThemeFacts DEF ThemeRow
<1>5. \A i, j \in DOMAIN themes' : themes'[i].name = themes'[j].name => i = j
  BY <1>1, <1>2 DEF Named, ThemeInv
<1>6. drawn > 0 => k = FALSE
  <2> SUFFICES ASSUME drawn > 0, name = "Default" PROVE FALSE
    OBVIOUS
  <2>1. PICK d \in DOMAIN themes : themes[d].name = "Default"
    BY DEF ThemeInv, BuiltinStands
  <2> QED
    BY <1>1, <2>1 DEF Named
<1>7. CASE drawn > 0
  <2>1. themes'[new].active = FALSE /\ themes'[new].builtin = FALSE
    BY <1>2, <1>6, <1>7
  <2>2. ActiveThemes' = ActiveThemes /\ BuiltinThemes' = BuiltinThemes
    BY <1>1, <1>2, <2>1 DEF ActiveThemes, BuiltinThemes
  <2>3. \A d \in DOMAIN themes : BuiltinThemes = {d} /\ themes[d].name = "Default" =>
          d \in DOMAIN themes' /\ BuiltinThemes' = {d} /\ themes'[d].name = "Default"
    BY <1>1, <2>2
  <2>4. /\ \A i, j \in ActiveThemes' : i = j
        /\ crossed' \in BOOLEAN /\ (crossed' \/ ActiveThemes' # {})
    BY <1>7, <2>2, ThemeFacts DEF ThemeInv
  <2> QED
    BY <1>1, <1>3, <1>4, <1>5, <1>7, <2>3, <2>4, ThemeChanged
<1>8. CASE drawn = 0
  <2>1. k = TRUE /\ name = "Default" /\ new = 1 /\ DOMAIN themes = {}
    <3>1. ~(drawn > 0) /\ new = 1
      BY <1>8 DEF new
    <3>2. DOMAIN themes \subseteq 1 .. 0
      BY <1>8, ThemeFacts
    <3> QED
      BY <3>1, <3>2
  <2>2. themes'[1].active = TRUE /\ themes'[1].builtin = TRUE /\ themes'[1].name = "Default"
        /\ DOMAIN themes' = {1}
    BY <1>1, <1>2, <2>1
  <2>3. ActiveThemes' = {1} /\ BuiltinThemes' = {1}
    BY <2>2 DEF ActiveThemes, BuiltinThemes
  <2> QED
    BY <1>1, <1>3, <1>4, <1>5, <1>8, <2>2, <2>3, ThemeFacts, ThemeChanged
<1> QED
  BY <1>7, <1>8, ThemeFacts

LEMMA ThemeInvStep == ThemeInv /\ [ThemeNext]_themeVars => ThemeInv'
<1> SUFFICES ASSUME ThemeInv, [ThemeNext]_themeVars PROVE ThemeInv'
  OBVIOUS
<1>1. ASSUME NEW p \in Processes, NEW at \in {"seed", "rename", "delete", "activate", "import"},
             NEW id \in 0 .. drawn, NEW name \in ThemeNames, Check(p, at, id, name),
             at # "seed" => drawn > 0,
             at = "rename" => (id \in BuiltinThemes => name = "Default"),
             at = "delete" => id \notin BuiltinThemes
      PROVE  ThemeInv'
  <2> DEFINE h == [at |-> at, id |-> id, name |-> name]
  <2>1. h \in ThemeHandler /\ h.at = at /\ h.id = id /\ h.name = name
    BY ThemeFacts DEF ThemeHandler
  <2>2. themeTask' = [themeTask EXCEPT ![p] = h] /\ UNCHANGED <<themes, drawn, crossed>>
    BY <1>1 DEF Check
  <2> HIDE DEF h
  <2>3. id <= drawn
    BY ThemeFacts
  <2> QED
    BY <1>1, <2>1, <2>2, <2>3, ThemeChecked
<1>2. 0 \in 0 .. drawn /\ "Default" \in ThemeNames
  BY ThemeFacts, PortalAssumption
<1>3. ASSUME NEW p \in Processes, CountThemes(p) PROVE ThemeInv'
  BY <1>1, <1>2, <1>3 DEF CountThemes
<1>4. ASSUME NEW p \in Processes, NEW name \in ThemeNames, CheckImport(p, name) PROVE ThemeInv'
  <2>1. drawn > 0
    BY <1>4, ThemeFacts DEF CheckImport
  <2> QED
    BY <1>1, <1>2, <1>4, <2>1 DEF CheckImport
<1>5. ASSUME NEW p \in Processes, NEW i \in DOMAIN themes,
             \/ CheckDelete(p, i) \/ CheckActivate(p, i)
             \/ \E name \in ThemeNames : CheckRename(p, i, name)
      PROVE  ThemeInv'
  <2>1. i \in 0 .. drawn /\ drawn > 0 /\ themes[i].name \in ThemeNames
    BY <1>5, ThemeFacts DEF ThemeRow
  <2>2. i \in BuiltinThemes => themes[i].name = "Default"
    BY <2>1 DEF ThemeInv, BuiltinStands
  <2>3. i \in BuiltinThemes <=> themes[i].builtin
    BY <1>5 DEF BuiltinThemes
  <2>4. CASE CheckDelete(p, i)
    BY <1>1, <2>1, <2>3, <2>4 DEF CheckDelete
  <2>5. CASE CheckActivate(p, i)
    BY <1>1, <2>1, <2>5 DEF CheckActivate
  <2>6. ASSUME NEW name \in ThemeNames, CheckRename(p, i, name) PROVE ThemeInv'
    <3>1. i \in BuiltinThemes => name = "Default"
      BY <2>2, <2>3, <2>6 DEF CheckRename
    <3> QED
      BY <1>1, <2>1, <2>6, <3>1 DEF CheckRename
  <2> QED
    BY <1>5, <2>4, <2>5, <2>6
<1>6. ASSUME NEW p \in Processes, SeedDefault(p) PROVE ThemeInv'
  BY <1>2, <1>6, ThemeInserted DEF SeedDefault
<1>7. ASSUME NEW p \in Processes, NEW name \in ThemeNames, CreateTheme(p, name) PROVE ThemeInv'
  <2>1. drawn > 0
    BY <1>7, ThemeFacts DEF CreateTheme
  <2> QED
    BY <1>7, <2>1, ThemeInserted DEF CreateTheme
<1>8. ASSUME NEW p \in Processes, ImportTheme(p) PROVE ThemeInv'
  <2>1. drawn > 0 /\ themeTask[p].name \in ThemeNames
    BY <1>8, ThemeFacts DEF ImportTheme, ThemeInv, ThemeHandler
  <2> QED
    BY <1>8, <2>1, ThemeInserted DEF ImportTheme
<1>9. ASSUME NEW p \in Processes, RenameTheme(p) PROVE ThemeInv'
  <2> DEFINE id == themeTask[p].id
             name == themeTask[p].name
  <2>1. /\ ThemeEnds(p) /\ UNCHANGED <<drawn, crossed>> /\ Named(name) \subseteq {id}
        /\ themeTask[p].at = "rename" /\ drawn > 0 /\ name \in ThemeNames
    BY <1>9, ThemeFacts DEF RenameTheme, ThemeInv, ThemeHandler
  <2>2. /\ DOMAIN themes' = DOMAIN themes
        /\ \A i \in DOMAIN themes :
             themes'[i] = IF i = id THEN [themes[i] EXCEPT !.name = name] ELSE themes[i]
    BY <1>9 DEF RenameTheme
  <2> HIDE DEF id, name
  <2>3. \A i \in DOMAIN themes :
          /\ themes'[i] \in ThemeRow /\ themes'[i].active = themes[i].active
          /\ themes'[i].builtin = themes[i].builtin
          /\ themes'[i].name = IF i = id THEN name ELSE themes[i].name
    BY <2>1, <2>2, ThemeFacts DEF ThemeRow
  <2>4. ActiveThemes' = ActiveThemes /\ BuiltinThemes' = BuiltinThemes
    BY <2>2, <2>3 DEF ActiveThemes, BuiltinThemes
  <2>5. \A i, j \in DOMAIN themes' : themes'[i].name = themes'[j].name => i = j
    BY <2>1, <2>2, <2>3 DEF Named, ThemeInv
  <2>6. \A d \in DOMAIN themes : BuiltinThemes = {d} /\ themes[d].name = "Default" =>
          themes'[d].name = "Default"
    <3> SUFFICES ASSUME NEW d \in DOMAIN themes, BuiltinThemes = {d}, themes[d].name = "Default"
                 PROVE  themes'[d].name = "Default"
      OBVIOUS
    <3>1. BuiltinStands(d)
      BY <2>1 DEF ThemeInv, BuiltinStands
    <3> QED
      BY <2>1, <2>3, <3>1 DEF BuiltinStands, id, name
  <2> QED
    BY <2>1, <2>2, <2>3, <2>4, <2>5, <2>6, ThemeFacts, ThemeChanged DEF ThemeInv
<1>10. ASSUME NEW p \in Processes, DeleteTheme(p) PROVE ThemeInv'
  <2> DEFINE id == themeTask[p].id
  <2>1. /\ ThemeEnds(p) /\ UNCHANGED drawn /\ drawn > 0 /\ themeTask[p].at = "delete"
        /\ (crossed' <=> crossed \/ id \in ActiveThemes) /\ crossed' \in BOOLEAN
        /\ DOMAIN themes' = DOMAIN themes \ {id}
        /\ \A i \in DOMAIN themes' : themes'[i] = themes[i]
    BY <1>10 DEF DeleteTheme, ThemeInv
  <2>2. \A d \in DOMAIN themes : BuiltinThemes = {d} => d # id
    BY <2>1 DEF ThemeInv, BuiltinStands
  <2> HIDE DEF id
  <2>3. ActiveThemes' = ActiveThemes \ {id} /\ BuiltinThemes' = BuiltinThemes \ {id}
    BY <2>1 DEF ActiveThemes, BuiltinThemes
  <2>5. crossed' \/ ActiveThemes' # {}
    <3>1. crossed \/ \E i \in ActiveThemes : TRUE
      BY <2>1 DEF ThemeInv
    <3> QED
      BY <2>1, <2>3, <3>1
  <2>6. \A d \in DOMAIN themes : BuiltinThemes = {d} /\ themes[d].name = "Default" =>
          d \in DOMAIN themes' /\ BuiltinThemes' = {d} /\ themes'[d].name = "Default"
    BY <2>1, <2>2, <2>3
  <2>7. /\ \A i \in DOMAIN themes' : themes'[i] \in ThemeRow
        /\ \A i, j \in DOMAIN themes' : themes'[i].name = themes'[j].name => i = j
        /\ \A i, j \in ActiveThemes' : i = j
    BY <2>1, <2>3, ThemeFacts DEF ThemeInv
  <2> QED
    BY <2>1, <2>5, <2>6, <2>7, ThemeFacts, ThemeChanged
<1>11. ASSUME NEW p \in Processes, ActivateTheme(p) PROVE ThemeInv'
  <2> DEFINE id == themeTask[p].id
  <2>1. /\ ThemeEnds(p) /\ UNCHANGED drawn /\ drawn > 0
        /\ crossed' = (crossed \/ id \notin DOMAIN themes)
    BY <1>11 DEF ActivateTheme, ThemeInv
  <2>2. /\ DOMAIN themes' = DOMAIN themes
        /\ \A i \in DOMAIN themes : themes'[i] = [themes[i] EXCEPT !.active = (i = id)]
    BY <1>11 DEF ActivateTheme, Activated
  <2> HIDE DEF id
  <2>3. \A i \in DOMAIN themes :
          /\ themes'[i] \in ThemeRow /\ (themes'[i].active <=> i = id)
          /\ themes'[i].builtin = themes[i].builtin /\ themes'[i].name = themes[i].name
    <3> SUFFICES ASSUME NEW i \in DOMAIN themes
                 PROVE  /\ themes'[i] \in ThemeRow /\ (themes'[i].active <=> i = id)
                        /\ themes'[i].builtin = themes[i].builtin
                        /\ themes'[i].name = themes[i].name
      OBVIOUS
    <3>1. PICK on \in BOOLEAN : on <=> i = id
      OBVIOUS
    <3>2. themes'[i] = [themes[i] EXCEPT !.active = on] /\ themes[i] \in ThemeRow
      BY <2>2, <3>1, ThemeFacts
    <3> QED
      BY <3>1, <3>2 DEF ThemeRow
  <2>4. ActiveThemes' = DOMAIN themes \cap {id} /\ BuiltinThemes' = BuiltinThemes
    BY <2>2, <2>3 DEF ActiveThemes, BuiltinThemes
  <2>5. crossed' \in BOOLEAN /\ (crossed' \/ ActiveThemes' # {})
    BY <2>1, <2>4
  <2>6. \A i, j \in DOMAIN themes' : themes'[i].name = themes'[j].name => i = j
    BY <2>2, <2>3 DEF ThemeInv
  <2> QED
    BY <2>1, <2>2, <2>3, <2>4, <2>5, <2>6, ThemeFacts, ThemeChanged
<1>12. ASSUME NEW p \in Processes, ThemeFails(p) PROVE ThemeInv'
  BY <1>12, ThemeFacts, ThemeChecked DEF ThemeFails, ThemeEnds
<1>13. CASE UNCHANGED themeVars
  BY <1>13 DEF themeVars, ThemeInv, ThemeTypeOK, ActiveThemes, BuiltinThemes, BuiltinStands
<1> QED
  BY <1>3, <1>4, <1>5, <1>6, <1>7, <1>8, <1>9, <1>10, <1>11, <1>12, <1>13 DEF ThemeNext

LEMMA OneActiveFromInv == ThemeInv => OneThemeActive
<1> SUFFICES ASSUME ThemeInv PROVE OneThemeActive
  OBVIOUS
<1>1. Cardinality(ActiveThemes) <= 1
  <2>1. CASE ActiveThemes = {}
    BY <2>1, FS_EmptySet
  <2>2. CASE ActiveThemes # {}
    <3>1. PICK i \in ActiveThemes : ActiveThemes = {i}
      BY <2>2 DEF ThemeInv
    <3> QED
      BY <3>1, FS_Singleton
  <2> QED
    BY <2>1, <2>2
<1>2. ASSUME drawn > 0
      PROVE  {themes[i].name : i \in BuiltinThemes} = {"Default"} /\ Cardinality(BuiltinThemes) = 1
  <2>1. PICK d \in DOMAIN themes : BuiltinStands(d)
    BY <1>2 DEF ThemeInv
  <2> QED
    BY <2>1, FS_Singleton DEF BuiltinStands
<1> QED
  BY <1>1, <1>2 DEF OneThemeActive, ThemeInv

LEMMA ThemeInvariant == ThemeSpec => []ThemeInv
BY ThemeInvInit, ThemeInvStep, PTL DEF ThemeSpec

(* Themes that are created, renamed, deleted and activated at once leave one active at   *)
(* most and the built-in one in place, for any number of processes and rows.         *)
THEOREM ThemeActiveOnce == ThemeSpec => [](ThemeTypeOK /\ OneThemeActive)
<1>1. ThemeInv => ThemeTypeOK /\ OneThemeActive
  BY OneActiveFromInv DEF ThemeInv
<1> QED
  BY ThemeInvariant, <1>1, PTL

-------------------------------------------------------------------------------
(* IpEnrolment.  Requests that have found no link that works for the address and    *)
(* are yet to insert one.                                                         *)
Joins(q, ip) ==
  /\ q.of = ip
  /\ q.at = "insert" \/ (q.at \in {"code", "use"} /\ q.read = TRUE)

Joining(ip) == {c \in Clients : Joins(client[c], ip)}

ClientPlaces ==
  {"ready", "insert", "mail", "load", "code", "use", "approve", "invalidate", "cache"}
ClientObjects == ClientAddresses \union Links \union {NoRow}
Caches == (SUBSET ClientAddresses) \union {NoRow}
ClientRecord == [at : ClientPlaces, of : ClientObjects, read : BOOLEAN \union Caches]
LinkRows == [ip : ClientAddresses, status : {"live", "over"}]

LinksFit(ip) ==
  /\ IsFiniteSet(LivePending(ip))
  /\ Cardinality(LivePending(ip)) + Cardinality(Joining(ip)) <= Cardinality(Clients)

(* What the request q holds was there when it read it.                            *)
ClientReads(q, rows) ==
  /\ q.at \in {"insert", "load", "code", "use"} => q.of \in ClientAddresses
  /\ q.at \in {"code", "use"} => q.read \in BOOLEAN
  /\ q.at = "cache" => q.read \in SUBSET ClientAddresses
  /\ q.at \in {"mail", "approve"} => q.of \in Links /\ rows[q.of] \in LinkRows

EnrolmentTables ==
  /\ links \in [Links -> LinkRows \union {NoRow}]
  /\ \A l \in mailed : l \in Links /\ links[l] \in LinkRows
  /\ approved \subseteq ClientAddresses /\ safeAddresses \subseteq ClientAddresses
  /\ cache \in Caches
  /\ enrolChallenges \subseteq ClientAddresses /\ codeUsed \in BOOLEAN

EnrolmentInv ==
  /\ client \in [Clients -> ClientRecord]
  /\ \A c \in Clients : ClientReads(client[c], links)
  /\ EnrolmentTables
  /\ \A ip \in ClientAddresses : LinksFit(ip)

LEMMA ClientIsAt ==
  ASSUME NEW place \in ClientPlaces, NEW of \in ClientObjects, NEW read \in BOOLEAN \union Caches
  PROVE  /\ At(place, of, read) \in ClientRecord /\ At(place, of, read).at = place
         /\ At(place, of, read).of = of /\ At(place, of, read).read = read
BY DEF At, ClientRecord

LEMMA ClientDomains ==
  /\ NoRow \in ClientObjects /\ ClientAddresses \subseteq ClientObjects /\ Links \subseteq ClientObjects
  /\ NoRow \in BOOLEAN \union Caches /\ BOOLEAN \subseteq BOOLEAN \union Caches
  /\ \A ips \in SUBSET ClientAddresses : ips \in Caches /\ ips \in BOOLEAN \union Caches
  /\ NoRow \in Caches /\ Caches \subseteq BOOLEAN \union Caches
<1>1. NoRow \in Caches
  BY DEF Caches
<1>2. SUBSET ClientAddresses \subseteq Caches
  BY DEF Caches
<1> QED
  BY <1>1, <1>2 DEF ClientObjects

LEMMA NoRequestAt == NoRequest \in ClientRecord /\ NoRequest.at = "ready"
<1>1. NoRequest = At("ready", NoRow, NoRow) /\ "ready" \in ClientPlaces
  BY DEF NoRequest, At, ClientPlaces
<1> QED
  BY <1>1, ClientDomains, ClientIsAt

LEMMA JoiningFinite ==
  ASSUME NEW ip
  PROVE  /\ IsFiniteSet(Joining(ip)) /\ Cardinality(Joining(ip)) \in Nat
         /\ Cardinality(Joining(ip)) <= Cardinality(Clients) /\ Cardinality(Clients) \in Nat
<1>1. IsFiniteSet(Clients) /\ Joining(ip) \in SUBSET Clients
  BY EnrolmentAssumption DEF Joining
<1> QED
  BY <1>1, FS_Subset, FS_CardinalityType

(* No request counts for more than it did, unless no link works.                  *)
LEMMA LinksStillFit ==
  ASSUME EnrolmentInv, NEW ip \in ClientAddresses,
         LivePending(ip)' \subseteq LivePending(ip),
         \A c \in Clients : Joins(client'[c], ip) =>
           Joins(client[c], ip) \/ LivePending(ip) = {}
  PROVE  LinksFit(ip)'
<1>1. /\ IsFiniteSet(LivePending(ip)) /\ IsFiniteSet(LivePending(ip)')
      /\ Cardinality(LivePending(ip)') <= Cardinality(LivePending(ip))
      /\ Cardinality(LivePending(ip)') \in Nat /\ Cardinality(LivePending(ip)) \in Nat
  BY FS_Subset, FS_CardinalityType DEF EnrolmentInv, LinksFit
<1>2. /\ IsFiniteSet(Clients) /\ Joining(ip)' \in SUBSET Clients
      /\ Cardinality(Joining(ip)') \in Nat /\ Cardinality(Joining(ip)') <= Cardinality(Clients)
  <2>1. Joining(ip)' \in SUBSET Clients
    BY DEF Joining
  <2> QED
    BY <2>1, EnrolmentAssumption, FS_Subset, FS_CardinalityType
<1>3. CASE LivePending(ip) = {}
  <2>1. Cardinality(LivePending(ip)') = 0
    BY <1>3, FS_EmptySet
  <2> QED
    BY <1>1, <1>2, <2>1, JoiningFinite DEF LinksFit
<1>4. CASE LivePending(ip) # {}
  <2>1. Joining(ip)' \in SUBSET Joining(ip)
    BY <1>4 DEF Joining
  <2>2. Cardinality(Joining(ip)') <= Cardinality(Joining(ip))
    BY <2>1, JoiningFinite, FS_Subset
  <2> QED
    BY <1>1, <1>2, <2>2, JoiningFinite DEF LinksFit, EnrolmentInv
<1> QED
  BY <1>3, <1>4

(* A request goes on to q, and the links are as they were or fewer work.           *)
LEMMA ClientGoesOn ==
  ASSUME EnrolmentInv, NEW c \in Clients, NEW q \in ClientRecord,
         client' = [client EXCEPT ![c] = q], ClientReads(q, links'),
         EnrolmentTables', \A l \in Links : links[l] \in LinkRows => links'[l] \in LinkRows,
         \A ip \in ClientAddresses : LivePending(ip)' \subseteq LivePending(ip),
         \A ip \in ClientAddresses : Joins(q, ip) => Joins(client[c], ip) \/ LivePending(ip) = {}
  PROVE  EnrolmentInv'
<1>1. client' \in [Clients -> ClientRecord]
      /\ \A d \in Clients : client'[d] = IF d = c THEN q ELSE client[d]
  BY DEF EnrolmentInv
<1>2. \A d \in Clients : ClientReads(client'[d], links')
  BY <1>1 DEF ClientReads, EnrolmentInv
<1>3. \A ip \in ClientAddresses : LinksFit(ip)'
  BY <1>1, LinksStillFit
<1> QED
  BY <1>1, <1>2, <1>3 DEF EnrolmentInv

LEMMA EnrolmentInvInit == EnrolmentInit => EnrolmentInv
<1> SUFFICES ASSUME EnrolmentInit PROVE EnrolmentInv
  OBVIOUS
<1>1. NoRequest \in ClientRecord /\ NoRequest.at = "ready"
  BY NoRequestAt
<1>2. client \in [Clients -> ClientRecord] /\ \A c \in Clients : client[c].at = "ready"
  BY <1>1 DEF EnrolmentInit
<1>3. EnrolmentTables
  BY ClientDomains DEF EnrolmentInit, EnrolmentTables
<1>4. ASSUME NEW ip \in ClientAddresses PROVE LinksFit(ip)
  <2>1. LivePending(ip) = {}
    BY DEF EnrolmentInit, LivePending
  <2> QED
    BY <2>1, FS_EmptySet, JoiningFinite DEF LinksFit
<1> QED
  BY <1>2, <1>3, <1>4 DEF EnrolmentInv, ClientReads

LEMMA PendingInserted ==
  ASSUME EnrolmentInv, NEW c \in Clients, InsertPending(c)
  PROVE  EnrolmentInv'
<1> DEFINE l == CHOOSE m \in Links : links[m] = NoRow
           q == At("mail", l, NoRow)
<1>0. PICK ip \in ClientAddresses : ip = client[c].of
  BY DEF InsertPending, ClientMoves, EnrolmentInv, ClientReads
<1> DEFINE row == [ip |-> ip, status |-> "live"]
<1>1. l \in Links /\ links[l] = NoRow
  BY DEF InsertPending
<1>2. /\ client[c].at = "insert" /\ client' = [client EXCEPT ![c] = q]
      /\ links' = [links EXCEPT ![l] = row]
      /\ UNCHANGED <<approved, safeAddresses, cache, mailed, enrolChallenges, codeUsed>>
  BY <1>0 DEF InsertPending, ClientMoves
<1>3. q \in ClientRecord /\ q.at = "mail" /\ q.of = l /\ row \in LinkRows
  BY <1>1, ClientDomains, ClientIsAt DEF ClientPlaces, LinkRows
<1> HIDE DEF l, q, row
<1>4. /\ links' \in [Links -> LinkRows \union {NoRow}] /\ links'[l] = row
      /\ \A m \in Links : m # l => links'[m] = links[m]
      /\ \A m \in Links : links[m] \in LinkRows => links'[m] \in LinkRows
  BY <1>1, <1>2, <1>3 DEF EnrolmentInv, EnrolmentTables
<1>5. client' \in [Clients -> ClientRecord] /\ client'[c] = q
      /\ \A d \in Clients : d # c => client'[d] = client[d]
  BY <1>2, <1>3 DEF EnrolmentInv
<1>6. \A d \in Clients : ClientReads(client'[d], links')
  BY <1>1, <1>3, <1>4, <1>5 DEF ClientReads, EnrolmentInv
<1>7. EnrolmentTables'
  BY <1>2, <1>4 DEF EnrolmentTables, EnrolmentInv
<1>8. \A addr : ~Joins(q, addr)
  BY <1>3 DEF Joins
<1>9. ASSUME NEW addr \in ClientAddresses, addr # ip PROVE LinksFit(addr)'
  <2>1. LivePending(addr)' \subseteq LivePending(addr)
    BY <1>4, <1>9 DEF LivePending, row
  <2> QED
    BY <1>5, <1>8, <2>1, LinksStillFit
<1>10. LinksFit(ip)'
  <2>1. LivePending(ip)' \subseteq LivePending(ip) \union {l} /\ l \notin LivePending(ip)
    BY <1>1, <1>4 DEF LivePending
  <2>2. /\ IsFiniteSet(LivePending(ip)) /\ Cardinality(LivePending(ip)) \in Nat
        /\ IsFiniteSet(LivePending(ip) \union {l})
        /\ Cardinality(LivePending(ip) \union {l}) = Cardinality(LivePending(ip)) + 1
    BY <1>2, <2>1, FS_AddElement, FS_CardinalityType DEF EnrolmentInv, LinksFit
  <2>3. /\ IsFiniteSet(LivePending(ip)') /\ Cardinality(LivePending(ip)') \in Nat
        /\ Cardinality(LivePending(ip)') <= Cardinality(LivePending(ip)) + 1
    BY <2>1, <2>2, FS_Subset, FS_CardinalityType
  <2>4. c \in Joining(ip)
    BY <1>0, <1>2 DEF Joining, Joins
  <2>5. Joining(ip)' \subseteq Joining(ip) \ {c}
    BY <1>5, <1>8 DEF Joining
  <2>6. /\ IsFiniteSet(Joining(ip) \ {c})
        /\ Cardinality(Joining(ip) \ {c}) = Cardinality(Joining(ip)) - 1
    BY <2>4, JoiningFinite, FS_RemoveElement
  <2>7. /\ Cardinality(Joining(ip)') <= Cardinality(Joining(ip)) - 1
        /\ Cardinality(Joining(ip)') \in Nat
    BY <2>5, <2>6, FS_Subset, FS_CardinalityType
  <2> QED
    BY <1>2, <2>2, <2>3, <2>7, JoiningFinite DEF LinksFit, EnrolmentInv
<1> QED
  BY <1>5, <1>6, <1>7, <1>9, <1>10 DEF EnrolmentInv

LEMMA EnrolmentInvStep == EnrolmentInv /\ [EnrolmentNext]_enrolmentVars => EnrolmentInv'
<1> SUFFICES ASSUME EnrolmentInv, [EnrolmentNext]_enrolmentVars PROVE EnrolmentInv'
  OBVIOUS
<1>0. /\ client \in [Clients -> ClientRecord] /\ \A c \in Clients : ClientReads(client[c], links)
      /\ EnrolmentTables
  BY DEF EnrolmentInv
<1>1. NoRequest \in ClientRecord /\ NoRequest.at = "ready"
  BY NoRequestAt
(* Most steps leave the links alone.                                             *)
<1>2. ASSUME NEW c \in Clients, NEW q \in ClientRecord, client' = [client EXCEPT ![c] = q],
             ClientReads(q, links), UNCHANGED links, EnrolmentTables',
             \A ip \in ClientAddresses :
               Joins(q, ip) => Joins(client[c], ip) \/ LivePending(ip) = {}
      PROVE  EnrolmentInv'
  <2>1. \A ip \in ClientAddresses : LivePending(ip)' \subseteq LivePending(ip)
    BY <1>2 DEF LivePending
  <2> QED
    BY <1>2, <2>1, ClientGoesOn
<1>3. ASSUME NEW c \in Clients, client' = [client EXCEPT ![c] = NoRequest],
             UNCHANGED links, EnrolmentTables'
      PROVE  EnrolmentInv'
  <2>1. \A ip \in ClientAddresses : ~Joins(NoRequest, ip)
    BY <1>1 DEF Joins
  <2>2. ClientReads(NoRequest, links)
    BY <1>1 DEF ClientReads
  <2> QED
    BY <1>1, <1>2, <1>3, <2>1, <2>2
<1>4. ASSUME NEW c \in Clients, UNCHANGED <<client, links>>, EnrolmentTables' PROVE EnrolmentInv'
  <2>1. client' = [client EXCEPT ![c] = client[c]] /\ client[c] \in ClientRecord
    BY <1>0, <1>4
  <2> QED
    BY <1>0, <1>2, <1>4, <2>1
<1>5. ASSUME NEW c \in Clients, NEW ip \in ClientAddresses, EnrolStart(c, ip) PROVE EnrolmentInv'
  <2> DEFINE q == At("insert", ip, NoRow)
  <2>1. EnrolmentTables' /\ UNCHANGED links
    BY <1>0, <1>5 DEF EnrolStart, EnrolmentTables
  <2>2. CASE UNCHANGED client
    BY <1>4, <2>1, <2>2
  <2>3. CASE client' = [client EXCEPT ![c] = q]
    <3>1. q \in ClientRecord /\ q.at = "insert" /\ q.of = ip
      BY ClientDomains, ClientIsAt DEF ClientPlaces
    <3>2. LivePending(ip) = {}
      BY <1>5 DEF EnrolStart, MayEnrol
    <3>3. ClientReads(q, links) /\ \A addr \in ClientAddresses : Joins(q, addr) => addr = ip
      BY <3>1 DEF ClientReads, Joins
    <3> HIDE DEF q
    <3> QED
      BY <1>2, <2>1, <2>3, <3>1, <3>2, <3>3
  <2> QED
    BY <1>5, <2>2, <2>3 DEF EnrolStart, ClientMoves
<1>6. ASSUME NEW c \in Clients, NEW ip \in ClientAddresses, GetChallenge(c, ip) PROVE EnrolmentInv'
  <2> DEFINE q == At("load", ip, NoRow)
  <2>1. q \in ClientRecord /\ q.at = "load" /\ q.of = ip
    BY ClientDomains, ClientIsAt DEF ClientPlaces
  <2>2. ClientReads(q, links) /\ \A addr \in ClientAddresses : ~Joins(q, addr)
    BY <2>1 DEF ClientReads, Joins
  <2>3. EnrolmentTables' /\ UNCHANGED links /\ client' = [client EXCEPT ![c] = q]
    BY <1>0, <1>6 DEF GetChallenge, ClientMoves, EnrolmentTables
  <2> HIDE DEF q
  <2> QED
    BY <1>2, <2>1, <2>2, <2>3
<1>7. ASSUME NEW c \in Clients, NEW l \in Links, OpenLink(c, l) PROVE EnrolmentInv'
  <2> DEFINE found == links[l].ip \in approved
             q == At("approve", l, found)
  <2>1. found \in BOOLEAN
    OBVIOUS
  <2> HIDE DEF found
  <2>2. q \in ClientRecord /\ q.at = "approve" /\ q.of = l
    BY <2>1, ClientDomains, ClientIsAt DEF ClientPlaces
  <2>3. links[l] \in LinkRows
    BY <1>0, <1>7 DEF OpenLink, EnrolmentTables
  <2>4. ClientReads(q, links) /\ \A addr \in ClientAddresses : ~Joins(q, addr)
    BY <2>2, <2>3 DEF ClientReads, Joins
  <2>5. EnrolmentTables' /\ UNCHANGED links /\ client' = [client EXCEPT ![c] = q]
    BY <1>0, <1>7 DEF OpenLink, ClientMoves, EnrolmentTables, found
  <2> HIDE DEF q
  <2> QED
    BY <1>2, <2>2, <2>4, <2>5
<1>8. ASSUME NEW c \in Clients, SendApprovalEmail(c) PROVE EnrolmentInv'
  <2>1. client[c].of \in Links /\ links[client[c].of] \in LinkRows
    BY <1>0, <1>8 DEF SendApprovalEmail, ClientMoves, ClientReads
  <2>2. EnrolmentTables' /\ UNCHANGED links /\ client' = [client EXCEPT ![c] = NoRequest]
    BY <1>0, <1>8, <2>1 DEF SendApprovalEmail, ClientMoves, EnrolmentTables
  <2> QED
    BY <1>3, <2>2
<1>9. ASSUME NEW c \in Clients, LoadUser(c) PROVE EnrolmentInv'
  <2> DEFINE ip == client[c].of
  <2>1. PICK may \in BOOLEAN : may = MayEnrol(ip)
    BY DEF MayEnrol
  <2> DEFINE q == At("code", ip, may)
  <2>2. /\ ip \in ClientAddresses /\ EnrolmentTables' /\ UNCHANGED links
        /\ client' = [client EXCEPT ![c] = q]
    BY <1>0, <1>9, <2>1 DEF LoadUser, ClientMoves, EnrolmentTables, ClientReads
  <2>3. q \in ClientRecord /\ q.at = "code" /\ q.of = ip /\ q.read = may
    BY <2>2, ClientDomains, ClientIsAt DEF ClientPlaces
  <2>4. may = TRUE => LivePending(ip) = {}
    BY <2>1 DEF MayEnrol
  <2> HIDE DEF q, ip
  <2>5. ClientReads(q, links)
        /\ \A addr \in ClientAddresses : Joins(q, addr) => addr = ip /\ may = TRUE
    BY <2>2, <2>3 DEF ClientReads, Joins
  <2> QED
    BY <1>2, <2>2, <2>3, <2>4, <2>5
<1>10. ASSUME NEW c \in Clients, CheckCode(c) PROVE EnrolmentInv'
  <2> DEFINE q == [client[c] EXCEPT !.at = "use"]
  <2>1. EnrolmentTables' /\ UNCHANGED links /\ client[c].at = "code"
    BY <1>0, <1>10 DEF CheckCode, ClientMoves, EnrolmentTables
  <2>2. CASE client' = [client EXCEPT ![c] = NoRequest]
    BY <1>3, <2>1, <2>2
  <2>3. CASE client' = [client EXCEPT ![c] = q]
    <3>1. /\ q \in ClientRecord /\ q.at = "use" /\ q.of = client[c].of
          /\ q.read = client[c].read
      BY <1>0 DEF ClientRecord, ClientPlaces
    <3> HIDE DEF q
    <3>2. ClientReads(q, links) /\ \A addr \in ClientAddresses : Joins(q, addr) => Joins(client[c], addr)
      BY <1>0, <2>1, <3>1 DEF ClientReads, Joins
    <3> QED
      BY <1>2, <2>1, <2>3, <3>1, <3>2
  <2> QED
    BY <1>10, <2>2, <2>3 DEF CheckCode, ClientMoves
<1>11. ASSUME NEW c \in Clients, SpendCode(c) PROVE EnrolmentInv'
  <2> DEFINE q == At("insert", client[c].of, NoRow)
  <2>1. /\ EnrolmentTables' /\ UNCHANGED links /\ client[c].at = "use"
        /\ client[c].of \in ClientAddresses /\ client[c].read \in BOOLEAN
    BY <1>0, <1>11 DEF SpendCode, ClientMoves, EnrolmentTables, ClientReads
  <2>2. CASE ~client[c].read
    <3>1. client' = [client EXCEPT ![c] = NoRequest]
      BY <1>11, <2>2 DEF SpendCode, ClientMoves
    <3> QED
      BY <1>3, <2>1, <3>1
  <2>3. CASE client[c].read
    <3>1. client' = [client EXCEPT ![c] = q]
      BY <1>11, <2>3 DEF SpendCode, ClientMoves
    <3>2. q \in ClientRecord /\ q.at = "insert" /\ q.of = client[c].of
      BY <2>1, ClientDomains, ClientIsAt DEF ClientPlaces
    <3> HIDE DEF q
    <3>3. ClientReads(q, links)
      BY <2>1, <3>2 DEF ClientReads
    <3>4. client[c].read = TRUE
      BY <2>1, <2>3
    <3>5. \A addr \in ClientAddresses : Joins(q, addr) => Joins(client[c], addr)
      BY <2>1, <3>2, <3>4 DEF Joins
    <3> QED
      BY <1>2, <2>1, <3>1, <3>2, <3>3, <3>5
  <2> QED
    BY <2>2, <2>3
<1>12. ASSUME NEW c \in Clients, Approve(c) PROVE EnrolmentInv'
  <2> DEFINE l == client[c].of
             q == At("invalidate", NoRow, NoRow)
  <2>1. l \in Links /\ links[l] \in LinkRows /\ links[l].ip \in ClientAddresses
    BY <1>0, <1>12 DEF Approve, ClientReads, LinkRows
  <2>2. CASE ~client[c].read /\ links[l].ip \in approved
    <3>1. client' = [client EXCEPT ![c] = NoRequest] /\ UNCHANGED links /\ EnrolmentTables'
      BY <1>0, <1>12, <2>2 DEF Approve, ClientMoves, EnrolmentTables
    <3> QED
      BY <1>3, <3>1
  <2>3. CASE ~(~client[c].read /\ links[l].ip \in approved)
    <3>1. /\ client' = [client EXCEPT ![c] = q]
          /\ links' = [links EXCEPT ![l].status = "over"]
          /\ approved' = approved \union {links[l].ip}
          /\ UNCHANGED <<safeAddresses, cache, mailed, enrolChallenges, codeUsed>>
      BY <1>12, <2>3 DEF Approve, ClientMoves
    <3>2. q \in ClientRecord /\ q.at = "invalidate"
      BY ClientDomains, ClientIsAt DEF ClientPlaces
    <3> HIDE DEF l, q
    <3>3. /\ links' \in [Links -> LinkRows \union {NoRow}] /\ links'[l] \in LinkRows
          /\ links'[l].status = "over" /\ \A m \in Links : m # l => links'[m] = links[m]
      BY <1>0, <2>1, <3>1 DEF EnrolmentTables, LinkRows
    <3>4. EnrolmentTables'
      BY <1>0, <2>1, <3>1, <3>3 DEF EnrolmentTables
    <3>5. /\ ClientReads(q, links') /\ \A addr \in ClientAddresses : ~Joins(q, addr)
          /\ \A m \in Links : links[m] \in LinkRows => links'[m] \in LinkRows
          /\ \A addr \in ClientAddresses : LivePending(addr)' \subseteq LivePending(addr)
      BY <2>1, <3>2, <3>3 DEF ClientReads, Joins, LivePending
    <3> QED
      BY <3>1, <3>2, <3>4, <3>5, ClientGoesOn
  <2> QED
    BY <2>2, <2>3
<1>13. ASSUME NEW c \in Clients, Invalidate(c) PROVE EnrolmentInv'
  <2>1. EnrolmentTables' /\ UNCHANGED links /\ client' = [client EXCEPT ![c] = NoRequest]
    BY <1>0, <1>13, ClientDomains DEF Invalidate, ClientMoves, EnrolmentTables
  <2> QED
    BY <1>3, <2>1
<1>14. ASSUME NEW c \in Clients, BuildRead(c) PROVE EnrolmentInv'
  <2>1. PICK rows \in {approved, {}} :
          client' = [client EXCEPT ![c] = At("cache", NoRow, EnvAddresses \union safeAddresses \union rows)]
    BY <1>14 DEF BuildRead, ClientMoves
  <2> DEFINE q == At("cache", NoRow, EnvAddresses \union safeAddresses \union rows)
  <2>2. q \in ClientRecord /\ q.at = "cache" /\ q.read \in SUBSET ClientAddresses
    <3> DEFINE known == EnvAddresses \union safeAddresses \union rows
    <3>1. known \in SUBSET ClientAddresses
      BY <1>0, <2>1, EnrolmentAssumption DEF EnrolmentTables
    <3> HIDE DEF known
    <3>2. At("cache", NoRow, known) \in ClientRecord /\ At("cache", NoRow, known).at = "cache"
          /\ At("cache", NoRow, known).read = known
      BY <3>1, ClientDomains, ClientIsAt DEF ClientPlaces
    <3> QED
      BY <3>1, <3>2 DEF known
  <2>3. ClientReads(q, links) /\ \A addr \in ClientAddresses : ~Joins(q, addr)
    BY <2>2 DEF ClientReads, Joins
  <2>4. EnrolmentTables' /\ UNCHANGED links
    BY <1>0, <1>14 DEF BuildRead, EnrolmentTables
  <2> HIDE DEF q
  <2> QED
    BY <1>2, <2>1, <2>2, <2>3, <2>4 DEF q
<1>15. ASSUME NEW c \in Clients, BuildStore(c) PROVE EnrolmentInv'
  <2>1. EnrolmentTables' /\ UNCHANGED links /\ client' = [client EXCEPT ![c] = NoRequest]
    BY <1>0, <1>15, ClientDomains DEF BuildStore, ClientMoves, EnrolmentTables, ClientReads
  <2> QED
    BY <1>3, <2>1
<1>16. CASE TimePasses \/ ReplaceSafeAddresses \/ UNCHANGED enrolmentVars
  <2>1. UNCHANGED client /\ (UNCHANGED links \/ \E l \in Links :
          links[l] # NoRow /\ links' = [links EXCEPT ![l].status = "over"])
    BY <1>16 DEF TimePasses, ReplaceSafeAddresses, enrolmentVars
  <2>2. /\ links' \in [Links -> LinkRows \union {NoRow}]
        /\ \A m \in Links : links[m] \in LinkRows => links'[m] \in LinkRows
        /\ \A addr \in ClientAddresses : LivePending(addr)' \subseteq LivePending(addr)
    <3>1. CASE UNCHANGED links
      BY <1>0, <3>1 DEF EnrolmentTables, LivePending
    <3>2. ASSUME NEW l \in Links, links[l] # NoRow, links' = [links EXCEPT ![l].status = "over"]
          PROVE  /\ links' \in [Links -> LinkRows \union {NoRow}]
                 /\ \A m \in Links : links[m] \in LinkRows => links'[m] \in LinkRows
                 /\ \A addr \in ClientAddresses : LivePending(addr)' \subseteq LivePending(addr)
      <4>1. links[l] \in LinkRows
        BY <1>0, <3>2 DEF EnrolmentTables
      <4>2. /\ links' \in [Links -> LinkRows \union {NoRow}] /\ links'[l] \in LinkRows
            /\ links'[l].status = "over" /\ \A m \in Links : m # l => links'[m] = links[m]
        BY <1>0, <3>2, <4>1 DEF EnrolmentTables, LinkRows
      <4> QED
        BY <4>2 DEF LivePending
    <3> QED
      BY <2>1, <3>1, <3>2
  <2>3. EnrolmentTables'
    <3>1. CASE TimePasses
      <4>1. /\ UNCHANGED <<approved, safeAddresses, mailed>> /\ codeUsed' \in BOOLEAN
            /\ enrolChallenges' \subseteq ClientAddresses /\ cache' \in Caches
        BY <1>0, <3>1, ClientDomains DEF TimePasses, EnrolmentTables
      <4> QED
        BY <1>0, <2>2, <4>1 DEF EnrolmentTables
    <3>2. CASE ReplaceSafeAddresses
      BY <1>0, <3>2 DEF ReplaceSafeAddresses, EnrolmentTables
    <3>3. CASE UNCHANGED enrolmentVars
      BY <1>0, <3>3 DEF enrolmentVars, EnrolmentTables
    <3> QED
      BY <1>16, <3>1, <3>2, <3>3
  <2>4. \A ip \in ClientAddresses : LinksFit(ip)'
    BY <2>1, <2>2, LinksStillFit
  <2>5. \A c \in Clients : ClientReads(client[c], links')
    BY <1>0, <2>2 DEF ClientReads
  <2> QED
    BY <1>0, <2>1, <2>3, <2>4, <2>5 DEF EnrolmentInv
<1> QED
  BY <1>5, <1>6, <1>7, <1>8, <1>9, <1>10, <1>11, <1>12, <1>13, <1>14, <1>15, <1>16,
     PendingInserted DEF EnrolmentNext

LEMMA LinksFromInv == EnrolmentInv => EnrolmentTypeOK /\ FewLinks
<1> SUFFICES ASSUME EnrolmentInv PROVE EnrolmentTypeOK /\ FewLinks
  OBVIOUS
<1>1. FewLinks
  <2> SUFFICES ASSUME NEW ip \in ClientAddresses
               PROVE  Cardinality(LivePending(ip)) <= Cardinality(Clients)
    BY DEF FewLinks
  <2> QED
    BY JoiningFinite, FS_CardinalityType DEF EnrolmentInv, LinksFit
<1>2. EnrolmentTypeOK
  BY EnrolmentAssumption
     DEF EnrolmentInv, EnrolmentTables, EnrolmentTypeOK, LinkRows, ClientRecord, Caches,
         ClientObjects
<1> QED
  BY <1>1, <1>2

LEMMA EnrolmentInvariant == EnrolmentSpec => []EnrolmentInv
BY EnrolmentInvInit, EnrolmentInvStep, PTL DEF EnrolmentSpec

(* An address has no more links that work than requests can overlap, whatever mails,     *)
(* approvals and refusals come in between.                                         *)
THEOREM LinksAreFew == EnrolmentSpec => [](EnrolmentTypeOK /\ FewLinks)
<1>1. EnrolmentInv => EnrolmentTypeOK /\ FewLinks
  BY LinksFromInv
<1> QED
  BY EnrolmentInvariant, <1>1, PTL

-------------------------------------------------------------------------------
(* A set of numbers that is not empty has a least one.                              *)
LEMMA LeastIsMember ==
  ASSUME NEW S \in SUBSET Nat, S # {}
  PROVE  Min(S) \in S /\ \A k \in S : Min(S) <= k
<1> DEFINE Segment(k) == S \cap (0 .. k)
           R == StrictSubsetOrdering(Nat)
<1>1. \A k \in S : Segment(k) \in FiniteSubsetsOf(Nat)
  <2> SUFFICES ASSUME NEW k \in S PROVE Segment(k) \in FiniteSubsetsOf(Nat)
    OBVIOUS
  <2>1. k \in Int /\ 0 \in Int /\ Segment(k) \in SUBSET (0 .. k) /\ Segment(k) \subseteq Nat
    OBVIOUS
  <2>2. IsFiniteSet(0 .. k)
    BY <2>1, FS_Interval
  <2>3. IsFiniteSet(Segment(k))
    BY <2>1, <2>2, FS_Subset
  <2> QED
    BY <2>1, <2>3 DEF FiniteSubsetsOf
<1>2. IsWellFoundedOn(R, FiniteSubsetsOf(Nat))
  BY FS_StrictSubsetOrderingWellFounded
<1> DEFINE T == {Segment(k) : k \in S}
<1>3. T \subseteq FiniteSubsetsOf(Nat) /\ T # {}
  BY <1>1
<1>4. \E u \in T : \A v \in T : <<v, u>> \notin R
  <2> HIDE DEF T, R
  <2> QED
    BY <1>2, <1>3, WFMin
<1>5. PICK m \in S : \A k \in S : <<Segment(k), Segment(m)>> \notin R
  BY <1>4
<1>6. ASSUME NEW k \in S PROVE m =< k
  <2>1. SUFFICES ASSUME k < m PROVE FALSE
    OBVIOUS
  <2>2. /\ Segment(k) \subseteq Segment(m) /\ Segment(k) # Segment(m)
        /\ Segment(k) \in SUBSET Nat /\ Segment(m) \in SUBSET Nat
    BY <2>1
  <2> QED
    BY <1>5, <2>2 DEF StrictSubsetOrdering
<1> QED
  BY <1>6 DEF Min

(* DefenseSettings.  What a request has found, and which requests are done.         *)
DefenseRecord ==
  [pc : {"idle", "read", "write", "add", "remove", "audit", "script"}, n : 0 .. MaxAsked,
   todo : SUBSET SettingKeys, key : SettingKeys \union {"none"}, id : Nat, before : SUBSET Nat]

(* A row that the request d did not find was written after it began.               *)
Unseen(d) ==
  \A row \in settings :
    row.key = d.key /\ (d.id = 0 \/ row.id < d.id) => row.by \notin d.before

DefenseFits(d) ==
  /\ d.before \subseteq done /\ d.n <= asked
  /\ d.pc # "idle" => d.n > 0
  /\ d.pc \in {"read", "write", "add", "remove"} => d.n \notin done \union scripts.running
  /\ d.pc = "audit" => d.n \in done
  /\ d.pc = "write" => d.key \in SettingKeys /\ d.id \in SettingIds \union {0} /\ Unseen(d)

SettingRow == [key : SettingKeys, id : SettingIds, by : 1 .. MaxAsked]

(* What is replaced is not what a reader takes, the row of the least id.            *)
OverNotRead ==
  \A row \in settings :
    (\A other \in settings : other.key = row.key => row.id <= other.id) =>
      <<row.key, row.by>> \notin over

DefenseTables ==
  /\ settings \subseteq SettingRow
  /\ \A row, other \in settings : row.key = other.key /\ row.id = other.id => row = other
  /\ OverNotRead
  /\ asked \in 0 .. MaxAsked
  /\ portRules \subseteq 1 .. asked /\ trail \subseteq done /\ done \subseteq 1 .. asked
  /\ over \subseteq SettingKeys \X done
  /\ scripts \in [running : SUBSET (1 .. asked), finished : SUBSET (1 .. asked)]
  /\ scripts.running \cap (done \union scripts.finished) = {}

DefenseInv ==
  /\ defence \in [DefenseTasks -> DefenseRecord]
  /\ \A t \in DefenseTasks : DefenseFits(defence[t])
  /\ \A t, u \in DefenseTasks : defence[t].n = defence[u].n => t = u \/ defence[t].n = 0
  /\ DefenseTables

LEMMA NoDefenseFits ==
  /\ NoDefense \in DefenseRecord /\ NoDefense.pc = "idle" /\ NoDefense.n = 0
  /\ NoDefense.before = {} /\ NoDefense.todo = {} /\ NoDefense.key = "none" /\ NoDefense.id = 0
<1>1. 0 \in 0 .. MaxAsked
  BY DefenseAssumption
<1> QED
  BY <1>1 DEF NoDefense, DefenseRecord

LEMMA DefenseInvInit == DefenseInit => DefenseInv
<1> SUFFICES ASSUME DefenseInit PROVE DefenseInv
  OBVIOUS
<1>1. /\ defence \in [DefenseTasks -> DefenseRecord]
      /\ \A t \in DefenseTasks : defence[t] = NoDefense
  BY NoDefenseFits DEF DefenseInit
<1>2. DefenseTables
  BY DefenseAssumption DEF DefenseInit, DefenseTables, OverNotRead
<1> QED
  BY <1>1, <1>2, NoDefenseFits DEF DefenseInit, DefenseInv, DefenseFits

(* One task takes a step; what it adds is its own.                                 *)
LEMMA DefenseGoesOn ==
  ASSUME DefenseInv, NEW t \in DefenseTasks,
         defence' \in [DefenseTasks -> DefenseRecord],
         \A u \in DefenseTasks \ {t} : defence'[u] = defence[u],
         DefenseTables', DefenseFits(defence[t])',
         defence'[t].n \in {0, defence[t].n, asked + 1}, asked <= asked', done \subseteq done',
         \A m \in done' \union scripts'.running :
           m \in done \union scripts.running \/ m \in {defence[t].n, asked + 1},
         \A row \in settings' : row \in settings \/ row.by \notin done
  PROVE  DefenseInv'
<1>1. /\ \A u \in DefenseTasks : DefenseFits(defence[u]) /\ defence[u] \in DefenseRecord
      /\ asked \in Nat /\ asked' \in Nat
  BY DefenseAssumption DEF DefenseInv, DefenseTables
<1>2. ASSUME NEW u \in DefenseTasks, u # t PROVE DefenseFits(defence[u])'
  <2>1. /\ defence'[u] = defence[u] /\ DefenseFits(defence[u])
        /\ defence[u].n \in Nat /\ defence[u].n <= asked
    BY <1>1, <1>2, DefenseAssumption DEF DefenseFits, DefenseRecord
  <2>2. defence[u].n > 0 => defence[u].n # defence[t].n /\ defence[u].n # asked + 1
    BY <1>1, <1>2, <2>1 DEF DefenseInv
  <2>3. Unseen(defence[u]) => Unseen(defence[u])'
    BY <2>1 DEF Unseen, DefenseFits
  <2>4. /\ defence[u].before \subseteq done' /\ defence[u].n <= asked'
        /\ defence[u].pc = "audit" => defence[u].n \in done'
    BY <1>1, <2>1 DEF DefenseFits
  <2>5. defence[u].pc \in {"read", "write", "add", "remove"} =>
          defence[u].n \notin done' \union scripts'.running
    BY <2>1, <2>2 DEF DefenseFits
  <2> QED
    BY <2>1, <2>3, <2>4, <2>5 DEF DefenseFits
<1>3. ASSUME NEW u \in DefenseTasks, NEW v \in DefenseTasks, defence'[u].n = defence'[v].n,
             defence'[u].n # 0
      PROVE  u = v
  <2>1. \A w \in DefenseTasks : defence[w].n \in Nat /\ defence[w].n <= asked
    BY <1>1, DefenseAssumption DEF DefenseFits, DefenseRecord
  <2> QED
    BY <1>1, <1>3, <2>1 DEF DefenseInv
<1> QED
  BY <1>2, <1>3 DEF DefenseInv

(* A request begins. *)
LEMMA DefenseBegins ==
  ASSUME DefenseInv, NEW t \in DefenseTasks, NEW d \in DefenseRecord, Begin(t, d)
  PROVE  /\ defence' \in [DefenseTasks -> DefenseRecord]
         /\ \A u \in DefenseTasks \ {t} : defence'[u] = defence[u]
         /\ defence'[t].n = asked + 1 /\ asked' = asked + 1 /\ asked' \in 1 .. MaxAsked
         /\ defence'[t].before = done /\ defence'[t].pc = d.pc
         /\ asked + 1 \notin done \union scripts.running \union scripts.finished
         /\ asked \in Nat
<1>1. /\ asked \in Nat /\ asked + 1 \in 1 .. MaxAsked /\ asked + 1 \in 0 .. MaxAsked
      /\ done \subseteq Nat /\ asked + 1 \notin done \union scripts.running \union scripts.finished
  <2>1. /\ asked \in 0 .. MaxAsked /\ asked < MaxAsked /\ done \subseteq 1 .. asked
        /\ scripts.running \subseteq 1 .. asked /\ scripts.finished \subseteq 1 .. asked
    BY DEF DefenseInv, DefenseTables, Begin
  <2>2. asked \in Nat /\ MaxAsked \in Nat
    BY <2>1, DefenseAssumption
  <2>3. \A m \in 1 .. asked : m \in Nat /\ m # asked + 1
    BY <2>2
  <2> QED
    BY <2>1, <2>2, <2>3
<1> DEFINE q == [d EXCEPT !.n = asked + 1, !.before = done]
<1>2. q \in DefenseRecord /\ q.n = asked + 1 /\ q.before = done /\ q.pc = d.pc
  BY <1>1 DEF DefenseRecord
<1>3. defence' = [defence EXCEPT ![t] = q] /\ asked' = asked + 1
  BY DEF Begin
<1> HIDE DEF q
<1> QED
  BY <1>1, <1>2, <1>3 DEF DefenseInv

(* The tables when nothing but the bound moved. *)
LEMMA DefenseTablesKept ==
  ASSUME DefenseTables, asked' \in 0 .. MaxAsked, asked <= asked',
         UNCHANGED <<settings, over>>, done \subseteq done',
         trail' \subseteq done', done' \subseteq 1 .. asked', portRules' \subseteq 1 .. asked',
         scripts' \in [running : SUBSET (1 .. asked'), finished : SUBSET (1 .. asked')],
         scripts'.running \cap (done' \union scripts'.finished) = {}
  PROVE  DefenseTables'
BY DEF DefenseTables, OverNotRead

(* A task is through: it leaves the tables as they are. *)
LEMMA DefenseEnds ==
  ASSUME DefenseInv, NEW t \in DefenseTasks, defence' = [defence EXCEPT ![t] = NoDefense],
         UNCHANGED <<settings, portRules, asked, done, over, scripts>>, trail' \subseteq done
  PROVE  DefenseInv'
<1>1. /\ defence' \in [DefenseTasks -> DefenseRecord] /\ defence'[t] = NoDefense
      /\ \A u \in DefenseTasks \ {t} : defence'[u] = defence[u]
  BY NoDefenseFits DEF DefenseInv
<1>2. DefenseTables'
  BY DEF DefenseInv, DefenseTables, OverNotRead
<1>3. DefenseFits(defence[t])'
  <2>1. 0 <= asked
    BY DefenseAssumption DEF DefenseInv, DefenseTables
  <2> QED
    BY <1>1, <2>1, NoDefenseFits DEF DefenseFits
<1>4. asked <= asked'
  BY DefenseAssumption DEF DefenseInv, DefenseTables
<1> QED
  BY <1>1, <1>2, <1>3, <1>4, NoDefenseFits, DefenseGoesOn

LEMMA SettingFound ==
  ASSUME DefenseInv, NEW t \in DefenseTasks, FindSetting(t)
  PROVE  DefenseInv'
<1>1. PICK k \in defence[t].todo :
        defence' = [defence EXCEPT ![t] = [defence[t] EXCEPT !.pc = "write", !.key = k,
                      !.id = IF SettingRows(k) = {} THEN 0 ELSE Min(IdsOf(k))]]
  BY DEF FindSetting
<1> DEFINE id == IF SettingRows(k) = {} THEN 0 ELSE Min(IdsOf(k))
           q == [defence[t] EXCEPT !.pc = "write", !.key = k, !.id = id]
<1>2. /\ defence[t] \in DefenseRecord /\ k \in SettingKeys /\ DefenseFits(defence[t])
      /\ defence[t].pc = "read" /\ UNCHANGED <<settings, portRules, trail, asked, done, over, scripts>>
  BY DEF FindSetting, DefenseInv, DefenseRecord
<1>3. /\ id \in SettingIds \union {0} /\ id \in Nat
      /\ \A row \in settings : row.key = k => id # 0 /\ id <= row.id
  <2>1. \A row \in settings : row.key = k => row.id \in IdsOf(k) /\ row \in SettingRows(k)
    BY DEF IdsOf, SettingRows
  <2>2. IdsOf(k) \subseteq SettingIds /\ (SettingRows(k) # {} => IdsOf(k) # {})
    BY DEF IdsOf, SettingRows, DefenseInv, DefenseTables, SettingRow
  <2>3. CASE SettingRows(k) = {}
    BY <2>1, <2>3
  <2>4. CASE SettingRows(k) # {}
    <3>1. Min(IdsOf(k)) \in IdsOf(k) /\ \A i \in IdsOf(k) : Min(IdsOf(k)) <= i
      BY <2>2, <2>4, LeastIsMember, DefenseAssumption
    <3>2. id = Min(IdsOf(k))
      BY <2>4
    <3> QED
      BY <2>1, <2>2, <3>1, <3>2, DefenseAssumption
  <2> QED
    BY <2>3, <2>4
<1> HIDE DEF id
<1>4. /\ q \in DefenseRecord /\ q.pc = "write" /\ q.key = k /\ q.id = id /\ q.n = defence[t].n
      /\ q.before = defence[t].before
  BY <1>2, <1>3 DEF DefenseRecord
<1>5. defence' = [defence EXCEPT ![t] = q]
  BY <1>1 DEF id
<1> HIDE DEF q
<1>6. /\ defence' \in [DefenseTasks -> DefenseRecord] /\ defence'[t] = q
      /\ \A u \in DefenseTasks \ {t} : defence'[u] = defence[u]
  BY <1>4, <1>5 DEF DefenseInv
<1>7. settings \subseteq SettingRow /\ SettingIds \subseteq Nat
  BY DefenseAssumption DEF DefenseInv, DefenseTables
<1>8. Unseen(defence[t])'
  <2>1. defence'[t].key = k /\ defence'[t].id = id /\ settings' = settings
    BY <1>2, <1>4, <1>6
  <2>2. \A row \in settings : row.key = k => id # 0 /\ id <= row.id /\ row.id \in Nat
    BY <1>3, <1>7 DEF SettingRow
  <2>3. \A row \in settings : ~(row.key = k /\ (id = 0 \/ row.id < id))
    BY <1>3, <2>2
  <2> QED
    BY <2>1, <2>3 DEF Unseen
<1>9. DefenseFits(defence[t])'
  BY <1>2, <1>3, <1>4, <1>6, <1>8 DEF DefenseFits
<1>10. DefenseTables' /\ asked <= asked'
  BY <1>2, DefenseAssumption DEF DefenseInv, DefenseTables, OverNotRead
<1> QED
  BY <1>2, <1>4, <1>6, <1>9, <1>10, DefenseGoesOn

LEMMA SettingWritten ==
  ASSUME DefenseInv, NEW t \in DefenseTasks, SetSetting(t)
  PROVE  DefenseInv'
<1>0. PICK d \in DefenseRecord : d = defence[t]
  BY DEF DefenseInv
<1>1. PICK id \in IF d.id # 0 THEN {d.id} ELSE SettingIds \ IdsOf(d.key) :
        settings' = {row \in settings : row.key # d.key \/ row.id # id}
                      \union {[key |-> d.key, id |-> id, by |-> d.n]}
  BY <1>0 DEF SetSetting
<1> DEFINE left == d.todo \ {d.key}
           q == [d EXCEPT !.todo = left, !.pc = IF left = {} THEN "audit" ELSE "read"]
           new == [key |-> d.key, id |-> id, by |-> d.n]
<1>2. /\ d.pc = "write" /\ defence' = [defence EXCEPT ![t] = q]
      /\ over' = over \union ({d.key} \X d.before)
      /\ done' = (IF left = {} THEN done \union {d.n} ELSE done)
      /\ UNCHANGED <<portRules, trail, asked, scripts>>
  BY <1>0 DEF SetSetting
<1>3. /\ d.key \in SettingKeys /\ d.n \in 1 .. asked /\ d.n \in 1 .. MaxAsked
      /\ d.n \notin done \union scripts.running /\ d.before \subseteq done
      /\ asked \in Nat /\ done \subseteq 1 .. asked
      /\ \A row \in settings :
           row.key = d.key /\ (d.id = 0 \/ row.id < d.id) => row.by \notin d.before
  <2>1. DefenseFits(d)
    BY <1>0 DEF DefenseInv
  <2>2. asked \in 0 .. MaxAsked /\ MaxAsked \in Nat /\ d.n \in 0 .. MaxAsked
        /\ done \subseteq 1 .. asked
    BY DefenseAssumption DEF DefenseInv, DefenseTables, DefenseRecord
  <2> QED
    BY <1>2, <2>1, <2>2 DEF DefenseFits, Unseen
<1>4. /\ id \in SettingIds /\ (d.id # 0 => id = d.id)
      /\ SettingIds \subseteq Nat
  BY <1>0, <1>1, <1>2, DefenseAssumption DEF DefenseInv, DefenseFits
<1>5. new \in SettingRow /\ new.key = d.key /\ new.id = id /\ new.by = d.n
  BY <1>3, <1>4 DEF SettingRow
<1>6. /\ q \in DefenseRecord /\ q.n = d.n /\ q.before = d.before
      /\ q.pc = IF left = {} THEN "audit" ELSE "read"
  BY DEF DefenseRecord
<1> HIDE DEF q, new, left
<1>7. /\ defence' \in [DefenseTasks -> DefenseRecord] /\ defence'[t] = q
      /\ \A u \in DefenseTasks \ {t} : defence'[u] = defence[u]
  BY <1>2, <1>6 DEF DefenseInv
<1>8. \A row \in settings' :
        row = new \/ (row \in settings /\ (row.key # d.key \/ row.id # id))
  BY <1>1 DEF new
<1>9. \A row \in settings : row.key # d.key \/ row.id # id => row \in settings'
  BY <1>1
<1>10. new \in settings'
  BY <1>1 DEF new
<1>11. /\ settings \subseteq SettingRow /\ over \subseteq SettingKeys \X done /\ OverNotRead
       /\ trail \subseteq done /\ portRules \subseteq 1 .. asked
       /\ \A row, other \in settings : row.key = other.key /\ row.id = other.id => row = other
       /\ scripts.running \cap (done \union scripts.finished) = {}
       /\ asked \in 0 .. MaxAsked
       /\ scripts \in [running : SUBSET (1 .. asked), finished : SUBSET (1 .. asked)]
  BY DEF DefenseInv, DefenseTables
<1>12. OverNotRead'
  <2> SUFFICES ASSUME NEW row \in settings',
                      \A other \in settings' : other.key = row.key => row.id <= other.id
               PROVE  <<row.key, row.by>> \notin over'
    BY DEF OverNotRead
  <2>1. CASE row = new
    BY <1>2, <1>3, <1>5, <1>11, <2>1
  <2>2. CASE row # new
    <3>1. row \in settings /\ row \in SettingRow /\ (row.key # d.key \/ row.id # id)
      BY <1>8, <1>11, <2>2
    <3>2. \A other \in settings : other.key = row.key => row.id <= other.id
      <4> SUFFICES ASSUME NEW other \in settings, other.key = row.key PROVE row.id <= other.id
        OBVIOUS
      <4>1. CASE other \in settings'
        BY <4>1
      <4>2. CASE other \notin settings'
        <5>1. other.key = d.key /\ other.id = id
          BY <1>9, <4>2
        <5> QED
          BY <1>5, <1>10, <5>1
      <4> QED
        BY <4>1, <4>2
    <3>3. <<row.key, row.by>> \notin over
      BY <1>11, <3>1, <3>2 DEF OverNotRead
    <3>4. row.key = d.key => row.by \notin d.before
      <4> SUFFICES ASSUME row.key = d.key PROVE row.by \notin d.before
        OBVIOUS
      <4>1. row.id <= id /\ row.id # id /\ row.id \in Nat /\ id \in Nat
        BY <1>4, <1>5, <1>10, <3>1 DEF SettingRow
      <4>2. d.id = 0 \/ row.id < d.id
        BY <1>4, <4>1
      <4> QED
        BY <1>3, <3>1, <4>2
    <3> QED
      BY <1>2, <3>3, <3>4
  <2> QED
    BY <2>1, <2>2
<1>13. DefenseTables'
  <2>1. settings' \subseteq SettingRow
    BY <1>5, <1>8, <1>11
  <2>2. \A row, other \in settings' : row.key = other.key /\ row.id = other.id => row = other
    BY <1>5, <1>8, <1>11
  <2>3. /\ done \subseteq done' /\ done' \subseteq 1 .. asked /\ trail \subseteq done'
        /\ scripts.running \cap (done' \union scripts.finished) = {}
    BY <1>2, <1>3, <1>11
  <2>4. over' \subseteq SettingKeys \X done'
    BY <1>2, <1>3, <1>11, <2>3
  <2> QED
    BY <1>2, <1>11, <1>12, <2>1, <2>2, <2>3, <2>4 DEF DefenseTables
<1>14. DefenseFits(defence[t])'
  <2>1. d.before \subseteq done' /\ d.n <= asked' /\ d.n > 0
    BY <1>2, <1>3
  <2>2. left = {} => d.n \in done'
    BY <1>2
  <2>3. left # {} => d.n \notin done' \union scripts'.running
    BY <1>2, <1>3
  <2> QED
    BY <1>6, <1>7, <2>1, <2>2, <2>3 DEF DefenseFits
<1>15. \A row \in settings' : row \in settings \/ row.by \notin done
  BY <1>3, <1>5, <1>8
<1>16. /\ asked <= asked' /\ done \subseteq done'
       /\ \A m \in done' \union scripts'.running :
            m \in done \union scripts.running \/ m \in {defence[t].n, asked + 1}
  BY <1>0, <1>2, <1>3
<1> QED
  BY <1>0, <1>6, <1>7, <1>13, <1>14, <1>15, <1>16, DefenseGoesOn

LEMMA DefenseInvStep == DefenseInv /\ [DefenseNext]_defenseVars => DefenseInv'
<1> SUFFICES ASSUME DefenseInv, [DefenseNext]_defenseVars PROVE DefenseInv'
  OBVIOUS
<1>0. /\ defence \in [DefenseTasks -> DefenseRecord] /\ DefenseTables
      /\ \A t \in DefenseTasks : DefenseFits(defence[t])
      /\ asked \in Nat /\ asked \in 0 .. MaxAsked /\ done \subseteq 1 .. asked /\ trail \subseteq done
      /\ portRules \subseteq 1 .. asked
      /\ scripts.running \subseteq 1 .. asked /\ scripts.finished \subseteq 1 .. asked
      /\ scripts.running \cap (done \union scripts.finished) = {}
      /\ scripts = [running |-> scripts.running, finished |-> scripts.finished]
  BY DefenseAssumption DEF DefenseInv, DefenseTables
<1>1. ASSUME NEW t \in DefenseTasks, UpdateSettings(t) PROVE DefenseInv'
  <2>1. PICK keys \in SUBSET SettingKeys :
          /\ Begin(t, [NoDefense EXCEPT !.pc = IF keys = {} THEN "audit" ELSE "read", !.todo = keys])
          /\ done' = IF keys = {} THEN done \union {asked + 1} ELSE done
          /\ UNCHANGED <<settings, portRules, trail, over, scripts>>
    BY <1>1 DEF UpdateSettings
  <2> DEFINE d == [NoDefense EXCEPT !.pc = IF keys = {} THEN "audit" ELSE "read", !.todo = keys]
  <2>2. d \in DefenseRecord /\ d.pc = IF keys = {} THEN "audit" ELSE "read"
    BY NoDefenseFits DEF DefenseRecord
  <2>3. Begin(t, d)
    BY <2>1
  <2> HIDE DEF d
  <2>4. /\ defence' \in [DefenseTasks -> DefenseRecord]
        /\ \A u \in DefenseTasks \ {t} : defence'[u] = defence[u]
        /\ defence'[t].n = asked + 1 /\ asked' = asked + 1 /\ asked' \in 1 .. MaxAsked
        /\ defence'[t].before = done /\ defence'[t].pc = d.pc
        /\ asked + 1 \notin done \union scripts.running \union scripts.finished
    BY <2>2, <2>3, DefenseBegins
  <2>5. asked' \in 0 .. MaxAsked /\ asked <= asked' /\ 1 .. asked \subseteq 1 .. asked'
        /\ asked + 1 \in 1 .. asked'
    BY <1>0, <2>4, DefenseAssumption
  <2>6. DefenseTables'
    <3>1. scripts' \in [running : SUBSET (1 .. asked'), finished : SUBSET (1 .. asked')]
      BY <1>0, <2>1, <2>5
    <3> QED
      BY <1>0, <2>1, <2>4, <2>5, <3>1, DefenseTablesKept
  <2>7. DefenseFits(defence[t])'
    BY <1>0, <2>1, <2>2, <2>4 DEF DefenseFits
  <2> QED
    BY <1>0, <2>1, <2>4, <2>5, <2>6, <2>7, DefenseGoesOn
<1>2. ASSUME NEW t \in DefenseTasks, PortRuleBegin(t) PROVE DefenseInv'
  <2>1. PICK pc \in {"add", "remove"}, rule \in Nat :
          Begin(t, [NoDefense EXCEPT !.pc = pc, !.id = rule])
    <3>1. portRules \subseteq Nat
      BY <1>0, DefenseAssumption
    <3>2. PICK pc \in {"add", "remove"} : \E rule \in IF pc = "add" THEN {0} ELSE portRules :
            Begin(t, [NoDefense EXCEPT !.pc = pc, !.id = rule])
      BY <1>2 DEF PortRuleBegin
    <3>3. (IF pc = "add" THEN {0} ELSE portRules) \subseteq Nat
      BY <3>1
    <3> QED
      BY <3>2, <3>3
  <2> DEFINE d == [NoDefense EXCEPT !.pc = pc, !.id = rule]
  <2>2. d \in DefenseRecord /\ d.pc = pc
    BY <2>1, NoDefenseFits DEF DefenseRecord
  <2>3. Begin(t, d) /\ UNCHANGED <<settings, portRules, trail, done, over, scripts>>
    BY <1>2, <2>1 DEF PortRuleBegin
  <2> HIDE DEF d
  <2>4. /\ defence' \in [DefenseTasks -> DefenseRecord]
        /\ \A u \in DefenseTasks \ {t} : defence'[u] = defence[u]
        /\ defence'[t].n = asked + 1 /\ asked' = asked + 1 /\ asked' \in 1 .. MaxAsked
        /\ defence'[t].before = done /\ defence'[t].pc = pc
        /\ asked + 1 \notin done \union scripts.running \union scripts.finished
    BY <2>2, <2>3, DefenseBegins
  <2>5. asked' \in 0 .. MaxAsked /\ asked <= asked' /\ 1 .. asked \subseteq 1 .. asked'
    BY <1>0, <2>4, DefenseAssumption
  <2>6. DefenseTables'
    <3>1. scripts' \in [running : SUBSET (1 .. asked'), finished : SUBSET (1 .. asked')]
      BY <1>0, <2>3, <2>5
    <3> QED
      BY <1>0, <2>3, <2>4, <2>5, <3>1, DefenseTablesKept
  <2>7. DefenseFits(defence[t])'
    BY <1>0, <2>3, <2>4 DEF DefenseFits
  <2> QED
    BY <1>0, <2>3, <2>4, <2>5, <2>6, <2>7, DefenseGoesOn
<1>3. ASSUME NEW t \in DefenseTasks, RunDecommission(t) PROVE DefenseInv'
  <2> DEFINE d == [NoDefense EXCEPT !.pc = "script"]
  <2>2. d \in DefenseRecord /\ d.pc = "script"
    BY NoDefenseFits DEF DefenseRecord
  <2>3. Begin(t, d) /\ UNCHANGED <<settings, portRules, trail, done, over>>
        /\ scripts' = [scripts EXCEPT !.running = @ \union {asked + 1}]
    BY <1>3 DEF RunDecommission
  <2> HIDE DEF d
  <2>4. /\ defence' \in [DefenseTasks -> DefenseRecord]
        /\ \A u \in DefenseTasks \ {t} : defence'[u] = defence[u]
        /\ defence'[t].n = asked + 1 /\ asked' = asked + 1 /\ asked' \in 1 .. MaxAsked
        /\ defence'[t].before = done /\ defence'[t].pc = "script"
        /\ asked + 1 \notin done \union scripts.running \union scripts.finished
    BY <2>2, <2>3, DefenseBegins
  <2>5. asked' \in 0 .. MaxAsked /\ asked <= asked' /\ 1 .. asked \subseteq 1 .. asked'
        /\ asked + 1 \in 1 .. asked'
    BY <1>0, <2>4, DefenseAssumption
  <2>6. scripts'.running = scripts.running \union {asked + 1} /\ scripts'.finished = scripts.finished
        /\ scripts' = [running |-> scripts.running \union {asked + 1}, finished |-> scripts.finished]
    BY <1>0, <2>3
  <2>7. DefenseTables'
    <3>1. scripts' \in [running : SUBSET (1 .. asked'), finished : SUBSET (1 .. asked')]
      BY <1>0, <2>5, <2>6
    <3>2. scripts'.running \cap (done' \union scripts'.finished) = {}
      BY <1>0, <2>3, <2>4, <2>6
    <3> QED
      BY <1>0, <2>3, <2>4, <2>5, <3>1, <3>2, DefenseTablesKept
  <2>8. DefenseFits(defence[t])'
    BY <1>0, <2>3, <2>4 DEF DefenseFits
  <2> QED
    BY <1>0, <2>3, <2>4, <2>5, <2>6, <2>7, <2>8, DefenseGoesOn
(* A request whose changes are committed.                                        *)
<1>4. ASSUME NEW t \in DefenseTasks, defence' = [defence EXCEPT ![t].pc = "audit"],
             done' = done \union {defence[t].n}, defence[t].n > 0,
             defence[t].n \notin scripts.running,
             portRules' \subseteq portRules \union {defence[t].n},
             UNCHANGED <<settings, trail, asked, over, scripts>>
      PROVE  DefenseInv'
  <2> DEFINE q == [defence[t] EXCEPT !.pc = "audit"]
  <2>1. /\ defence[t] \in DefenseRecord /\ DefenseFits(defence[t])
        /\ q \in DefenseRecord /\ q.n = defence[t].n /\ q.before = defence[t].before
        /\ q.pc = "audit" /\ defence' = [defence EXCEPT ![t] = q]
    BY <1>0, <1>4 DEF DefenseRecord
  <2> HIDE DEF q
  <2>2. /\ defence' \in [DefenseTasks -> DefenseRecord] /\ defence'[t] = q
        /\ \A u \in DefenseTasks \ {t} : defence'[u] = defence[u]
    BY <1>0, <2>1
  <2>3. defence[t].n \in 1 .. asked
    BY <1>0, <1>4, <2>1, DefenseAssumption DEF DefenseFits, DefenseRecord
  <2>4. DefenseTables'
    <3>1. /\ done \subseteq done' /\ done' \subseteq 1 .. asked' /\ portRules' \subseteq 1 .. asked'
          /\ trail' \subseteq done' /\ scripts'.running \cap (done' \union scripts'.finished) = {}
          /\ scripts' \in [running : SUBSET (1 .. asked'), finished : SUBSET (1 .. asked')]
          /\ asked' \in 0 .. MaxAsked /\ asked <= asked'
      BY <1>0, <1>4, <2>3
    <3> QED
      BY <1>0, <1>4, <3>1, DefenseTablesKept
  <2>5. DefenseFits(defence[t])'
    BY <1>4, <2>1, <2>2 DEF DefenseFits
  <2> QED
    BY <1>0, <1>4, <2>1, <2>2, <2>4, <2>5, DefenseGoesOn
<1>5. ASSUME NEW t \in DefenseTasks, PortRuleCommit(t) PROVE DefenseInv'
  <2>1. DefenseFits(defence[t]) /\ defence[t].pc \in {"add", "remove"}
    BY <1>0, <1>5 DEF PortRuleCommit
  <2>2. defence[t].n > 0 /\ defence[t].n \notin scripts.running
    BY <2>1 DEF DefenseFits
  <2> QED
    BY <1>4, <1>5, <2>2 DEF PortRuleCommit
<1>6. ASSUME NEW t \in DefenseTasks, NoteDecommission(t) PROVE DefenseInv'
  <2>1. DefenseFits(defence[t]) /\ defence[t].pc = "script"
        /\ UNCHANGED <<settings, portRules, trail, asked, over, scripts>>
    BY <1>0, <1>6 DEF NoteDecommission
  <2>2. CASE ReturnsZero(defence[t].n)
    <3>1. defence[t].n > 0 /\ defence[t].n \notin scripts.running
      BY <1>0, <2>1, <2>2 DEF ReturnsZero, DefenseFits
    <3> QED
      BY <1>4, <1>6, <2>1, <2>2, <3>1 DEF NoteDecommission
  <2>3. CASE ~ReturnsZero(defence[t].n)
    BY <1>0, <1>6, <2>1, <2>3, DefenseEnds DEF NoteDecommission
  <2> QED
    BY <2>2, <2>3
<1>7. ASSUME NEW t \in DefenseTasks, Audit(t) PROVE DefenseInv'
  <2>1. defence[t].n \in done
    BY <1>0, <1>7 DEF Audit, DefenseFits
  <2> QED
    BY <1>0, <1>7, <2>1, DefenseEnds DEF Audit
<1>8. ASSUME NEW t \in DefenseTasks, RequestEnds(t) PROVE DefenseInv'
  BY <1>0, <1>8, DefenseEnds DEF RequestEnds
<1>9. CASE ScriptEnds
  <2>1. PICK n \in scripts.running, finished \in BOOLEAN :
          scripts' = [running |-> scripts.running \ {n},
                      finished |-> scripts.finished \union (IF finished THEN {n} ELSE {})]
    BY <1>9 DEF ScriptEnds
  <2>2. UNCHANGED <<settings, portRules, trail, defence, asked, done, over>>
    BY <1>9 DEF ScriptEnds
  <2>3. /\ scripts'.running = scripts.running \ {n}
        /\ scripts'.finished \subseteq scripts.finished \union {n}
        /\ scripts' = [running |-> scripts'.running, finished |-> scripts'.finished]
    BY <2>1
  <2>4. /\ scripts'.running \cap (done' \union scripts'.finished) = {}
        /\ scripts' \in [running : SUBSET (1 .. asked'), finished : SUBSET (1 .. asked')]
    BY <1>0, <2>2, <2>3
  <2>5. asked <= asked' /\ asked' \in 0 .. MaxAsked /\ done \subseteq done'
        /\ trail' \subseteq done' /\ done' \subseteq 1 .. asked' /\ portRules' \subseteq 1 .. asked'
        /\ UNCHANGED <<settings, over>>
    BY <1>0, <2>2
  <2>6. DefenseTables'
    BY <1>0, <2>4, <2>5, DefenseTablesKept
  <2>7. ASSUME NEW t \in DefenseTasks PROVE DefenseFits(defence[t])'
    <3>1. DefenseFits(defence[t])
      BY <1>0
    <3> QED
      BY <2>2, <2>3, <3>1 DEF DefenseFits, Unseen
  <2> QED
    BY <2>2, <2>6, <2>7 DEF DefenseInv
<1>10. CASE UNCHANGED defenseVars
  BY <1>10 DEF defenseVars, DefenseInv, DefenseTables, DefenseFits, Unseen, OverNotRead
<1> QED
  BY <1>1, <1>2, <1>3, <1>5, <1>6, <1>7, <1>8, <1>9, <1>10, SettingFound, SettingWritten
     DEF DefenseNext

LEMMA LatestFromInv == DefenseInv => DefenseTypeOK /\ LatestIsRead
<1> SUFFICES ASSUME DefenseInv PROVE DefenseTypeOK /\ LatestIsRead
  OBVIOUS
<1>1. /\ settings \subseteq SettingRow /\ over \subseteq SettingKeys \X done /\ OverNotRead
      /\ trail \subseteq done /\ portRules \subseteq 1 .. asked /\ done \subseteq 1 .. asked
      /\ scripts.running \cap (done \union scripts.finished) = {}
      /\ asked \in 0 .. MaxAsked
      /\ scripts \in [running : SUBSET (1 .. asked), finished : SUBSET (1 .. asked)]
      /\ SettingIds \subseteq Nat /\ MaxAsked \in Nat
      /\ defence \in [DefenseTasks -> DefenseRecord]
  BY DefenseAssumption DEF DefenseInv, DefenseTables
<1>2. ASSUME NEW k \in SettingKeys, SettingRows(k) # {} PROVE <<k, GetSetting(k)>> \notin over
  <2>1. IdsOf(k) \subseteq Nat /\ IdsOf(k) # {}
    <3>1. \A row \in SettingRows(k) : row \in settings
      BY DEF SettingRows
    <3>2. \A row \in settings : row.id \in Nat
      BY <1>1 DEF SettingRow
    <3> QED
      BY <1>2, <3>1, <3>2 DEF IdsOf
  <2>2. Min(IdsOf(k)) \in IdsOf(k) /\ \A i \in IdsOf(k) : Min(IdsOf(k)) <= i
    BY <2>1, LeastIsMember
  <2> DEFINE row == CHOOSE row \in SettingRows(k) : row.id = Min(IdsOf(k))
  <2>3. row \in SettingRows(k) /\ row.id = Min(IdsOf(k))
    <3>1. \E r \in SettingRows(k) : r.id = Min(IdsOf(k))
      BY <2>2 DEF IdsOf
    <3> QED
      BY <3>1
  <2>4. GetSetting(k) = row.by
    BY DEF GetSetting
  <2> HIDE DEF row
  <2>5. row \in settings /\ row.key = k
    BY <2>3 DEF SettingRows
  <2>6. \A other \in settings : other.key = k => other.id \in IdsOf(k)
    BY DEF IdsOf, SettingRows
  <2> QED
    BY <1>1, <2>2, <2>3, <2>4, <2>5, <2>6 DEF OverNotRead
<1>3. DefenseTypeOK
  <2>1. over \subseteq SettingKeys \X (1 .. MaxAsked)
    <3>1. done \subseteq 1 .. MaxAsked
      BY <1>1
    <3> QED
      BY <1>1, <3>1
  <2> QED
    BY <1>1, <2>1 DEF DefenseTypeOK, SettingRow, DefenseRecord
<1> QED
  BY <1>1, <1>2, <1>3 DEF LatestIsRead

LEMMA DefenseInvariant == DefenseSpec => []DefenseInv
BY DefenseInvInit, DefenseInvStep, PTL DEF DefenseSpec

(* Updates at once may leave several rows of a setting; the one that is read is never    *)
(* one a later update was committed over, and the trail tells of nothing that is not   *)
(* complete: for any settings and any number of requests.                             *)
THEOREM LatestRowWins == DefenseSpec => [](DefenseTypeOK /\ LatestIsRead)
<1>1. DefenseInv => DefenseTypeOK /\ LatestIsRead
  BY LatestFromInv
<1> QED
  BY DefenseInvariant, <1>1, PTL

-------------------------------------------------------------------------------
(* AnomalyEvents.  The scans that will commit an event of the type and scope of a. *)
Pending(a) == {s \in Scanners : \E e \in scan[s].adds : Scope(e) = Scope(a)}

AnomalyInv ==
  /\ AnomalyTypeOK
  /\ \A s \in Scanners : ~scan[s].running => scan[s].adds = {}
  /\ \A s \in Scanners : \A e, f \in scan[s].adds : Scope(e) = Scope(f) => e = f
  /\ \A a \in Anomalies :
       /\ IsFiniteSet(OpenEvents(a))
       /\ Cardinality(OpenEvents(a)) + Cardinality(Pending(a)) <= Cardinality(Scanners)

LEMMA AnomalyInvInit == AnomalyInit => AnomalyInv
<1> SUFFICES ASSUME AnomalyInit PROVE AnomalyInv
  OBVIOUS
<1>1. /\ \A a \in Anomalies : events[a] = 0
      /\ \A s \in Scanners : scan[s].running = FALSE /\ scan[s].adds = {}
  BY DEF AnomalyInit, NoScan
<1>2. AnomalyTypeOK
  BY AnomalyAssumption DEF AnomalyInit, NoScan, AnomalyTypeOK
<1>3. ASSUME NEW a \in Anomalies
      PROVE  /\ IsFiniteSet(OpenEvents(a))
             /\ Cardinality(OpenEvents(a)) + Cardinality(Pending(a)) <= Cardinality(Scanners)
  <2>1. OpenEvents(a) = {}
    <3>1. \A p \in Anomalies \X (1 .. MaxOpen) : events[p[1]] = 0 /\ p[2] > 0
      BY <1>1, AnomalyAssumption
    <3> QED
      BY <3>1, AnomalyAssumption DEF OpenEvents
  <2>2. Pending(a) = {}
    BY <1>1 DEF Pending
  <2>3. IsFiniteSet({}) /\ Cardinality({}) = 0 /\ Cardinality(Scanners) \in Nat
    BY FS_EmptySet, FS_CardinalityType, AnomalyAssumption
  <2> QED
    BY <2>1, <2>2, <2>3
<1> QED
  BY <1>1, <1>2, <1>3 DEF AnomalyInv

LEMMA PendingFinite ==
  ASSUME NEW a \in Anomalies
  PROVE  /\ IsFiniteSet(Pending(a)) /\ Cardinality(Pending(a)) \in Nat
         /\ Cardinality(Pending(a)) <= Cardinality(Scanners)
         /\ Cardinality(Scanners) \in Nat
<1>1. Pending(a) \subseteq Scanners
  BY DEF Pending
<1> QED
  BY <1>1, AnomalyAssumption, FS_Subset, FS_CardinalityType

(* Of one scope: nothing is added, or a scan's one event of it is.                *)
LEMMA NoneAdded ==
  ASSUME NEW a \in Anomalies, IsFiniteSet(OpenEvents(a)),
         Cardinality(OpenEvents(a)) + Cardinality(Pending(a)) <= Cardinality(Scanners),
         OpenEvents(a)' \subseteq OpenEvents(a), Pending(a)' \subseteq Pending(a)
  PROVE  /\ IsFiniteSet(OpenEvents(a)')
         /\ Cardinality(OpenEvents(a)') + Cardinality(Pending(a)') <= Cardinality(Scanners)
<1>1. /\ IsFiniteSet(OpenEvents(a)') /\ Cardinality(OpenEvents(a)') <= Cardinality(OpenEvents(a))
  BY FS_Subset
<1>2. /\ IsFiniteSet(Pending(a)) /\ Cardinality(Pending(a)) \in Nat /\ Cardinality(Scanners) \in Nat
  BY PendingFinite
<1>3. IsFiniteSet(Pending(a)') /\ Cardinality(Pending(a)') <= Cardinality(Pending(a))
  BY <1>2, FS_Subset
<1>4. /\ Cardinality(OpenEvents(a)) \in Nat /\ Cardinality(OpenEvents(a)') \in Nat
      /\ Cardinality(Pending(a)') \in Nat
  BY <1>1, <1>3, FS_CardinalityType
<1> QED
  BY <1>1, <1>2, <1>3, <1>4

LEMMA OneAdded ==
  ASSUME NEW a \in Anomalies, NEW s \in Pending(a), NEW p, IsFiniteSet(OpenEvents(a)),
         Cardinality(OpenEvents(a)) + Cardinality(Pending(a)) <= Cardinality(Scanners),
         OpenEvents(a)' \subseteq OpenEvents(a) \union {p}, Pending(a)' \subseteq Pending(a) \ {s}
  PROVE  /\ IsFiniteSet(OpenEvents(a)')
         /\ Cardinality(OpenEvents(a)') + Cardinality(Pending(a)') <= Cardinality(Scanners)
<1>1. /\ IsFiniteSet(OpenEvents(a) \union {p}) /\ Cardinality(OpenEvents(a)) \in Nat
      /\ Cardinality(OpenEvents(a) \union {p}) <= Cardinality(OpenEvents(a)) + 1
  <2>1. Cardinality(OpenEvents(a)) \in Nat
    BY FS_CardinalityType
  <2>2. /\ IsFiniteSet(OpenEvents(a) \union {p})
        /\ Cardinality(OpenEvents(a) \union {p}) =
             IF p \in OpenEvents(a) THEN Cardinality(OpenEvents(a)) ELSE Cardinality(OpenEvents(a)) + 1
    BY FS_AddElement
  <2> QED
    BY <2>1, <2>2
<1>2. /\ IsFiniteSet(OpenEvents(a)')
      /\ Cardinality(OpenEvents(a)') <= Cardinality(OpenEvents(a) \union {p})
  BY <1>1, FS_Subset
<1>3. /\ IsFiniteSet(Pending(a)) /\ Cardinality(Pending(a)) \in Nat /\ Cardinality(Scanners) \in Nat
  BY PendingFinite
<1>4. IsFiniteSet(Pending(a) \ {s}) /\ Cardinality(Pending(a) \ {s}) = Cardinality(Pending(a)) - 1
  BY <1>3, FS_RemoveElement
<1>5. IsFiniteSet(Pending(a)') /\ Cardinality(Pending(a)') <= Cardinality(Pending(a) \ {s})
  BY <1>4, FS_Subset
<1>6. /\ Cardinality(OpenEvents(a)') \in Nat /\ Cardinality(OpenEvents(a) \union {p}) \in Nat
      /\ Cardinality(Pending(a)') \in Nat
  BY <1>1, <1>2, <1>5, FS_CardinalityType
<1> QED
  BY <1>1, <1>2, <1>3, <1>4, <1>5, <1>6

LEMMA AnomalyInvStep == AnomalyInv /\ [AnomalyNext]_anomalyVars => AnomalyInv'
<1> SUFFICES ASSUME AnomalyInv, [AnomalyNext]_anomalyVars PROVE AnomalyInv'
  OBVIOUS
<1>0. /\ events \in [Anomalies -> 0 .. MaxOpen]
      /\ scan \in [Scanners -> [running : BOOLEAN, adds : SUBSET Anomalies]]
      /\ \A s \in Scanners : ~scan[s].running => scan[s].adds = {}
      /\ \A s \in Scanners : \A e, f \in scan[s].adds : Scope(e) = Scope(f) => e = f
      /\ \A a \in Anomalies :
           /\ IsFiniteSet(OpenEvents(a))
           /\ Cardinality(OpenEvents(a)) + Cardinality(Pending(a)) <= Cardinality(Scanners)
      /\ MaxOpen \in Nat
      /\ NoScan \in [running : BOOLEAN, adds : SUBSET Anomalies]
      /\ NoScan.running = FALSE /\ NoScan.adds = {}
  BY AnomalyAssumption DEF AnomalyInv, AnomalyTypeOK, NoScan
<1>1. ASSUME NEW s \in Scanners, RunScan(s) PROVE AnomalyInv'
  <2>1. PICK adds \in SUBSET {a \in Anomalies : ~AlreadyOpen(a)} :
          /\ \A c, d \in adds : Scope(c) = Scope(d) => c = d
          /\ scan' = [scan EXCEPT ![s] = [running |-> TRUE, adds |-> adds]]
    BY <1>1 DEF RunScan
  <2>2. events' = events /\ ~scan[s].running /\ scan[s].adds = {}
    BY <1>0, <1>1 DEF RunScan
  <2>3. /\ scan' \in [Scanners -> [running : BOOLEAN, adds : SUBSET Anomalies]]
        /\ scan'[s].running = TRUE /\ scan'[s].adds = adds
        /\ \A u \in Scanners \ {s} : scan'[u] = scan[u]
    <3>1. [running |-> TRUE, adds |-> adds] \in [running : BOOLEAN, adds : SUBSET Anomalies]
      BY <2>1
    <3> QED
      BY <1>0, <2>1, <3>1
  <2>4. ASSUME NEW a \in Anomalies
        PROVE  /\ IsFiniteSet(OpenEvents(a)')
               /\ Cardinality(OpenEvents(a)') + Cardinality(Pending(a)') <= Cardinality(Scanners)
    <3>0. OpenEvents(a)' = OpenEvents(a)
      BY <2>2 DEF OpenEvents
    <3>1. CASE \E e \in adds : Scope(e) = Scope(a)
      <4>1. PICK e \in adds : Scope(e) = Scope(a)
        BY <3>1
      <4>2. \A f \in Anomalies : Scope(f) = Scope(a) => events[f] \in Nat /\ ~(events[f] > 0)
        BY <1>0, <2>1, <4>1 DEF AlreadyOpen
      <4>3. OpenEvents(a) = {}
        BY <1>0, <4>2 DEF OpenEvents
      <4>4. /\ Cardinality(Pending(a)') <= Cardinality(Scanners) /\ Cardinality(Pending(a)') \in Nat
        <5>1. Pending(a)' \subseteq Scanners
          BY DEF Pending
        <5> QED
          BY <5>1, AnomalyAssumption, FS_Subset, FS_CardinalityType
      <4> QED
        BY <1>0, <3>0, <4>3, <4>4, FS_EmptySet
    <3>2. CASE ~\E e \in adds : Scope(e) = Scope(a)
      <4>1. Pending(a)' \subseteq Pending(a)
        BY <2>3, <3>2 DEF Pending
      <4> QED
        BY <1>0, <3>0, <4>1, NoneAdded
    <3> QED
      BY <3>1, <3>2
  <2>5. AnomalyTypeOK' 
    BY <1>0, <2>2, <2>3 DEF AnomalyTypeOK
  <2>6. \A u \in Scanners : ~scan'[u].running => scan'[u].adds = {}
    BY <1>0, <2>3
  <2>7. \A u \in Scanners : \A e, f \in scan'[u].adds : Scope(e) = Scope(f) => e = f
    BY <1>0, <2>1, <2>3
  <2> QED
    BY <2>4, <2>5, <2>6, <2>7 DEF AnomalyInv
<1>2. ASSUME NEW s \in Scanners, scan' = [scan EXCEPT ![s] = NoScan],
             events' \in [Anomalies -> 0 .. MaxOpen],
             \A a \in Anomalies :
               \/ OpenEvents(a)' \subseteq OpenEvents(a)
               \/ s \in Pending(a) /\ \E p : OpenEvents(a)' \subseteq OpenEvents(a) \union {p}
      PROVE  AnomalyInv'
  <2>1. /\ scan' \in [Scanners -> [running : BOOLEAN, adds : SUBSET Anomalies]]
        /\ scan'[s] = NoScan /\ \A u \in Scanners \ {s} : scan'[u] = scan[u]
    BY <1>0, <1>2
  <2>2. \A a \in Anomalies : Pending(a)' \subseteq Pending(a) \ {s}
    BY <1>0, <2>1 DEF Pending
  <2>3. ASSUME NEW a \in Anomalies
        PROVE  /\ IsFiniteSet(OpenEvents(a)')
               /\ Cardinality(OpenEvents(a)') + Cardinality(Pending(a)') <= Cardinality(Scanners)
    <3>1. CASE OpenEvents(a)' \subseteq OpenEvents(a)
      BY <1>0, <2>2, <3>1, NoneAdded
    <3>2. CASE s \in Pending(a) /\ \E p : OpenEvents(a)' \subseteq OpenEvents(a) \union {p}
      BY <1>0, <2>2, <3>2, OneAdded
    <3> QED
      BY <1>2, <3>1, <3>2
  <2>4. AnomalyTypeOK'
    BY <1>2, <2>1 DEF AnomalyTypeOK
  <2>5. \A u \in Scanners : ~scan'[u].running => scan'[u].adds = {}
    BY <1>0, <2>1
  <2>6. \A u \in Scanners : \A e, f \in scan'[u].adds : Scope(e) = Scope(f) => e = f
    BY <1>0, <2>1
  <2> QED
    BY <2>3, <2>4, <2>5, <2>6 DEF AnomalyInv
<1>3. ASSUME NEW s \in Scanners, ScanCommits(s) PROVE AnomalyInv'
  <2>1. /\ \A e \in scan[s].adds : events[e] < MaxOpen
        /\ events' = [e \in Anomalies |-> IF e \in scan[s].adds THEN events[e] + 1 ELSE events[e]]
        /\ scan' = [scan EXCEPT ![s] = NoScan]
    BY <1>3 DEF ScanCommits
  <2>2. /\ events' \in [Anomalies -> 0 .. MaxOpen] /\ \A e \in Anomalies : events[e] \in 0 .. MaxOpen
        /\ \A e \in Anomalies : events'[e] = IF e \in scan[s].adds THEN events[e] + 1 ELSE events[e]
    BY <1>0, <2>1
  <2>3. ASSUME NEW a \in Anomalies
        PROVE  \/ OpenEvents(a)' \subseteq OpenEvents(a)
               \/ s \in Pending(a) /\ \E p : OpenEvents(a)' \subseteq OpenEvents(a) \union {p}
    <3>1. CASE \E e \in scan[s].adds : Scope(e) = Scope(a)
      <4>1. PICK e \in scan[s].adds : Scope(e) = Scope(a)
        BY <3>1
      <4>2. \A f \in Anomalies : Scope(f) = Scope(a) /\ f # e => events'[f] = events[f]
        BY <1>0, <2>2, <4>1
      <4>3. e \in Anomalies /\ events'[e] = events[e] + 1
        BY <1>0, <2>2, <4>1
      <4>4. OpenEvents(a)' \subseteq OpenEvents(a) \union {<<e, events[e] + 1>>}
        <5> SUFFICES ASSUME NEW p \in OpenEvents(a)', p \notin OpenEvents(a)
                     PROVE  p = <<e, events[e] + 1>>
          OBVIOUS
        <5>1. /\ p \in Anomalies \X (1 .. MaxOpen) /\ Scope(p[1]) = Scope(a) /\ p[2] <= events'[p[1]]
              /\ ~(p[2] <= events[p[1]])
          BY DEF OpenEvents
        <5>2. p[1] = e
          BY <4>2, <5>1
        <5>3. p[2] = events[e] + 1
          <6>1. p[2] \in Nat /\ events[e] \in Nat /\ p[2] <= events[e] + 1 /\ ~(p[2] <= events[e])
            BY <1>0, <4>3, <5>1, <5>2
          <6> QED
            BY <6>1
        <5> QED
          BY <5>1, <5>2, <5>3
      <4> QED
        BY <4>1, <4>4 DEF Pending
    <3>2. CASE ~\E e \in scan[s].adds : Scope(e) = Scope(a)
      <4>1. \A f \in Anomalies : Scope(f) = Scope(a) => events'[f] = events[f]
        BY <2>2, <3>2
      <4> QED
        BY <4>1 DEF OpenEvents
    <3> QED
      BY <3>1, <3>2
  <2> QED
    BY <1>2, <2>1, <2>2, <2>3
<1>4. ASSUME NEW s \in Scanners, ScanRollsBack(s) PROVE AnomalyInv'
  <2>1. events' = events /\ scan' = [scan EXCEPT ![s] = NoScan]
    BY <1>4 DEF ScanRollsBack
  <2>2. \A a \in Anomalies : OpenEvents(a)' \subseteq OpenEvents(a)
    BY <2>1 DEF OpenEvents
  <2> QED
    BY <1>0, <1>2, <2>1, <2>2
<1>5. ASSUME scan' = scan, events' \in [Anomalies -> 0 .. MaxOpen],
             \A e \in Anomalies : events'[e] <= events[e]
      PROVE  AnomalyInv'
  <2>1. ASSUME NEW a \in Anomalies
        PROVE  OpenEvents(a)' \subseteq OpenEvents(a) /\ Pending(a)' = Pending(a)
    <3>1. \A e \in Anomalies : events[e] \in Nat /\ events'[e] \in Nat
      BY <1>0, <1>5
    <3>2. OpenEvents(a)' \subseteq OpenEvents(a)
      <4> SUFFICES ASSUME NEW p \in OpenEvents(a)' PROVE p \in OpenEvents(a)
        OBVIOUS
      <4>1. /\ p \in Anomalies \X (1 .. MaxOpen) /\ Scope(p[1]) = Scope(a) /\ p[2] <= events'[p[1]]
            /\ p[1] \in Anomalies /\ p[2] \in Nat
        BY <1>0 DEF OpenEvents
      <4>2. p[2] <= events[p[1]]
        BY <1>5, <3>1, <4>1
      <4> QED
        BY <4>1, <4>2 DEF OpenEvents
    <3> QED
      BY <1>5, <3>2 DEF Pending
  <2>2. \A a \in Anomalies :
          /\ IsFiniteSet(OpenEvents(a)')
          /\ Cardinality(OpenEvents(a)') + Cardinality(Pending(a)') <= Cardinality(Scanners)
    BY <1>0, <2>1, NoneAdded
  <2>3. AnomalyTypeOK'
    BY <1>0, <1>5 DEF AnomalyTypeOK
  <2> QED
    BY <1>0, <1>5, <2>2, <2>3 DEF AnomalyInv
<1>6. ASSUME NEW e \in Anomalies, Acknowledge(e) PROVE AnomalyInv'
  <2>1. /\ events[e] > 0 /\ events[e] \in 0 .. MaxOpen /\ scan' = scan
        /\ events' = [events EXCEPT ![e] = events[e] - 1]
    BY <1>0, <1>6 DEF Acknowledge
  <2>2. events[e] - 1 \in 0 .. MaxOpen /\ events[e] - 1 <= events[e]
    BY <1>0, <2>1
  <2>3. /\ events' \in [Anomalies -> 0 .. MaxOpen] /\ \A f \in Anomalies : events'[f] <= events[f]
    <3>1. \A f \in Anomalies : events[f] \in Nat
      BY <1>0
    <3> QED
      BY <1>0, <2>1, <2>2, <3>1
  <2> QED
    BY <1>5, <2>1, <2>3
<1>7. CASE UNCHANGED anomalyVars
  <2>1. events' = events /\ scan' = scan /\ \A f \in Anomalies : events'[f] <= events[f]
    <3>1. \A f \in Anomalies : events[f] \in Nat
      BY <1>0
    <3> QED
      BY <1>7, <3>1 DEF anomalyVars
  <2> QED
    BY <1>0, <1>5, <2>1
<1> QED
  BY <1>1, <1>3, <1>4, <1>6, <1>7 DEF AnomalyNext

LEMMA FewOpenFromInv == AnomalyInv => AnomalyTypeOK /\ FewOpenEvents
<1> SUFFICES ASSUME AnomalyInv, NEW a \in Anomalies
             PROVE  Cardinality(OpenEvents(a)) <= Cardinality(Scanners)
  BY DEF AnomalyInv, FewOpenEvents
<1>1. /\ Cardinality(OpenEvents(a)) \in Nat
      /\ Cardinality(OpenEvents(a)) + Cardinality(Pending(a)) <= Cardinality(Scanners)
  BY FS_CardinalityType DEF AnomalyInv
<1> QED
  BY <1>1, PendingFinite

LEMMA AnomalyInvariant == AnomalySpec => []AnomalyInv
BY AnomalyInvInit, AnomalyInvStep, PTL DEF AnomalySpec

(* Of a type and scope there are no more open events than scans that can overlap, for    *)
(* any finite number of scans and any anomalies.                                     *)
THEOREM EventsAreFew == AnomalySpec => [](AnomalyTypeOK /\ FewOpenEvents)
<1>1. AnomalyInv => AnomalyTypeOK /\ FewOpenEvents
  BY FewOpenFromInv
<1> QED
  BY AnomalyInvariant, <1>1, PTL
===============================================================================
