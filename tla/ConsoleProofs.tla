----------------------------- MODULE ConsoleProofs -----------------------------
(* Theorems about the parts of the console that MCControl puts side by side, each   *)
(* for any number of requests, and about what they promise together.              *)
EXTENDS ControlProofs, RecordProofs, MCControl

-------------------------------------------------------------------------------
(* Accounts.  Attempts under way: the lockout was looked at, the failure, if it is  *)
(* one, is not yet counted.                                                       *)
Trying == {r \in Requests : request[r].at \in {"login", "failed"}}

Places == {"done", "login", "failed", "verified", "expire", "replay", "use", "refresh",
           "verify_setup", "revoke"}
Users == [role : Roles, totp : Secrets \union {NoSecret}]
RequestRecord ==
  [at : Places, user : Users \union {NoSecret},
   payload : {NoSecret} \union [jti : Challenges, code : Secrets] \union [role : Roles]
             \union [code : Secrets]]

(* What the request q has read of the account acc is among the roles s.            *)
Recalls(q, acc, s) ==
  /\ q.at \in {"verified", "replay", "use"} => q.user \in Users /\ q.user.role \in s
  /\ q.at \in {"login", "refresh"} => Standing(acc) \subseteq s
  /\ q.at = "verify_setup" => q.payload.code \in Secrets

Attempts == failures.count + Cardinality(Trying) < MaxFailures + Cardinality(Requests)

CounterEnds ==
  failures.count > 0 /\ ~failures.ttl => \E r \in Requests : request[r].at = "expire"

AccountsInv ==
  /\ account \in [active : BOOLEAN, role : Roles, totp : Secrets \union {NoSecret}]
  /\ failures \in [count : Nat, ttl : BOOLEAN]
  /\ pending \in Secrets \union {NoSecret}
  /\ challenges \subseteq Challenges /\ refreshTokens \subseteq Roles
  /\ request \in [Requests -> RequestRecord]
  /\ seen \in [Requests -> SUBSET Roles]
  /\ \A r \in Requests : Recalls(request[r], account, seen[r])
  /\ Attempts /\ CounterEnds

LEMMA TryingFinite ==
  /\ IsFiniteSet(Trying) /\ Cardinality(Trying) \in Nat /\ Cardinality(Requests) \in Nat
  /\ Cardinality(Trying) <= Cardinality(Requests)
<1>1. IsFiniteSet(Requests) /\ Trying \in SUBSET Requests
  BY AccountsAssumption DEF Trying
<1> QED
  BY <1>1, FS_Subset, FS_CardinalityType

(* A request moves on to q. *)
LEMMA TryingMoves ==
  ASSUME request \in [Requests -> RequestRecord], NEW r \in Requests, NEW q,
         request' = [request EXCEPT ![r] = q]
  PROVE  /\ Cardinality(Trying') \in Nat /\ Cardinality(Trying') <= Cardinality(Requests)
         /\ q.at \notin {"login", "failed"} \/ r \in Trying =>
              Cardinality(Trying') <= Cardinality(Trying)
         /\ q.at \notin {"login", "failed"} /\ r \in Trying =>
              Cardinality(Trying') = Cardinality(Trying) - 1
<1>1. IsFiniteSet(Requests) /\ Trying' \in SUBSET Requests
  BY AccountsAssumption DEF Trying
<1>2. Cardinality(Trying') \in Nat /\ Cardinality(Trying') <= Cardinality(Requests)
  BY <1>1, FS_Subset, FS_CardinalityType
<1>3. ASSUME q.at \notin {"login", "failed"} \/ r \in Trying
      PROVE  Cardinality(Trying') <= Cardinality(Trying)
  <2>1. Trying' \in SUBSET Trying
    BY <1>3 DEF Trying
  <2> QED
    BY <2>1, TryingFinite, FS_Subset
<1>4. ASSUME q.at \notin {"login", "failed"}, r \in Trying
      PROVE  Cardinality(Trying') = Cardinality(Trying) - 1
  <2>1. Trying' = Trying \ {r}
    BY <1>4 DEF Trying
  <2> QED
    BY <1>4, <2>1, TryingFinite, FS_RemoveElement
<1> QED
  BY <1>2, <1>3, <1>4

(* What is asked of the rows and keys a step leaves behind.                        *)
AccountRows ==
  /\ account \in [active : BOOLEAN, role : Roles, totp : Secrets \union {NoSecret}]
  /\ failures \in [count : Nat, ttl : BOOLEAN]
  /\ pending \in Secrets \union {NoSecret}
  /\ challenges \subseteq Challenges /\ refreshTokens \subseteq Roles

LEMMA RequestGoesOn ==
  ASSUME AccountsInv, NEW r \in Requests, NEW q \in RequestRecord, NEW s \in SUBSET Roles,
         request' = [request EXCEPT ![r] = q], seen' \in {seen, [seen EXCEPT ![r] = s]},
         seen'[r] = s, AccountRows', Standing(account') = Standing(account),
         Recalls(q, account', s), Attempts', CounterEnds'
  PROVE  AccountsInv'
<1>1. request \in [Requests -> RequestRecord] /\ seen \in [Requests -> SUBSET Roles]
  BY DEF AccountsInv
<1>2. request' \in [Requests -> RequestRecord] /\ seen' \in [Requests -> SUBSET Roles]
  BY <1>1
<1>3. ASSUME NEW u \in Requests PROVE Recalls(request'[u], account', seen'[u])
  <2>1. CASE u = r
    BY <1>1, <2>1
  <2>2. CASE u # r
    BY <1>1, <2>2 DEF AccountsInv, Recalls
  <2> QED
    BY <2>1, <2>2
<1> QED
  BY <1>2, <1>3 DEF AccountsInv, AccountRows

(* Most steps leave the counter alone, or clear it.                                *)
LEMMA CounterAlone ==
  ASSUME AccountsInv, NEW r \in Requests, NEW q,
         request' = [request EXCEPT ![r] = q], request[r].at # "expire",
         q.at \notin {"login", "failed"} \/ r \in Trying, failures' \in {failures, Absent}
  PROVE  Attempts' /\ CounterEnds'
<1>1. /\ request \in [Requests -> RequestRecord] /\ failures.count \in Nat
      /\ MaxFailures \in Nat \ {0}
  BY AccountsAssumption DEF AccountsInv
<1>2. /\ Cardinality(Trying') \in Nat /\ Cardinality(Trying') <= Cardinality(Requests)
      /\ Cardinality(Trying') <= Cardinality(Trying)
      /\ Cardinality(Trying) \in Nat /\ Cardinality(Requests) \in Nat
  BY <1>1, TryingMoves, TryingFinite
<1>3. failures' = failures \/ failures'.count = 0
  BY DEF Absent
<1>4. Attempts'
  <2>1. failures.count + Cardinality(Trying) < MaxFailures + Cardinality(Requests)
    BY DEF AccountsInv, Attempts
  <2>2. failures'.count + Cardinality(Trying') < MaxFailures + Cardinality(Requests)
    BY <1>1, <1>2, <1>3, <2>1
  <2> QED
    BY <2>2 DEF Attempts
<1>5. CounterEnds'
  <2>1. CASE failures' = failures
    <3>1. \A u \in Requests : request[u].at = "expire" => request'[u].at = "expire"
      BY <1>1
    <3> QED
      BY <2>1, <3>1 DEF AccountsInv, CounterEnds
  <2>2. CASE failures'.count = 0
    BY <2>2 DEF CounterEnds
  <2> QED
    BY <1>3, <2>1, <2>2
<1> QED
  BY <1>4, <1>5

-------------------------------------------------------------------------------
(* The steps of a request. *)

LEMMA DoneFacts ==
  /\ Done \in RequestRecord /\ Done.at = "done"
  /\ \A acc, s : Recalls(Done, acc, s)
BY DEF Done, Waiting, RequestRecord, Places, Recalls

(* It ends, and leaves the account as it stands.                                   *)
LEMMA RequestIsOver ==
  ASSUME AccountsInv, NEW r \in Requests, Ends(r), AccountRows',
         Standing(account') = Standing(account), request[r].at # "expire",
         failures' \in {failures, Absent}
  PROVE  AccountsInv'
<1>1. request' = [request EXCEPT ![r] = Done] /\ seen' = [seen EXCEPT ![r] = {}]
  BY DEF Ends, Goes
<1>2. seen'[r] = {} /\ {} \in SUBSET Roles
  BY <1>1 DEF AccountsInv
<1>3. Attempts' /\ CounterEnds'
  BY <1>1, DoneFacts, CounterAlone
<1> QED
  BY <1>1, <1>2, <1>3, DoneFacts, RequestGoesOn

LEMMA RequestBegins ==
  ASSUME AccountsInv, NEW r \in Requests, NEW q \in RequestRecord, Starts(r, q),
         q.at \in Granting \/ q.at = "verify_setup", q.at # "login",
         q.at \in {"replay", "use", "verified"} => q.user = Reads(account) /\ account.active,
         q.at = "verify_setup" => q.payload.code \in Secrets,
         UNCHANGED <<account, failures, pending, challenges, refreshTokens>>
  PROVE  AccountsInv'
<1> DEFINE s == IF q.at \in Granting THEN Standing(account) ELSE {}
<1>1. /\ request' = [request EXCEPT ![r] = q] /\ seen' = [seen EXCEPT ![r] = s]
      /\ request[r].at = "done"
  BY DEF Starts, Goes
<1>2. account.role \in Roles /\ Reads(account) \in Users /\ Reads(account).role = account.role
  BY DEF AccountsInv, Reads, Users
<1>3. s \in SUBSET Roles
  BY <1>2 DEF Standing
<1>4. seen'[r] = s
  BY <1>1 DEF AccountsInv
<1>5. Recalls(q, account', s)
  BY <1>2 DEF Recalls, Granting, Standing
<1>6. q.at \notin {"login", "failed"}
  BY DEF Granting
<1> HIDE DEF s
<1>7. Attempts' /\ CounterEnds'
  BY <1>1, <1>6, CounterAlone
<1>8. AccountRows'
  BY DEF AccountsInv, AccountRows
<1> QED
  BY <1>1, <1>3, <1>4, <1>5, <1>7, <1>8, RequestGoesOn

LEMMA LoginSteps ==
  ASSUME AccountsInv, NEW r \in Requests,
         CheckLockout(r) \/ VerifyPassword(r) \/ ClearFailures(r)
  PROVE  AccountsInv'
<1>1. /\ request \in [Requests -> RequestRecord] /\ request[r] \in RequestRecord
      /\ seen \in [Requests -> SUBSET Roles] /\ Recalls(request[r], account, seen[r])
      /\ account \in [active : BOOLEAN, role : Roles, totp : Secrets \union {NoSecret}]
      /\ failures.count \in Nat /\ MaxFailures \in Nat \ {0}
  BY AccountsAssumption DEF AccountsInv
<1>2. CASE CheckLockout(r)
  <2> DEFINE q == Waiting("login", NoSecret)
             s == Standing(account)
  <2>1. /\ request' = [request EXCEPT ![r] = q] /\ seen' = [seen EXCEPT ![r] = s]
        /\ failures.count < MaxFailures /\ request[r].at = "done"
        /\ UNCHANGED <<account, failures, pending, challenges, refreshTokens>>
    BY <1>2 DEF CheckLockout, Starts, Goes, Waiting, Granting
  <2>2. q \in RequestRecord /\ q.at = "login" /\ Recalls(q, account', s)
    BY <2>1 DEF Waiting, RequestRecord, Places, Recalls
  <2>3. s \in SUBSET Roles /\ seen'[r] = s
    BY <1>1, <2>1 DEF Standing
  <2>4. AccountRows'
    BY <2>1 DEF AccountsInv, AccountRows
  <2>5. Attempts'
    <3>1. Cardinality(Trying') \in Nat /\ Cardinality(Trying') <= Cardinality(Requests)
      BY <1>1, <2>1, TryingMoves
    <3>2. failures'.count + Cardinality(Trying') < MaxFailures + Cardinality(Requests)
      BY <1>1, <2>1, <3>1, TryingFinite
    <3> QED
      BY <3>2 DEF Attempts
  <2>6. CounterEnds'
    <3>1. \A u \in Requests : request[u].at = "expire" => request'[u].at = "expire"
      BY <1>1, <2>1
    <3> QED
      BY <2>1, <3>1 DEF AccountsInv, CounterEnds
  <2> HIDE DEF q, s
  <2> QED
    BY <2>1, <2>2, <2>3, <2>4, <2>5, <2>6, RequestGoesOn
<1>3. CASE VerifyPassword(r)
  <2>1. /\ UNCHANGED <<account, failures, pending, challenges, refreshTokens>>
        /\ request[r].at = "login" /\ r \in Trying
    BY <1>3 DEF VerifyPassword, Trying
  <2>2. AccountRows'
    BY <2>1 DEF AccountsInv, AccountRows
  <2>3. CASE Ends(r)
    BY <2>1, <2>2, <2>3, RequestIsOver
  <2>4. CASE /\ Goes(r, [request[r] EXCEPT !.at = "failed"])
             /\ seen' = [seen EXCEPT ![r] = {}]
    <3> DEFINE q == [request[r] EXCEPT !.at = "failed"]
    <3>1. q \in RequestRecord /\ q.at = "failed"
      BY <1>1 DEF RequestRecord, Places
    <3>2. request' = [request EXCEPT ![r] = q] /\ seen'[r] = {} /\ {} \in SUBSET Roles
      BY <1>1, <2>4 DEF Goes
    <3> HIDE DEF q
    <3>3. Recalls(q, account', {})
      BY <3>1 DEF Recalls
    <3>4. Attempts' /\ CounterEnds'
      BY <2>1, <3>2, CounterAlone
    <3> QED
      BY <2>1, <2>2, <2>4, <3>1, <3>2, <3>3, <3>4, RequestGoesOn
  <2>5. CASE /\ account.active /\ UNCHANGED seen
             /\ Goes(r, [request[r] EXCEPT !.at = "verified", !.user = Reads(account)])
    <3> DEFINE q == [request[r] EXCEPT !.at = "verified", !.user = Reads(account)]
    <3>1. Reads(account) \in Users /\ Reads(account).role = account.role
      BY <1>1 DEF Reads, Users
    <3>2. q \in RequestRecord /\ q.at = "verified" /\ q.user = Reads(account)
      BY <1>1, <3>1 DEF RequestRecord, Places
    <3>3. account.role \in seen[r]
      BY <1>1, <2>1, <2>5 DEF Recalls, Standing
    <3>4. request' = [request EXCEPT ![r] = q] /\ seen'[r] = seen[r] /\ seen[r] \in SUBSET Roles
      BY <1>1, <2>5 DEF Goes
    <3> HIDE DEF q
    <3>5. Recalls(q, account', seen[r])
      BY <3>1, <3>2, <3>3 DEF Recalls
    <3>6. Attempts' /\ CounterEnds'
      BY <2>1, <3>2, <3>4, CounterAlone
    <3> QED
      BY <2>1, <2>2, <2>5, <3>2, <3>4, <3>5, <3>6, RequestGoesOn
  <2> QED
    BY <1>3, <2>3, <2>4, <2>5 DEF VerifyPassword, Continues
<1>4. CASE ClearFailures(r)
  <2>1. /\ request[r].at = "verified" /\ failures' = Absent /\ UNCHANGED <<account, pending>>
        /\ request[r].user.role \in Roles /\ Ends(r)
    BY <1>1, <1>4 DEF ClearFailures, VerifyDevice, Grants, Recalls, Users
  <2>2. challenges' \subseteq Challenges /\ refreshTokens' \subseteq Roles
    BY <1>4, <2>1 DEF ClearFailures, VerifyDevice, Grants, AccountsInv
  <2>3. AccountRows'
    BY <2>1, <2>2 DEF AccountsInv, AccountRows, Absent
  <2> QED
    BY <2>1, <2>3, RequestIsOver
<1> QED
  BY <1>2, <1>3, <1>4

(* The attempt that fails is counted; the one that makes the counter ends it.       *)
LEMMA FailureCounted ==
  ASSUME AccountsInv, NEW r \in Requests, RecordFailure(r) \/ ExpireFailures(r)
  PROVE  AccountsInv'
<1>1. /\ request \in [Requests -> RequestRecord] /\ request[r] \in RequestRecord
      /\ seen \in [Requests -> SUBSET Roles] /\ Recalls(request[r], account, seen[r])
      /\ failures \in [count : Nat, ttl : BOOLEAN]
      /\ MaxFailures \in Nat \ {0} /\ Cardinality(Trying) \in Nat
      /\ Cardinality(Requests) \in Nat
      /\ failures.count + Cardinality(Trying) < MaxFailures + Cardinality(Requests)
  BY AccountsAssumption, TryingFinite DEF AccountsInv, Attempts
<1>2. CASE RecordFailure(r)
  <2> DEFINE q == IF failures.count = 0 THEN [request[r] EXCEPT !.at = "expire"] ELSE Done
             s == IF failures.count = 0 THEN seen[r] ELSE {}
  <2>1. /\ request' = [request EXCEPT ![r] = q] /\ seen' \in {seen, [seen EXCEPT ![r] = s]}
        /\ seen'[r] = s /\ s \in SUBSET Roles
        /\ failures' = [failures EXCEPT !.count = @ + 1] /\ request[r].at = "failed"
        /\ UNCHANGED <<account, pending, challenges, refreshTokens>>
    BY <1>1, <1>2 DEF RecordFailure, Continues, Ends, Goes
  <2>2. /\ q \in RequestRecord /\ q.at \in {"done", "expire"}
        /\ failures.count = 0 => q.at = "expire"
    BY <1>1, DoneFacts DEF RequestRecord, Places
  <2> HIDE DEF q, s
  <2>3. Recalls(q, account', s)
    BY <2>2 DEF Recalls
  <2>4. AccountRows'
    BY <1>1, <2>1 DEF AccountsInv, AccountRows
  <2>5. Attempts'
    <3>1. q.at \notin {"login", "failed"} /\ r \in Trying
      BY <2>1, <2>2 DEF Trying
    <3>2. Cardinality(Trying') = Cardinality(Trying) - 1
      BY <1>1, <2>1, <3>1, TryingMoves
    <3>3. failures'.count = failures.count + 1
      BY <1>1, <2>1
    <3> QED
      BY <1>1, <3>2, <3>3 DEF Attempts
  <2>6. CounterEnds'
    <3>1. CASE failures.count = 0
      BY <1>1, <2>1, <2>2, <3>1 DEF CounterEnds
    <3>2. CASE failures.count # 0
      <4>1. failures.count > 0 /\ failures'.ttl = failures.ttl
        BY <1>1, <2>1, <3>2
      <4>2. \A u \in Requests : request[u].at = "expire" => request'[u].at = "expire"
        BY <1>1, <2>1
      <4> QED
        BY <4>1, <4>2 DEF AccountsInv, CounterEnds
    <3> QED
      BY <3>1, <3>2
  <2> QED
    BY <2>1, <2>2, <2>3, <2>4, <2>5, <2>6, RequestGoesOn
<1>3. CASE ExpireFailures(r)
  <2>1. /\ request' = [request EXCEPT ![r] = Done] /\ seen' = [seen EXCEPT ![r] = {}]
        /\ seen'[r] = {} /\ {} \in SUBSET Roles
        /\ failures' = IF failures.count > 0 THEN [failures EXCEPT !.ttl = TRUE] ELSE failures
        /\ UNCHANGED <<account, pending, challenges, refreshTokens>>
    BY <1>1, <1>3 DEF ExpireFailures, Ends, Goes
  <2>2. /\ failures' \in [count : Nat, ttl : BOOLEAN] /\ failures'.count = failures.count
        /\ failures'.count > 0 => failures'.ttl
    BY <1>1, <2>1
  <2>3. AccountRows'
    BY <2>1, <2>2 DEF AccountsInv, AccountRows
  <2>4. Attempts'
    <3>1. Cardinality(Trying') \in Nat /\ Cardinality(Trying') <= Cardinality(Trying)
      BY <1>1, <2>1, DoneFacts, TryingMoves
    <3> QED
      BY <1>1, <2>2, <3>1 DEF Attempts
  <2>5. CounterEnds'
    BY <2>2 DEF CounterEnds
  <2> QED
    BY <2>1, <2>3, <2>4, <2>5, DoneFacts, RequestGoesOn
<1> QED
  BY <1>2, <1>3

(* The second factor, the refresh tokens and the settings of the owner.            *)
LEMMA OtherRequests ==
  ASSUME AccountsInv, NEW r \in Requests,
         \/ VerifyCode(r) \/ CheckReplay(r) \/ AnswerChallenge(r) \/ StartRefresh(r)
         \/ Refresh(r) \/ Setup(r) \/ StartVerifySetup(r) \/ VerifySetup(r) \/ Disable(r)
         \/ RevokeDevices(r)
  PROVE  AccountsInv'
<1>1. /\ request \in [Requests -> RequestRecord] /\ request[r] \in RequestRecord
      /\ seen \in [Requests -> SUBSET Roles] /\ Recalls(request[r], account, seen[r])
      /\ account \in [active : BOOLEAN, role : Roles, totp : Secrets \union {NoSecret}]
      /\ pending \in Secrets \union {NoSecret} /\ refreshTokens \subseteq Roles
      /\ challenges \subseteq Challenges /\ AccountRows
  BY DEF AccountsInv, AccountRows
<1>2. Reads(account) \in Users
  BY <1>1 DEF Reads, Users
<1>3. CASE VerifyCode(r)
  <2>1. PICK jti \in challenges, code \in Secrets :
          /\ account.active
          /\ Starts(r, [at |-> "replay", user |-> Reads(account),
                        payload |-> [jti |-> jti, code |-> code]])
          /\ UNCHANGED <<account, failures, pending, challenges, refreshTokens>>
    BY <1>3 DEF VerifyCode
  <2> DEFINE q == [at |-> "replay", user |-> Reads(account),
                   payload |-> [jti |-> jti, code |-> code]]
  <2>2. q \in RequestRecord
    BY <1>1, <1>2 DEF RequestRecord, Places
  <2>3. q.at = "replay" /\ q.user = Reads(account) /\ "replay" \in Granting
    BY DEF Granting
  <2> HIDE DEF q
  <2>4. Starts(r, q)
    BY <2>1 DEF q
  <2> QED
    BY <2>1, <2>2, <2>3, <2>4, RequestBegins
<1>4. CASE StartRefresh(r)
  <2>1. PICK role \in refreshTokens : Starts(r, Waiting("refresh", [role |-> role]))
    BY <1>4 DEF StartRefresh
  <2> DEFINE q == Waiting("refresh", [role |-> role])
  <2>2. q \in RequestRecord
    BY <1>1 DEF Waiting, RequestRecord, Places
  <2>3. q.at = "refresh" /\ "refresh" \in Granting
    BY DEF Waiting, Granting
  <2> HIDE DEF q
  <2>4. Starts(r, q) /\ UNCHANGED <<account, failures, pending, challenges, refreshTokens>>
    BY <1>4, <2>1 DEF q, StartRefresh
  <2> QED
    BY <2>2, <2>3, <2>4, RequestBegins
<1>5. CASE StartVerifySetup(r)
  <2> DEFINE q == Waiting("verify_setup", [code |-> pending])
  <2>1. pending \in Secrets
    BY <1>1, <1>5 DEF StartVerifySetup
  <2>2. q \in RequestRecord /\ q.at = "verify_setup" /\ q.payload.code \in Secrets
    BY <2>1 DEF Waiting, RequestRecord, Places
  <2> HIDE DEF q
  <2>3. Starts(r, q) /\ UNCHANGED <<account, failures, pending, challenges, refreshTokens>>
    BY <1>5 DEF q, StartVerifySetup
  <2> QED
    BY <2>2, <2>3, RequestBegins
<1>6. CASE CheckReplay(r) /\ ~Ends(r)
  <2> DEFINE q == [request[r] EXCEPT !.at = "use"]
  <2>1. /\ request' = [request EXCEPT ![r] = q] /\ seen' = seen /\ request[r].at = "replay"
        /\ UNCHANGED <<account, failures, pending, challenges, refreshTokens>>
    BY <1>6 DEF CheckReplay, Continues, Goes
  <2>2. q \in RequestRecord /\ q.at = "use" /\ q.user = request[r].user
    BY <1>1 DEF RequestRecord, Places
  <2> HIDE DEF q
  <2>3. Recalls(q, account', seen[r])
    BY <1>1, <2>1, <2>2 DEF Recalls
  <2>4. Attempts' /\ CounterEnds'
    BY <2>1, <2>2, CounterAlone
  <2>5. AccountRows' /\ seen[r] \in SUBSET Roles
    BY <1>1, <2>1 DEF AccountRows
  <2> QED
    BY <2>1, <2>2, <2>3, <2>4, <2>5, RequestGoesOn
<1>7. CASE CheckReplay(r) /\ Ends(r)
  <2>1. /\ request[r].at = "replay" /\ AccountRows'
        /\ UNCHANGED <<account, failures>>
    BY <1>1, <1>7 DEF CheckReplay, AccountRows
  <2> QED
    BY <1>7, <2>1, RequestIsOver
<1>8. CASE AnswerChallenge(r)
  <2>1. /\ request[r].at = "use" /\ Ends(r) /\ UNCHANGED <<account, failures, pending>>
        /\ challenges' \subseteq Challenges /\ request[r].user.role \in Roles
        /\ refreshTokens' = refreshTokens \union {request[r].user.role}
    BY <1>1, <1>8 DEF AnswerChallenge, Grants, Recalls, Users
  <2>2. AccountRows'
    BY <1>1, <2>1 DEF AccountRows
  <2> QED
    BY <2>1, <2>2, RequestIsOver
<1>9. CASE Refresh(r)
  <2>1. /\ request[r].at = "refresh" /\ Ends(r) /\ UNCHANGED <<account, failures, pending, challenges>>
        /\ refreshTokens' \in {refreshTokens, refreshTokens \union {account.role}}
    BY <1>9 DEF Refresh, Grants, RoleToGrant
  <2>2. AccountRows'
    BY <1>1, <2>1 DEF AccountRows
  <2> QED
    BY <2>1, <2>2, RequestIsOver
<1>10. CASE Setup(r)
  <2>1. /\ UNCHANGED <<account, failures, challenges, refreshTokens, request, seen>>
        /\ pending' \in Secrets
    BY <1>10 DEF Setup
  <2>2. Trying' = Trying
    BY <2>1 DEF Trying
  <2> QED
    BY <2>1, <2>2 DEF AccountsInv, Attempts, CounterEnds
<1>11. CASE VerifySetup(r)
  <2>1. /\ request[r].at = "verify_setup" /\ Ends(r) /\ request[r].payload.code \in Secrets
        /\ account' = [account EXCEPT !.totp = request[r].payload.code]
        /\ pending' = NoSecret /\ UNCHANGED <<failures, challenges, refreshTokens>>
    BY <1>1, <1>11 DEF VerifySetup, Recalls
  <2>2. account'.role = account.role /\ account'.active = account.active
    BY <1>1, <2>1
  <2>3. AccountRows' /\ Standing(account') = Standing(account)
    BY <1>1, <2>1, <2>2 DEF AccountRows, Standing
  <2> QED
    BY <2>1, <2>3, RequestIsOver
<1>12. CASE Disable(r)
  <2> DEFINE q == Waiting("revoke", NoSecret)
  <2>1. /\ request[r].at = "done" /\ request' = [request EXCEPT ![r] = q]
        /\ account' = [account EXCEPT !.totp = NoSecret]
        /\ UNCHANGED <<failures, pending, challenges, refreshTokens, seen>>
    BY <1>12 DEF Disable, Goes
  <2>2. account'.role = account.role /\ account'.active = account.active
    BY <1>1, <2>1
  <2>3. AccountRows' /\ Standing(account') = Standing(account)
    BY <1>1, <2>1, <2>2 DEF AccountRows, Standing
  <2>4. q \in RequestRecord /\ q.at = "revoke"
    BY DEF Waiting, RequestRecord, Places
  <2> HIDE DEF q
  <2>5. Recalls(q, account', seen[r]) /\ seen[r] \in SUBSET Roles
    BY <1>1, <2>4 DEF Recalls
  <2>6. Attempts' /\ CounterEnds'
    BY <2>1, <2>4, CounterAlone
  <2> QED
    BY <2>1, <2>3, <2>4, <2>5, <2>6, RequestGoesOn
<1>13. CASE RevokeDevices(r)
  <2>1. /\ request[r].at = "revoke" /\ Ends(r) /\ AccountRows'
        /\ UNCHANGED <<account, failures>>
    BY <1>1, <1>13 DEF RevokeDevices, AccountRows
  <2> QED
    BY <2>1, RequestIsOver
<1> QED
  BY <1>3, <1>4, <1>5, <1>6, <1>7, <1>8, <1>9, <1>10, <1>11, <1>12, <1>13

(* Time and the administrators.                                                    *)
LEMMA AccountChanges ==
  ASSUME AccountsInv,
         \/ \E code \in Secrets : CodePasses(code)
         \/ \E role \in Roles : TokenExpires(role)
         \/ WindowPasses \/ KeyExpires \/ ChangeAccount \/ UNCHANGED accountVars
  PROVE  AccountsInv'
<1>1. UNCHANGED request /\ failures' \in {failures, Absent}
  BY DEF CodePasses, TokenExpires, WindowPasses, KeyExpires, ChangeAccount, accountVars
<1>2. Trying' = Trying
  BY <1>1 DEF Trying
<1>3. Attempts' /\ CounterEnds'
  <2>1. CASE failures' = failures
    BY <1>1, <1>2, <2>1 DEF AccountsInv, Attempts, CounterEnds
  <2>2. CASE failures' = Absent
    <3>1. failures'.count = 0 /\ MaxFailures \in Nat \ {0}
      BY <2>2, AccountsAssumption DEF Absent
    <3>2. failures'.count + Cardinality(Trying') < MaxFailures + Cardinality(Requests)
      BY <1>2, <3>1, TryingFinite
    <3> QED
      BY <3>1, <3>2 DEF Attempts, CounterEnds
  <2> QED
    BY <1>1, <2>1, <2>2
<1>4. CASE ChangeAccount
  <2>1. PICK role \in Roles, active \in BOOLEAN :
          /\ account' = [account EXCEPT !.role = role, !.active = active]
          /\ seen' = [r \in Requests |-> IF request[r].at \in Granting
                                         THEN seen[r] \union Standing(account') ELSE seen[r]]
          /\ UNCHANGED <<failures, pending, challenges, refreshTokens>>
    BY <1>4 DEF ChangeAccount
  <2>2. account' \in [active : BOOLEAN, role : Roles, totp : Secrets \union {NoSecret}]
    BY <2>1 DEF AccountsInv
  <2>3. Standing(account') \subseteq Roles
    BY <2>2 DEF Standing
  <2>4. seen' \in [Requests -> SUBSET Roles]
    BY <2>1, <2>3 DEF AccountsInv
  <2>5. ASSUME NEW r \in Requests PROVE Recalls(request'[r], account', seen'[r])
    <3>1. Recalls(request[r], account, seen[r]) /\ request'[r] = request[r]
      BY <1>1 DEF AccountsInv
    <3>2. seen[r] \subseteq seen'[r]
      BY <2>1
    <3>3. request[r].at \in {"login", "refresh"} => Standing(account') \subseteq seen'[r]
      BY <2>1 DEF Granting
    <3> QED
      BY <3>1, <3>2, <3>3 DEF Recalls
  <2> QED
    BY <1>1, <1>3, <2>1, <2>2, <2>4, <2>5 DEF AccountsInv
<1>5. CASE ~ChangeAccount
  <2>1. /\ UNCHANGED <<account, seen>> /\ pending' \in {pending, NoSecret}
        /\ challenges' \subseteq challenges /\ refreshTokens' \subseteq refreshTokens
        /\ failures' \in {failures, Absent}
    BY <1>5 DEF CodePasses, TokenExpires, WindowPasses, KeyExpires, accountVars
  <2>2. failures' \in [count : Nat, ttl : BOOLEAN]
    <3>1. failures \in [count : Nat, ttl : BOOLEAN]
      BY DEF AccountsInv
    <3>2. Absent \in [count : Nat, ttl : BOOLEAN]
      BY DEF Absent
    <3> QED
      BY <2>1, <3>1, <3>2
  <2>3. \A r \in Requests : Recalls(request'[r], account', seen'[r])
    BY <1>1, <2>1 DEF AccountsInv
  <2>4. /\ account' \in [active : BOOLEAN, role : Roles, totp : Secrets \union {NoSecret}]
        /\ pending' \in Secrets \union {NoSecret} /\ challenges' \subseteq Challenges
        /\ refreshTokens' \subseteq Roles /\ seen' \in [Requests -> SUBSET Roles]
        /\ request' \in [Requests -> RequestRecord]
    BY <1>1, <2>1 DEF AccountsInv
  <2> QED
    BY <1>3, <2>2, <2>3, <2>4 DEF AccountsInv
<1> QED
  BY <1>4, <1>5

LEMMA AccountsInvInit == AccountsInit => AccountsInv
<1> SUFFICES ASSUME AccountsInit PROVE AccountsInv
  OBVIOUS
<1>1. Trying = {}
  BY DoneFacts DEF AccountsInit, Trying
<1>2. Attempts /\ CounterEnds
  <2>1. failures.count = 0 /\ Cardinality(Trying) = 0 /\ MaxFailures \in Nat \ {0}
    BY <1>1, FS_EmptySet, AccountsAssumption DEF AccountsInit, Absent
  <2> QED
    BY <2>1, TryingFinite DEF Attempts, CounterEnds
<1>3. /\ request \in [Requests -> RequestRecord] /\ seen \in [Requests -> SUBSET Roles]
      /\ \A r \in Requests : Recalls(request[r], account, seen[r])
  BY DoneFacts DEF AccountsInit
<1> QED
  BY <1>2, <1>3 DEF AccountsInit, AccountsInv, Absent

LEMMA AccountsInvKept == AccountsInv /\ [AccountsNext]_accountVars => AccountsInv'
BY LoginSteps, FailureCounted, OtherRequests, AccountChanges DEF AccountsNext

LEMMA AccountsInvariant == AccountsSpec => []AccountsInv
BY AccountsInvInit, AccountsInvKept, PTL DEF AccountsSpec

(* For any number of requests and any limit: the counter exceeds the limit by no     *)
(* more than the attempts that were under way when it was reached, which count from *)
(* the look at the lockout to the failure; and a counter that has no end yet has a   *)
(* request that is about to give it one.                                          *)
THEOREM LockoutBounded == AccountsSpec => []LockoutHolds
<1>1. AccountsInv => LockoutHolds
  <2> SUFFICES ASSUME AccountsInv PROVE LockoutHolds
    OBVIOUS
  <2>1. failures.count \in Nat /\ MaxFailures \in Nat
    BY AccountsAssumption DEF AccountsInv
  <2>2. failures.count + Cardinality(Trying) < MaxFailures + Cardinality(Requests)
    BY DEF AccountsInv, Attempts
  <2>3. failures.count < MaxFailures + Cardinality(Requests)
    BY <2>1, <2>2, TryingFinite
  <2> QED
    BY <2>3 DEF LockoutHolds, AccountsInv, CounterEnds
<1> QED
  BY AccountsInvariant, <1>1, PTL

(* Whatever administrators change while a login, a second factor or a refresh is     *)
(* under way: tokens are for a role the account had, while active, at some moment   *)
(* of the request.                                                                *)
THEOREM TokensAreEarned == AccountsSpec => TokensFollowAccount
<1> DEFINE Earned == \A r \in Requests :
                       request[r].at # "done" /\ request'[r].at = "done" =>
                         refreshTokens' \ refreshTokens \subseteq seen[r]
<1>1. AccountsInv /\ [AccountsNext]_accountVars => [Earned]_accountVars
  <2> SUFFICES ASSUME AccountsInv, AccountsNext PROVE Earned
    OBVIOUS
  <2>1. ASSUME NEW r \in Requests
        PROVE  /\ request \in [Requests -> RequestRecord]
               /\ Recalls(request[r], account, seen[r])
    BY DEF AccountsInv
  <2>2. ASSUME NEW r \in Requests, NEW u \in Requests,
               \/ CheckLockout(u) \/ VerifyPassword(u) \/ RecordFailure(u) \/ ExpireFailures(u)
               \/ VerifyCode(u) \/ CheckReplay(u) \/ StartRefresh(u)
               \/ Setup(u) \/ StartVerifySetup(u) \/ VerifySetup(u) \/ Disable(u)
               \/ RevokeDevices(u)
        PROVE  refreshTokens' \subseteq refreshTokens
    BY <2>2 DEF CheckLockout, VerifyPassword, RecordFailure, ExpireFailures, VerifyCode,
                CheckReplay, StartRefresh, Setup, StartVerifySetup, VerifySetup, Disable,
                RevokeDevices
  <2>3. ASSUME \/ \E code \in Secrets : CodePasses(code)
               \/ \E role \in Roles : TokenExpires(role)
               \/ WindowPasses \/ KeyExpires \/ ChangeAccount
        PROVE  refreshTokens' \subseteq refreshTokens
    BY <2>3 DEF CodePasses, TokenExpires, WindowPasses, KeyExpires, ChangeAccount
  <2>4. ASSUME NEW r \in Requests, NEW u \in Requests,
               ClearFailures(u) \/ AnswerChallenge(u) \/ Refresh(u),
               request[r].at # "done", request'[r].at = "done"
        PROVE  refreshTokens' \ refreshTokens \subseteq seen[r]
    <3>1. r = u
      <4>1. request' = [request EXCEPT ![u] = Done]
        BY <2>4 DEF ClearFailures, VerifyDevice, AnswerChallenge, Refresh, Grants, Ends, Goes
      <4> QED
        BY <2>1, <2>4, <4>1
    <3>2. CASE ClearFailures(u)
      <4>1. request[r].at = "verified"
            /\ refreshTokens' \subseteq refreshTokens \union {request[r].user.role}
        BY <3>1, <3>2 DEF ClearFailures, VerifyDevice, Grants
      <4> QED
        BY <2>1, <4>1 DEF Recalls
    <3>3. CASE AnswerChallenge(u)
      <4>1. request[r].at = "use"
            /\ refreshTokens' \subseteq refreshTokens \union {request[r].user.role}
        BY <3>1, <3>3 DEF AnswerChallenge, Grants
      <4> QED
        BY <2>1, <4>1 DEF Recalls
    <3>4. CASE Refresh(u)
      <4>1. request[r].at = "refresh"
            /\ refreshTokens' \subseteq refreshTokens \union Standing(account)
        BY <3>1, <3>4 DEF Refresh, Grants, RoleToGrant, Standing
      <4> QED
        BY <2>1, <4>1 DEF Recalls
    <3> QED
      BY <2>4, <3>2, <3>3, <3>4
  <2> QED
    BY <2>2, <2>3, <2>4 DEF AccountsNext
<1> QED
  BY AccountsInvariant, <1>1, PTL DEF AccountsSpec, TokensFollowAccount

-------------------------------------------------------------------------------
(* Envelopes.  A request that is about to acknowledge has sent what it will        *)
(* acknowledge.                                                                   *)
EnvelopesInv ==
  /\ EnvelopesTypeOK
  /\ \A p \in Pushers : pusher[p].at = "ack" => pusher[p].envelopes \subseteq received
  /\ AckedWasReceived

LEMMA EnvelopesInvInit == EnvelopesInit => EnvelopesInv
BY DEF EnvelopesInit, EnvelopesInv, EnvelopesTypeOK, AckedWasReceived, NoPush

LEMMA EnvelopesInvKept == EnvelopesInv /\ [EnvelopesNext]_envelopeVars => EnvelopesInv'
<1> SUFFICES ASSUME EnvelopesInv, [EnvelopesNext]_envelopeVars PROVE EnvelopesInv'
  OBVIOUS
<1>1. ASSUME NEW p \in Pushers, NEW e \in Envelopes, FetchPending(p, e) PROVE EnvelopesInv'
  BY <1>1 DEF FetchPending, EnvelopesInv, EnvelopesTypeOK, AckedWasReceived, NoPush
<1>2. ASSUME NEW p \in Pushers, PushToEdge(p) PROVE EnvelopesInv'
  BY <1>2 DEF PushToEdge, EnvelopesInv, EnvelopesTypeOK, AckedWasReceived, NoPush
<1>3. ASSUME NEW p \in Pushers, AckEnvelope(p) PROVE EnvelopesInv'
  BY <1>3 DEF AckEnvelope, EnvelopesInv, EnvelopesTypeOK, AckedWasReceived, NoPush
<1>4. CASE (\E e \in Envelopes : CoreDrops(e)) \/ UNCHANGED envelopeVars
  BY <1>4 DEF CoreDrops, envelopeVars, EnvelopesInv, EnvelopesTypeOK, AckedWasReceived
<1> QED
  BY <1>1, <1>2, <1>3, <1>4 DEF EnvelopesNext

-------------------------------------------------------------------------------
(* Reference data.  Each commit gives the dataset a version and counts it, so a     *)
(* copy of the version the dataset has is what is stored, unless the version was   *)
(* given twice.                                                                   *)
Counted(ver) == ver # 0 => stamps[ver] # 0

CopyIsStored ==
  consumer.etag # 0 /\ consumer.etag = dataset.version =>
    stamps[consumer.etag] = 2 \/ consumer.holds = Offered

WriteRecord ==
  [op : {"none", "upsert", "delete"}, bump : 0 .. MaxBumps, keys : SUBSET RecordKeys,
   lost : SUBSET RecordKeys, found : [RecordKeys -> Entry], given : [RecordKeys -> Entry]]

ConsumerRecord ==
  [at : {"idle", "reading", "confirmed"}, etag : 0 .. MaxBumps, asked : 0 .. MaxBumps,
   holds : Copies, stored : Copies]

RecordTypes ==
  /\ entries \in [RecordKeys -> Entry]
  /\ \A k \in RecordKeys : entries[k].active => entries[k].stored
  /\ apiKey \in {"none", "active", "elsewhere", "revoked"}

WriterTypes ==
  /\ writer \in [Writers -> WriteRecord]
  /\ \A w \in Writers : writer[w].op # "none" => writer[w].bump > 1 /\ dataset.version # 0

StampsCount ==
  /\ dataset \in [active : BOOLEAN, version : 0 .. MaxBumps]
  /\ stamps \in [1 .. MaxBumps -> 0 .. 2]
  /\ dataset.active => dataset.version # 0
  /\ dataset.version = 0 => \A v \in 1 .. MaxBumps : stamps[v] = 0
  /\ Counted(dataset.version) /\ Counted(consumer.etag) /\ Counted(consumer.asked)

CopiesHold ==
  /\ consumer \in ConsumerRecord
  /\ CopyIsStored
  /\ consumer.at = "confirmed" => consumer.etag # 0
  /\ ConfirmedIsCurrent

ReferenceInv == RecordTypes /\ WriterTypes /\ StampsCount /\ CopiesHold

LEMMA NoWriteType ==
  /\ NoEntry \in Entry /\ NoWrite \in WriteRecord /\ NoWrite.op = "none"
  /\ ~NoEntry.active
BY FeedAssumption DEF NoEntry, Entry, Texts, NoWrite, WriteRecord

LEMMA OfferedType == RecordTypes => Offered \in Copies
BY DEF RecordTypes, Offered, Copies, Entry

LEMMA ReferenceInvInit == ReferenceInit => ReferenceInv
<1> SUFFICES ASSUME ReferenceInit PROVE ReferenceInv
  OBVIOUS
<1>1. MaxBumps \in Nat \ {0}
  BY FeedAssumption
<1>2. RecordTypes
  BY NoWriteType DEF ReferenceInit, RecordTypes
<1>3. WriterTypes
  BY NoWriteType DEF ReferenceInit, WriterTypes
<1>4. StampsCount
  BY <1>1 DEF ReferenceInit, StampsCount, Counted
<1>5. CopiesHold
  BY <1>1 DEF ReferenceInit, CopiesHold, CopyIsStored, ConfirmedIsCurrent, ConsumerRecord, Copies
<1> QED
  BY <1>2, <1>3, <1>4, <1>5 DEF ReferenceInv

(* A commit that gives the dataset a version, whatever it writes.                  *)
LEMMA VersionStamped ==
  ASSUME ReferenceInv, NEW v \in 2 .. MaxBumps, Stamp(v), UNCHANGED consumer,
         dataset.version # 0
  PROVE  StampsCount' /\ CopiesHold' /\ dataset'.version # 0
<1>1. /\ dataset' = [dataset EXCEPT !.version = v]
      /\ stamps' = [stamps EXCEPT ![v] = IF @ = 2 THEN 2 ELSE @ + 1]
      /\ MaxBumps \in Nat \ {0} /\ v \in Nat /\ v # 0 /\ v \in 1 .. MaxBumps
      /\ StampsCount /\ CopiesHold
  BY FeedAssumption DEF Stamp, ReferenceInv
<1>2. /\ dataset' \in [active : BOOLEAN, version : 0 .. MaxBumps] /\ dataset'.version = v
      /\ stamps' \in [1 .. MaxBumps -> 0 .. 2]
  BY <1>1 DEF StampsCount
<1>3. \A u \in 1 .. MaxBumps : /\ stamps[u] # 0 => stamps'[u] # 0
                               /\ stamps[u] = 2 => stamps'[u] = 2
                               /\ u = v /\ stamps[u] # 0 => stamps'[u] = 2
                               /\ stamps'[v] # 0
  BY <1>1 DEF StampsCount
<1>4. /\ consumer.etag \in 0 .. MaxBumps /\ consumer.asked \in 0 .. MaxBumps
      /\ consumer' = consumer
  BY <1>1 DEF CopiesHold, ConsumerRecord
<1>5. StampsCount'
  BY <1>1, <1>2, <1>3, <1>4 DEF StampsCount, Counted
<1>6. CopiesHold'
  BY <1>1, <1>2, <1>3, <1>4 DEF StampsCount, Counted, CopiesHold, CopyIsStored, ConfirmedIsCurrent
<1> QED
  BY <1>1, <1>2, <1>5, <1>6

LEMMA ReferenceInvKept == ReferenceInv /\ [ReferenceNext]_referenceVars => ReferenceInv'
<1> SUFFICES ASSUME ReferenceInv, [ReferenceNext]_referenceVars PROVE ReferenceInv'
  OBVIOUS
<1>0. /\ RecordTypes /\ WriterTypes /\ StampsCount /\ CopiesHold
      /\ MaxBumps \in Nat \ {0}
  BY FeedAssumption DEF ReferenceInv
<1>1. ASSUME NEW active \in BOOLEAN, UpsertDataset(active) PROVE ReferenceInv'
  <2>1. /\ dataset' = [active |-> active,
                       version |-> IF dataset.version = 0 THEN 1 ELSE dataset.version]
        /\ stamps' = IF dataset.version = 0 THEN [stamps EXCEPT ![1] = 1] ELSE stamps
        /\ UNCHANGED <<entries, writer, apiKey, consumer>>
    BY <1>1 DEF UpsertDataset
  <2>2. RecordTypes' /\ WriterTypes'
    BY <1>0, <2>1 DEF RecordTypes, WriterTypes
  <2>3. /\ consumer.etag \in 0 .. MaxBumps /\ consumer.asked \in 0 .. MaxBumps
        /\ dataset.version = 0 => consumer.etag = 0 /\ consumer.asked = 0
    BY <1>0 DEF StampsCount, Counted, CopiesHold, ConsumerRecord
  <2>4. StampsCount'
    BY <1>0, <2>1, <2>3 DEF StampsCount, Counted
  <2>5. CopiesHold'
    <3>1. Offered' = Offered
      BY <2>1 DEF Offered
    <3> QED
      BY <1>0, <2>1, <2>3, <3>1 DEF StampsCount, CopiesHold, CopyIsStored, ConfirmedIsCurrent
  <2> QED
    BY <2>2, <2>4, <2>5 DEF ReferenceInv
<1>2. ASSUME NEW w \in Writers, UpsertCommit(w) PROVE ReferenceInv'
  <2>1. /\ writer[w].op = "upsert" /\ writer[w] \in WriteRecord
        /\ writer' = [writer EXCEPT ![w] = NoWrite] /\ UNCHANGED <<apiKey, consumer>>
        /\ dataset.version # 0 /\ writer[w].bump \in 2 .. MaxBumps
    BY <1>0, <1>2 DEF UpsertCommit, WriterTypes, WriteRecord
  <2>2. \A u \in Writers : writer'[u] = IF u = w THEN NoWrite ELSE writer[u]
    BY <1>0, <2>1 DEF WriterTypes
  <2>3. CASE UNCHANGED <<dataset, entries, stamps>>
    <3>1. WriterTypes'
      BY <1>0, <2>1, <2>2, <2>3, NoWriteType DEF WriterTypes
    <3>2. Offered' = Offered
      BY <2>3 DEF Offered
    <3> QED
      BY <1>0, <2>1, <2>3, <3>1, <3>2
      DEF ReferenceInv, RecordTypes, StampsCount, Counted, CopiesHold, CopyIsStored, ConfirmedIsCurrent
  <2>4. CASE /\ entries' = [k \in RecordKeys |->
                              IF k \in writer[w].keys
                              THEN EntryAfter(k, writer[w].found[k], writer[w].given[k])
                              ELSE entries[k]]
             /\ Stamp(writer[w].bump)
    <3>1. StampsCount' /\ CopiesHold' /\ dataset'.version # 0
      BY <2>1, <2>4, VersionStamped
    <3>2. WriterTypes'
      BY <1>0, <2>1, <2>2, <3>1, NoWriteType DEF WriterTypes
    <3>3. ASSUME NEW k \in RecordKeys
          PROVE  /\ EntryAfter(k, writer[w].found[k], writer[w].given[k]) \in Entry
                 /\ EntryAfter(k, writer[w].found[k], writer[w].given[k]).stored
      <4>1. /\ writer[w].found[k] \in Entry /\ writer[w].given[k] \in Entry
            /\ entries[k] \in Entry
        BY <1>0, <2>1 DEF RecordTypes, WriteRecord
      <4> QED
        BY <4>1 DEF EntryAfter, Column, Entry
    <3>4. RecordTypes'
      BY <1>0, <2>1, <2>4, <3>3 DEF RecordTypes
    <3> QED
      BY <3>1, <3>2, <3>4 DEF ReferenceInv
  <2> QED
    BY <1>2, <2>3, <2>4 DEF UpsertCommit
<1>3. ASSUME NEW w \in Writers, DeleteCommit(w) PROVE ReferenceInv'
  <2>1. /\ writer[w].op = "delete" /\ writer[w] \in WriteRecord
        /\ entries' = [k \in RecordKeys |-> IF k \in writer[w].keys THEN NoEntry ELSE entries[k]]
        /\ Stamp(writer[w].bump) /\ UNCHANGED <<apiKey, consumer>>
        /\ writer' = [u \in Writers |->
             IF u = w THEN NoWrite
             ELSE [writer[u] EXCEPT !.lost = @ \union {k \in writer[w].keys : writer[u].found[k].stored}]]
        /\ dataset.version # 0 /\ writer[w].bump \in 2 .. MaxBumps
    BY <1>0, <1>3 DEF DeleteCommit, WriterTypes, WriteRecord
  <2>2. StampsCount' /\ CopiesHold' /\ dataset'.version # 0
    BY <2>1, VersionStamped
  <2>3. ASSUME NEW u \in Writers
        PROVE  /\ writer'[u] \in WriteRecord
               /\ writer'[u].op # "none" => writer'[u].bump > 1
    <3>1. writer[u] \in WriteRecord /\ (writer[u].op # "none" => writer[u].bump > 1)
      BY <1>0 DEF WriterTypes
    <3>2. writer[w].keys \subseteq RecordKeys
      BY <2>1 DEF WriteRecord
    <3> QED
      BY <2>1, <3>1, <3>2, NoWriteType DEF WriteRecord
  <2>4. WriterTypes'
    BY <2>1, <2>2, <2>3 DEF WriterTypes
  <2>5. RecordTypes'
    BY <1>0, <2>1, NoWriteType DEF RecordTypes
  <2> QED
    BY <2>2, <2>4, <2>5 DEF ReferenceInv
(* What a writer does before its commit, and whether it gets that far, changes       *)
(* nothing that is stored.                                                        *)
<1>4. ASSUME NEW w \in Writers, NEW q \in WriteRecord,
             q.op # "none" => q.bump > 1 /\ dataset.version # 0,
             writer' = [writer EXCEPT ![w] = q],
             UNCHANGED <<dataset, entries, stamps, apiKey, consumer>>
      PROVE  ReferenceInv'
  <2>1. WriterTypes'
    BY <1>0, <1>4 DEF WriterTypes
  <2>2. Offered' = Offered
    BY <1>4 DEF Offered
  <2> QED
    BY <1>0, <1>4, <2>1, <2>2
    DEF ReferenceInv, RecordTypes, StampsCount, Counted, CopiesHold, CopyIsStored, ConfirmedIsCurrent
<1>5. ASSUME NEW w \in Writers, WriteFails(w) PROVE ReferenceInv'
  BY <1>4, <1>5, NoWriteType DEF WriteFails
<1>6. ASSUME NEW w \in Writers, NEW k \in RecordKeys, DeleteBegin(w, k) PROVE ReferenceInv'
  <2> DEFINE q == [NoWrite EXCEPT !.op = "delete", !.keys = {k}, !.bump = Bumped(dataset.version)]
  <2>1. dataset.version \in 1 .. MaxBumps - 1
    BY <1>6 DEF DeleteBegin
  <2>2. q.bump > 1 /\ q.bump \in 0 .. MaxBumps
    BY <1>0, <2>1, NoWriteType DEF Bumped, WriteRecord
  <2>3. q \in WriteRecord
    BY <2>2, NoWriteType DEF WriteRecord
  <2>4. dataset.version # 0
    BY <1>0, <2>1
  <2>5. writer' = [writer EXCEPT ![w] = q] /\ UNCHANGED <<dataset, entries, stamps, apiKey, consumer>>
    BY <1>6 DEF DeleteBegin
  <2> HIDE DEF q
  <2> QED
    BY <1>4, <2>2, <2>3, <2>4, <2>5
<1>7. ASSUME NEW w \in Writers, NEW text \in [RecordKeys -> Texts \union {"none"}],
             NEW replace \in BOOLEAN, UpsertBegin(w, text, replace)
      PROVE  ReferenceInv'
  <2> DEFINE named == {k \in RecordKeys : text[k] # "none"}
             retired == IF replace THEN {k \in RecordKeys \ named : entries[k].active} ELSE {}
             given == [k \in RecordKeys |->
                        IF k \in named THEN [stored |-> TRUE, text |-> text[k], active |-> TRUE]
                        ELSE [entries[k] EXCEPT !.active = FALSE]]
             q == [op |-> "upsert", bump |-> Bumped(dataset.version), keys |-> named \union retired,
                   lost |-> {}, found |-> entries, given |-> given]
  <2>1. dataset.version \in 1 .. MaxBumps - 1
    BY <1>7 DEF UpsertBegin
  <2>2. q.bump > 1 /\ q.bump \in 0 .. MaxBumps /\ dataset.version # 0
    BY <1>0, <2>1 DEF Bumped
  <2>3. given \in [RecordKeys -> Entry]
    <3>1. ASSUME NEW k \in RecordKeys PROVE given[k] \in Entry
      <4>1. entries[k] \in Entry /\ text[k] \in Texts \union {"none"}
        BY <1>0 DEF RecordTypes
      <4> QED
        BY <4>1 DEF Entry
    <3> QED
      BY <3>1
  <2>4. named \union retired \subseteq RecordKeys /\ entries \in [RecordKeys -> Entry]
    BY <1>0 DEF RecordTypes
  <2>5. writer' = [writer EXCEPT ![w] = q] /\ UNCHANGED <<dataset, entries, stamps, apiKey, consumer>>
    BY <1>7 DEF UpsertBegin
  <2> HIDE DEF named, retired, given
  <2>6. q \in WriteRecord
    BY <2>2, <2>3, <2>4 DEF WriteRecord
  <2> HIDE DEF q
  <2> QED
    BY <1>4, <2>2, <2>5, <2>6
<1>8. CASE IssueKey \/ RevokeKey \/ UNCHANGED referenceVars
  <2>1. /\ UNCHANGED <<dataset, entries, stamps, writer, consumer>>
        /\ apiKey' \in {apiKey, "active", "elsewhere", "revoked"}
    BY <1>8 DEF IssueKey, RevokeKey, referenceVars
  <2>2. Offered' = Offered
    BY <2>1 DEF Offered
  <2> QED
    BY <1>0, <2>1, <2>2
    DEF ReferenceInv, RecordTypes, WriterTypes, StampsCount, Counted, CopiesHold, CopyIsStored,
        ConfirmedIsCurrent
<1>9. CASE ConsumerAsks \/ ConsumerReads
  <2>1. UNCHANGED <<dataset, entries, stamps, writer, apiKey>> /\ Offered' = Offered
    BY <1>9 DEF ConsumerAsks, ConsumerReads, Offered
  <2>2. RecordTypes' /\ WriterTypes'
    BY <1>0, <2>1 DEF RecordTypes, WriterTypes
  <2>3. Offered \in Copies
    BY <1>0, OfferedType
  <2>4. CASE ConsumerReads
    <3>1. consumer' = [consumer EXCEPT !.at = "idle", !.etag = consumer.asked, !.holds = Offered]
      BY <2>4 DEF ConsumerReads
    <3>2. /\ consumer' \in ConsumerRecord /\ consumer'.etag = consumer.asked
          /\ consumer'.asked = consumer.asked /\ consumer'.holds = Offered
          /\ consumer'.at = "idle"
      BY <1>0, <2>3, <3>1 DEF CopiesHold, ConsumerRecord
    <3>3. StampsCount'
      BY <1>0, <2>1, <3>2 DEF StampsCount, Counted
    <3>4. CopiesHold'
      BY <2>1, <3>2 DEF CopiesHold, CopyIsStored, ConfirmedIsCurrent
    <3> QED
      BY <2>2, <3>3, <3>4 DEF ReferenceInv
  <2>5. CASE ConsumerAsks
    <3>1. /\ dataset.active
          /\ \/ /\ consumer.etag = dataset.version
                /\ consumer' = [consumer EXCEPT !.at = "confirmed", !.stored = Offered]
             \/ consumer' = [consumer EXCEPT !.at = "reading", !.asked = dataset.version,
                                             !.stored = {}]
      BY <2>5 DEF ConsumerAsks
    <3>2. dataset.version \in 0 .. MaxBumps /\ dataset.version # 0 /\ Counted(dataset.version)
      BY <1>0, <3>1 DEF StampsCount
    <3>3. /\ consumer' \in ConsumerRecord /\ consumer'.etag = consumer.etag
          /\ consumer'.holds = consumer.holds /\ consumer'.asked \in {consumer.asked, dataset.version}
          /\ consumer'.at = "confirmed" =>
               consumer.etag = dataset.version /\ consumer'.stored = Offered
      <4>1. {} \in Copies /\ consumer \in ConsumerRecord
        BY <1>0 DEF Copies, CopiesHold
      <4>2. CASE consumer' = [consumer EXCEPT !.at = "confirmed", !.stored = Offered]
                 /\ consumer.etag = dataset.version
        BY <2>3, <4>1, <4>2 DEF ConsumerRecord
      <4>3. CASE consumer' = [consumer EXCEPT !.at = "reading", !.asked = dataset.version,
                                              !.stored = {}]
        BY <3>2, <4>1, <4>3 DEF ConsumerRecord
      <4> QED
        BY <3>1, <4>2, <4>3
    <3>4. StampsCount'
      BY <1>0, <2>1, <3>2, <3>3 DEF StampsCount, Counted
    <3>5. CopiesHold'
      BY <1>0, <2>1, <3>2, <3>3 DEF CopiesHold, CopyIsStored, ConfirmedIsCurrent
    <3> QED
      BY <2>2, <3>4, <3>5 DEF ReferenceInv
  <2> QED
    BY <1>9, <2>4, <2>5
<1> QED
  BY <1>1, <1>2, <1>3, <1>5, <1>6, <1>7, <1>8, <1>9 DEF ReferenceNext

-------------------------------------------------------------------------------
(* The defense mesh.  The word of two tenants stands behind what the mesh does to   *)
(* an address: its scores sc hold one that promotes it.                            *)
Warranted(ip, sc) ==
  \E s \in Spellings, t \in Tenants : Canonical[s] = ip /\ sc[<<s, t>>] >= PromoteAt

(* The same, by reports that spell the address otherwise than the table.           *)
Misspelt(ip, sc) ==
  \E s \in Spellings, t \in Tenants :
    s # ip /\ Canonical[s] = ip /\ sc[<<s, t>>] >= PromoteAt

(* Scores only leave 0 and what promotes behind.                                  *)
Upheld(sc, sc2) ==
  \A st \in Spellings \X Tenants :
    /\ sc[st] >= PromoteAt => sc2[st] >= PromoteAt
    /\ sc[st] # 0 => sc2[st] # 0

Backers(s, t, sc) == {u \in Tenants \ {t} : sc[<<s, u>>] # 0}

(* No score is above what the tenants that have reported by now would give.        *)
Supported(sc) ==
  \A s \in Spellings, t \in Tenants :
    sc[<<s, t>>] # 0 => sc[<<s, t>>] <= ScoreOf(Cardinality(Backers(s, t, sc)) + 1)

Reported ==
  [ip : Spellings, tenant : Tenants, others : 0 .. Cardinality(Tenants), had : Scores \union {0}]

(* What a report under way has read.                                              *)
Read(q, sc) ==
  /\ q \in Reported
  /\ q.others <= Cardinality(Backers(q.ip, q.tenant, sc))
  /\ q.had # 0 => q.had <= ScoreOf(q.others + 1)
  /\ q.had >= PromoteAt => sc[<<q.ip, q.tenant>>] >= PromoteAt

Condemned(row, sc) ==
  row # Missing /\ row.list = "blacklist" /\ row.by = "system" => Warranted(row.ip, sc)

(* What a worker that has t and the report q may rely on.                          *)
Fits(t, q, tab, rc, sc) ==
  /\ t \in Work
  /\ t.step \in {"insert", "apply"} =>
       t.row \in Row /\ (t.row.by = "system" => Warranted(t.row.ip, sc))
  /\ t.step \in {"promote", "insert", "apply"} => \A ip \in t.left : Warranted(ip, sc)
  /\ t.step \in {"banned", "white", "ban"} => t.left \subseteq V4
  /\ t.step \in {"demote", "erase"} => t.id \in RowIds
  /\ t.step \in {"merge", "forget", "dismiss"} => t.id \in RecIds /\ rc[t.id] \in Rec
  /\ t.step = "demote" => tab[t.id] = Missing \/ Misspelt(tab[t.id].ip, sc)
  /\ t.step = "report" => Read(q, sc)

KernelTypes ==
  /\ live \in [whitelist : SUBSET V4, blacklist : SUBSET (V4 \union {Net}), temp_ban : SUBSET V4]
  /\ bootFile \in [Lists -> SUBSET Addresses]
  /\ calls \in 0 .. MaxCalls

RowsWarranted ==
  /\ rows \in [RowIds -> Row \union {Missing}]
  /\ \A i \in RowIds : Condemned(rows[i], score)

RecTypes == recs \in [RecIds -> Rec \union {Missing}]

ScoresSupported ==
  /\ score \in [Spellings \X Tenants -> Scores \union {0}]
  /\ Supported(score)

WorkersFit ==
  /\ work \in [Workers -> Work] /\ report \in [Workers -> Report]
  /\ \A w \in Workers : Fits(work[w], report[w], rows, recs, score)

MeshInv == KernelTypes /\ RowsWarranted /\ RecTypes /\ ScoresSupported /\ WorkersFit

(* More tenants, higher score.                                                    *)
LEMMA ScoreGrows ==
  ASSUME NEW m \in Nat, NEW n \in Nat, m <= n
  PROVE  /\ ScoreOf(m + 1) \in Scores /\ ScoreOf(m + 1) <= ScoreOf(n + 1)
         /\ ScoreOf(m + 1) # 40 => ScoreOf(m + 1) >= PromoteAt
         /\ ScoreOf(m + 1) \in Nat /\ ScoreOf(m + 1) >= 40
BY DEF ScoreOf, Scores, PromoteAt

LEMMA BackersFinite ==
  ASSUME NEW s, NEW t, NEW sc
  PROVE  /\ Backers(s, t, sc) \subseteq Tenants /\ IsFiniteSet(Backers(s, t, sc))
         /\ Cardinality(Backers(s, t, sc)) \in 0 .. Cardinality(Tenants)
<1>1. Backers(s, t, sc) \in SUBSET Tenants /\ IsFiniteSet(Tenants)
  BY PoolAssumption DEF Backers
<1>2. /\ IsFiniteSet(Backers(s, t, sc))
      /\ Cardinality(Backers(s, t, sc)) <= Cardinality(Tenants)
  BY <1>1, FS_Subset
<1>3. Cardinality(Backers(s, t, sc)) \in Nat /\ Cardinality(Tenants) \in Nat
  BY <1>1, <1>2, FS_CardinalityType
<1> QED
  BY <1>1, <1>2, <1>3

(* Whoever has reported stays so.                                                 *)
LEMMA BackersGrow ==
  ASSUME NEW sc, NEW sc2, NEW s \in Spellings, NEW t \in Tenants, Upheld(sc, sc2)
  PROVE  Cardinality(Backers(s, t, sc)) <= Cardinality(Backers(s, t, sc2))
<1>1. Backers(s, t, sc) \in SUBSET Backers(s, t, sc2)
  BY DEF Upheld, Backers
<1> QED
  BY <1>1, BackersFinite, FS_Subset

(* What a worker relies on stays so while others write.                             *)
LEMMA StillFits ==
  ASSUME NEW t, NEW q, NEW tab, NEW tab2, NEW rc, NEW rc2, NEW sc, NEW sc2,
         Fits(t, q, tab, rc, sc), Upheld(sc, sc2),
         t.step \in {"merge", "forget", "dismiss"} /\ rc[t.id] \in Rec => rc2[t.id] \in Rec,
         t.step = "demote" => tab2[t.id] \in {tab[t.id], Missing}
  PROVE  Fits(t, q, tab2, rc2, sc2)
<1>1. /\ \A ip : Warranted(ip, sc) => Warranted(ip, sc2)
      /\ \A ip : Misspelt(ip, sc) => Misspelt(ip, sc2)
  BY DEF Warranted, Misspelt, Upheld
<1>2. Read(q, sc) => Read(q, sc2)
  <2> SUFFICES ASSUME Read(q, sc) PROVE Read(q, sc2)
    OBVIOUS
  <2>1. q.ip \in Spellings /\ q.tenant \in Tenants /\ q.others \in Nat
    BY PoolAssumption, FS_CardinalityType DEF Read, Reported
  <2>2. Cardinality(Backers(q.ip, q.tenant, sc)) <= Cardinality(Backers(q.ip, q.tenant, sc2))
    BY <2>1, BackersGrow
  <2>3. q.others <= Cardinality(Backers(q.ip, q.tenant, sc2))
    <3>1. q.others <= Cardinality(Backers(q.ip, q.tenant, sc))
      BY DEF Read
    <3>2. /\ Cardinality(Backers(q.ip, q.tenant, sc)) \in Nat
          /\ Cardinality(Backers(q.ip, q.tenant, sc2)) \in Nat
      BY BackersFinite
    <3> QED
      BY <2>1, <2>2, <3>1, <3>2
  <2> QED
    BY <2>1, <2>3 DEF Read, Upheld
<1> QED
  BY <1>1, <1>2 DEF Fits

(* One worker takes a step and nothing the others rely on is lost.                  *)
LEMMA WorkerMoves ==
  ASSUME WorkersFit, NEW w \in Workers, NEW t,
         work' = [work EXCEPT ![w] = t],
         report' \in [Workers -> Report], \A v \in Workers \ {w} : report'[v] = report[v],
         Fits(t, report'[w], rows', recs', score'), Upheld(score, score'),
         \A i \in RecIds : recs[i] \in Rec => recs'[i] \in Rec,
         \A v \in Workers \ {w} :
           work[v].step = "demote" => rows'[work[v].id] \in {rows[work[v].id], Missing}
  PROVE  WorkersFit'
<1>1. t \in Work /\ work \in [Workers -> Work]
  BY DEF Fits, WorkersFit
<1>2. work' \in [Workers -> Work] /\ \A v \in Workers : work'[v] = IF v = w THEN t ELSE work[v]
  BY <1>1
<1>3. ASSUME NEW v \in Workers, v # w PROVE Fits(work[v], report[v], rows', recs', score')
  <2>1. Fits(work[v], report[v], rows, recs, score)
    BY DEF WorkersFit
  <2>2. work[v].step \in {"merge", "forget", "dismiss"} /\ recs[work[v].id] \in Rec
          => recs'[work[v].id] \in Rec
    BY <2>1 DEF Fits
  <2> QED
    BY <1>3, <2>1, <2>2, StillFits
<1>4. ASSUME NEW v \in Workers PROVE Fits(work'[v], report'[v], rows', recs', score')
  BY <1>2, <1>3
<1> QED
  BY <1>2, <1>4 DEF WorkersFit

(* A step of a worker that leaves the tables alone.                                *)
LEMMA TablesAlone ==
  ASSUME MeshInv, NEW w \in Workers, NEW t, work' = [work EXCEPT ![w] = t],
         Fits(t, report[w], rows, recs, score), KernelTypes',
         UNCHANGED <<rows, recs, score, report>>
  PROVE  MeshInv'
<1>1. Upheld(score, score')
  BY DEF Upheld
<1>2. report \in [Workers -> Report] /\ WorkersFit
  BY DEF MeshInv, WorkersFit
<1>3. /\ report' \in [Workers -> Report] /\ \A v \in Workers \ {w} : report'[v] = report[v]
      /\ \A i \in RecIds : recs[i] \in Rec => recs'[i] \in Rec
      /\ \A v \in Workers \ {w} :
           work[v].step = "demote" => rows'[work[v].id] \in {rows[work[v].id], Missing}
      /\ Fits(t, report'[w], rows', recs', score')
  BY <1>2
<1>4. WorkersFit'
  BY <1>1, <1>2, <1>3, WorkerMoves
<1> QED
  BY <1>4 DEF MeshInv, RowsWarranted, RecTypes, ScoresSupported

(* What every step of a worker starts from.                                        *)
LEMMA WorkerFacts ==
  ASSUME MeshInv, NEW w \in Workers
  PROVE  /\ KernelTypes /\ RowsWarranted /\ RecTypes /\ ScoresSupported /\ WorkersFit
         /\ work \in [Workers -> Work] /\ work[w] \in Work /\ report[w] \in Report
         /\ Fits(work[w], report[w], rows, recs, score)
         /\ MaxCalls \in Nat /\ calls \in Nat
         /\ Call => calls' \in 0 .. MaxCalls
BY FirewallAssumption DEF MeshInv, KernelTypes, WorkersFit, Call

QuietSteps == {"none", "read", "rename", "scan", "push"}

LEMMA QuietFits ==
  ASSUME NEW t \in Work, t.step \in QuietSteps, NEW q, NEW tab, NEW rc, NEW sc
  PROVE  Fits(t, q, tab, rc, sc)
BY DEF Fits, QuietSteps

LEMMA FreeType ==
  /\ Free \in Work /\ Free.step = "none" /\ Free.left = {} /\ Free.row = Missing
BY DEF Free, Work, Steps, NoFiles

LEMMA ListedType ==
  ASSUME RowsWarranted, NEW list
  PROVE  Listed(list) \subseteq Addresses
BY DEF RowsWarranted, Listed, Row

(* The list of the operator, as far as a request reads it.                          *)
LEMMA ListSteps ==
  ASSUME MeshInv, NEW w \in Workers, UNCHANGED poolVars,
         \/ \E ip \in Addresses, list \in Lists : AddEntry(w, ip, list)
         \/ \E i \in RowIds : RemoveEntry(w, i)
         \/ ApplyRow(w) \/ ReadRows(w) \/ RenameFile(w)
  PROVE  MeshInv'
<1>0. /\ KernelTypes /\ RowsWarranted /\ work[w] \in Work /\ (Call => calls' \in 0 .. MaxCalls)
      /\ Fits(work[w], report[w], rows, recs, score) /\ UNCHANGED <<score, report>>
  BY WorkerFacts DEF poolVars
<1>1. ASSUME NEW ip \in Addresses, NEW list \in Lists, AddEntry(w, ip, list) PROVE MeshInv'
  <2> DEFINE row == [ip |-> ip, list |-> list, by |-> "admin"]
             t == [Free EXCEPT !.step = "insert", !.row = row]
  <2>1. row \in Row /\ row.by # "system"
    BY DEF Row
  <2>2. t \in Work /\ t.step = "insert" /\ t.row = row /\ t.left = {}
    BY <2>1, FreeType DEF Work, Steps
  <2>3. work' = [work EXCEPT ![w] = t] /\ UNCHANGED <<rows, live, bootFile, recs>> /\ Call
    BY <1>1 DEF AddEntry, Set
  <2> HIDE DEF row, t
  <2>4. Fits(t, report[w], rows, recs, score)
    BY <2>1, <2>2 DEF Fits
  <2>5. KernelTypes'
    BY <1>0, <2>3 DEF KernelTypes
  <2> QED
    BY <1>0, <2>3, <2>4, <2>5, TablesAlone
<1>2. ASSUME NEW i \in RowIds, RemoveEntry(w, i) PROVE MeshInv'
  <2> DEFINE t == [Free EXCEPT !.step = "erase", !.id = i]
  <2>1. t \in Work /\ t.step = "erase" /\ t.id = i
    BY FreeType DEF Work, Steps
  <2>2. /\ work' = [work EXCEPT ![w] = t] /\ UNCHANGED <<rows, bootFile, recs>> /\ Call
        /\ live' \in {live, [live EXCEPT ![rows[i].list] = @ \ {rows[i].ip}]}
        /\ rows[i] # Missing
    BY <1>2 DEF RemoveEntry, Set
  <2> HIDE DEF t
  <2>3. Fits(t, report[w], rows, recs, score)
    BY <2>1 DEF Fits
  <2>4. rows[i].list \in Lists
    BY <1>0, <2>2 DEF RowsWarranted, Row
  <2>5. KernelTypes'
    BY <1>0, <2>2, <2>4 DEF KernelTypes, Lists
  <2> QED
    BY <1>0, <2>2, <2>3, <2>5, TablesAlone
<1>3. CASE ApplyRow(w)
  <2> DEFINE step == IF work[w].row.by = "admin" THEN "read" ELSE "promote"
             t == [work[w] EXCEPT !.step = step]
  <2>1. /\ work[w].row \in Row /\ work[w].step = "apply"
        /\ \A ip \in work[w].left : Warranted(ip, score)
    BY <1>0, <1>3 DEF ApplyRow, Fits
  <2>2. t \in Work /\ t.step \in {"read", "promote"} /\ t.left = work[w].left
    BY <1>0 DEF Work, Steps
  <2>3. /\ work' = [work EXCEPT ![w] = t] /\ UNCHANGED <<rows, bootFile, recs, calls>>
        /\ \/ /\ work[w].row.ip \in V4
              /\ live' = [live EXCEPT ![work[w].row.list] = @ \union {work[w].row.ip}]
           \/ UNCHANGED live
    BY <1>3 DEF ApplyRow, Go, Set
  <2> HIDE DEF step, t
  <2>4. Fits(t, report[w], rows, recs, score)
    BY <2>1, <2>2 DEF Fits
  <2>5. KernelTypes'
    <3>1. work[w].row.list \in Lists
      BY <2>1 DEF Row
    <3> QED
      BY <1>0, <2>3, <3>1 DEF KernelTypes, Lists
  <2> QED
    BY <1>0, <2>3, <2>4, <2>5, TablesAlone
<1>4. CASE ReadRows(w)
  <2> DEFINE files == [l \in Lists |-> IF Listed(l) = {} THEN bootFile[l] ELSE Listed(l)]
             t == [Free EXCEPT !.step = "rename", !.files = files]
  <2>1. files \in [Lists -> SUBSET Addresses]
    BY <1>0, ListedType DEF KernelTypes
  <2>2. work' = [work EXCEPT ![w] = t] /\ UNCHANGED <<rows, live, bootFile, recs, calls>>
    BY <1>4 DEF ReadRows, Set
  <2> HIDE DEF files
  <2>3. t \in Work /\ t.step = "rename"
    BY <2>1, FreeType DEF Work, Steps
  <2> HIDE DEF t
  <2>4. Fits(t, report[w], rows, recs, score)
    BY <2>3, QuietFits DEF QuietSteps
  <2>5. KernelTypes'
    BY <1>0, <2>2 DEF KernelTypes
  <2> QED
    BY <1>0, <2>2, <2>4, <2>5, TablesAlone
<1>5. CASE RenameFile(w)
  <2>1. /\ work' = [work EXCEPT ![w] = Free] /\ UNCHANGED <<rows, live, recs, calls>>
        /\ bootFile' \in {bootFile, work[w].files}
    BY <1>5 DEF RenameFile, Stop, Set
  <2>2. KernelTypes'
    BY <1>0, <2>1 DEF KernelTypes, Work
  <2>3. Fits(Free, report[w], rows, recs, score)
    BY FreeType, QuietFits DEF QuietSteps
  <2> QED
    BY <1>0, <2>1, <2>2, <2>3, TablesAlone
<1> QED
  BY <1>1, <1>2, <1>3, <1>4, <1>5

(* Recommendations, as far as they only read them, and bans.                        *)
LEMMA ReaderSteps ==
  ASSUME MeshInv, NEW w \in Workers, UNCHANGED poolVars,
         \/ ScanBegin(w) \/ MergeElements(w)
         \/ \E i \in RecIds : ApplyRec(w, i) \/ DismissRec(w, i)
         \/ \E ip \in Addresses : SweepBegin(w, ip)
         \/ SweepBanned(w) \/ SweepWhite(w) \/ SweepBan(w)
  PROVE  MeshInv'
<1>0. /\ KernelTypes /\ RecTypes /\ work[w] \in Work /\ (Call => calls' \in 0 .. MaxCalls)
      /\ Fits(work[w], report[w], rows, recs, score) /\ UNCHANGED <<score, report>>
      /\ work \in [Workers -> Work]
  BY WorkerFacts DEF poolVars
<1>1. ASSUME NEW i \in RecIds, ApplyRec(w, i) \/ DismissRec(w, i) PROVE MeshInv'
  <2> DEFINE t(step) == [Free EXCEPT !.step = step, !.id = i]
  <2>1. recs[i] \in Rec
    BY <1>0, <1>1 DEF ApplyRec, DismissRec, RecTypes
  <2>2. ASSUME NEW step \in {"merge", "dismiss"} PROVE Fits(t(step), report[w], rows, recs, score)
    <3>1. t(step) \in Work /\ t(step).step = step /\ t(step).id = i
      BY <2>2, FreeType DEF Work, Steps
    <3> HIDE DEF t
    <3> QED
      BY <2>1, <2>2, <3>1 DEF Fits
  <2>3. /\ UNCHANGED <<rows, bootFile, recs>> /\ Call
        /\ \/ UNCHANGED work
           \/ work' = [work EXCEPT ![w] = t("merge")] \/ work' = [work EXCEPT ![w] = t("dismiss")]
        /\ live' \in {live, [live EXCEPT !.blacklist = @ \union {Net}]}
    BY <1>1 DEF ApplyRec, DismissRec, Set
  <2> HIDE DEF t
  <2>4. KernelTypes'
    BY <1>0, <2>3 DEF KernelTypes
  <2>5. PICK u : Fits(u, report[w], rows, recs, score) /\ work' = [work EXCEPT ![w] = u]
    <3>1. CASE UNCHANGED work
      <4>1. work' = [work EXCEPT ![w] = work[w]]
        BY <1>0, <3>1
      <4> QED
        BY <1>0, <4>1
    <3> QED
      BY <2>2, <2>3, <3>1
  <2> QED
    BY <1>0, <2>3, <2>4, <2>5, TablesAlone
<1>2. CASE ScanBegin(w)
  <2> DEFINE t == [work[w] EXCEPT !.step = "scan"]
  <2>1. t \in Work /\ t.step = "scan"
    BY <1>0 DEF Work, Steps
  <2>2. work' = [work EXCEPT ![w] = t] /\ UNCHANGED <<rows, live, bootFile, recs>> /\ Call
    BY <1>2 DEF ScanBegin, Go, Set
  <2> HIDE DEF t
  <2>3. Fits(t, report[w], rows, recs, score)
    BY <2>1, QuietFits DEF QuietSteps
  <2>4. KernelTypes'
    BY <1>0, <2>2 DEF KernelTypes
  <2> QED
    BY <1>0, <2>2, <2>3, <2>4, TablesAlone
<1>3. CASE MergeElements(w)
  <2> DEFINE t == [work[w] EXCEPT !.step = "forget"]
  <2>1. t \in Work /\ t.step = "forget" /\ t.id = work[w].id
    BY <1>0 DEF Work, Steps
  <2>2. work[w].step = "merge" /\ work[w].id \in RecIds /\ recs[work[w].id] \in Rec
    BY <1>0, <1>3 DEF MergeElements, Fits
  <2>3. PICK gone : /\ live' = [live EXCEPT !.blacklist = @ \ gone]
                    /\ work' = [work EXCEPT ![w] = t]
                    /\ UNCHANGED <<rows, bootFile, recs, calls>>
    BY <1>3 DEF MergeElements, Go, Set
  <2> HIDE DEF t
  <2>4. Fits(t, report[w], rows, recs, score)
    BY <2>1, <2>2 DEF Fits
  <2>5. KernelTypes'
    BY <1>0, <2>3 DEF KernelTypes
  <2> QED
    BY <1>0, <2>3, <2>4, <2>5, TablesAlone
<1>4. ASSUME NEW ip \in Addresses, SweepBegin(w, ip) PROVE MeshInv'
  <2> DEFINE t == [Free EXCEPT !.step = "banned", !.left = {ip}]
  <2>1. ip \in V4
    BY <1>4 DEF SweepBegin
  <2>2. t \in Work /\ t.step = "banned" /\ t.left = {ip}
    BY FreeType DEF Work, Steps
  <2>3. work' = [work EXCEPT ![w] = t] /\ UNCHANGED <<rows, live, bootFile, recs>> /\ Call
    BY <1>4 DEF SweepBegin, Set
  <2> HIDE DEF t
  <2>4. Fits(t, report[w], rows, recs, score)
    BY <2>1, <2>2 DEF Fits
  <2>5. KernelTypes'
    BY <1>0, <2>3 DEF KernelTypes
  <2> QED
    BY <1>0, <2>3, <2>4, <2>5, TablesAlone
<1>5. CASE SweepBanned(w) \/ SweepWhite(w) \/ SweepBan(w)
  <2>1. work[w].step \in {"banned", "white", "ban"} /\ work[w].left \subseteq V4
    BY <1>0, <1>5 DEF SweepBanned, SweepWhite, SweepBan, Fits
  <2>2. PICK t : /\ work' = [work EXCEPT ![w] = t]
                 /\ \/ t = Free
                    \/ \E step \in {"white", "ban"} : t = [work[w] EXCEPT !.step = step]
    BY <1>5 DEF SweepBanned, SweepWhite, SweepBan, Stop, Go, Set
  <2>3. /\ t \in Work /\ t.step \in {"none", "white", "ban"}
        /\ t.left \in {{}, work[w].left}
    BY <1>0, <2>2, FreeType DEF Work, Steps
  <2>4. Fits(t, report[w], rows, recs, score)
    BY <2>1, <2>3 DEF Fits
  <2>5. /\ UNCHANGED <<rows, bootFile, recs, calls>>
        /\ live' \in {live, [live EXCEPT !.temp_ban = @ \union work[w].left]}
    BY <1>5 DEF SweepBanned, SweepWhite, SweepBan
  <2>6. KernelTypes'
    BY <1>0, <2>1, <2>5 DEF KernelTypes
  <2> QED
    BY <1>0, <2>2, <2>4, <2>5, <2>6, TablesAlone
<1> QED
  BY <1>1, <1>2, <1>3, <1>4, <1>5

(* A step that also writes rows of the list or recommendations: a row it makes is   *)
(* warranted and its number nobody's.                                             *)
LEMMA TablesMove ==
  ASSUME MeshInv, NEW w \in Workers, NEW t, work' = [work EXCEPT ![w] = t],
         Fits(t, report[w], rows', recs', score), KernelTypes', RecTypes',
         \A i \in RecIds : recs[i] \in Rec => recs'[i] \in Rec,
         rows' \in [RowIds -> Row \union {Missing}],
         \A i \in RowIds : \/ rows'[i] \in {rows[i], Missing}
                           \/ /\ Condemned(rows'[i], score)
                              /\ \A v \in Workers : work[v].id # i,
         UNCHANGED <<score, report>>
  PROVE  MeshInv'
<1>1. Upheld(score, score') /\ UNCHANGED <<score, report>>
  BY DEF Upheld
<1>2. /\ report \in [Workers -> Report] /\ WorkersFit /\ RowsWarranted
      /\ \A v \in Workers : Fits(work[v], report[v], rows, recs, score)
  BY DEF MeshInv, WorkersFit
<1>3. ASSUME NEW v \in Workers, work[v].step = "demote"
      PROVE  rows'[work[v].id] \in {rows[work[v].id], Missing}
  <2>1. work[v].id \in RowIds
    BY <1>2, <1>3 DEF Fits
  <2> QED
    BY <2>1
<1>4. WorkersFit'
  BY <1>1, <1>2, <1>3, WorkerMoves
<1>5. RowsWarranted'
  BY <1>1, <1>2 DEF RowsWarranted, Condemned
<1> QED
  BY <1>4, <1>5 DEF MeshInv, RecTypes, ScoresSupported

LEMMA WriterSteps ==
  ASSUME MeshInv, NEW w \in Workers, UNCHANGED poolVars,
         \/ InsertRow(w) \/ EraseRow(w) \/ ScanEnd(w) \/ ForgetRows(w) \/ DismissEnd(w)
         \/ DemoteCommit(w)
  PROVE  MeshInv'
<1>0. /\ KernelTypes /\ RecTypes /\ RowsWarranted /\ work[w] \in Work
      /\ Fits(work[w], report[w], rows, recs, score) /\ UNCHANGED <<score, report>>
      /\ rows \in [RowIds -> Row \union {Missing}] /\ recs \in [RecIds -> Rec \union {Missing}]
  BY WorkerFacts DEF poolVars, RowsWarranted, RecTypes
<1>1. ASSUME UNCHANGED <<live, bootFile, calls>> PROVE KernelTypes'
  BY <1>0, <1>1 DEF KernelTypes
<1>2. ASSUME NEW q, NEW tab, NEW rc, NEW sc PROVE Fits(Free, q, tab, rc, sc)
  BY FreeType, QuietFits DEF QuietSteps
<1>3. CASE InsertRow(w)
  <2> DEFINE m == Min(UnusedIds)
             t == [work[w] EXCEPT !.step = "apply"]
  <2>1. m \in UnusedIds
    <3>1. UnusedIds \in SUBSET Nat /\ UnusedIds # {}
      BY <1>3, FirewallAssumption DEF InsertRow, UnusedIds
    <3> QED
      BY <3>1, LeastIsMember
  <2>2. m \in RowIds /\ \A v \in Workers : work[v].id # m
    BY <2>1 DEF UnusedIds
  <2>3. t \in Work /\ t.step = "apply" /\ t.row = work[w].row /\ t.left = work[w].left
    BY <1>0 DEF Work, Steps
  <2>4. /\ work' = [work EXCEPT ![w] = t] /\ rows' = [rows EXCEPT ![m] = work[w].row]
        /\ UNCHANGED <<live, bootFile, recs, calls>> /\ work[w].step = "insert"
    BY <1>3 DEF InsertRow, Go, Set
  <2> HIDE DEF m, t
  <2>5. work[w].row \in Row /\ Condemned(work[w].row, score)
    BY <1>0, <2>4 DEF Fits, Condemned
  <2>6. Fits(t, report[w], rows', recs', score)
    BY <1>0, <2>3, <2>4 DEF Fits
  <2>7. /\ rows' \in [RowIds -> Row \union {Missing}]
        /\ \A i \in RowIds : rows'[i] = rows[i] \/ (i = m /\ rows'[i] = work[w].row)
    BY <1>0, <2>4, <2>5
  <2>8. RecTypes' /\ recs' = recs
    BY <1>0, <2>4 DEF RecTypes
  <2> QED
    BY <1>0, <1>1, <2>2, <2>4, <2>5, <2>6, <2>7, <2>8, TablesMove
<1>4. CASE EraseRow(w) \/ DemoteCommit(w)
  <2> DEFINE t == IF EraseRow(w) THEN [Free EXCEPT !.step = "read"] ELSE Free
  <2>1. t \in Work /\ t.step \in QuietSteps
    BY FreeType DEF Work, Steps, QuietSteps
  <2>2. /\ work' = [work EXCEPT ![w] = t] /\ rows' = [rows EXCEPT ![work[w].id] = Missing]
        /\ UNCHANGED <<live, bootFile, recs, calls>>
    BY <1>4 DEF EraseRow, DemoteCommit, Stop, Set
  <2> HIDE DEF t
  <2>3. Fits(t, report[w], rows', recs', score)
    BY <2>1, QuietFits
  <2>4. /\ rows' \in [RowIds -> Row \union {Missing}]
        /\ \A i \in RowIds : rows'[i] \in {rows[i], Missing}
    BY <1>0, <2>2
  <2>5. RecTypes' /\ recs' = recs
    BY <1>0, <2>2 DEF RecTypes
  <2> QED
    BY <1>0, <1>1, <2>2, <2>3, <2>4, <2>5, TablesMove
<1>5. CASE ScanEnd(w)
  <2> DEFINE q == [status |-> "pending", covered |-> Uncovered]
  <2>1. q \in Rec
    BY DEF Uncovered, Rec
  <2>2. PICK i : recs' \in {recs, [recs EXCEPT ![i] = q]}
    BY <1>5 DEF ScanEnd
  <2>3. work' = [work EXCEPT ![w] = Free] /\ UNCHANGED <<rows, live, bootFile, calls>>
    BY <1>5 DEF ScanEnd, Stop, Set
  <2> HIDE DEF q
  <2>4. /\ recs' \in [RecIds -> Rec \union {Missing}]
        /\ \A j \in RecIds : recs[j] \in Rec => recs'[j] \in Rec
    BY <1>0, <2>1, <2>2
  <2> QED
    BY <1>0, <1>1, <1>2, <2>3, <2>4, TablesMove DEF RecTypes
<1>6. CASE DismissEnd(w) \/ ForgetRows(w)
  <2>1. work[w].id \in RecIds /\ recs[work[w].id] \in Rec
    BY <1>0, <1>6 DEF DismissEnd, ForgetRows, Fits
  <2>2. PICK status \in {"dismissed", "applied"} :
          recs' = [recs EXCEPT ![work[w].id].status = status]
    BY <1>6 DEF DismissEnd, ForgetRows
  <2>3. [recs[work[w].id] EXCEPT !.status = status] \in Rec
    BY <2>1 DEF Rec
  <2>4. /\ recs' \in [RecIds -> Rec \union {Missing}]
        /\ \A j \in RecIds : recs[j] \in Rec => recs'[j] \in Rec
    BY <1>0, <2>1, <2>2, <2>3
  <2>5. /\ rows' \in [RowIds -> Row \union {Missing}]
        /\ \A i \in RowIds : rows'[i] \in {rows[i], Missing}
    BY <1>0, <1>6 DEF DismissEnd, ForgetRows
  <2>6. work' = [work EXCEPT ![w] = Free] /\ UNCHANGED <<live, bootFile, calls>>
    BY <1>6 DEF DismissEnd, ForgetRows, Stop, Set
  <2> QED
    BY <1>0, <1>1, <1>2, <2>4, <2>5, <2>6, TablesMove DEF RecTypes
<1> QED
  BY <1>3, <1>4, <1>5, <1>6

(* What reaches the kernel's sets from outside of the workers.                      *)
LEMMA KernelSteps ==
  ASSUME MeshInv, UNCHANGED poolVars,
         \/ \E ip \in V4, list \in Lists : RemoveElement(ip, list)
         \/ \E ip \in V4 : BanExpires(ip)
         \/ RestartNft
  PROVE  MeshInv'
<1>1. KernelTypes /\ calls \in Nat /\ MaxCalls \in Nat /\ UNCHANGED <<score, report>>
  BY FirewallAssumption DEF MeshInv, KernelTypes, poolVars
<1>2. calls' \in 0 .. MaxCalls /\ UNCHANGED <<rows, bootFile, recs, work>>
  BY <1>1 DEF RemoveElement, BanExpires, RestartNft, Call, KernelTypes
<1>3. live' \in [whitelist : SUBSET V4, blacklist : SUBSET (V4 \union {Net}), temp_ban : SUBSET V4]
  BY <1>1 DEF RemoveElement, BanExpires, RestartNft, KernelTypes, Lists
<1>4. KernelTypes'
  BY <1>1, <1>2, <1>3 DEF KernelTypes
<1> QED
  BY <1>1, <1>2, <1>4 DEF MeshInv, RowsWarranted, RecTypes, ScoresSupported, WorkersFit

-------------------------------------------------------------------------------
(* The best of the scores of an address.                                          *)
LEMMA BestScoreIs ==
  ASSUME ScoresSupported, NEW s \in Spellings
  PROVE  /\ BestScore(s) \in Scores \union {0}
         /\ \A t \in Tenants : score[<<s, t>>] <= BestScore(s)
         /\ \E t \in Tenants : score[<<s, t>>] = BestScore(s)
<1> DEFINE S == {score[<<s, t>>] : t \in Tenants}
<1>1. /\ S # {}
      /\ \A q \in S : q \in {0, 40, 65, 80, 88, 95}
  <2>1. ASSUME NEW t \in Tenants PROVE score[<<s, t>>] \in {0, 40, 65, 80, 88, 95}
    BY DEF ScoresSupported, Scores
  <2>2. PICK t \in Tenants : TRUE
    BY PoolAssumption
  <2>3. S # {}
    BY <2>2
  <2>4. ASSUME NEW q \in S PROVE q \in {0, 40, 65, 80, 88, 95}
    <3>1. PICK u \in Tenants : q = score[<<s, u>>]
      BY <2>4
    <3> QED
      BY <2>1, <3>1
  <2> QED
    BY <2>3, <2>4
<1>2. BestScore(s) = Max(S)
  BY DEF BestScore
<1>3. \E p \in S : \A q \in S : p >= q
  <2> HIDE DEF S
  <2>1. ASSUME NEW p \in S, \A q \in S : q <= p PROVE \E u \in S : \A q \in S : u >= q
    BY <1>1, <2>1
  <2>2. \/ 95 \in S
        \/ 88 \in S /\ 95 \notin S
        \/ 80 \in S /\ 88 \notin S /\ 95 \notin S
        \/ 65 \in S /\ 80 \notin S /\ 88 \notin S /\ 95 \notin S
        \/ 40 \in S /\ 65 \notin S /\ 80 \notin S /\ 88 \notin S /\ 95 \notin S
        \/ 0 \in S /\ 40 \notin S /\ 65 \notin S /\ 80 \notin S /\ 88 \notin S /\ 95 \notin S
    BY <1>1
  <2>3. \E p \in S : p \in {0, 40, 65, 80, 88, 95} /\ \A q \in S : q <= p
    BY <1>1, <2>2
  <2> QED
    BY <2>1, <2>3
<1>4. Max(S) \in S /\ \A q \in S : Max(S) >= q
  <2> HIDE DEF S
  <2> QED
    BY <1>3 DEF Max
<1>5. Max(S) \in Scores \union {0} /\ \A q \in S : q <= Max(S)
  <2> HIDE DEF S
  <2> QED
    BY <1>1, <1>4 DEF Scores
<1> QED
  BY <1>2, <1>4, <1>5

LEMMA PoolReads ==
  ASSUME MeshInv, NEW w \in Workers, UNCHANGED poolVars,
         \/ \E i \in RowIds : DemoteBegin(w, i)
         \/ Promote(w) \/ Promoted(w) \/ SyncBegin(w) \/ SyncPush(w)
  PROVE  MeshInv'
<1>0. /\ KernelTypes /\ RecTypes /\ RowsWarranted /\ work[w] \in Work
      /\ ScoresSupported /\ (Call => calls' \in 0 .. MaxCalls)
      /\ Fits(work[w], report[w], rows, recs, score) /\ UNCHANGED <<score, report>>
  BY WorkerFacts DEF poolVars
<1>1. Fits(Free, report[w], rows, recs, score)
  BY FreeType, QuietFits DEF QuietSteps
<1>2. ASSUME NEW i \in RowIds, DemoteBegin(w, i) PROVE MeshInv'
  <2> DEFINE t == [Free EXCEPT !.step = "demote", !.id = i]
  <2>1. t \in Work /\ t.step = "demote" /\ t.id = i
    BY FreeType DEF Work, Steps
  <2>2. /\ work' = [work EXCEPT ![w] = t] /\ UNCHANGED <<rows, bootFile, recs>> /\ Call
        /\ live' \in {live, [live EXCEPT !.blacklist = @ \ {rows[i].ip}]}
        /\ Stale(i)
    BY <1>2 DEF DemoteBegin, Set
  <2> HIDE DEF t
  <2>3. Misspelt(rows[i].ip, score)
    <3>1. PICK s \in Spellings, u \in Tenants :
            Canonical[s] = rows[i].ip /\ score[<<s, u>>] >= PromoteAt
      BY <1>0, <2>2 DEF Stale, RowsWarranted, Condemned, Warranted
    <3>2. s # rows[i].ip
      <4>1. SUFFICES ASSUME s = rows[i].ip PROVE FALSE
        OBVIOUS
      <4>2. BestScore(s) < 50 /\ score[<<s, u>>] >= 65
        BY <2>2, <3>1, <4>1 DEF Stale, DemoteBelow, PromoteAt
      <4>3. BestScore(s) \in Nat /\ score[<<s, u>>] <= BestScore(s) /\ score[<<s, u>>] \in Nat
        BY <1>0, BestScoreIs DEF ScoresSupported, Scores
      <4> QED
        BY <4>2, <4>3
    <3> QED
      BY <3>1, <3>2 DEF Misspelt
  <2>4. Fits(t, report[w], rows, recs, score)
    BY <2>1, <2>3 DEF Fits
  <2>5. KernelTypes'
    BY <1>0, <2>2 DEF KernelTypes
  <2> QED
    BY <1>0, <2>2, <2>4, <2>5, TablesAlone
<1>3. CASE Promote(w)
  <2>1. work[w].step = "promote" /\ \A ip \in work[w].left : Warranted(ip, score)
    BY <1>0, <1>3 DEF Promote, Fits
  <2>2. PICK t : \E ip \in work[w].left :
          /\ work' = [work EXCEPT ![w] = t]
          /\ \/ t = [work[w] EXCEPT !.left = @ \ {ip}]
             \/ t = [work[w] EXCEPT !.left = {}]
             \/ \E step \in {"insert", "apply"} :
                  t = [[work[w] EXCEPT !.left = @ \ {ip}] EXCEPT !.step = step,
                         !.row = [ip |-> ip, list |-> "blacklist", by |-> "system"]]
    BY <1>3 DEF Promote, Set
  <2>3. ASSUME NEW ip \in work[w].left
        PROVE  /\ [ip |-> ip, list |-> "blacklist", by |-> "system"] \in Row
               /\ Warranted(ip, score)
    BY <1>0, <2>1 DEF Work, Row, Lists
  <2>4. /\ t \in Work /\ t.left \subseteq work[w].left
        /\ \/ t.step = "promote"
           \/ /\ t.step \in {"insert", "apply"} /\ t.row \in Row
              /\ Warranted(t.row.ip, score)
    <3>1. PICK ip \in work[w].left :
            \/ t = [work[w] EXCEPT !.left = @ \ {ip}]
            \/ t = [work[w] EXCEPT !.left = {}]
            \/ \E step \in {"insert", "apply"} :
                 t = [[work[w] EXCEPT !.left = @ \ {ip}] EXCEPT !.step = step,
                        !.row = [ip |-> ip, list |-> "blacklist", by |-> "system"]]
      BY <2>2
    <3> DEFINE rest == [work[w] EXCEPT !.left = @ \ {ip}]
               row == [ip |-> ip, list |-> "blacklist", by |-> "system"]
    <3>2. rest \in Work /\ rest.step = "promote" /\ rest.left \subseteq work[w].left
      BY <1>0, <2>1 DEF Work
    <3>3. row \in Row /\ row.ip = ip /\ Warranted(ip, score)
      BY <2>3
    <3>4. CASE t = rest
      BY <3>2, <3>4
    <3>5. CASE t = [work[w] EXCEPT !.left = {}]
      BY <1>0, <2>1, <3>5 DEF Work
    <3>6. ASSUME NEW step \in {"insert", "apply"}, t = [rest EXCEPT !.step = step, !.row = row]
          PROVE  /\ t \in Work /\ t.left \subseteq work[w].left
                 /\ t.step = step /\ t.row = row
      <4> HIDE DEF rest, row
      <4> QED
        BY <3>2, <3>3, <3>6 DEF Work, Steps
    <3>7. CASE \E step \in {"insert", "apply"} : t = [rest EXCEPT !.step = step, !.row = row]
      <4> HIDE DEF rest, row
      <4> QED
        BY <3>3, <3>6, <3>7
    <3> QED
      BY <3>1, <3>4, <3>5, <3>7
  <2>5. Fits(t, report[w], rows, recs, score)
    <3>1. \A ip \in t.left : Warranted(ip, score)
      BY <2>1, <2>4
    <3> QED
      BY <2>4, <3>1 DEF Fits
  <2>6. UNCHANGED <<rows, live, bootFile, recs, calls>>
    BY <1>3 DEF Promote
  <2>7. KernelTypes'
    BY <1>0, <2>6 DEF KernelTypes
  <2> QED
    BY <1>0, <2>2, <2>5, <2>6, <2>7, TablesAlone
<1>4. CASE Promoted(w) \/ SyncPush(w)
  <2> DEFINE t == [Free EXCEPT !.step = "push"]
  <2>1. t \in Work /\ t.step = "push"
    BY FreeType DEF Work, Steps
  <2>2. work' \in {[work EXCEPT ![w] = t], [work EXCEPT ![w] = Free]}
    BY <1>4 DEF Promoted, SyncPush, Stop, Set
  <2> HIDE DEF t
  <2>3. Fits(t, report[w], rows, recs, score)
    BY <2>1, QuietFits DEF QuietSteps
  <2>4. PICK done2 \in SUBSET V4 :
          /\ live' \in {live, [live EXCEPT !.blacklist = @ \union done2]}
          /\ UNCHANGED <<rows, bootFile, recs, calls>>
    BY <1>4 DEF Promoted, SyncPush
  <2>5. KernelTypes'
    BY <1>0, <2>4 DEF KernelTypes
  <2> QED
    BY <1>0, <1>1, <2>2, <2>3, <2>4, <2>5, TablesAlone
<1>5. CASE SyncBegin(w)
  <2> DEFINE found == {s \in Spellings : BestScore(s) >= PromoteAt} \ Listed("blacklist")
             left == {Canonical[s] : s \in found}
             t == [Free EXCEPT !.step = "promote", !.then = "push", !.left = left]
  <2>1. ASSUME NEW s \in found PROVE Canonical[s] \in Addresses /\ Warranted(Canonical[s], score)
    <3>1. s \in Spellings /\ BestScore(s) >= PromoteAt
      OBVIOUS
    <3>2. PICK u \in Tenants : score[<<s, u>>] = BestScore(s)
      BY <1>0, <3>1, BestScoreIs
    <3> QED
      BY <3>1, <3>2, PoolAssumption DEF Warranted
  <2>2. left \subseteq Addresses /\ \A ip \in left : Warranted(ip, score)
    BY <2>1
  <2>3. work' = [work EXCEPT ![w] = t] /\ UNCHANGED <<rows, live, bootFile, recs>> /\ Call
    BY <1>5 DEF SyncBegin, Set
  <2> HIDE DEF found, left
  <2>4. t \in Work /\ t.step = "promote" /\ t.left = left
    BY <2>2, FreeType DEF Work, Steps
  <2> HIDE DEF t
  <2>5. Fits(t, report[w], rows, recs, score)
    BY <2>2, <2>4 DEF Fits
  <2>6. KernelTypes'
    BY <1>0, <2>3 DEF KernelTypes
  <2> QED
    BY <1>0, <2>3, <2>5, <2>6, TablesAlone
<1> QED
  BY <1>2, <1>3, <1>4, <1>5

(* Reports.  What one counts is what the pair's tenants give by then, or less; what *)
(* it found in its row was counted before.                                         *)
LEMMA ReportStarts ==
  ASSUME MeshInv, NEW w \in Workers, NEW s \in Spellings, NEW tn \in Tenants,
         ReportBegin(w, s, tn)
  PROVE  MeshInv'
<1>0. /\ KernelTypes /\ RowsWarranted /\ RecTypes /\ ScoresSupported /\ WorkersFit
      /\ work[w] \in Work /\ report[w] \in Report
      /\ (Call => calls' \in 0 .. MaxCalls)
      /\ score \in [Spellings \X Tenants -> Scores \union {0}] /\ Supported(score)
  BY WorkerFacts DEF ScoresSupported
<1> DEFINE t == [work[w] EXCEPT !.step = "report"]
           n == Cardinality(Backers(s, tn, score))
           q == [ip |-> s, tenant |-> tn, others |-> n, had |-> score[<<s, tn>>]]
<1>1. /\ work' = [work EXCEPT ![w] = t] /\ report' = [report EXCEPT ![w] = q] /\ Call
      /\ UNCHANGED <<rows, live, bootFile, recs, score>>
  BY DEF ReportBegin, ReportersOf, Backers, Go, Set
<1>2. n \in 0 .. Cardinality(Tenants) /\ n \in Nat
  BY BackersFinite, PoolAssumption, FS_CardinalityType
<1>3. t \in Work /\ t.step = "report"
  BY <1>0 DEF Work, Steps
<1>4. /\ score[<<s, tn>>] \in Scores \union {0}
      /\ score[<<s, tn>>] # 0 => score[<<s, tn>>] <= ScoreOf(n + 1)
  BY <1>0 DEF Supported
<1> HIDE DEF n
<1>5. q \in Reported /\ q.ip = s /\ q.tenant = tn /\ q.others = n /\ q.had = score[<<s, tn>>]
  BY <1>2, <1>4 DEF Reported
<1> HIDE DEF q, t
<1>6. n = Cardinality(Backers(s, tn, score))
  BY DEF n
<1>7. Read(q, score)
  BY <1>2, <1>4, <1>5, <1>6 DEF Read
<1>8. report' \in [Workers -> Report] /\ report'[w] = q
      /\ \A v \in Workers \ {w} : report'[v] = report[v]
  BY <1>0, <1>1, <1>5 DEF WorkersFit, Report, Reported
<1>9. Fits(t, report'[w], rows', recs', score') /\ Upheld(score, score')
  BY <1>1, <1>3, <1>7, <1>8 DEF Fits, Upheld
<1>10. WorkersFit'
  BY <1>0, <1>1, <1>8, <1>9, WorkerMoves
<1>11. KernelTypes'
  BY <1>0, <1>1 DEF KernelTypes
<1> QED
  BY <1>0, <1>1, <1>10, <1>11 DEF MeshInv, RowsWarranted, RecTypes, ScoresSupported

(* The commit of a report: the new score is what it counted, or the one there is; it *)
(* is above 0, and what promotes stays what promotes.                              *)
LEMMA ScoreWritten ==
  ASSUME MeshInv, NEW w \in Workers, work[w].step = "report", ~PairTaken(report[w]),
         score' = Written(report[w])
  PROVE  LET q == report[w]
             k == <<q.ip, q.tenant>>
             n == ScoreOf(q.others + 1)
         IN /\ q \in Reported /\ k \in Spellings \X Tenants /\ n \in Scores
            /\ score' = [score EXCEPT ![k] = IF n = q.had THEN score[k] ELSE n]
            /\ score'[k] = IF n = q.had THEN score[k] ELSE n
            /\ score[k] >= PromoteAt => score'[k] >= PromoteAt
            /\ n >= PromoteAt => score'[k] >= PromoteAt
            /\ score[k] # 0 => score'[k] # 0
            /\ score'[k] # 0 => score'[k] <= ScoreOf(Cardinality(Backers(q.ip, q.tenant, score)) + 1)
            /\ score'[k] < score[k] => score'[k] = n /\ q.had # score[k] /\ n >= PromoteAt
<1> DEFINE q == report[w]
           k == <<q.ip, q.tenant>>
           n == ScoreOf(q.others + 1)
           m == Cardinality(Backers(q.ip, q.tenant, score))
<1>1. /\ Read(q, score) /\ score \in [Spellings \X Tenants -> Scores \union {0}]
      /\ Supported(score)
  BY WorkerFacts DEF Fits, ScoresSupported
<1>2. /\ q \in Reported /\ q.ip \in Spellings /\ q.tenant \in Tenants
      /\ q.others \in Nat /\ q.had \in Scores \union {0} /\ k \in Spellings \X Tenants
  BY <1>1, PoolAssumption, FS_CardinalityType DEF Read, Reported
<1>3. m \in Nat /\ q.others <= m /\ ScoreOf(m + 1) \in Nat
  <2>1. m \in Nat
    BY BackersFinite, PoolAssumption, FS_CardinalityType
  <2> HIDE DEF n
  <2>2. q.others <= m
    BY <1>1 DEF Read
  <2> QED
    BY <2>1, <2>2, ScoreGrows
<1>4. /\ n \in Scores /\ n <= ScoreOf(m + 1) /\ n \in Nat /\ n >= 40
      /\ n # 40 => n >= PromoteAt
  <2> HIDE DEF m
  <2> QED
    BY <1>2, <1>3, ScoreGrows
<1>5. /\ score' = [score EXCEPT ![k] = IF n = q.had THEN score[k] ELSE n]
      /\ score'[k] = IF n = q.had THEN score[k] ELSE n
  BY <1>1, <1>2 DEF Written
<1>6. /\ score[k] \in Scores \union {0}
      /\ score[k] # 0 => score[k] <= ScoreOf(m + 1)
      /\ q.had = 0 => score[k] = 0
      /\ q.had # 0 => q.had <= n
      /\ q.had >= PromoteAt => score[k] >= PromoteAt
  BY <1>1, <1>2 DEF Read, Supported, PairTaken
<1> HIDE DEF m, n, q, k
<1>7. /\ score[k] \in Nat /\ q.had \in Nat /\ (q.had < PromoteAt => q.had \in {0, 40})
  BY <1>2, <1>6 DEF Scores, PromoteAt
<1>8. n = 40 => q.had \in {0, 40}
  BY <1>6, <1>7 DEF PromoteAt
<1>9. /\ score[k] >= PromoteAt => score'[k] >= PromoteAt
      /\ n >= PromoteAt => score'[k] >= PromoteAt
      /\ score[k] # 0 => score'[k] # 0
      /\ score'[k] # 0 => score'[k] <= ScoreOf(m + 1)
      /\ score'[k] < score[k] => score'[k] = n /\ q.had # score[k] /\ n >= PromoteAt
  <2>1. CASE n = q.had
    BY <1>4, <1>5, <1>6, <1>7, <2>1 DEF PromoteAt
  <2>2. CASE n # q.had
    <3>1. n # 40 \/ score[k] = 0
      BY <1>6, <1>8, <2>2
    <3>2. score'[k] = n
      BY <1>5, <2>2
    <3>3. n < score[k] => n >= PromoteAt
      BY <1>4, <1>7, <3>1
    <3>4. n < score[k] => q.had # score[k]
      BY <1>4, <1>6, <1>7
    <3> QED
      BY <1>3, <1>4, <1>7, <3>1, <3>2, <3>3, <3>4 DEF PromoteAt
  <2> QED
    BY <2>1, <2>2
<1> QED
  BY <1>2, <1>4, <1>5, <1>9 DEF m, n, q, k

LEMMA ReportEnds ==
  ASSUME MeshInv, NEW w \in Workers, ReportCommit(w)
  PROVE  MeshInv'
<1> DEFINE q == report[w]
           k == <<q.ip, q.tenant>>
           n == ScoreOf(q.others + 1)
<1>0. /\ KernelTypes /\ RowsWarranted /\ RecTypes /\ ScoresSupported /\ WorkersFit
      /\ score \in [Spellings \X Tenants -> Scores \union {0}] /\ Supported(score)
      /\ work[w].step = "report"
      /\ report' = [report EXCEPT ![w] = Missing]
      /\ UNCHANGED <<rows, live, bootFile, recs, calls>>
  BY WorkerFacts DEF ScoresSupported, ReportCommit
<1>1. /\ report' \in [Workers -> Report] /\ \A v \in Workers \ {w} : report'[v] = report[v]
  BY <1>0 DEF WorkersFit, Report
<1>2. KernelTypes'
  BY <1>0 DEF KernelTypes
<1>3. ASSUME NEW tab, NEW rc, NEW sc, NEW u PROVE Fits(Free, u, tab, rc, sc)
  BY FreeType, QuietFits DEF QuietSteps
<1>4. CASE PairTaken(q)
  <2>1. UNCHANGED score /\ work' = [work EXCEPT ![w] = Free]
    BY <1>4 DEF ReportCommit, Stop, Set
  <2>2. Upheld(score, score')
    BY <2>1 DEF Upheld
  <2>3. WorkersFit'
    BY <1>0, <1>1, <1>3, <2>1, <2>2, WorkerMoves
  <2> QED
    BY <1>0, <1>2, <2>1, <2>3 DEF MeshInv, RowsWarranted, RecTypes, ScoresSupported
<1>5. CASE ~PairTaken(q)
  <2> DEFINE t == [Free EXCEPT !.step = "promote", !.left = {Canonical[q.ip]}]
  <2>1. /\ score' = Written(q)
        /\ \/ n >= PromoteAt /\ work' = [work EXCEPT ![w] = t]
           \/ work' = [work EXCEPT ![w] = Free]
    BY <1>5 DEF ReportCommit, Stop, Set
  <2>2. /\ q \in Reported /\ k \in Spellings \X Tenants /\ n \in Scores
        /\ score' = [score EXCEPT ![k] = IF n = q.had THEN score[k] ELSE n]
        /\ score'[k] = IF n = q.had THEN score[k] ELSE n
        /\ score[k] >= PromoteAt => score'[k] >= PromoteAt
        /\ n >= PromoteAt => score'[k] >= PromoteAt
        /\ score[k] # 0 => score'[k] # 0
        /\ score'[k] # 0 => score'[k] <= ScoreOf(Cardinality(Backers(q.ip, q.tenant, score)) + 1)
    BY <1>0, <1>5, <2>1, ScoreWritten
  <2>3. q.ip \in Spellings /\ q.tenant \in Tenants /\ Canonical[q.ip] \in Addresses
    BY <2>2, PoolAssumption DEF Reported
  <2>4. t \in Work /\ t.step = "promote" /\ t.left = {Canonical[q.ip]}
    BY <2>3, FreeType DEF Work, Steps
  <2> HIDE DEF n, t
  <2>5. \A st \in Spellings \X Tenants : st # k => score'[st] = score[st]
    BY <1>0, <2>2
  <2>6. score' \in [Spellings \X Tenants -> Scores \union {0}]
    BY <1>0, <2>2
  <2> HIDE DEF k
  <2>7. Upheld(score, score')
    BY <2>2, <2>5 DEF Upheld
  <2>8. Supported(score')
    <3> SUFFICES ASSUME NEW s \in Spellings, NEW u \in Tenants, score'[<<s, u>>] # 0
                 PROVE  score'[<<s, u>>] <= ScoreOf(Cardinality(Backers(s, u, score')) + 1)
      BY DEF Supported
    <3>1. /\ Cardinality(Backers(s, u, score)) \in Nat
          /\ Cardinality(Backers(s, u, score')) \in Nat
          /\ Cardinality(Backers(s, u, score)) <= Cardinality(Backers(s, u, score'))
      BY <2>7, BackersFinite, BackersGrow, PoolAssumption, FS_CardinalityType
    <3>2. /\ ScoreOf(Cardinality(Backers(s, u, score)) + 1)
               <= ScoreOf(Cardinality(Backers(s, u, score')) + 1)
          /\ ScoreOf(Cardinality(Backers(s, u, score)) + 1) \in Nat
          /\ ScoreOf(Cardinality(Backers(s, u, score')) + 1) \in Nat
      BY <3>1, ScoreGrows
    <3>3. score'[<<s, u>>] <= ScoreOf(Cardinality(Backers(s, u, score)) + 1)
      <4>1. CASE <<s, u>> = k
        <5>1. s = q.ip /\ u = q.tenant
          BY <4>1 DEF k
        <5> QED
          BY <2>2, <4>1, <5>1
      <4>2. CASE <<s, u>> # k
        BY <1>0, <2>5, <4>2 DEF Supported
      <4> QED
        BY <4>1, <4>2
    <3>4. score'[<<s, u>>] \in Nat
      BY <2>6 DEF Scores
    <3> QED
      BY <3>2, <3>3, <3>4
  <2>9. n >= PromoteAt => Warranted(Canonical[q.ip], score')
    BY <2>2, <2>3 DEF Warranted, k
  <2>10. n >= PromoteAt => Fits(t, report'[w], rows', recs', score')
    BY <2>4, <2>9 DEF Fits
  <2>11. WorkersFit'
    BY <1>0, <1>1, <1>3, <2>1, <2>7, <2>10, WorkerMoves
  <2>12. RowsWarranted'
    BY <1>0, <2>7 DEF RowsWarranted, Condemned, Warranted, Upheld
  <2> QED
    BY <1>0, <1>2, <2>6, <2>8, <2>11, <2>12 DEF MeshInv, RecTypes, ScoresSupported
<1> QED
  BY <1>4, <1>5

LEMMA InterruptKept ==
  ASSUME MeshInv, NEW w \in Workers, Interrupt(w)
  PROVE  MeshInv'
<1>0. /\ KernelTypes /\ RowsWarranted /\ RecTypes /\ ScoresSupported /\ WorkersFit
      /\ (Call => calls' \in 0 .. MaxCalls)
  BY WorkerFacts
<1>1. /\ work' = [work EXCEPT ![w] = Free] /\ report' = [report EXCEPT ![w] = Missing]
      /\ UNCHANGED <<rows, live, bootFile, recs, score>> /\ Call
  BY DEF Interrupt, Stop, Set
<1>2. /\ report' \in [Workers -> Report] /\ \A v \in Workers \ {w} : report'[v] = report[v]
  BY <1>0, <1>1 DEF WorkersFit, Report
<1>3. Upheld(score, score') /\ Fits(Free, report'[w], rows', recs', score')
  BY <1>1, FreeType, QuietFits DEF Upheld, QuietSteps
<1>4. WorkersFit'
  BY <1>0, <1>1, <1>2, <1>3, WorkerMoves
<1>5. KernelTypes'
  BY <1>0, <1>1 DEF KernelTypes
<1> QED
  BY <1>0, <1>1, <1>4, <1>5 DEF MeshInv, RowsWarranted, RecTypes, ScoresSupported

-------------------------------------------------------------------------------
LEMMA MeshInvInit == PoolInit => MeshInv
<1> SUFFICES ASSUME PoolInit PROVE MeshInv
  OBVIOUS
<1>1. KernelTypes
  BY FirewallAssumption DEF PoolInit, FirewallInit, KernelTypes, NoFiles, Lists
<1>2. RowsWarranted
  BY DEF PoolInit, FirewallInit, RowsWarranted, Condemned
<1>3. RecTypes
  BY DEF PoolInit, FirewallInit, RecTypes
<1>4. ScoresSupported
  BY DEF PoolInit, ScoresSupported, Supported
<1>5. WorkersFit
  BY FreeType, QuietFits DEF PoolInit, FirewallInit, WorkersFit, QuietSteps, Report
<1> QED
  BY <1>1, <1>2, <1>3, <1>4, <1>5 DEF MeshInv

LEMMA MeshInvKept == MeshInv /\ [MeshNext]_meshVars => MeshInv'
<1> SUFFICES ASSUME MeshInv, [MeshNext]_meshVars PROVE MeshInv'
  OBVIOUS
<1>1. CASE UNCHANGED meshVars
  BY <1>1 DEF meshVars, firewallVars, poolVars, MeshInv, KernelTypes, RowsWarranted, RecTypes,
              ScoresSupported, WorkersFit
<1>2. CASE FirewallNext /\ UNCHANGED poolVars
  BY <1>2, ListSteps, ReaderSteps, WriterSteps, KernelSteps
  DEF FirewallNext, ListStep, RecStep, SweepStep
<1>3. ASSUME NEW w \in Workers, PoolStep(w) PROVE MeshInv'
  <2>1. CASE \E s \in Spellings, tn \in Tenants : ReportBegin(w, s, tn)
    BY <2>1, ReportStarts
  <2>2. CASE ReportCommit(w)
    BY <2>2, ReportEnds
  <2>3. CASE (\E i \in RowIds : DemoteBegin(w, i)) \/ Promote(w) \/ Promoted(w)
             \/ SyncBegin(w) \/ SyncPush(w)
    BY <2>3, PoolReads DEF DemoteBegin, Promote, Promoted, SyncBegin, SyncPush
  <2>4. CASE DemoteCommit(w)
    BY <2>4, WriterSteps DEF DemoteCommit
  <2> QED
    BY <1>3, <2>1, <2>2, <2>3, <2>4 DEF PoolStep
<1> QED
  BY <1>1, <1>2, <1>3, InterruptKept DEF MeshNext

LEMMA MeshInvariant == MeshSpec => []MeshInv
BY MeshInvInit, MeshInvKept, PTL DEF MeshSpec

(* The tables, the kernel's sets and the locals of the mesh keep their types.       *)
THEOREM MeshTypeCorrect == MeshSpec => []MeshTypeOK
<1>1. MeshInv => MeshTypeOK
  BY DEF MeshInv, MeshTypeOK, KernelTypes, RowsWarranted, RecTypes, ScoresSupported, WorkersFit
<1> QED
  BY MeshInvariant, <1>1, PTL

LEMMA MisspeltFromInv == MeshInv => OnlyMisspeltDemoted
<1> SUFFICES ASSUME MeshInv, NEW w \in Workers, work[w].step = "demote",
                    rows[work[w].id] # Missing
             PROVE  \E s \in Spellings :
                      s # rows[work[w].id].ip /\ Canonical[s] = rows[work[w].id].ip
                      /\ BestScore(s) >= PromoteAt
  BY DEF OnlyMisspeltDemoted
<1>1. Misspelt(rows[work[w].id].ip, score) /\ ScoresSupported
  BY WorkerFacts DEF Fits
<1>2. PICK s \in Spellings, u \in Tenants :
        s # rows[work[w].id].ip /\ Canonical[s] = rows[work[w].id].ip
        /\ score[<<s, u>>] >= PromoteAt
  BY <1>1 DEF Misspelt
<1>3. BestScore(s) \in Nat /\ score[<<s, u>>] \in Nat /\ score[<<s, u>>] <= BestScore(s)
  BY <1>1, BestScoreIs DEF ScoresSupported, Scores
<1> QED
  BY <1>2, <1>3 DEF PromoteAt

(* For any number of tenants, requests and passes: what was blacklisted on the word *)
(* of two tenants is taken off by the recovery pass only if plugins spell it        *)
(* otherwise than the table.                                                      *)
THEOREM WordStands == MeshSpec => []OnlyMisspeltDemoted
BY MeshInvariant, MisspeltFromInv, PTL

(* For any number of tenants: a score falls only where two reports of one tenant    *)
(* overlap, and never below what promotes the address.                             *)
THEOREM ScoresFallInRaces == MeshSpec => ScoresHold
<1> DEFINE Hold == \A st \in Spellings \X Tenants :
             score'[st] < score[st] =>
               /\ score'[st] >= PromoteAt
               /\ \E w \in Workers : /\ work[w].step = "report" /\ work'[w].step # "report"
                                     /\ <<report[w].ip, report[w].tenant>> = st
                                     /\ report[w].had # score[st]
<1>1. MeshInv /\ [MeshNext]_meshVars => [Hold]_meshVars
  <2> SUFFICES ASSUME MeshInv, MeshNext PROVE Hold
    OBVIOUS
  <2>1. \A st \in Spellings \X Tenants : score[st] \in Nat
    BY DEF MeshInv, ScoresSupported, Scores
  <2>2. CASE UNCHANGED score
    BY <2>1, <2>2
  <2>3. ASSUME NEW w \in Workers, ReportCommit(w), score' # score PROVE Hold
    <3> DEFINE q == report[w]
               k == <<q.ip, q.tenant>>
               n == ScoreOf(q.others + 1)
    <3>1. work[w].step = "report" /\ ~PairTaken(q) /\ score' = Written(q)
      BY <2>3 DEF ReportCommit
    <3>2. /\ k \in Spellings \X Tenants
          /\ score' = [score EXCEPT ![k] = IF n = q.had THEN score[k] ELSE n]
          /\ n >= PromoteAt => score'[k] >= PromoteAt
          /\ score'[k] < score[k] => score'[k] = n /\ q.had # score[k] /\ n >= PromoteAt
      BY <3>1, ScoreWritten
    <3>3. work'[w].step # "report"
      <4> DEFINE t == [Free EXCEPT !.step = "promote", !.left = {Canonical[q.ip]}]
      <4>1. work' \in {[work EXCEPT ![w] = Free], [work EXCEPT ![w] = t]}
        BY <2>3 DEF ReportCommit, Stop, Set
      <4>2. Free.step = "none" /\ t.step = "promote"
        BY FreeType DEF Free
      <4> HIDE DEF t
      <4> QED
        BY <4>1, <4>2, WorkerFacts
    <3> HIDE DEF n
    <3>4. \A st \in Spellings \X Tenants : st # k => score'[st] = score[st]
      BY <3>2 DEF MeshInv, ScoresSupported
    <3> QED
      BY <2>1, <3>1, <3>2, <3>3, <3>4
  <2>4. UNCHANGED score \/ \E w \in Workers : ReportCommit(w)
    BY DEF MeshNext, PoolStep, ReportBegin, DemoteBegin, Promote, Promoted, SyncBegin, SyncPush,
           DemoteCommit, Interrupt, poolVars
  <2> QED
    BY <2>2, <2>3, <2>4
<1> QED
  BY MeshInvariant, <1>1, PTL DEF MeshSpec, ScoresHold

-------------------------------------------------------------------------------
(* What the invariants of the parts leave to be said of their types: the tables of the  *)
(* feed, the texts of the agreements, the codes and the devices of the accounts.       *)
FeedTables ==
  /\ reporters \in [FeedAddresses -> 0 .. MaxTenants]
  /\ coreFeed \in [FeedAddresses -> {0, 50, 70}]
  /\ incident \subseteq reports /\ reports \subseteq FeedAddresses

LEMMA FeedTablesInit == FeedInit => FeedTables
BY FeedAssumption DEF FeedInit, FeedTables

LEMMA FeedTablesKept == FeedTables /\ [FeedNext]_feedVars => FeedTables'
<1> SUFFICES ASSUME FeedTables, [FeedNext]_feedVars PROVE FeedTables'
  OBVIOUS
<1>1. CASE UNCHANGED <<reporters, coreFeed, incident, reports>>
  BY <1>1 DEF FeedTables
<1>2. ASSUME NEW ip \in FeedAddresses, StoreAttackReport(ip) PROVE FeedTables'
  BY <1>2 DEF StoreAttackReport, sources, FeedTables
<1>3. CASE FeedThreat
  <2>1. /\ incident' = {} /\ UNCHANGED <<coreFeed, reports>>
        /\ \/ UNCHANGED reporters
           \/ \E ip \in incident : /\ reporters[ip] < MaxTenants
                                   /\ reporters' = [reporters EXCEPT ![ip] = @ + 1]
    BY <1>3 DEF FeedThreat
  <2>2. reporters' \in [FeedAddresses -> 0 .. MaxTenants]
    BY <2>1, FeedAssumption DEF FeedTables
  <2> QED
    BY <2>1, <2>2 DEF FeedTables
<1>4. CASE SourceChanges
  <2>1. coreFeed' \in [FeedAddresses -> {0, 50, 70}] /\ UNCHANGED <<reporters, incident, reports>>
    BY <1>4 DEF SourceChanges, FeedTables
  <2> QED
    BY <2>1 DEF FeedTables
<1>5. CASE GetNode \/ ReadNft \/ ReadPool \/ ReadCore \/ ReadWhitelist \/ NextPull \/ NodeRemoved
  BY <1>1, <1>5
  DEF GetNode, ReadNft, ReadPool, ReadCore, ReadWhitelist, NextPull, NodeRemoved, sources
<1>6. CASE UNCHANGED feedVars
  BY <1>1, <1>6 DEF feedVars
<1> QED
  BY <1>2, <1>3, <1>4, <1>5, <1>6 DEF FeedNext

AgreementTexts ==
  /\ published \subseteq Versions /\ texts \subseteq published
  /\ \A c \in Callers :
       /\ call[c] \in CallRecord
       /\ call[c].op \in {"fetch", "accept"} => call[c].version \in published

LEMMA AgreementTextsInit == AgreementsInit => AgreementTexts
BY RestingFacts, AgreementsAssumption DEF AgreementsInit, AgreementTexts

LEMMA AgreementTextsKept ==
  AgreementsInv /\ AgreementsInv' /\ AgreementTexts /\ [AgreementsNext]_agreementVars
    => AgreementTexts'
<1> SUFFICES ASSUME AgreementsInv, AgreementsInv', AgreementTexts, [AgreementsNext]_agreementVars
             PROVE  AgreementTexts'
  OBVIOUS
<1>0. /\ published \subseteq Versions /\ texts \subseteq published
      /\ call \in [Callers -> CallRecord] /\ call' \in [Callers -> CallRecord]
      /\ \A c \in Callers : call[c].op \in {"fetch", "accept"} => call[c].version \in published
  BY DEF AgreementTexts, AgreementsInv
(* A call that goes on names a version that is published, if it will store its text.      *)
<1>1. ASSUME NEW c \in Callers, NEW record, call' = [call EXCEPT ![c] = record],
             record.op \in {"fetch", "accept"} => record.version \in published,
             UNCHANGED published, texts' \subseteq published
      PROVE  AgreementTexts'
  <2>1. call'[c] = record /\ \A d \in Callers \ {c} : call'[d] = call[d]
    BY <1>0, <1>1
  <2>2. \A d \in Callers : call'[d].op \in {"fetch", "accept"} => call'[d].version \in published
    BY <1>0, <1>1, <2>1
  <2> QED
    BY <1>0, <1>1, <2>2 DEF AgreementTexts
<1>2. ASSUME NEW c \in Callers, call' = [call EXCEPT ![c] = Resting],
             UNCHANGED published, texts' \subseteq published
      PROVE  AgreementTexts'
  BY <1>1, <1>2, RestingFacts
<1>3. ASSUME NEW c \in Callers, SeedBegin(c) \/ SetBegin(c) PROVE AgreementTexts'
  <2>1. PICK word \in {"seed", "set"} :
          call' = [call EXCEPT ![c] = [Resting EXCEPT !.op = word, !.found = flag]]
    BY <1>3 DEF SeedBegin, SetBegin, Begins
  <2>2. [Resting EXCEPT !.op = word, !.found = flag].op \notin {"fetch", "accept"}
    BY DEF Resting
  <2>3. UNCHANGED <<published, texts>>
    BY <1>3 DEF SeedBegin, SetBegin
  <2> QED
    BY <1>0, <1>1, <2>1, <2>2, <2>3
<1>4. ASSUME NEW c \in Callers, SeedCommit(c) \/ SetCommit(c) PROVE AgreementTexts'
  BY <1>0, <1>2, <1>4 DEF SeedCommit, SetCommit, CallEnds
<1>5. ASSUME NEW c \in Callers, FetchCommit(c) PROVE AgreementTexts'
  BY <1>0, <1>2, <1>5 DEF FetchCommit, CallEnds
<1>6. ASSUME NEW c \in Callers, AcceptCommit(c) PROVE AgreementTexts'
  <2>1. texts' = texts \/ (call[c].op = "accept" /\ texts' = texts \union {call[c].version})
    BY <1>6 DEF AcceptCommit
  <2>2. call' = [call EXCEPT ![c] = Resting] /\ UNCHANGED published
    BY <1>6 DEF AcceptCommit, CallEnds
  <2> QED
    BY <1>0, <1>2, <2>1, <2>2
<1>7. ASSUME NEW c \in Callers, NEW v \in Versions, FetchBegin(c, v) PROVE AgreementTexts'
  BY <1>0, <1>1, <1>7 DEF FetchBegin, Begins, HasTextFor
<1>8. ASSUME NEW c \in Callers, NEW v \in Versions, NEW hash, AcceptBegin(c, v, hash)
      PROVE  AgreementTexts'
  BY <1>0, <1>1, <1>8 DEF AcceptBegin, Begins
<1>9. ASSUME NEW v \in Versions, Released(v) PROVE AgreementTexts'
  BY <1>0, <1>9 DEF Released, AgreementTexts
<1>10. CASE UNCHANGED agreementVars
  BY <1>0, <1>10 DEF agreementVars, AgreementTexts
<1> QED
  BY <1>3, <1>4, <1>5, <1>6, <1>7, <1>8, <1>9, <1>10 DEF AgreementsNext

AccountKeys ==
  /\ usedCodes \subseteq Secrets /\ devices \subseteq Devices
  /\ \A r \in Requests : request[r].at \in {"replay", "use"} => request[r].payload.code \in Secrets

LEMMA AccountKeysInit == AccountsInit => AccountKeys
BY DoneFacts DEF AccountsInit, AccountKeys, Done, Waiting

LEMMA AccountKeysKept == AccountsInv /\ AccountKeys /\ [AccountsNext]_accountVars => AccountKeys'
<1> SUFFICES ASSUME AccountsInv, AccountKeys, [AccountsNext]_accountVars PROVE AccountKeys'
  OBVIOUS
<1>0. /\ request \in [Requests -> RequestRecord]
      /\ usedCodes \subseteq Secrets /\ devices \subseteq Devices
      /\ \A r \in Requests :
           request[r].at \in {"replay", "use"} => request[r].payload.code \in Secrets
  BY DEF AccountsInv, AccountKeys
(* A request that goes on to use a code carries one.                                      *)
<1>1. ASSUME NEW r \in Requests, NEW q, request' = [request EXCEPT ![r] = q],
             q.at \in {"replay", "use"} => q.payload.code \in Secrets,
             usedCodes' \subseteq Secrets, devices' \subseteq Devices
      PROVE  AccountKeys'
  <2>1. request'[r] = q /\ \A w \in Requests \ {r} : request'[w] = request[w]
    BY <1>0, <1>1
  <2>2. \A w \in Requests :
          request'[w].at \in {"replay", "use"} => request'[w].payload.code \in Secrets
    BY <1>0, <1>1, <2>1
  <2> QED
    BY <1>1, <2>2 DEF AccountKeys
<1>2. ASSUME NEW r \in Requests, Ends(r), usedCodes' \subseteq Secrets, devices' \subseteq Devices
      PROVE  AccountKeys'
  BY <1>1, <1>2 DEF Ends, Goes, Done, Waiting
<1>3. ASSUME UNCHANGED request, usedCodes' \subseteq Secrets, devices' \subseteq Devices
      PROVE  AccountKeys'
  BY <1>0, <1>3 DEF AccountKeys
<1>4. ASSUME NEW r \in Requests, NEW q, Goes(r, q), q.at \notin {"replay", "use"},
             UNCHANGED <<usedCodes, devices>>
      PROVE  AccountKeys'
  BY <1>0, <1>1, <1>4 DEF Goes
<1>5. \A r \in Requests :
        /\ [request[r] EXCEPT !.at = "failed"].at = "failed"
        /\ [request[r] EXCEPT !.at = "expire"].at = "expire"
        /\ [request[r] EXCEPT !.at = "verified", !.user = Reads(account)].at = "verified"
        /\ [request[r] EXCEPT !.at = "use"].payload = request[r].payload
  BY <1>0 DEF RequestRecord
<1>6. ASSUME NEW r \in Requests, CheckLockout(r) \/ StartRefresh(r) \/ StartVerifySetup(r)
      PROVE  AccountKeys'
  <2>1. PICK at \in {"login", "refresh", "verify_setup"} : \E payload : Starts(r, Waiting(at, payload))
    BY <1>6 DEF CheckLockout, StartRefresh, StartVerifySetup
  <2>5. PICK payload : Starts(r, Waiting(at, payload))
    BY <2>1
  <2>2. UNCHANGED <<usedCodes, devices>>
    BY <1>6 DEF CheckLockout, StartRefresh, StartVerifySetup
  <2>3. request' = [request EXCEPT ![r] = Waiting(at, payload)]
    BY <2>5 DEF Starts, Goes
  <2>4. Waiting(at, payload).at \notin {"replay", "use"}
    BY DEF Waiting
  <2> QED
    BY <1>0, <1>1, <2>2, <2>3, <2>4
<1>7. ASSUME NEW r \in Requests, VerifyPassword(r) PROVE AccountKeys'
  <2>1. UNCHANGED <<usedCodes, devices>>
    BY <1>7 DEF VerifyPassword
  <2>2. \/ Goes(r, [request[r] EXCEPT !.at = "failed"])
        \/ Goes(r, [request[r] EXCEPT !.at = "verified", !.user = Reads(account)])
        \/ Ends(r)
    BY <1>7 DEF VerifyPassword, Continues
  <2>3. CASE Goes(r, [request[r] EXCEPT !.at = "failed"])
    BY <1>4, <1>5, <2>1, <2>3
  <2>4. CASE Goes(r, [request[r] EXCEPT !.at = "verified", !.user = Reads(account)])
    BY <1>4, <1>5, <2>1, <2>4
  <2> QED
    BY <1>0, <1>2, <2>1, <2>2, <2>3, <2>4
<1>8. ASSUME NEW r \in Requests, RecordFailure(r) PROVE AccountKeys'
  <2>1. UNCHANGED <<usedCodes, devices>>
    BY <1>8 DEF RecordFailure
  <2>2. Goes(r, [request[r] EXCEPT !.at = "expire"]) \/ Ends(r)
    BY <1>8 DEF RecordFailure, Continues
  <2>3. CASE Goes(r, [request[r] EXCEPT !.at = "expire"])
    BY <1>4, <1>5, <2>1, <2>3
  <2> QED
    BY <1>0, <1>2, <2>1, <2>2, <2>3
<1>9. ASSUME NEW r \in Requests, ExpireFailures(r) \/ ClearFailures(r) \/ Refresh(r) \/ VerifySetup(r)
      PROVE  AccountKeys'
  <2>1. UNCHANGED <<usedCodes, devices>>
    BY <1>9 DEF ExpireFailures, ClearFailures, Refresh, VerifySetup
  <2>2. Ends(r)
    BY <1>9 DEF ExpireFailures, ClearFailures, Refresh, VerifySetup, VerifyDevice, Grants
  <2> QED
    BY <1>0, <1>2, <2>1, <2>2
<1>10. ASSUME NEW r \in Requests, VerifyCode(r) PROVE AccountKeys'
  <2>1. PICK jti \in challenges, code \in Secrets :
          Starts(r, [at |-> "replay", user |-> Reads(account),
                     payload |-> [jti |-> jti, code |-> code]])
    BY <1>10 DEF VerifyCode
  <2>2. UNCHANGED <<usedCodes, devices>>
    BY <1>10 DEF VerifyCode
  <2> DEFINE q == [at |-> "replay", user |-> Reads(account), payload |-> [jti |-> jti, code |-> code]]
  <2>3. request' = [request EXCEPT ![r] = q]
    BY <2>1 DEF Starts, Goes
  <2>4. q.payload.code \in Secrets
    OBVIOUS
  <2> HIDE DEF q
  <2> QED
    BY <1>0, <1>1, <2>2, <2>3, <2>4
<1>11. ASSUME NEW r \in Requests, CheckReplay(r) PROVE AccountKeys'
  <2>1. UNCHANGED <<usedCodes, devices>> /\ request[r].at = "replay"
    BY <1>11 DEF CheckReplay
  <2>2. Goes(r, [request[r] EXCEPT !.at = "use"]) \/ Ends(r)
    BY <1>11 DEF CheckReplay, Continues
  <2> DEFINE q == [request[r] EXCEPT !.at = "use"]
  <2>3. CASE Goes(r, q)
    <3>1. request' = [request EXCEPT ![r] = q] /\ q.payload.code \in Secrets
      BY <1>0, <1>5, <2>1, <2>3 DEF Goes
    <3> HIDE DEF q
    <3> QED
      BY <1>0, <1>1, <2>1, <3>1
  <2> QED
    BY <1>0, <1>2, <2>1, <2>2, <2>3
<1>12. ASSUME NEW r \in Requests, AnswerChallenge(r) PROVE AccountKeys'
  <2>1. Ends(r) /\ request[r].at = "use" /\ usedCodes' = usedCodes \union {request[r].payload.code}
    BY <1>12 DEF AnswerChallenge, Grants
  <2>2. devices' \subseteq Devices
    BY <1>0, <1>12 DEF AnswerChallenge
  <2> QED
    BY <1>0, <1>2, <2>1, <2>2
<1>13. ASSUME NEW r \in Requests, Setup(r) PROVE AccountKeys'
  BY <1>0, <1>3, <1>13 DEF Setup
<1>14. ASSUME NEW r \in Requests, Disable(r) PROVE AccountKeys'
  <2>1. request' = [request EXCEPT ![r] = Waiting("revoke", NoSecret)] /\ UNCHANGED <<usedCodes, devices>>
    BY <1>14 DEF Disable, Goes
  <2>2. Waiting("revoke", NoSecret).at \notin {"replay", "use"}
    BY DEF Waiting
  <2> QED
    BY <1>0, <1>1, <2>1, <2>2
<1>15. ASSUME NEW r \in Requests, RevokeDevices(r) PROVE AccountKeys'
  BY <1>0, <1>2, <1>15 DEF RevokeDevices
<1>16. ASSUME NEW code \in Secrets, CodePasses(code) PROVE AccountKeys'
  BY <1>0, <1>3, <1>16 DEF CodePasses
<1>17. CASE WindowPasses \/ ChangeAccount \/ (\E role \in Roles : TokenExpires(role))
  BY <1>0, <1>3, <1>17 DEF WindowPasses, ChangeAccount, TokenExpires
<1>18. CASE KeyExpires
  BY <1>0, <1>3, <1>18 DEF KeyExpires
<1>19. CASE UNCHANGED accountVars
  BY <1>0, <1>3, <1>19 DEF accountVars
<1> QED
  BY <1>6, <1>7, <1>8, <1>9, <1>10, <1>11, <1>12, <1>13, <1>14, <1>15, <1>16, <1>17, <1>18, <1>19
  DEF AccountsNext

-------------------------------------------------------------------------------
(* The console as a whole.  Every step of it is a step of one part, and leaves the  *)
(* others as they are, so what each part promises alone it promises here.          *)
LEMMA FocusMoves ==
  [ControlNext]_controlVars =>
    /\ [MeshNext]_meshVars /\ [AnomalyNext]_anomalyVars /\ [AccountsNext]_accountVars
    /\ [EnrolmentNext]_enrolmentVars /\ [PortalNext]_portalVars /\ [ThemeNext]_themeVars
    /\ [RegistryNext]_registryVars /\ [CallsNext]_callVars /\ [LocksNext]_lockVars
    /\ [RoutingNext]_routingVars /\ [FanoutNext]_fanoutVars /\ [FeedNext]_feedVars
    /\ [EnvelopesNext]_envelopeVars /\ [ReferenceNext]_referenceVars
    /\ [AgreementsNext]_agreementVars /\ [PredNext]_predVars /\ [TallyNext]_tallyVars
    /\ [DefenseNext]_defenseVars
BY DEF ControlNext, controlVars, Only

LEMMA FocusStarts ==
  ControlInit =>
    /\ PoolInit /\ AnomalyInit /\ AccountsInit /\ EnrolmentInit /\ PortalInit /\ ThemeInit
    /\ RegistryInit /\ CallsInit /\ LocksInit /\ RoutingInit /\ FanoutInit /\ FeedInit
    /\ EnvelopesInit /\ ReferenceInit /\ AgreementsInit /\ PredInit /\ TallyInit /\ DefenseInit
BY DEF ControlInit

LEMMA FocusStays ==
  /\ ControlInit => focus \in ControlParts
  /\ focus \in ControlParts /\ [ControlNext]_controlVars => (focus \in ControlParts)'
BY DEF ControlInit, ControlNext, Only, controlVars

LEMMA PartsRun ==
  ControlSpec =>
    /\ MeshSpec /\ AnomalySpec /\ AccountsSpec /\ EnrolmentSpec /\ PortalSpec /\ ThemeSpec
    /\ RegistrySpec /\ CallsSpec /\ LocksSpec /\ RoutingSpec /\ FanoutSpec /\ FeedSpec
    /\ AgreementsSpec /\ PredSpec /\ TallySpec /\ DefenseSpec
BY FocusMoves, FocusStarts, PTL
DEF ControlSpec, MeshSpec, AnomalySpec, AccountsSpec, EnrolmentSpec, PortalSpec, ThemeSpec,
    RegistrySpec, CallsSpec, LocksSpec, RoutingSpec, FanoutSpec, FeedSpec, AgreementsSpec,
    PredSpec, TallySpec, DefenseSpec

(* Two parts have an invariant and no specification of their own.                   *)
LEMMA EdgeRecordsHold == ControlSpec => []EnvelopesInv /\ []ReferenceInv
<1>1. ControlSpec => []EnvelopesInv
  BY FocusMoves, FocusStarts, EnvelopesInvInit, EnvelopesInvKept, PTL DEF ControlSpec
<1>2. ControlSpec => []ReferenceInv
  BY FocusMoves, FocusStarts, ReferenceInvInit, ReferenceInvKept, PTL DEF ControlSpec
<1> QED
  BY <1>1, <1>2, PTL

(* For any number of sites, tenants, operators and consumers, whatever overlaps or   *)
(* fails: a whitelisted address is spared, only misspelt rows leave the blacklist,  *)
(* an operator's choice of a flag holds, an acceptance proves its text, what is     *)
(* acknowledged a site has got, and a copy that is confirmed is what is stored.     *)
THEOREM EdgeKeepsItsWord == ControlSpec => []EdgeKept
<1>1. /\ EnvelopesInv => AckedWasReceived
      /\ ReferenceInv => ConfirmedIsCurrent
  BY DEF EnvelopesInv, ReferenceInv, CopiesHold
<1>2. WhitelistedSpared /\ OnlyMisspeltDemoted /\ ChoiceStands /\ AcceptanceProvesText
      /\ AckedWasReceived /\ ConfirmedIsCurrent => EdgeKept
  BY DEF EdgeKept
<1> QED
  BY PartsRun, EdgeRecordsHold, <1>1, <1>2, SparedIsSpared, WordStands, ChoiceIsKept,
     AcceptanceIsProof, PTL

(* For any number of requests, scans and processes that look before they write, at    *)
(* once: no more open events and links than can overlap, one source of the logo, one   *)
(* active theme, and the latest row of a setting is read.                            *)
THEOREM FewAtOnce == ControlSpec => []FewDoubles
<1>1. FewOpenEvents /\ FewLinks /\ OneLogoSource /\ OneThemeActive /\ LatestIsRead => FewDoubles
  BY DEF FewDoubles
<1> QED
  BY PartsRun, <1>1, EventsAreFew, LinksAreFew, LogoHasOneSource, ThemeActiveOnce, LatestRowWins, PTL

(* For any number of operators, pulls, calls, outcomes and routes: no record refers to  *)
(* one that is gone, a call is billed once, a report adds up, nothing is granted that   *)
(* needed a confirmation, and a routing is found circular exactly if it is.            *)
THEOREM RecordsAddUp == ControlSpec => []RecordsKept
<1>1. NoOrphans /\ BilledOnce /\ ReportAddsUp /\ NothingGrantedUnconfirmed /\ CyclesFound
        => RecordsKept
  BY DEF RecordsKept
<1> QED
  BY PartsRun, <1>1, RowsHaveParents, CallsBilledOnce, ReportsAddUp, GrantsAreConfirmed,
     SearchIsRight, PTL

(* Every table, file and local of every part of the console keeps its type, for any      *)
(* values of the constants.                                                          *)
THEOREM ControlTypeCorrect == ControlSpec => []ControlTypeOK
<1>1. ControlSpec => [](focus \in ControlParts)
  BY FocusStays, PTL DEF ControlSpec
<1>2. ControlSpec => []FeedTables
  BY FocusMoves, FocusStarts, FeedTablesInit, FeedTablesKept, PTL DEF ControlSpec
<1>3. AgreementsSpec => []AgreementsInv
  BY AgreementsInvInit, AgreementsInvStep, PTL DEF AgreementsSpec
<1>4. AgreementsSpec => []AgreementTexts
  BY <1>3, AgreementTextsInit, AgreementTextsKept, PTL DEF AgreementsSpec
<1>5. AccountsSpec => []AccountKeys
  BY AccountsInvariant, AccountKeysInit, AccountKeysKept, PTL DEF AccountsSpec
<1>6. FeedSpec => []FeedInv
  BY FeedInvInit, FeedInvStep, PTL DEF FeedSpec
<1>7. FanoutSpec => []FanoutInv
  BY FanoutInvInit, FanoutInvStep, PTL DEF FanoutSpec
<1>8. /\ FeedInv /\ FeedTables => FeedTypeOK
      /\ FanoutInv => FanoutTypeOK
      /\ EnvelopesInv => EnvelopesTypeOK
  BY DEF FeedInv, FeedTables, FeedTypeOK, PullRecord, FanoutInv, EnvelopesInv
<1>9. AgreementsInv /\ AgreementTexts => AgreementsTypeOK
  BY DEF AgreementsInv, AgreementTexts, AgreementsTypeOK, Hashes, CallRecord
<1>10. AccountsInv /\ AccountKeys => AccountsTypeOK
  BY DEF AccountsInv, AccountKeys, AccountsTypeOK, RequestRecord, Users
<1>11. ReferenceInv => ReferenceTypeOK
  BY DEF ReferenceInv, RecordTypes, WriterTypes, StampsCount, CopiesHold, ReferenceTypeOK,
         WriteRecord, ConsumerRecord
<1>12. focus \in ControlParts /\ MeshTypeOK /\ AnomalyTypeOK /\ AccountsTypeOK /\ EnrolmentTypeOK
       /\ PortalTypeOK /\ ThemeTypeOK /\ RegistryTypeOK /\ CallsTypeOK /\ LocksTypeOK
       /\ RoutingTypeOK /\ FanoutTypeOK /\ FeedTypeOK /\ EnvelopesTypeOK /\ ReferenceTypeOK
       /\ AgreementsTypeOK /\ PredTypeOK /\ TallyTypeOK /\ DefenseTypeOK => ControlTypeOK
  BY DEF ControlParts, ControlTypeOK
<1> QED
  BY PartsRun, EdgeRecordsHold, <1>1, <1>2, <1>3, <1>4, <1>5, <1>6, <1>7, <1>8, <1>9, <1>10, <1>11,
     <1>12, AccountsInvariant, MeshTypeCorrect, EventsAreFew, LinksAreFew, LogoHasOneSource,
     ThemeActiveOnce, RowsHaveParents, CallsBilledOnce, LocksTypeCorrect, SearchIsRight,
     GrantsAreConfirmed, ReportsAddUp, LatestRowWins, PTL

(* The lockout, the lock of a record, the fan-out, the scores and the tokens keep    *)
(* their promises beside each other.                                              *)
THEOREM ConsoleKeepsItsWord ==
  ControlSpec => /\ []LockoutHolds /\ []OneHolder /\ []ListedIsServed
                 /\ ScoresHold /\ TokensFollowAccount
BY PartsRun, LockoutBounded, LockHeldOnce, NoOtherLeak, ScoresFallInRaces, TokensAreEarned, PTL
===============================================================================
