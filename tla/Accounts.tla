------------------------------- MODULE Accounts -------------------------------
(* Sign-in of one account: the password with its lockout, the second factor and *)
(* the devices trusted to skip it, the exchange of refresh tokens, and what the *)
(* administrators and the owner change meanwhile.  Every call to Redis or to    *)
(* the database is an await, and a step of its own where another request can    *)
(* tell.                                                                        *)
EXTENDS Naturals, FiniteSets

CONSTANTS
  Requests,    \* requests in progress at once
  Roles,
  Secrets,     \* TOTP secrets; the code of a secret stands for the secret
  Challenges,  \* jti of the challenges a run issues (bound)
  Devices,     \* trusted-device tokens a run issues (bound)
  MaxFailures, \* _LOCKOUT_MAX_FAILURES
  NoSecret

ASSUME AccountsAssumption ==
  /\ IsFiniteSet(Requests)
  /\ MaxFailures \in Nat \ {0} /\ NoSecret \notin Roles \union Secrets

VARIABLES
  account,      \* the row of cc_users
  failures,     \* [count, ttl] of cc:login_failures
  pending,      \* cc:totp_pending
  challenges,   \* live cc:mfa_challenge keys
  usedCodes,    \* cc:totp_used keys
  devices,      \* live cc:trusted_device keys
  refreshTokens,\* roles named by the refresh tokens in the world
  request,      \* request -> where it is and what it has read
  seen          \* request -> the roles the account has had while active since it began

accountVars == <<account, failures, pending, challenges, usedCodes, devices,
                 refreshTokens, request, seen>>

Reads(acc) == [role |-> acc.role, totp |-> acc.totp]
Standing(acc) == IF acc.active THEN {acc.role} ELSE {}

Absent == [count |-> 0, ttl |-> FALSE]
Waiting(at, payload) == [at |-> at, user |-> NoSecret, payload |-> payload]
Done == Waiting("done", NoSecret)

Granting == {"login", "verified", "replay", "use", "refresh"}

AccountsInit ==
  /\ account \in [active : {TRUE}, role : Roles, totp : {NoSecret}]
  /\ failures = Absent
  /\ pending = NoSecret
  /\ challenges = {} /\ usedCodes = {} /\ devices = {}
  /\ refreshTokens = {}
  /\ request = [r \in Requests |-> Done]
  /\ seen = [r \in Requests |-> {}]

Goes(r, record) == request' = [request EXCEPT ![r] = record]

Starts(r, record) ==
  /\ request[r].at = "done"
  /\ Goes(r, record)
  /\ seen' = [seen EXCEPT ![r] = IF record.at \in Granting THEN Standing(account) ELSE {}]

Ends(r) == Goes(r, Done) /\ seen' = [seen EXCEPT ![r] = {}]

(* create_access_token and create_refresh_token, for the role as read.       *)
Grants(r, role) == Ends(r) /\ refreshTokens' = refreshTokens \union {role}

Continues(r, record) == Goes(r, record) /\ UNCHANGED seen

-------------------------------------------------------------------------------
(* Slip of CheckLockout: one attempt too many.                               *)
CheckLockoutLate(r) ==
  /\ failures.count <= MaxFailures
  /\ Starts(r, Waiting("login", NoSecret))
  /\ UNCHANGED <<account, failures, pending, challenges, usedCodes, devices, refreshTokens>>

(* login                                                                     *)
CheckLockout(r) ==
  /\ failures.count < MaxFailures
  /\ Starts(r, Waiting("login", NoSecret))
  /\ UNCHANGED <<account, failures, pending, challenges, usedCodes, devices, refreshTokens>>

VerifyPassword(r) ==
  /\ request[r].at = "login"
  /\ \/ Goes(r, [request[r] EXCEPT !.at = "failed"]) /\ seen' = [seen EXCEPT ![r] = {}]
     \/ account.active /\ Continues(r, [request[r] EXCEPT !.at = "verified", !.user = Reads(account)])
     \/ ~account.active /\ Ends(r)
  /\ UNCHANGED <<account, failures, pending, challenges, usedCodes, devices, refreshTokens>>

(* _record_failure: INCR, and EXPIRE by the request that made the counter.    *)
RecordFailure(r) ==
  /\ request[r].at = "failed"
  /\ failures' = [failures EXCEPT !.count = @ + 1]
  /\ IF failures.count = 0 THEN Continues(r, [request[r] EXCEPT !.at = "expire"]) ELSE Ends(r)
  /\ UNCHANGED <<account, pending, challenges, usedCodes, devices, refreshTokens>>

ExpireFailures(r) ==
  /\ request[r].at = "expire"
  /\ failures' = IF failures.count > 0 THEN [failures EXCEPT !.ttl = TRUE] ELSE failures
  /\ Ends(r)
  /\ UNCHANGED <<account, pending, challenges, usedCodes, devices, refreshTokens>>

WindowPasses ==
  /\ failures.ttl
  /\ failures' = Absent
  /\ UNCHANGED <<account, pending, challenges, usedCodes, devices, refreshTokens, request, seen>>

(* A trusted device skips the second factor; any other caller gets a challenge. *)
VerifyDevice(r) ==
  \/ /\ devices # {}
     /\ Grants(r, request[r].user.role)
     /\ UNCHANGED challenges
  \/ /\ \E jti \in Challenges \ challenges : challenges' = challenges \union {jti}
     /\ Ends(r)
     /\ UNCHANGED refreshTokens

ClearFailures(r) ==
  /\ request[r].at = "verified"
  /\ failures' = Absent
  /\ IF request[r].user.totp = NoSecret
     THEN Grants(r, request[r].user.role) /\ UNCHANGED challenges
     ELSE VerifyDevice(r)
  /\ UNCHANGED <<account, pending, usedCodes, devices>>

-------------------------------------------------------------------------------
(* mfa_challenge: the challenge, the account and the code are looked at, then  *)
(* whether the code was used, then it is marked, and no two of these at once.   *)
VerifyCode(r) ==
  \E jti \in challenges, code \in Secrets :
    /\ account.active /\ account.totp = code
    /\ Starts(r, [at |-> "replay", user |-> Reads(account), payload |-> [jti |-> jti, code |-> code]])
    /\ UNCHANGED <<account, failures, pending, challenges, usedCodes, devices, refreshTokens>>

CheckReplay(r) ==
  /\ request[r].at = "replay"
  /\ IF request[r].payload.code \in usedCodes
     THEN Ends(r) ELSE Continues(r, [request[r] EXCEPT !.at = "use"])
  /\ UNCHANGED <<account, failures, pending, challenges, usedCodes, devices, refreshTokens>>

(* The code is marked, the challenge deleted and the tokens are made; a device  *)
(* may be trusted.                                                             *)
AnswerChallenge(r) ==
  /\ request[r].at = "use"
  /\ usedCodes' = usedCodes \union {request[r].payload.code}
  /\ challenges' = challenges \ {request[r].payload.jti}
  /\ Grants(r, request[r].user.role)
  /\ \/ UNCHANGED devices
     \/ \E d \in Devices \ devices : devices' = devices \union {d}
  /\ UNCHANGED <<account, failures, pending>>

(* The code's 90 seconds are over, and with them its mark.                   *)
CodePasses(code) ==
  /\ code \in usedCodes
  /\ usedCodes' = usedCodes \ {code}
  /\ UNCHANGED <<account, failures, pending, challenges, devices, refreshTokens, request, seen>>

KeyExpires ==
  /\ \/ \E jti \in challenges : challenges' = challenges \ {jti} /\ UNCHANGED <<pending, devices>>
     \/ \E d \in devices : devices' = devices \ {d} /\ UNCHANGED <<pending, challenges>>
     \/ pending # NoSecret /\ pending' = NoSecret /\ UNCHANGED <<challenges, devices>>
  /\ UNCHANGED <<account, failures, usedCodes, refreshTokens, request, seen>>

TokenExpires(role) ==
  /\ role \in refreshTokens
  /\ refreshTokens' = refreshTokens \ {role}
  /\ UNCHANGED <<account, failures, pending, challenges, usedCodes, devices, request, seen>>

-------------------------------------------------------------------------------
RoleClaimed(row, claimed) == claimed

(* refresh_token: the claims of a token say who, the row says what they may.  *)
RoleToGrant(row, claimed) == row.role

StartRefresh(r) ==
  \E role \in refreshTokens :
    /\ Starts(r, Waiting("refresh", [role |-> role]))
    /\ UNCHANGED <<account, failures, pending, challenges, usedCodes, devices, refreshTokens>>

Refresh(r) ==
  /\ request[r].at = "refresh"
  /\ IF account.active
     THEN Grants(r, RoleToGrant(account, request[r].payload.role))
     ELSE Ends(r) /\ UNCHANGED refreshTokens
  /\ UNCHANGED <<account, failures, pending, challenges, usedCodes, devices>>

-------------------------------------------------------------------------------
(* setup_2fa, verify_setup_2fa and disable_2fa; an access token is enough.    *)
Setup(r) ==
  /\ request[r].at = "done"
  /\ account.totp = NoSecret
  /\ \E secret \in Secrets : pending' = secret
  /\ UNCHANGED <<account, failures, challenges, usedCodes, devices, refreshTokens, request, seen>>

StartVerifySetup(r) ==
  /\ pending # NoSecret
  /\ Starts(r, Waiting("verify_setup", [code |-> pending]))
  /\ UNCHANGED <<account, failures, pending, challenges, usedCodes, devices, refreshTokens>>

VerifySetup(r) ==
  /\ request[r].at = "verify_setup"
  /\ account' = [account EXCEPT !.totp = request[r].payload.code]
  /\ pending' = NoSecret
  /\ Ends(r)
  /\ UNCHANGED <<failures, challenges, usedCodes, devices, refreshTokens>>

(* The secret is gone with the commit, the devices only after it.             *)
Disable(r) ==
  /\ request[r].at = "done" /\ account.totp # NoSecret
  /\ account' = [account EXCEPT !.totp = NoSecret]
  /\ Goes(r, Waiting("revoke", NoSecret))
  /\ UNCHANGED <<failures, pending, challenges, usedCodes, devices, refreshTokens, seen>>

RevokeDevices(r) ==
  /\ request[r].at = "revoke"
  /\ devices' = {}
  /\ Ends(r)
  /\ UNCHANGED <<account, failures, pending, challenges, usedCodes, refreshTokens>>

(* update_user and delete_user write the columns they change; a password that *)
(* changes only decides which logins present a wrong one.                     *)
ChangeAccount ==
  /\ \E role \in Roles, active \in BOOLEAN :
       /\ <<role, active>> # <<account.role, account.active>>
       /\ account' = [account EXCEPT !.role = role, !.active = active]
       /\ seen' = [r \in Requests |-> IF request[r].at \in Granting
                                      THEN seen[r] \union Standing(account') ELSE seen[r]]
  /\ UNCHANGED <<failures, pending, challenges, usedCodes, devices, refreshTokens, request>>

AccountsNext ==
  \/ \E r \in Requests :
       \/ CheckLockout(r) \/ VerifyPassword(r) \/ RecordFailure(r) \/ ExpireFailures(r)
       \/ ClearFailures(r)
       \/ VerifyCode(r) \/ CheckReplay(r) \/ AnswerChallenge(r) \/ StartRefresh(r) \/ Refresh(r)
       \/ Setup(r) \/ StartVerifySetup(r) \/ VerifySetup(r) \/ Disable(r) \/ RevokeDevices(r)
  \/ \E code \in Secrets : CodePasses(code)
  \/ \E role \in Roles : TokenExpires(role)
  \/ WindowPasses \/ KeyExpires \/ ChangeAccount

AccountsSpec == AccountsInit /\ [][AccountsNext]_accountVars

-------------------------------------------------------------------------------
AccountsTypeOK ==
  /\ account \in [active : BOOLEAN, role : Roles, totp : Secrets \union {NoSecret}]
  /\ failures \in [count : Nat, ttl : BOOLEAN]
  /\ pending \in Secrets \union {NoSecret}
  /\ challenges \subseteq Challenges /\ usedCodes \subseteq Secrets /\ devices \subseteq Devices
  /\ refreshTokens \subseteq Roles
  /\ \A r \in Requests :
       request[r].user \in [role : Roles, totp : Secrets \union {NoSecret}] \union {NoSecret}
  /\ seen \in [Requests -> SUBSET Roles]

(* Tokens are for an account as it stood at some moment of the request: never *)
(* for one that was disabled before the request came, nor for a role that was *)
(* taken away before, whatever an old token still says.                      *)
TokensFollowAccount ==
  [][\A r \in Requests :
       request[r].at # "done" /\ request'[r].at = "done" =>
         refreshTokens' \ refreshTokens \subseteq seen[r]]_accountVars

(* The lockout lets through no more attempts than were under way when the    *)
(* limit was reached, and a counter never stays without an end: whoever made *)
(* it is about to set one.                                                  *)
LockoutHolds ==
  /\ failures.count < MaxFailures + Cardinality(Requests)
  /\ failures.count > 0 /\ ~failures.ttl => \E r \in Requests : request[r].at = "expire"
===============================================================================
