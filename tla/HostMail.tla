------------------------------ MODULE HostMail -------------------------------
(* The mail of the host.  Its aliases: /etc/postfix/virtual is read, changed and      *)
(* installed as a whole, then postmap builds the map Postfix reads from the file.  *)
EXTENDS Naturals, FiniteSets

CONSTANTS
  MailThreads,   \* requests in progress at once: the handlers run in a thread pool
  Lower,         \* addresses as the console writes them
  Upper,         \* addresses a request or a hand may spell otherwise
  Targets,
  Owners,        \* accounts that own domains
  Names,         \* names of mailboxes, "admin" aside
  Replies        \* texts of automatic replies

ASSUME MailAssumption == "none" \notin Owners \cup Replies

Spelt == Lower \cup Upper
AliasLine == Spelt \X Targets

VARIABLES
  virtual,       \* the lines of /etc/postfix/virtual
  map,           \* what Postfix serves
  unmapped,      \* a postmap failed, or its process ended before it, and none since
  aliasTask,     \* thread -> what it does and the lines it will install
  account,       \* login -> absent, bare (no password yet), keyed, or changed since
  boxTask,       \* thread -> the request on a mailbox it handles
  active,        \* the script a mailbox runs: "none", its owner's "own" or the "vacation"
  vacation,      \* the text vacation.sieve replies with, or NoReply
  replyTask,     \* thread -> the update of the automatic reply it handles
  wanted         \* replies asked for and not superseded since by an update that answered

aliasVars == <<virtual, map, unmapped, aliasTask>>
boxVars == <<account, boxTask>>
replyVars == <<active, vacation, replyTask, wanted>>

NoReply == "none"
NoReplyTask == [pc |-> "none", text |-> NoReply, beside |-> {}]

BoxNames == Names \cup {"admin"}
Logins == Owners \X BoxNames
NoLogin == <<"none", "none">>
NoBoxTask == [op |-> "none", owner |-> "none", login |-> NoLogin, admin |-> FALSE]

NoAliasTask == [pc |-> "none", lines |-> {}]

AliasInit ==
  /\ virtual \in {{}} \cup {{<<a, t>>} : a \in Upper, t \in Targets}
  /\ map = virtual
  /\ unmapped = FALSE
  /\ aliasTask = [t \in MailThreads |-> NoAliasTask]

(* create_alias refuses an address some line has; update_alias and delete_alias      *)
(* one no line has.  Only the first two write the address in lower case.            *)
Of(address) == {line \in virtual : line[1] = address}

CreatedAlias(address, target) ==
  IF Of(address) # {} THEN {} ELSE {virtual \cup {<<address, target>>}}

UpdatedAlias(address, target) ==
  IF Of(address) = {} THEN {} ELSE {(virtual \ Of(address)) \cup {<<address, target>>}}

DeletedAlias(address) ==
  IF Of(address) = {} THEN {} ELSE {virtual \ Of(address)}

Prepares(t, lines) == aliasTask' = [aliasTask EXCEPT ![t] = [pc |-> "install", lines |-> lines]]

ReadAliases(t) ==
  /\ aliasTask[t] = NoAliasTask
  /\ \/ \E a \in Lower, to \in Targets :
          \E lines \in CreatedAlias(a, to) \cup UpdatedAlias(a, to) : Prepares(t, lines)
     \/ \E a \in Spelt : \E lines \in DeletedAlias(a) : Prepares(t, lines)
  /\ UNCHANGED <<virtual, map, unmapped>>

Install(t) ==
  /\ aliasTask[t].pc = "install"
  /\ \/ /\ virtual' = aliasTask[t].lines
        /\ aliasTask' = [aliasTask EXCEPT ![t].pc = "postmap"]
     \/ /\ aliasTask' = [aliasTask EXCEPT ![t] = NoAliasTask]
        /\ UNCHANGED virtual
  /\ UNCHANGED <<map, unmapped>>

(* Slip of Postmapped: the map of the lines installed, not of the file.             *)
PostmappedOwn(t) == aliasTask[t].lines
Postmapped(t) == virtual

Postmap(t) ==
  /\ aliasTask[t].pc = "postmap"
  /\ aliasTask' = [aliasTask EXCEPT ![t] = NoAliasTask]
  /\ \/ map' = Postmapped(t) /\ unmapped' = FALSE
     \/ map' = map /\ unmapped' = TRUE
  /\ UNCHANGED virtual

AliasNext == \E t \in MailThreads : ReadAliases(t) \/ Install(t) \/ Postmap(t)

AliasSpec == AliasInit /\ [][AliasNext]_aliasVars

-------------------------------------------------------------------------------
(* The mailboxes of the hosted domains are system accounts, named for the account  *)
(* that owns the domain's document root: <owner>.<name>, with `admin' for the owner *)
(* itself.  Every request is a row of commands, and any may be the last.           *)
BoxInit ==
  /\ account = [l \in Logins |-> IF l[2] = "admin" THEN "keyed" ELSE "absent"]
  /\ boxTask = [t \in MailThreads |-> NoBoxTask]

Exists(login) == login \in Logins /\ account[login] # "absent"

(* A request names a mailbox by its name, <<"", name>>, or by a login.  A login of    *)
(* another owner becomes a name no mailbox has.                                     *)
Asked == ({""} \X BoxNames) \cup Logins

(* Slip of Resolved: whatever exists is taken as it is.                            *)
ResolvedAsIs(owner, name) ==
  IF Exists(name) THEN name ELSE IF name[1] = "" THEN <<owner, name[2]>> ELSE NoLogin

Resolved(owner, name) ==
  IF name[1] = owner THEN name
  ELSE IF name[1] = "" THEN <<owner, name[2]>> ELSE NoLogin

Handle(t, op, owner, name) ==
  /\ boxTask[t] = NoBoxTask
  /\ Exists(<<owner, "admin">>)
  /\ boxTask' = [boxTask EXCEPT ![t] =
       [op |-> op, owner |-> owner, login |-> Resolved(owner, name), admin |-> name[2] = "admin"]]
  /\ UNCHANGED account

CreateMailbox(t) == \E owner \in Owners, n \in BoxNames : Handle(t, "useradd", owner, <<"", n>>)

ModifyMailbox(t) ==
  \E owner \in Owners, name \in Asked, op \in {"usermod", "chpasswd"} : Handle(t, op, owner, name)

(* The owner may not be deleted by its login; by the name of its mailbox it may.      *)
DeleteMailbox(t) ==
  \E owner \in Owners, name \in Asked :
    name # <<owner, "admin">> /\ Handle(t, "userdel", owner, name)

BoxDone(t) == boxTask' = [boxTask EXCEPT ![t] = NoBoxTask]

(* The primary group of a mailbox is that of its owner.                            *)
Useradd(t) ==
  LET job == boxTask[t] IN
  /\ job.op = "useradd"
  /\ IF ~Exists(job.login) /\ Exists(<<job.owner, "admin">>)
     THEN /\ account' = [account EXCEPT ![job.login] = "bare"]
          /\ boxTask' = [boxTask EXCEPT ![t].op = "chpasswd"]
     ELSE BoxDone(t) /\ UNCHANGED account

Usermod(t) ==
  LET job == boxTask[t] IN
  /\ job.op = "usermod"
  /\ IF Exists(job.login)
     THEN /\ account' = [account EXCEPT ![job.login] = IF @ = "keyed" THEN "changed" ELSE @]
          /\ \/ boxTask' = [boxTask EXCEPT ![t].op = "chpasswd"]
             \/ BoxDone(t)
     ELSE BoxDone(t) /\ UNCHANGED account

Chpasswd(t) ==
  LET job == boxTask[t] IN
  /\ job.op = "chpasswd"
  /\ BoxDone(t)
  /\ account' \in {account} \cup
       IF Exists(job.login) THEN {[account EXCEPT ![job.login] = "keyed"]} ELSE {}

Userdel(t) ==
  LET job == boxTask[t] IN
  /\ job.op = "userdel"
  /\ BoxDone(t)
  /\ account' = IF Exists(job.login) THEN [account EXCEPT ![job.login] = "absent"] ELSE account

BoxNext ==
  \E t \in MailThreads :
    CreateMailbox(t) \/ ModifyMailbox(t) \/ DeleteMailbox(t)
      \/ Useradd(t) \/ Usermod(t) \/ Chpasswd(t) \/ Userdel(t)

BoxSpec == BoxInit /\ [][BoxNext]_boxVars

-------------------------------------------------------------------------------
(* The automatic reply of one mailbox: ~/sieve/vacation.sieve, run when the link      *)
(* ~/.dovecot.sieve leads to it.                                                  *)
ReplyInit ==
  /\ active \in {"none", "own"} /\ vacation = NoReply
  /\ replyTask = [t \in MailThreads |-> NoReplyTask]
  /\ wanted = {}

(* The texts other requests are installing.                                        *)
Beside(t) == {replyTask[o].text : o \in MailThreads \ {t}} \ {NoReply}

(* Enabling makes the directory, installs the file, then moves the link.            *)
EnableReply(t, text) ==
  /\ replyTask[t] = NoReplyTask
  /\ wanted' = wanted \cup {text}
  /\ replyTask' = [o \in MailThreads |->
       IF o = t THEN [pc |-> "install", text |-> text, beside |-> Beside(t)]
       ELSE IF replyTask[o] = NoReplyTask THEN NoReplyTask
       ELSE [replyTask[o] EXCEPT !.beside = @ \cup {text}]]
  /\ UNCHANGED <<active, vacation>>

(* A step that fails ends the request with an error; what was done stays.           *)
ReplyFails(t) ==
  /\ replyTask[t].pc \in {"install", "link"}
  /\ replyTask' = [replyTask EXCEPT ![t] = NoReplyTask]
  /\ UNCHANGED <<active, vacation, wanted>>

(* What an update that answers leaves wanted: its own text, and those of the updates *)
(* that overlapped it.                                                            *)
Answered(t) ==
  /\ wanted' = ({replyTask[t].text} \ {NoReply}) \cup replyTask[t].beside \cup Beside(t)
  /\ replyTask' = [replyTask EXCEPT ![t] = NoReplyTask]

(* Slip of Installed: the link is moved whatever install answered.                  *)
InstalledOrNot(t) == {replyTask[t].text, vacation}
Installed(t) == {replyTask[t].text}

InstallVacation(t) ==
  /\ replyTask[t].pc = "install"
  /\ vacation' \in Installed(t)
  /\ replyTask' = [replyTask EXCEPT ![t].pc = "link"]
  /\ UNCHANGED <<active, wanted>>

(* The link replaces the one to the user's own script.                             *)
LinkVacation(t) ==
  /\ replyTask[t].pc = "link"
  /\ active' = "vacation"
  /\ Answered(t)
  /\ UNCHANGED vacation

(* _clear_vacation: two files are removed, the link first, whichever script it leads *)
(* to; nothing looks at what a removal answered.                                   *)
DisableReply(t) ==
  /\ replyTask[t] = NoReplyTask
  /\ replyTask' = [replyTask EXCEPT ![t] = [pc |-> "unlink", text |-> NoReply, beside |-> Beside(t)]]
  /\ UNCHANGED <<active, vacation, wanted>>

Unlink(t) ==
  /\ replyTask[t].pc = "unlink"
  /\ active' \in {active, "none"}
  /\ replyTask' = [replyTask EXCEPT ![t].pc = "remove"]
  /\ UNCHANGED <<vacation, wanted>>

(* An answer that shows the reply enabled supersedes nothing.                       *)
Replying(link, text) == link = "vacation" /\ text # NoReply

RemoveVacation(t) ==
  /\ replyTask[t].pc = "remove"
  /\ vacation' \in {vacation, NoReply}
  /\ IF Replying(active, vacation')
     THEN replyTask' = [replyTask EXCEPT ![t] = NoReplyTask] /\ UNCHANGED wanted
     ELSE Answered(t)
  /\ UNCHANGED active

ReplyNext ==
  \E t \in MailThreads :
    \/ \E text \in Replies : EnableReply(t, text)
    \/ InstallVacation(t) \/ LinkVacation(t) \/ ReplyFails(t)
    \/ DisableReply(t) \/ Unlink(t) \/ RemoveVacation(t)

ReplySpec == ReplyInit /\ [][ReplyNext]_replyVars

-------------------------------------------------------------------------------
(* File, map and tasks keep their types.                                           *)
AliasTypeOK ==
  /\ virtual \subseteq AliasLine /\ map \subseteq AliasLine /\ unmapped \in BOOLEAN
  /\ \A t \in MailThreads : aliasTask[t].pc \in {"none", "install", "postmap"}
                            /\ aliasTask[t].lines \subseteq AliasLine

(* Whatever requests overlap, an address has one line, and once they are done and    *)
(* no postmap has failed since, Postfix serves the file.                            *)
AliasesServed ==
  /\ \A line, other \in virtual : line[1] = other[1] => line = other
  /\ (\A t \in MailThreads : aliasTask[t].pc # "postmap") /\ ~unmapped => map = virtual

(* Accounts and requests keep their types.                                         *)
BoxTypeOK ==
  /\ account \in [Logins -> {"absent", "bare", "keyed", "changed"}]
  /\ \A t \in MailThreads :
       boxTask[t].op \in {"none", "useradd", "usermod", "chpasswd", "userdel"}

(* A request on a domain changes no account but those of the domain's owner, and the  *)
(* owner's own only when asked for `admin': whichever form the name had, and however   *)
(* accounts came and went since it was looked up.                                    *)
TouchesOwn ==
  \A l \in Logins : account'[l] # account[l] =>
    \E t \in MailThreads : /\ boxTask[t].owner = l[1]
                           /\ l[2] = "admin" => boxTask[t].admin
                           /\ boxTask'[t] # boxTask[t]
OnlyOwnAccounts == [][TouchesOwn]_boxVars

(* Link, file and requests keep their types.                                       *)
ReplyTypeOK ==
  /\ active \in {"none", "own", "vacation"}
  /\ vacation \in Replies \cup {NoReply}
  /\ wanted \subseteq Replies
  /\ \A t \in MailThreads : /\ replyTask[t].pc \in {"none", "install", "link", "unlink", "remove"}
                             /\ replyTask[t].beside \subseteq Replies

(* A mailbox replies only with a text whose update no later one, which began after it *)
(* was done, has replaced or turned off: a reply once turned off never comes back, and *)
(* one that fails half-way brings back no other.                                   *)
NoStaleReply == Replying(active, vacation) => vacation \in wanted
=================================================================================
