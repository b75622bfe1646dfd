------------------------------- MODULE Accounts -------------------------------
(***************************************************************************)
(* Accounts: registration, login with its lockout, refresh tokens and      *)
(* logout (auth.py), and the admin's changes of role and status (admin.py).*)
(*                                                                         *)
(* One HTTP request is one member of Requests, in a database session of    *)
(* its own: SELECT, commit, and where the handler audits, a second commit. *)
(* Other requests commit between any two steps of one.                     *)
(***************************************************************************)
EXTENDS Integers, FiniteSets

CONSTANTS
  Users,      \* accounts, named by their e-mail address
  Staff,      \* the accounts that are administrators from the start
  Requests,   \* HTTP requests, each handled once
  MaxFailed,  \* MAX_FAILED_ATTEMPTS
  Lockout,    \* LOCKOUT_MINUTES, in units of the clock
  TokenLife,  \* REFRESH_TOKEN_EXPIRE_DAYS, in units of the clock, rounded down
  MaxTime,    \* bound: the clock stops here
  Null        \* the value of an empty column or field

ASSUME StaffAreUsers == Staff \subseteq Users
ASSUME NullIsNoId == Null \notin Users \cup Requests
ASSUME Durations == /\ MaxFailed \in Nat \ {0}
                    /\ Lockout \in Nat \ {0}
                    /\ TokenLife \in Nat
                    /\ MaxTime \in Nat

VARIABLES
  users,   \* table users; registered says whether there is such a row
  tokens,  \* table refresh_tokens, each row named by the request that wrote it
  audit,   \* table audit_logs, the rows about users
  welcome, \* table notification_logs, the rows about registrations
  req,     \* the requests and the local state of their handlers
  now      \* the clock of the handlers

vars == <<users, tokens, audit, welcome, req, now>>

Roles == {"client", "admin"}

\* locked is 0 where locked_until is NULL
Row == [registered : BOOLEAN, role : Roles, active : BOOLEAN, failed : Nat,
        locked : Nat]

NoRow == [registered |-> FALSE, role |-> "client", active |-> TRUE,
          failed |-> 0, locked |-> 0]

Token == [user : Users, expires : Nat, revoked : BOOLEAN,
          parent : Requests \cup {Null}]

ASSUME NullIsNoToken == Null \notin Token
ASSUME FewRequests == IsFiniteSet(Requests)

Operations == {"none", "register", "login", "refresh", "logout", "role",
               "status"}

AuditRow == [by : Requests, user : Users, action : Operations]

\* row is the user as loaded; seen, the requests whose commit the handler's
\* first SELECT could see
Request ==
  [pc : {"idle", "reading", "loaded", "committed", "answered"},
   result : {"none", "ok", "refused", "rejected", "error", "dead"},
   op : Operations, user : Users \cup {Null}, token : Requests \cup {Null},
   right : BOOLEAN, role : Roles, active : BOOLEAN, row : Row,
   seen : SUBSET Requests]

NotArrived ==
  [pc |-> "idle", result |-> "none", op |-> "none", user |-> Null,
   token |-> Null, right |-> FALSE, role |-> "client", active |-> FALSE,
   row |-> NoRow, seen |-> {}]

InFlight == {"reading", "loaded", "committed"}

\* Requests that may have written what they came to write
Committed == {r \in Requests : /\ req[r].pc \in {"committed", "answered"}
                               /\ req[r].result \notin {"refused", "error"}}
-----------------------------------------------------------------------------
(***************************************************************************)
(* Helpers.                                                                *)
(***************************************************************************)

Locked(u) == users[u].locked > now

\* get_current_user and require_roles: some active administrator is calling
AdminCalls == \E c \in Users : /\ users[c].registered
                               /\ users[c].active
                               /\ users[c].role = "admin"

\* A slip: the UPDATE writes every column as the handler has it
MergedWholeRow(loaded, new, current) == new

\* The ORM writes a column only if its value differs from the one it loaded
Written(loaded, new, current) == IF new = loaded THEN current ELSE new

Merged(loaded, new, current) ==
  [registered |-> TRUE,
   role |-> Written(loaded.role, new.role, current.role),
   active |-> Written(loaded.active, new.active, current.active),
   failed |-> Written(loaded.failed, new.failed, current.failed),
   locked |-> Written(loaded.locked, new.locked, current.locked)]

\* A slip: the count starts again with every lock
AfterFailureRestarted(row) ==
  [row EXCEPT !.failed = IF @ + 1 >= MaxFailed THEN 0 ELSE @ + 1,
              !.locked = IF row.failed + 1 >= MaxFailed THEN now + Lockout
                                                        ELSE @]

AfterFailure(row) ==
  [row EXCEPT !.failed = @ + 1,
              !.locked = IF row.failed + 1 >= MaxFailed THEN now + Lockout
                                                        ELSE @]

\* A slip: a success takes back one failure
AfterSuccessOnce(row) == [row EXCEPT !.failed = @ - 1, !.locked = 0]

AfterSuccess(row) == [row EXCEPT !.failed = 0, !.locked = 0]

NewToken(u, parent) ==
  [user |-> u, expires |-> now + TokenLife, revoked |-> FALSE,
   parent |-> parent]

\* A slip: a revoked token is found as well
FoundIgnoringRevoked(t) == tokens[t] /= Null

\* The SELECT of refresh
Found(t) == tokens[t] /= Null /\ ~tokens[t].revoked

Begin(r, pc, request) ==
  /\ req[r].pc = "idle"
  /\ req' = [req EXCEPT ![r] = [request EXCEPT !.pc = pc, !.seen = Committed]]
  /\ UNCHANGED <<users, tokens, audit, welcome, now>>

Answer(r, result) ==
  req' = [req EXCEPT ![r].pc = "answered", ![r].result = result]

\* An HTTPException before anything is written
RefuseArrival(r, request) ==
  /\ req[r].pc = "idle"
  /\ req' = [req EXCEPT ![r] = [request EXCEPT !.pc = "answered",
                                               !.result = "refused"]]
  /\ UNCHANGED <<users, tokens, audit, welcome, now>>

About(op, u) == [NotArrived EXCEPT !.op = op, !.user = u]

AboutRow(op, u) == [About(op, u) EXCEPT !.row = users[u]]

Audited(r) ==
  audit' = audit \cup {[by |-> r, user |-> req[r].user, action |-> req[r].op]}
-----------------------------------------------------------------------------
(***************************************************************************)
(* Registration.                                                           *)
(***************************************************************************)
LoadRegister(r, u) ==
  /\ ~users[u].registered
  /\ Begin(r, "loaded", About("register", u))

RefuseRegister(r, u) ==
  /\ users[u].registered
  /\ RefuseArrival(r, About("register", u))

\* A slip: no unique constraint on email, the later row is the one found
InsertTwice(r) ==
  /\ req[r].pc = "loaded" /\ req[r].op = "register"
  /\ users' = [users EXCEPT ![req[r].user] = [NoRow EXCEPT !.registered = TRUE]]
  /\ req' = [req EXCEPT ![r].pc = "committed"]
  /\ UNCHANGED <<tokens, audit, welcome, now>>

Insert(r) ==
  LET u == req[r].user
  IN /\ req[r].pc = "loaded" /\ req[r].op = "register"
     /\ ~users[u].registered
     /\ users' = [users EXCEPT ![u] = [NoRow EXCEPT !.registered = TRUE]]
     /\ req' = [req EXCEPT ![r].pc = "committed"]
     /\ UNCHANGED <<tokens, audit, welcome, now>>

\* The unique constraint on email: the commit raises, the answer is an error
InsertRaced(r) ==
  /\ req[r].pc = "loaded" /\ req[r].op = "register"
  /\ users[req[r].user].registered
  /\ Answer(r, "error")
  /\ UNCHANGED <<users, tokens, audit, welcome, now>>

\* Audit row and notification row, once SES has taken or refused the mail
FinishRegister(r) ==
  /\ req[r].pc = "committed" /\ req[r].op = "register"
  /\ Audited(r)
  /\ welcome' = welcome \cup {r}
  /\ Answer(r, "ok")
  /\ UNCHANGED <<users, tokens, now>>

\* SES fails in a way send() does not catch: both rows are rolled back, and an
\* account is there whose registration was answered with an error
WelcomeRaises(r) ==
  /\ req[r].pc = "committed" /\ req[r].op = "register"
  /\ Answer(r, "error")
  /\ UNCHANGED <<users, tokens, audit, welcome, now>>
-----------------------------------------------------------------------------
(***************************************************************************)
(* Login.                                                                  *)
(***************************************************************************)
LoadLogin(r, u) ==
  /\ users[u].registered /\ users[u].active /\ ~Locked(u)
  /\ \E right \in BOOLEAN :
       Begin(r, "loaded", [AboutRow("login", u) EXCEPT !.right = right])

\* 401 or 423: unknown, locked or disabled
RefuseLogin(r, u) ==
  /\ ~users[u].registered \/ ~users[u].active \/ Locked(u)
  /\ RefuseArrival(r, NotArrived)

\* A wrong password: count it, lock the account from MaxFailed on, then raise
RejectLogin(r) ==
  LET u == req[r].user
      row == req[r].row
  IN /\ req[r].pc = "loaded" /\ req[r].op = "login" /\ ~req[r].right
     /\ users' = [users EXCEPT ![u] = Merged(row, AfterFailure(row), @)]
     /\ Answer(r, "rejected")
     /\ UNCHANGED <<tokens, audit, welcome, now>>

AcceptLogin(r) ==
  LET u == req[r].user
      row == req[r].row
  IN /\ req[r].pc = "loaded" /\ req[r].op = "login" /\ req[r].right
     /\ users' = [users EXCEPT ![u] = Merged(row, AfterSuccess(row), @)]
     /\ tokens' = [tokens EXCEPT ![r] = NewToken(u, Null)]
     /\ req' = [req EXCEPT ![r].pc = "committed"]
     /\ UNCHANGED <<audit, welcome, now>>

\* Second transaction of a login or a change of role: the audit row
FinishAudited(r) ==
  /\ req[r].pc = "committed" /\ req[r].op \in {"login", "role"}
  /\ Audited(r)
  /\ Answer(r, "ok")
  /\ UNCHANGED <<users, tokens, welcome, now>>
-----------------------------------------------------------------------------
(***************************************************************************)
(* Refresh tokens.                                                         *)
(***************************************************************************)
LoadToken(r, t) ==
  /\ Found(t) /\ tokens[t].expires >= now
  /\ Begin(r, "reading", [About("refresh", tokens[t].user) EXCEPT !.token = t])

RefuseToken(r, t) ==
  /\ ~(Found(t) /\ tokens[t].expires >= now)
  /\ RefuseArrival(r, NotArrived)

\* The second SELECT of refresh: the token's user
LoadOwner(r) ==
  /\ req[r].pc = "reading"
  /\ IF users[req[r].user].active
     THEN req' = [req EXCEPT ![r].pc = "loaded"]
     ELSE Answer(r, "refused")
  /\ UNCHANGED <<users, tokens, audit, welcome, now>>

Rotate(r) ==
  /\ req[r].pc = "loaded" /\ req[r].op = "refresh"
  /\ tokens' = [tokens EXCEPT ![req[r].token].revoked = TRUE,
                              ![r] = NewToken(req[r].user, req[r].token)]
  /\ Answer(r, "ok")
  /\ UNCHANGED <<users, audit, welcome, now>>

\* Logout asks for no user; an unknown token is answered with 204 as well
LoadLogout(r, t) ==
  /\ tokens[t] /= Null
  /\ Begin(r, "loaded", [About("logout", tokens[t].user) EXCEPT !.token = t])

Revoke(r) ==
  /\ req[r].pc = "loaded" /\ req[r].op = "logout"
  /\ tokens' = [tokens EXCEPT ![req[r].token].revoked = TRUE]
  /\ Answer(r, "ok")
  /\ UNCHANGED <<users, audit, welcome, now>>
-----------------------------------------------------------------------------
(***************************************************************************)
(* Administration.                                                         *)
(***************************************************************************)
LoadRoleChange(r, u) ==
  /\ AdminCalls /\ users[u].registered
  /\ \E role \in Roles :
       Begin(r, "loaded", [AboutRow("role", u) EXCEPT !.role = role])

LoadStatusChange(r, u) ==
  /\ AdminCalls /\ users[u].registered
  /\ \E active \in BOOLEAN :
       Begin(r, "loaded", [AboutRow("status", u) EXCEPT !.active = active])

\* 403 or 404
RefuseAdmin(r, u) ==
  /\ ~AdminCalls \/ ~users[u].registered
  /\ RefuseArrival(r, NotArrived)

CommitRoleChange(r) ==
  LET u == req[r].user
      row == req[r].row
  IN /\ req[r].pc = "loaded" /\ req[r].op = "role"
     /\ users' = [users EXCEPT
                    ![u] = Merged(row, [row EXCEPT !.role = req[r].role], @)]
     /\ req' = [req EXCEPT ![r].pc = "committed"]
     /\ UNCHANGED <<tokens, audit, welcome, now>>

\* No audit row is written for a change of status
CommitStatusChange(r) ==
  LET u == req[r].user
      row == req[r].row
  IN /\ req[r].pc = "loaded" /\ req[r].op = "status"
     /\ users' = [users EXCEPT
                    ![u] = Merged(row, [row EXCEPT !.active = req[r].active], @)]
     /\ Answer(r, "ok")
     /\ UNCHANGED <<tokens, audit, welcome, now>>
-----------------------------------------------------------------------------
\* The process, its connection or the pool fails
Die(r) ==
  /\ req[r].pc \in InFlight
  /\ Answer(r, "dead")
  /\ UNCHANGED <<users, tokens, audit, welcome, now>>

Tick ==
  /\ now < MaxTime
  /\ now' = now + 1
  /\ UNCHANGED <<users, tokens, audit, welcome, req>>

\* Administrators are put into the table by hand, clients may have registered
Init ==
  /\ users \in [Users -> {NoRow, [NoRow EXCEPT !.registered = TRUE],
                          [NoRow EXCEPT !.registered = TRUE, !.role = "admin"]}]
  /\ \A u \in Users : users[u].role = "admin" <=> u \in Staff
  /\ tokens = [r \in Requests |-> Null]
  /\ audit = {}
  /\ welcome = {}
  /\ req = [r \in Requests |-> NotArrived]
  /\ now = 0

Arrive(r) ==
  \/ \E u \in Users : \/ LoadRegister(r, u) \/ RefuseRegister(r, u)
                      \/ LoadLogin(r, u) \/ RefuseLogin(r, u)
                      \/ LoadRoleChange(r, u) \/ LoadStatusChange(r, u)
                      \/ RefuseAdmin(r, u)
  \/ \E t \in Requests : \/ LoadToken(r, t) \/ RefuseToken(r, t)
                         \/ LoadLogout(r, t)

Step(r) ==
  \/ Insert(r) \/ InsertRaced(r) \/ FinishRegister(r) \/ WelcomeRaises(r)
  \/ RejectLogin(r) \/ AcceptLogin(r) \/ FinishAudited(r)
  \/ LoadOwner(r) \/ Rotate(r) \/ Revoke(r)
  \/ CommitRoleChange(r) \/ CommitStatusChange(r)

Next == (\E r \in Requests : Arrive(r) \/ Step(r) \/ Die(r)) \/ Tick

Spec == Init /\ [][Next]_vars
-----------------------------------------------------------------------------
(***************************************************************************)
(* Properties.                                                             *)
(***************************************************************************)

\* Every row and every request has the columns and values the code gives it.
TypeOK ==
  /\ users \in [Users -> Row]
  /\ tokens \in [Requests -> Token \cup {Null}]
  /\ audit \subseteq AuditRow
  /\ welcome \subseteq Requests
  /\ req \in [Requests -> Request]
  /\ \A r \in Requests : req[r].pc \in InFlight => req[r].user \in Users
  /\ \A r \in Requests : /\ req[r].pc \in {"reading", "loaded"}
                         /\ req[r].op \in {"refresh", "logout"}
                         => req[r].token \in Requests /\ tokens[req[r].token] \in Token
  /\ now \in 0..MaxTime

Rejected(u) == {r \in Requests : req[r].user = u /\ req[r].result = "rejected"}

Accepted(u) ==
  {r \in Committed : req[r].op = "login" /\ req[r].user = u /\ req[r].right
                     /\ tokens[r] /= Null}

\* An account never counts more failures, and is never locked by fewer, than
\* there were attempts with a wrong password, however stale the rows they read.
LocksAreEarned ==
  \A u \in Users :
    /\ users[u].failed <= Cardinality(Rejected(u))
    /\ users[u].locked /= 0 => Cardinality(Rejected(u)) >= MaxFailed

\* Locks are earned; and as long as nobody has logged in, attempts that never
\* read the same count are all counted, and MaxFailed of them have locked the
\* account: only attempts that overlap can be lost, and no change by an
\* administrator loses one.
FailuresCount ==
  /\ LocksAreEarned
  /\ \A u \in Users :
       /\ Accepted(u) = {}
       /\ \A r, q \in Rejected(u) :
            r /= q => req[r].row.failed /= req[q].row.failed
       => /\ users[u].failed = Cardinality(Rejected(u))
          /\ Cardinality(Rejected(u)) >= MaxFailed => users[u].locked /= 0

\* The requests that have revoked token t
Revokers(t) == {r \in Committed : /\ req[r].token = t
                                  /\ req[r].op \in {"refresh", "logout"}
                                  /\ req[r].result = "ok"}

\* Each token comes from an accepted login, or from a refresh of a token of the
\* same user that is revoked for good and that nobody the refresh could see had
\* revoked before: a token has two successors, or one after its logout, only if
\* those requests overlapped.
TokensSucceedOnce ==
  \A r \in Requests : tokens[r] /= Null =>
    LET p == tokens[r].parent
    IN IF p = Null
       THEN req[r].op = "login" /\ req[r].right
       ELSE /\ tokens[p] /= Null
            /\ tokens[p].user = tokens[r].user
            /\ tokens[p].revoked
            /\ Revokers(p) \cap req[r].seen = {}

\* One registration at most creates an account; answered without an error, it
\* leaves account, audit row and notification, and refused, there was one.
RegistrationOutcome ==
  \A r \in Requests : req[r].op = "register" =>
    /\ req[r].result = "ok" => r \in welcome /\ \E x \in audit : x.by = r
    /\ r \in welcome => \A q \in welcome : req[q].user = req[r].user => q = r
    /\ r \in welcome \/ req[r].result \in {"refused", "error"}
         => users[req[r].user].registered

\* The committed changes of kind op on account u that r had not seen
Unseen(r, op, u) ==
  {q \in Committed : q /= r /\ req[q].op = op /\ req[q].user = u
                     /\ q \notin req[r].seen}

\* A change by an administrator that was confirmed holds until another one: no
\* login in flight writes back the role or the status it has read.
AdminChangesHold ==
  \A r \in Requests : req[r].result = "ok" =>
    /\ req[r].op = "status" /\ Unseen(r, "status", req[r].user) = {}
         => users[req[r].user].active = req[r].active
    /\ req[r].op = "role" /\ Unseen(r, "role", req[r].user) = {}
         => users[req[r].user].role = req[r].role
=============================================================================
