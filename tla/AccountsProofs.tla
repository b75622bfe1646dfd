---------------------------- MODULE AccountsProofs ----------------------------
(***************************************************************************)
(* Proofs about Accounts for any users, requests and durations: locks,     *)
(* tokens, registrations and the changes of administrators, however the    *)
(* requests interleave and die. Each step is reduced first to its effect on *)
(* the request that takes it; the invariants follow from those effects.    *)
(***************************************************************************)
EXTENDS Accounts, FiniteSetTheorems, TLAPS

Pcs == {"idle", "reading", "loaded", "committed", "answered"}
Results == {"none", "ok", "refused", "rejected", "error", "dead"}

\* The requests other than r stay as they are.
Others(r) ==
  /\ req' = [q \in Requests |-> req'[q]]
  /\ \A q \in Requests : q /= r => req'[q] = req[q]

\* Request r goes on to pc and result, and nothing else of it changes.
Moved(r, pc, result) ==
  /\ Others(r)
  /\ req'[r] \in Request
  /\ req'[r].pc = pc /\ req'[r].result = result
  /\ req'[r].op = req[r].op /\ req'[r].user = req[r].user
  /\ req'[r].token = req[r].token /\ req'[r].right = req[r].right
  /\ req'[r].role = req[r].role /\ req'[r].active = req[r].active
  /\ req'[r].row = req[r].row /\ req'[r].seen = req[r].seen

\* Request r arrives: it is refused, or it has read what its handler needs.
Arrived(r) ==
  LET u == req'[r].user
      t == req'[r].token
      op == req'[r].op
  IN /\ Others(r)
     /\ req'[r] \in Request
     /\ req[r].pc = "idle"
     /\ UNCHANGED <<users, tokens, audit, welcome, now>>
     /\ \/ /\ req'[r].pc = "answered" /\ req'[r].result = "refused"
           /\ req'[r].seen = {}
           /\ \/ op = "none"
              \/ op = "register" /\ u \in Users /\ users[u].registered
        \/ /\ req'[r].pc = "loaded" /\ req'[r].result = "none"
           /\ req'[r].seen = Committed /\ u \in Users
           /\ \/ op = "register"
              \/ /\ op \in {"login", "role", "status"}
                 /\ users[u].registered /\ req'[r].row = users[u]
              \/ op = "logout" /\ t \in Requests /\ tokens[t] /= Null
        \/ /\ req'[r].pc = "reading" /\ req'[r].result = "none"
           /\ req'[r].seen = Committed /\ op = "refresh"
           /\ t \in Requests /\ tokens[t] /= Null /\ ~tokens[t].revoked
           /\ u \in Users /\ u = tokens[t].user
-----------------------------------------------------------------------------
(***************************************************************************)
(* Shapes of steps.                                                        *)
(***************************************************************************)

LEMMA AnswerMoves ==
  ASSUME TypeOK, NEW r \in Requests, NEW result \in Results, Answer(r, result)
  PROVE  Moved(r, "answered", result)
  <1>1. req'[r] = [req[r] EXCEPT !.pc = "answered", !.result = result]
    BY DEF TypeOK, Answer
  <1>2. Others(r)
    BY DEF TypeOK, Answer, Others
  <1>3. req[r] \in Request
    BY DEF TypeOK
  <1> QED
    BY <1>1, <1>2, <1>3 DEF Moved, Request, Results

LEMMA PcMoves ==
  ASSUME TypeOK, NEW r \in Requests, NEW pc \in Pcs,
         req' = [req EXCEPT ![r].pc = pc]
  PROVE  Moved(r, pc, req[r].result)
  <1>1. req'[r] = [req[r] EXCEPT !.pc = pc]
    BY DEF TypeOK
  <1>2. Others(r)
    BY DEF TypeOK, Others
  <1>3. req[r] \in Request
    BY DEF TypeOK
  <1> QED
    BY <1>1, <1>2, <1>3 DEF Moved, Request, Pcs

LEMMA BlankRequest == NotArrived \in Request /\ NoRow \in Row
  BY DEF NotArrived, NoRow, Request, Row, Roles, Operations

\* A request that is let in
LEMMA BeginMoves ==
  ASSUME TypeOK, NEW r \in Requests, NEW pc \in {"reading", "loaded"},
         NEW request \in Request, Begin(r, pc, request)
  PROVE  /\ Others(r) /\ req'[r] \in Request
         /\ req[r].pc = "idle" /\ req'[r].pc = pc
         /\ req'[r].seen = Committed
         /\ req'[r].result = request.result /\ req'[r].op = request.op
         /\ req'[r].user = request.user /\ req'[r].token = request.token
         /\ req'[r].row = request.row
         /\ UNCHANGED <<users, tokens, audit, welcome, now>>
  <1>1. Committed \in SUBSET Requests
    BY DEF Committed
  <1>2. req'[r] = [request EXCEPT !.pc = pc, !.seen = Committed]
    BY DEF TypeOK, Begin
  <1>3. /\ req'[r] \in Request /\ req'[r].pc = pc
        /\ req'[r].seen = Committed
        /\ req'[r].result = request.result /\ req'[r].op = request.op
        /\ req'[r].user = request.user /\ req'[r].token = request.token
        /\ req'[r].row = request.row
    BY <1>1, <1>2 DEF Request
  <1>4. Others(r)
    BY DEF TypeOK, Begin, Others
  <1> QED
    BY <1>3, <1>4 DEF Begin

LEMMA RefusalMoves ==
  ASSUME TypeOK, NEW r \in Requests, NEW request \in Request,
         request.op = "none" \/ (request.op = "register" /\ request.user \in Users
                                 /\ users[request.user].registered),
         request.seen = {}, RefuseArrival(r, request)
  PROVE  Arrived(r)
  <1>1. req'[r] = [request EXCEPT !.pc = "answered", !.result = "refused"]
    BY DEF TypeOK, RefuseArrival
  <1>2. /\ req'[r] \in Request /\ req'[r].pc = "answered"
        /\ req'[r].result = "refused" /\ req'[r].seen = {}
        /\ req'[r].op = request.op /\ req'[r].user = request.user
    BY <1>1 DEF Request
  <1>3. Others(r) /\ req[r].pc = "idle"
        /\ UNCHANGED <<users, tokens, audit, welcome, now>>
    BY DEF TypeOK, RefuseArrival, Others
  <1> QED
    BY <1>2, <1>3 DEF Arrived

LEMMA ArriveMoves ==
  ASSUME TypeOK, NEW r \in Requests, Arrive(r)
  PROVE  Arrived(r)
  <1>a. \A op \in Operations, u \in Users :
          /\ About(op, u) \in Request /\ About(op, u).op = op
          /\ About(op, u).user = u /\ About(op, u).seen = {}
          /\ About(op, u).result = "none"
    BY BlankRequest DEF About, NotArrived, Request
  <1>b. \A op \in Operations, u \in Users :
          /\ AboutRow(op, u) \in Request /\ AboutRow(op, u).op = op
          /\ AboutRow(op, u).user = u /\ AboutRow(op, u).row = users[u]
          /\ AboutRow(op, u).result = "none"
    BY <1>a DEF AboutRow, TypeOK, Request
  <1>1. ASSUME NEW u \in Users, LoadRegister(r, u)
        PROVE  Arrived(r)
    <2>1. Begin(r, "loaded", About("register", u)) /\ "register" \in Operations
      BY <1>1 DEF LoadRegister, Operations
    <2> QED
      BY <1>a, <2>1, BeginMoves DEF Arrived
  <1>2. ASSUME NEW u \in Users, RefuseRegister(r, u)
        PROVE  Arrived(r)
    <2>1. RefuseArrival(r, About("register", u)) /\ "register" \in Operations
      BY <1>2 DEF RefuseRegister, Operations
    <2> QED
      BY <1>2, <1>a, <2>1, RefusalMoves DEF RefuseRegister
  <1>3. ASSUME NEW u \in Users,
               LoadLogin(r, u) \/ LoadRoleChange(r, u) \/ LoadStatusChange(r, u)
        PROVE  Arrived(r)
    <2>1. PICK request \in Request :
            /\ Begin(r, "loaded", request)
            /\ request.op \in {"login", "role", "status"}
            /\ request.user = u /\ request.row = users[u]
            /\ request.result = "none"
      <3>1. CASE LoadLogin(r, u)
        <4>1. PICK right \in BOOLEAN :
                Begin(r, "loaded", [AboutRow("login", u) EXCEPT !.right = right])
          BY <3>1 DEF LoadLogin
        <4> DEFINE request == [AboutRow("login", u) EXCEPT !.right = right]
        <4>2. /\ request \in Request /\ request.op = "login"
              /\ request.user = u /\ request.row = users[u]
              /\ request.result = "none"
          BY <1>b DEF Request, Operations
        <4> QED
          BY <4>1, <4>2
      <3>2. CASE LoadRoleChange(r, u)
        <4>1. PICK role \in Roles :
                Begin(r, "loaded", [AboutRow("role", u) EXCEPT !.role = role])
          BY <3>2 DEF LoadRoleChange
        <4> DEFINE request == [AboutRow("role", u) EXCEPT !.role = role]
        <4>2. /\ request \in Request /\ request.op = "role"
              /\ request.user = u /\ request.row = users[u]
              /\ request.result = "none"
          BY <1>b DEF Request, Operations
        <4> QED
          BY <4>1, <4>2
      <3>3. CASE LoadStatusChange(r, u)
        <4>1. PICK active \in BOOLEAN :
                Begin(r, "loaded", [AboutRow("status", u) EXCEPT !.active = active])
          BY <3>3 DEF LoadStatusChange
        <4> DEFINE request == [AboutRow("status", u) EXCEPT !.active = active]
        <4>2. /\ request \in Request /\ request.op = "status"
              /\ request.user = u /\ request.row = users[u]
              /\ request.result = "none"
          BY <1>b DEF Request, Operations
        <4> QED
          BY <4>1, <4>2
      <3> QED
        BY <1>3, <3>1, <3>2, <3>3
    <2>2. users[u].registered
      BY <1>3 DEF LoadLogin, LoadRoleChange, LoadStatusChange
    <2> QED
      BY <2>1, <2>2, BeginMoves DEF Arrived
  <1>4. ASSUME NEW u \in Users, RefuseLogin(r, u) \/ RefuseAdmin(r, u)
        PROVE  Arrived(r)
    <2>1. RefuseArrival(r, NotArrived)
      BY <1>4 DEF RefuseLogin, RefuseAdmin
    <2>2. NotArrived.op = "none" /\ NotArrived.seen = {}
      BY DEF NotArrived
    <2> QED
      BY <2>1, <2>2, BlankRequest, RefusalMoves
  <1>5. ASSUME NEW t \in Requests, LoadToken(r, t)
        PROVE  Arrived(r)
    <2> DEFINE u == tokens[t].user
               request == [About("refresh", u) EXCEPT !.token = t]
    <2>1. /\ tokens[t] /= Null /\ ~tokens[t].revoked /\ u \in Users
          /\ Begin(r, "reading", request)
      BY <1>5 DEF LoadToken, Found, TypeOK, Token
    <2>2. /\ request \in Request /\ request.op = "refresh"
          /\ request.user = u /\ request.token = t /\ request.result = "none"
      BY <1>a, <2>1 DEF Request, Operations
    <2> HIDE DEF u, request
    <2>3. /\ Others(r) /\ req'[r] \in Request
          /\ req[r].pc = "idle" /\ req'[r].pc = "reading"
          /\ req'[r].seen = Committed
          /\ req'[r].result = "none" /\ req'[r].op = "refresh"
          /\ req'[r].user = u /\ req'[r].token = t
          /\ UNCHANGED <<users, tokens, audit, welcome, now>>
      BY <2>1, <2>2, BeginMoves
    <2> QED
      BY <2>1, <2>3 DEF Arrived, u
  <1>6. ASSUME NEW t \in Requests, RefuseToken(r, t)
        PROVE  Arrived(r)
    <2>1. NotArrived.op = "none" /\ NotArrived.seen = {}
      BY DEF NotArrived
    <2> QED
      BY <1>6, <2>1, BlankRequest, RefusalMoves DEF RefuseToken
  <1>7. ASSUME NEW t \in Requests, LoadLogout(r, t)
        PROVE  Arrived(r)
    <2> DEFINE u == tokens[t].user
               request == [About("logout", u) EXCEPT !.token = t]
    <2>1. /\ tokens[t] /= Null /\ u \in Users
          /\ Begin(r, "loaded", request)
      BY <1>7 DEF LoadLogout, TypeOK, Token
    <2>2. /\ request \in Request /\ request.op = "logout"
          /\ request.user = u /\ request.token = t /\ request.result = "none"
      BY <1>a, <2>1 DEF Request, Operations
    <2> HIDE DEF u, request
    <2>3. /\ Others(r) /\ req'[r] \in Request
          /\ req[r].pc = "idle" /\ req'[r].pc = "loaded"
          /\ req'[r].seen = Committed
          /\ req'[r].result = "none" /\ req'[r].op = "logout"
          /\ req'[r].user = u /\ req'[r].token = t
          /\ UNCHANGED <<users, tokens, audit, welcome, now>>
      BY <2>1, <2>2, BeginMoves
    <2> QED
      BY <2>1, <2>3 DEF Arrived
  <1> QED
    BY <1>1, <1>2, <1>3, <1>4, <1>5, <1>6, <1>7 DEF Arrive
-----------------------------------------------------------------------------
(***************************************************************************)
(* Types and phases: what requests at each point have done and seen.       *)
(***************************************************************************)

\* The requests that have committed, or are over
Past == {q \in Requests : req[q].pc \in {"committed", "answered"}}

PhaseOf(r) ==
  /\ req[r].pc = "idle" => req[r].op = "none"
  /\ req[r].pc \in InFlight \cup {"idle"} <=> req[r].result = "none"
  /\ req[r].pc = "reading" => req[r].op = "refresh"
  /\ req[r].pc = "loaded" => req[r].op /= "none"
  /\ req[r].pc = "committed" => req[r].op \in {"register", "login", "role"}
  /\ req[r].op \in {"login", "role", "status"} =>
       req[r].user \in Users /\ users[req[r].user].registered
  /\ req[r].op = "register" => req[r].user \in Users
  /\ req[r].result = "rejected" => req[r].op = "login"
  /\ req[r].result \in {"refused", "error"} =>
       req[r].op \in {"none", "register", "refresh"}
  /\ req[r].seen \subseteq Past
  /\ tokens[r] /= Null => r \in Past
  /\ r \in welcome => req[r].op = "register" /\ r \in Past

Phases == \A r \in Requests : PhaseOf(r)

Base == TypeOK /\ Phases

LEMMA Base_Init == Init => Base
  <1> SUFFICES ASSUME Init PROVE Base
    OBVIOUS
  <1>1. \A r \in Requests : req[r] = NotArrived /\ tokens[r] = Null
    BY DEF Init
  <1>2. [NoRow EXCEPT !.registered = TRUE] \in Row
        /\ [NoRow EXCEPT !.registered = TRUE, !.role = "admin"] \in Row
    BY DEF NoRow, Row, Roles
  <1>3. users \in [Users -> Row]
    BY <1>2, BlankRequest DEF Init
  <1>4. TypeOK
    BY <1>1, <1>3, BlankRequest, Durations DEF Init, TypeOK, NotArrived, InFlight
  <1>5. Phases
    BY <1>1 DEF Init, Phases, PhaseOf, NotArrived, InFlight, Past
  <1> QED
    BY <1>4, <1>5 DEF Base

LEMMA Base_Arrived ==
  ASSUME Base, NEW r \in Requests, Arrived(r)
  PROVE  Base'
  <1>1. TypeOK'
    BY DEF Base, TypeOK, Arrived, Others, InFlight
  <1>2. Committed \subseteq Past /\ Past \subseteq Past'
    BY DEF Committed, Past, Arrived, Others
  <1>3. ASSUME NEW q \in Requests
        PROVE  PhaseOf(q)'
    <2>1. CASE q = r
      BY <1>2, <2>1 DEF Base, Phases, PhaseOf, Arrived, InFlight, Past
    <2>2. CASE q /= r
      <3>1. req'[q] = req[q]
        BY <2>2 DEF Arrived, Others
      <3>2. UNCHANGED <<users, tokens, welcome>>
        BY DEF Arrived
      <3> QED
        BY <1>2, <3>1, <3>2 DEF Base, Phases, PhaseOf, Past
    <2> QED
      BY <2>1, <2>2
  <1> QED
    BY <1>1, <1>3 DEF Base, Phases

\* A merged row is one, with the role and status, and the count and the lock,
\* of one of the rows it is merged from.
LEMMA MergedRow ==
  ASSUME NEW loaded \in Row, NEW new \in Row, NEW current \in Row
  PROVE  /\ Merged(loaded, new, current) \in Row
         /\ Merged(loaded, new, current).registered
         /\ Merged(loaded, new, current).role
              = Written(loaded.role, new.role, current.role)
         /\ Merged(loaded, new, current).active
              = Written(loaded.active, new.active, current.active)
         /\ Merged(loaded, new, current).failed
              = Written(loaded.failed, new.failed, current.failed)
         /\ Merged(loaded, new, current).locked
              = Written(loaded.locked, new.locked, current.locked)
  <1>1. /\ Written(loaded.role, new.role, current.role) \in Roles
        /\ Written(loaded.failed, new.failed, current.failed) \in Nat
        /\ Written(loaded.locked, new.locked, current.locked) \in Nat
    BY DEF Written, Row
  <1>2. Written(loaded.active, new.active, current.active) \in BOOLEAN
    BY Zenon DEF Written, Row
  <1> QED
    BY <1>1, <1>2 DEF Merged, Row

\* The rows that handlers compute
LEMMA NewRows ==
  ASSUME TypeOK, NEW row \in Row, NEW role \in Roles, NEW active \in BOOLEAN
  PROVE  /\ AfterFailure(row) \in Row /\ AfterSuccess(row) \in Row
         /\ [row EXCEPT !.role = role] \in Row
         /\ [row EXCEPT !.active = active] \in Row
  <1>1. now + Lockout \in Nat /\ row.failed + 1 \in Nat
    BY Durations DEF TypeOK, Row
  <1>2. AfterFailure(row) \in Row
    BY <1>1 DEF AfterFailure, Row
  <1>3. AfterSuccess(row) \in Row
    BY DEF AfterSuccess, Row
  <1> QED
    BY <1>2, <1>3 DEF Row

\* A step of r that has its place in the order of phases, and writes to the row
\* of its own user at most, keeps types and phases.
Wrote(u, row) ==
  /\ users' = [users EXCEPT ![u] = row]
  /\ u \in Users /\ row \in Row /\ row.registered

LEMMA Base_Moved ==
  ASSUME Base, NEW r \in Requests, NEW pc \in {"loaded", "committed", "answered"},
         NEW result \in Results, Moved(r, pc, result), req[r].pc \in InFlight,
         \/ users' = users
         \/ \E u \in Users, row \in Row : Wrote(u, row),
         tokens' \in [Requests -> Token \cup {Null}],
         \A t \in Requests : tokens[t] \in Token => tokens'[t] \in Token,
         \A t \in Requests : tokens'[t] /= Null => tokens[t] /= Null \/ t = r,
         tokens'[r] /= Null /\ tokens[r] = Null => pc \in {"committed", "answered"},
         audit' \subseteq AuditRow,
         welcome' \in {welcome, welcome \cup {r}},
         r \in welcome' => r \in welcome \/ (req[r].op = "register" /\ pc = "answered"),
         now' = now,
         pc = "loaded" => req[r].pc = "reading",
         pc = "committed" => req[r].op \in {"register", "login", "role"},
         pc = "answered" <=> result /= "none",
         result = "rejected" => req[r].op = "login",
         result \in {"refused", "error"} => req[r].op \in {"register", "refresh"}
  PROVE  Base'
  <1>1. /\ users' \in [Users -> Row]
        /\ \A u \in Users : users[u].registered => users'[u].registered
    BY DEF Base, TypeOK, Wrote
  <1>2. TypeOK'
    BY <1>1 DEF Base, TypeOK, Moved, Others, InFlight
  <1>3. Past \subseteq Past'
    BY DEF Past, Moved, Others, InFlight
  <1>4. ASSUME NEW q \in Requests
        PROVE  PhaseOf(q)'
    <2>1. CASE q = r
      BY <1>1, <1>3, <2>1 DEF Base, Phases, PhaseOf, Moved, InFlight, Past, Results
    <2>2. CASE q /= r
      <3>1. req'[q] = req[q]
        BY <2>2 DEF Moved, Others
      <3> QED
        BY <1>1, <1>3, <2>2, <3>1 DEF Base, Phases, PhaseOf, Past
    <2> QED
      BY <2>1, <2>2
  <1> QED
    BY <1>2, <1>4 DEF Base, Phases

\* Where each step takes the request that takes it
LEMMA StepMoves ==
  ASSUME Base, NEW r \in Requests
  PROVE  /\ req[r].pc \in InFlight => req[r].result = "none"
         /\ Insert(r) \/ AcceptLogin(r) \/ CommitRoleChange(r)
              => Moved(r, "committed", "none") /\ req[r].pc = "loaded"
         /\ InsertRaced(r) => Moved(r, "answered", "error") /\ req[r].pc = "loaded"
         /\ WelcomeRaises(r) => Moved(r, "answered", "error") /\ req[r].pc = "committed"
         /\ FinishRegister(r) \/ FinishAudited(r)
              => Moved(r, "answered", "ok") /\ req[r].pc = "committed"
         /\ RejectLogin(r) => Moved(r, "answered", "rejected") /\ req[r].pc = "loaded"
         /\ LoadOwner(r) => /\ req[r].pc = "reading" /\ req[r].op = "refresh"
                            /\ \/ Moved(r, "loaded", "none")
                               \/ Moved(r, "answered", "refused")
         /\ Rotate(r) \/ Revoke(r) \/ CommitStatusChange(r)
              => Moved(r, "answered", "ok") /\ req[r].pc = "loaded"
         /\ Die(r) => Moved(r, "answered", "dead") /\ req[r].pc \in InFlight
  <1>1. TypeOK /\ PhaseOf(r)
    BY DEF Base, Phases
  <1>2. req[r].pc \in InFlight => req[r].result = "none"
    BY <1>1 DEF PhaseOf
  <1>3. \A pc \in Pcs : req' = [req EXCEPT ![r].pc = pc]
                          => Moved(r, pc, req[r].result)
    BY <1>1, PcMoves
  <1>4. \A result \in Results : Answer(r, result) => Moved(r, "answered", result)
    BY <1>1, AnswerMoves
  <1>5. Insert(r) \/ AcceptLogin(r) \/ CommitRoleChange(r)
          => Moved(r, "committed", "none") /\ req[r].pc = "loaded"
    BY <1>2, <1>3 DEF Insert, AcceptLogin, CommitRoleChange, Pcs, InFlight
  <1>6. InsertRaced(r) => Moved(r, "answered", "error") /\ req[r].pc = "loaded"
    BY <1>4 DEF InsertRaced, Results
  <1>7. WelcomeRaises(r) => Moved(r, "answered", "error") /\ req[r].pc = "committed"
    BY <1>4 DEF WelcomeRaises, Results
  <1>8. FinishRegister(r) \/ FinishAudited(r)
          => Moved(r, "answered", "ok") /\ req[r].pc = "committed"
    BY <1>4 DEF FinishRegister, FinishAudited, Results
  <1>9. RejectLogin(r) => Moved(r, "answered", "rejected") /\ req[r].pc = "loaded"
    BY <1>4 DEF RejectLogin, Results
  <1>10. LoadOwner(r) => /\ req[r].pc = "reading" /\ req[r].op = "refresh"
                         /\ \/ Moved(r, "loaded", "none")
                            \/ Moved(r, "answered", "refused")
    BY <1>1, <1>2, <1>3, <1>4 DEF LoadOwner, PhaseOf, Results, Pcs, InFlight
  <1>11. Rotate(r) \/ Revoke(r) \/ CommitStatusChange(r)
           => Moved(r, "answered", "ok") /\ req[r].pc = "loaded"
    BY <1>4 DEF Rotate, Revoke, CommitStatusChange, Results
  <1>12. Die(r) => Moved(r, "answered", "dead") /\ req[r].pc \in InFlight
    BY <1>4 DEF Die, Results
  <1> QED
    BY <1>2, <1>5, <1>6, <1>7, <1>8, <1>9, <1>10, <1>11, <1>12

\* What each step writes
LEMMA StepWrites ==
  ASSUME Base, NEW r \in Requests
  PROVE  /\ Insert(r) => /\ req[r].op = "register" /\ req[r].user \in Users
                         /\ Wrote(req[r].user, [NoRow EXCEPT !.registered = TRUE])
         /\ RejectLogin(r) \/ AcceptLogin(r) \/ CommitRoleChange(r)
               \/ CommitStatusChange(r)
              => \E row \in Row : Wrote(req[r].user, row)
         /\ AcceptLogin(r) => NewToken(req[r].user, Null) \in Token
         /\ Rotate(r) => /\ req[r].token \in Requests
                         /\ tokens[req[r].token] \in Token
                         /\ NewToken(req[r].user, req[r].token) \in Token
         /\ Revoke(r) => /\ req[r].token \in Requests
                         /\ tokens[req[r].token] \in Token
         /\ FinishRegister(r) \/ FinishAudited(r) => audit' \subseteq AuditRow
  <1> DEFINE u == req[r].user
             row == req[r].row
  <1>1. TypeOK /\ req[r] \in Request
    BY DEF Base, TypeOK
  <1>2. req[r].pc \in InFlight => u \in Users
    BY <1>1 DEF TypeOK
  <1>3. Insert(r) => /\ req[r].op = "register" /\ u \in Users
                     /\ Wrote(u, [NoRow EXCEPT !.registered = TRUE])
    <2>1. /\ [NoRow EXCEPT !.registered = TRUE] \in Row
          /\ [NoRow EXCEPT !.registered = TRUE].registered
      BY DEF NoRow, Row, Roles
    <2> QED
      BY <1>2, <2>1 DEF Insert, Wrote, InFlight
  <1>4. ASSUME RejectLogin(r) \/ AcceptLogin(r) \/ CommitRoleChange(r)
                 \/ CommitStatusChange(r)
        PROVE  \E new \in Row : Wrote(u, new)
    <2>1. u \in Users /\ row \in Row /\ users[u] \in Row
      BY <1>1, <1>2, <1>4 DEF RejectLogin, AcceptLogin, CommitRoleChange,
         CommitStatusChange, InFlight, TypeOK, Request
    <2>a. /\ AfterFailure(row) \in Row /\ AfterSuccess(row) \in Row
          /\ [row EXCEPT !.role = req[r].role] \in Row
          /\ [row EXCEPT !.active = req[r].active] \in Row
      <3>1. req[r].role \in Roles /\ req[r].active \in BOOLEAN
        BY <1>1 DEF Request
      <3> QED
        BY <1>1, <2>1, <3>1, NewRows
    <2>2. PICK new \in Row : users' = [users EXCEPT ![u] = Merged(row, new, @)]
      <3>1. CASE RejectLogin(r)
        BY <2>a, <3>1 DEF RejectLogin
      <3>2. CASE AcceptLogin(r)
        BY <2>a, <3>2 DEF AcceptLogin
      <3>3. CASE CommitRoleChange(r)
        BY <2>a, <3>3 DEF CommitRoleChange
      <3>4. CASE CommitStatusChange(r)
        BY <2>a, <3>4 DEF CommitStatusChange
      <3> QED
        BY <1>4, <3>1, <3>2, <3>3, <3>4
    <2>3. /\ Merged(row, new, users[u]) \in Row
          /\ Merged(row, new, users[u]).registered
      BY <2>1, MergedRow
    <2>4. users' = [users EXCEPT ![u] = Merged(row, new, users[u])]
      BY <2>2
    <2> QED
      BY <2>1, <2>3, <2>4 DEF Wrote
  <1>5. \A parent \in Requests \cup {Null} : u \in Users => NewToken(u, parent) \in Token
    <2>1. now + TokenLife \in Nat
      BY <1>1, Durations DEF TypeOK
    <2> QED
      BY <2>1 DEF NewToken, Token
  <1>6. /\ AcceptLogin(r) => NewToken(u, Null) \in Token
        /\ Rotate(r) => /\ req[r].token \in Requests
                        /\ tokens[req[r].token] \in Token
                        /\ NewToken(u, req[r].token) \in Token
        /\ Revoke(r) => /\ req[r].token \in Requests
                        /\ tokens[req[r].token] \in Token
    BY <1>1, <1>2, <1>5 DEF AcceptLogin, Rotate, Revoke, InFlight, TypeOK
  <1>7. FinishRegister(r) \/ FinishAudited(r) => audit' \subseteq AuditRow
    BY <1>1, <1>2 DEF FinishRegister, FinishAudited, Audited, AuditRow, TypeOK,
       Request, InFlight
  <1> QED
    BY <1>3, <1>4, <1>6, <1>7

LEMMA Base_Step ==
  ASSUME Base, NEW r \in Requests, Step(r) \/ Die(r)
  PROVE  Base'
  <1>1. TypeOK /\ PhaseOf(r) /\ Results = {"none", "ok", "refused", "rejected",
                                          "error", "dead"}
    BY DEF Base, Phases, Results
  <1>2. CASE \/ InsertRaced(r) \/ WelcomeRaises(r) \/ LoadOwner(r) \/ Die(r)
    <2>1. UNCHANGED <<users, tokens, audit, welcome, now>>
      BY <1>2 DEF InsertRaced, WelcomeRaises, LoadOwner, Die
    <2>2. PICK pc \in {"loaded", "answered"}, result \in Results :
            /\ Moved(r, pc, result) /\ req[r].pc \in InFlight
            /\ pc = "loaded" => req[r].pc = "reading"
            /\ pc = "answered" <=> result /= "none"
            /\ result /= "rejected"
            /\ result \in {"refused", "error"} => req[r].op \in {"register", "refresh"}
      <3>1. CASE InsertRaced(r)
        BY <1>1, <3>1, StepMoves DEF InsertRaced, InFlight
      <3>2. CASE WelcomeRaises(r)
        BY <1>1, <3>2, StepMoves DEF WelcomeRaises, InFlight
      <3>3. CASE LoadOwner(r)
        BY <1>1, <3>3, StepMoves DEF InFlight
      <3>4. CASE Die(r)
        BY <1>1, <3>4, StepMoves DEF InFlight
      <3> QED
        BY <1>2, <3>1, <3>2, <3>3, <3>4
    <2>3. tokens' \in [Requests -> Token \cup {Null}] /\ audit' \subseteq AuditRow
      BY <1>1, <2>1 DEF TypeOK
    <2> QED
      BY <2>1, <2>2, <2>3, Base_Moved
  <1>3. CASE Insert(r)
    <2>1. /\ Moved(r, "committed", "none") /\ req[r].pc \in InFlight
          /\ req[r].op = "register"
          /\ \E u \in Users, row \in Row : Wrote(u, row)
          /\ UNCHANGED <<tokens, audit, welcome, now>>
      BY <1>3, StepMoves, StepWrites DEF Insert, Wrote, InFlight
    <2>2. tokens' \in [Requests -> Token \cup {Null}] /\ audit' \subseteq AuditRow
      BY <1>1, <2>1 DEF TypeOK
    <2> QED
      BY <1>1, <2>1, <2>2, Base_Moved
  <1>4. CASE CommitRoleChange(r)
    <2>1. /\ Moved(r, "committed", "none") /\ req[r].pc \in InFlight
          /\ req[r].op = "role"
          /\ \E u \in Users, row \in Row : Wrote(u, row)
          /\ UNCHANGED <<tokens, audit, welcome, now>>
      BY <1>4, StepMoves, StepWrites DEF CommitRoleChange, Wrote, InFlight
    <2>2. tokens' \in [Requests -> Token \cup {Null}] /\ audit' \subseteq AuditRow
      BY <1>1, <2>1 DEF TypeOK
    <2> QED
      BY <1>1, <2>1, <2>2, Base_Moved
  <1>5. CASE RejectLogin(r) \/ CommitStatusChange(r)
    <2>1. /\ req[r].pc \in InFlight
          /\ \E u \in Users, row \in Row : Wrote(u, row)
          /\ UNCHANGED <<tokens, audit, welcome, now>>
      BY <1>5, StepMoves, StepWrites
         DEF RejectLogin, CommitStatusChange, Wrote, InFlight
    <2>2. PICK result \in {"ok", "rejected"} :
            /\ Moved(r, "answered", result)
            /\ result = "rejected" => req[r].op = "login"
      BY <1>5, StepMoves DEF RejectLogin
    <2>3. tokens' \in [Requests -> Token \cup {Null}] /\ audit' \subseteq AuditRow
      BY <1>1, <2>1 DEF TypeOK
    <2> QED
      BY <1>1, <2>1, <2>2, <2>3, Base_Moved
  <1>6. CASE AcceptLogin(r)
    <2>1. /\ Moved(r, "committed", "none") /\ req[r].pc \in InFlight
          /\ req[r].op = "login"
          /\ \E u \in Users, row \in Row : Wrote(u, row)
          /\ UNCHANGED <<audit, welcome, now>>
      BY <1>6, StepMoves, StepWrites DEF AcceptLogin, Wrote, InFlight
    <2>2. /\ tokens' = [tokens EXCEPT ![r] = NewToken(req[r].user, Null)]
          /\ NewToken(req[r].user, Null) \in Token
      BY <1>6, StepWrites DEF AcceptLogin
    <2>3. /\ tokens' \in [Requests -> Token \cup {Null}]
          /\ \A t \in Requests : tokens[t] \in Token => tokens'[t] \in Token
          /\ \A t \in Requests : tokens'[t] /= Null => tokens[t] /= Null \/ t = r
      BY <1>1, <2>2 DEF TypeOK
    <2>4. audit' \subseteq AuditRow
      BY <1>1, <2>1 DEF TypeOK
    <2> QED
      BY <1>1, <2>1, <2>3, <2>4, Base_Moved
  <1>7. CASE Rotate(r) \/ Revoke(r)
    <2>1. /\ Moved(r, "answered", "ok") /\ req[r].pc \in InFlight
          /\ UNCHANGED <<users, audit, welcome, now>>
      BY <1>7, StepMoves DEF Rotate, Revoke, InFlight
    <2>2. PICK t \in Requests : t = req[r].token /\ tokens[t] \in Token
      BY <1>7, StepWrites
    <2>3. [tokens[t] EXCEPT !.revoked = TRUE] \in Token
      BY <2>2 DEF Token
    <2>4. \/ tokens' = [tokens EXCEPT ![t].revoked = TRUE]
          \/ /\ tokens' = [tokens EXCEPT ![t].revoked = TRUE,
                                         ![r] = NewToken(req[r].user, t)]
             /\ NewToken(req[r].user, t) \in Token
      BY <1>7, <2>2, StepWrites DEF Rotate, Revoke
    <2>5. /\ tokens' \in [Requests -> Token \cup {Null}]
          /\ \A x \in Requests : tokens[x] \in Token => tokens'[x] \in Token
          /\ \A x \in Requests : tokens'[x] /= Null => tokens[x] /= Null \/ x = r
      <3>0. tokens[t] /= Null
        BY <2>2, NullIsNoToken
      <3>1. CASE tokens' = [tokens EXCEPT ![t].revoked = TRUE]
        BY <1>1, <2>2, <2>3, <3>0, <3>1 DEF TypeOK
      <3>2. CASE /\ tokens' = [tokens EXCEPT ![t].revoked = TRUE,
                                            ![r] = NewToken(req[r].user, t)]
                 /\ NewToken(req[r].user, t) \in Token
        BY <1>1, <2>2, <2>3, <3>0, <3>2 DEF TypeOK
      <3> QED
        BY <2>4, <3>1, <3>2
    <2>6. audit' \subseteq AuditRow
      BY <1>1, <2>1 DEF TypeOK
    <2> QED
      BY <1>1, <2>1, <2>5, <2>6, Base_Moved
  <1>8. CASE FinishRegister(r) \/ FinishAudited(r)
    <2>1. /\ Moved(r, "answered", "ok") /\ req[r].pc \in InFlight
          /\ UNCHANGED <<users, tokens, now>> /\ audit' \subseteq AuditRow
          /\ welcome' \in {welcome, welcome \cup {r}}
          /\ r \in welcome' => r \in welcome \/ req[r].op = "register"
      BY <1>8, StepMoves, StepWrites DEF FinishRegister, FinishAudited, InFlight
    <2>2. tokens' \in [Requests -> Token \cup {Null}]
      BY <1>1, <2>1 DEF TypeOK
    <2> QED
      BY <1>1, <2>1, <2>2, Base_Moved
  <1> QED
    BY <1>2, <1>3, <1>4, <1>5, <1>6, <1>7, <1>8 DEF Step

LEMMA Base_Next == Base /\ [Next]_vars => Base'
  <1> SUFFICES ASSUME Base, [Next]_vars PROVE Base'
    OBVIOUS
  <1>1. CASE UNCHANGED vars
    BY <1>1 DEF vars, Base, TypeOK, Phases, PhaseOf, Past
  <1>2. CASE Tick
    <2>1. /\ UNCHANGED <<users, tokens, audit, welcome, req>>
          /\ now' \in 0..MaxTime
      BY <1>2, Durations DEF Tick, Base, TypeOK
    <2> QED
      BY <2>1 DEF Base, TypeOK, Phases, PhaseOf, Past
  <1>3. ASSUME NEW r \in Requests, Arrive(r)
        PROVE  Base'
    <2>1. Arrived(r)
      BY <1>3, ArriveMoves DEF Base
    <2> QED
      BY <2>1, Base_Arrived
  <1>4. ASSUME NEW r \in Requests, Step(r) \/ Die(r)
        PROVE  Base'
    BY <1>4, Base_Step
  <1> QED
    BY <1>1, <1>2, <1>3, <1>4 DEF Next

\* Every row and every request has the columns and values the code gives it,
\* for any users, requests and durations.
THEOREM TypeCorrect == Spec => []TypeOK
  <1>1. Spec => []Base
    BY Base_Init, Base_Next, PTL DEF Spec
  <1>2. Base => TypeOK
    BY DEF Base
  <1> QED
    BY <1>1, <1>2, PTL
-----------------------------------------------------------------------------
(***************************************************************************)
(* What a step leaves alone, for the invariants to come.                   *)
(***************************************************************************)

\* The request that takes a step keeps what it came with and what it has read.
Kept(r) ==
  /\ Others(r)
  /\ req'[r].op = req[r].op /\ req'[r].user = req[r].user
  /\ req'[r].token = req[r].token /\ req'[r].right = req[r].right
  /\ req'[r].role = req[r].role /\ req'[r].active = req[r].active
  /\ req'[r].row = req[r].row /\ req'[r].seen = req[r].seen

LEMMA Stepped ==
  ASSUME Base, NEW r \in Requests, Step(r) \/ Die(r)
  PROVE  /\ Kept(r) /\ req[r].pc \in InFlight /\ req[r].result = "none"
         /\ Past \subseteq Past'
         /\ req'[r].pc \in {"loaded", "committed", "answered"}
         /\ req[r].pc = "committed" => req'[r].pc = "answered"
  <1>1. /\ req[r].pc \in InFlight
        /\ \E pc \in {"loaded", "committed", "answered"}, result \in Results :
             /\ Moved(r, pc, result)
             /\ req[r].pc = "committed" => pc = "answered"
    <2>1. "ok" \in Results /\ "rejected" \in Results /\ "error" \in Results
          /\ "refused" \in Results /\ "none" \in Results /\ "dead" \in Results
      BY DEF Results
    <2>2. CASE Insert(r) \/ AcceptLogin(r) \/ CommitRoleChange(r)
      BY <2>1, <2>2, StepMoves DEF InFlight
    <2>3. CASE InsertRaced(r) \/ WelcomeRaises(r) \/ Die(r)
      BY <2>1, <2>3, StepMoves DEF InFlight
    <2>4. CASE FinishRegister(r) \/ FinishAudited(r) \/ RejectLogin(r)
      BY <2>1, <2>4, StepMoves DEF InFlight
    <2>5. CASE LoadOwner(r)
      BY <2>1, <2>5, StepMoves DEF InFlight
    <2>6. CASE Rotate(r) \/ Revoke(r) \/ CommitStatusChange(r)
      BY <2>1, <2>6, StepMoves DEF InFlight
    <2> QED
      BY <2>2, <2>3, <2>4, <2>5, <2>6 DEF Step
  <1>2. req[r].result = "none"
    BY <1>1, StepMoves
  <1>3. Kept(r)
    BY <1>1 DEF Moved, Kept
  <1>4. Past \subseteq Past'
    BY <1>1 DEF Moved, Others, Past, InFlight
  <1> QED
    BY <1>1, <1>2, <1>3, <1>4 DEF Moved

\* Four ways for the state to go on
LEMMA NextShape ==
  ASSUME Base, [Next]_vars
  PROVE  \/ UNCHANGED <<users, tokens, audit, welcome, req>>
         \/ \E r \in Requests : Arrived(r)
         \/ \E r \in Requests : Step(r) \/ Die(r)
  <1>1. \A r \in Requests : Arrive(r) => Arrived(r)
    BY ArriveMoves DEF Base
  <1> QED
    BY <1>1 DEF Next, Tick, vars

\* The columns that each action writes in the row of user u, from the row that
\* the handler has loaded
Fresh(u) ==
  /\ ~users[u].registered /\ users'[u].registered
  /\ users'[u].failed = 0 /\ users'[u].locked = 0

OneMore(u, row) ==
  /\ users[u].registered /\ users'[u].registered
  /\ users'[u].role = users[u].role /\ users'[u].active = users[u].active
  /\ users'[u].failed = row.failed + 1
  /\ users'[u].locked = IF row.failed + 1 >= MaxFailed
                        THEN Written(row.locked, now + Lockout, users[u].locked)
                        ELSE users[u].locked

Cleared(u) ==
  /\ users[u].registered /\ users'[u].registered
  /\ users'[u].role = users[u].role /\ users'[u].active = users[u].active
  /\ users'[u].failed \in {0, users[u].failed}
  /\ users'[u].locked \in {0, users[u].locked}

RoleSet(u, row, role) ==
  /\ users[u].registered /\ users'[u].registered
  /\ users'[u].role = Written(row.role, role, users[u].role)
  /\ users'[u].active = users[u].active
  /\ users'[u].failed = users[u].failed /\ users'[u].locked = users[u].locked

StatusSet(u, row, active) ==
  /\ users[u].registered /\ users'[u].registered
  /\ users'[u].role = users[u].role
  /\ users'[u].active = Written(row.active, active, users[u].active)
  /\ users'[u].failed = users[u].failed /\ users'[u].locked = users[u].locked

LEMMA Columns ==
  ASSUME Base, NEW r \in Requests, Step(r) \/ Die(r)
  PROVE  LET u == req[r].user
             row == req[r].row
         IN /\ Insert(r) => req[r].op = "register" /\ Fresh(u)
            /\ RejectLogin(r) => req[r].op = "login" /\ OneMore(u, row)
            /\ AcceptLogin(r) => req[r].op = "login" /\ Cleared(u)
            /\ CommitRoleChange(r) => req[r].op = "role"
                                      /\ RoleSet(u, row, req[r].role)
            /\ CommitStatusChange(r) => req[r].op = "status"
                                        /\ StatusSet(u, row, req[r].active)
            /\ \/ users' = users
               \/ /\ u \in Users /\ row \in Row /\ req[r].pc = "loaded"
                  /\ \A v \in Users : v /= u => users'[v] = users[v]
                  /\ \/ Insert(r) \/ RejectLogin(r) \/ AcceptLogin(r)
                     \/ CommitRoleChange(r) \/ CommitStatusChange(r)
  <1> DEFINE u == req[r].user
             row == req[r].row
  <1>1. TypeOK /\ req[r] \in Request /\ PhaseOf(r)
    BY DEF Base, TypeOK, Phases
  <1>2. req[r].pc = "loaded" =>
          /\ u \in Users /\ row \in Row /\ users[u] \in Row /\ req[r].role \in Roles
          /\ req[r].active \in BOOLEAN
          /\ req[r].op \in {"login", "role", "status"} => users[u].registered
    BY <1>1 DEF TypeOK, Request, PhaseOf, InFlight
  <1>3. ASSUME Insert(r)
        PROVE  /\ req[r].op = "register" /\ Fresh(u)
               /\ u \in Users /\ row \in Row /\ req[r].pc = "loaded"
               /\ \A v \in Users : v /= u => users'[v] = users[v]
    BY <1>1, <1>2, <1>3 DEF Insert, TypeOK, NoRow, Fresh
  <1>4. ASSUME RejectLogin(r) \/ AcceptLogin(r) \/ CommitRoleChange(r)
                 \/ CommitStatusChange(r)
        PROVE  /\ u \in Users /\ row \in Row /\ req[r].pc = "loaded"
               /\ users[u].registered /\ users[u] \in Row
               /\ req[r].role \in Roles /\ req[r].active \in BOOLEAN
               /\ AfterFailure(row) \in Row /\ AfterSuccess(row) \in Row
               /\ [row EXCEPT !.role = req[r].role] \in Row
               /\ [row EXCEPT !.active = req[r].active] \in Row
    <2>1. req[r].pc = "loaded" /\ req[r].op \in {"login", "role", "status"}
      BY <1>4 DEF RejectLogin, AcceptLogin, CommitRoleChange, CommitStatusChange
    <2> QED
      BY <1>1, <1>2, <2>1, NewRows
  <1>5. ASSUME NEW new \in Row, users' = [users EXCEPT ![u] = Merged(row, new, @)],
               u \in Users, row \in Row, users[u] \in Row
        PROVE  /\ \A v \in Users : v /= u => users'[v] = users[v]
               /\ users'[u].registered
               /\ users'[u].role = Written(row.role, new.role, users[u].role)
               /\ users'[u].active = Written(row.active, new.active, users[u].active)
               /\ users'[u].failed = Written(row.failed, new.failed, users[u].failed)
               /\ users'[u].locked = Written(row.locked, new.locked, users[u].locked)
    <2>1. /\ \A v \in Users : v /= u => users'[v] = users[v]
          /\ users'[u] = Merged(row, new, users[u])
      BY <1>1, <1>5 DEF TypeOK
    <2> QED
      BY <1>5, <2>1, MergedRow
  <1>6. ASSUME RejectLogin(r)
        PROVE  /\ req[r].op = "login" /\ OneMore(u, row)
               /\ \A v \in Users : v /= u => users'[v] = users[v]
    <2> DEFINE new == AfterFailure(row)
    <2>1. /\ new.role = row.role /\ new.active = row.active
          /\ new.failed = row.failed + 1 /\ new.failed /= row.failed
          /\ new.locked = IF row.failed + 1 >= MaxFailed THEN now + Lockout
                                                       ELSE row.locked
      BY <1>4, <1>6 DEF AfterFailure, Row
    <2>2. users' = [users EXCEPT ![u] = Merged(row, new, @)] /\ req[r].op = "login"
      BY <1>6 DEF RejectLogin
    <2>3. new \in Row
      BY <1>4, <1>6
    <2> HIDE DEF new
    <2>4. /\ \A v \in Users : v /= u => users'[v] = users[v]
          /\ users'[u].registered
          /\ users'[u].role = Written(row.role, new.role, users[u].role)
          /\ users'[u].active = Written(row.active, new.active, users[u].active)
          /\ users'[u].failed = Written(row.failed, new.failed, users[u].failed)
          /\ users'[u].locked = Written(row.locked, new.locked, users[u].locked)
      BY <1>4, <1>5, <1>6, <2>2, <2>3
    <2>5. users'[u].active = users[u].active
      BY <2>1, <2>4, Zenon DEF Written
    <2>6. /\ users'[u].role = users[u].role
          /\ users'[u].failed = row.failed + 1
          /\ users'[u].locked =
               IF row.failed + 1 >= MaxFailed
               THEN Written(row.locked, now + Lockout, users[u].locked)
               ELSE users[u].locked
      BY <2>1, <2>4 DEF Written
    <2> QED
      BY <1>4, <1>6, <2>2, <2>4, <2>5, <2>6 DEF OneMore
  <1>7. ASSUME AcceptLogin(r)
        PROVE  /\ req[r].op = "login" /\ Cleared(u)
               /\ \A v \in Users : v /= u => users'[v] = users[v]
    <2> DEFINE new == AfterSuccess(row)
    <2>1. /\ new.role = row.role /\ new.active = row.active
          /\ new.failed = 0 /\ new.locked = 0
      BY <1>4, <1>7 DEF AfterSuccess, Row
    <2>2. users' = [users EXCEPT ![u] = Merged(row, new, @)] /\ req[r].op = "login"
      BY <1>7 DEF AcceptLogin
    <2>3. new \in Row
      BY <1>4, <1>7
    <2> HIDE DEF new
    <2>4. /\ \A v \in Users : v /= u => users'[v] = users[v]
          /\ users'[u].registered
          /\ users'[u].role = Written(row.role, new.role, users[u].role)
          /\ users'[u].active = Written(row.active, new.active, users[u].active)
          /\ users'[u].failed = Written(row.failed, new.failed, users[u].failed)
          /\ users'[u].locked = Written(row.locked, new.locked, users[u].locked)
      BY <1>4, <1>5, <1>7, <2>2, <2>3
    <2>5. users'[u].active = users[u].active
      BY <2>1, <2>4, Zenon DEF Written
    <2>6. /\ users'[u].role = users[u].role
          /\ users'[u].failed \in {0, users[u].failed}
          /\ users'[u].locked \in {0, users[u].locked}
      BY <2>1, <2>4 DEF Written
    <2> QED
      BY <1>4, <1>7, <2>2, <2>4, <2>5, <2>6 DEF Cleared
  <1>8. ASSUME CommitRoleChange(r)
        PROVE  /\ req[r].op = "role" /\ RoleSet(u, row, req[r].role)
               /\ \A v \in Users : v /= u => users'[v] = users[v]
    <2> DEFINE new == [row EXCEPT !.role = req[r].role]
    <2>1. /\ new.role = req[r].role /\ new.active = row.active
          /\ new.failed = row.failed /\ new.locked = row.locked
      BY <1>4, <1>8 DEF Row
    <2>2. users' = [users EXCEPT ![u] = Merged(row, new, @)] /\ req[r].op = "role"
      BY <1>8 DEF CommitRoleChange
    <2>3. new \in Row
      BY <1>4, <1>8
    <2> HIDE DEF new
    <2>4. /\ \A v \in Users : v /= u => users'[v] = users[v]
          /\ users'[u].registered
          /\ users'[u].role = Written(row.role, new.role, users[u].role)
          /\ users'[u].active = Written(row.active, new.active, users[u].active)
          /\ users'[u].failed = Written(row.failed, new.failed, users[u].failed)
          /\ users'[u].locked = Written(row.locked, new.locked, users[u].locked)
      BY <1>4, <1>5, <1>8, <2>2, <2>3
    <2>5. users'[u].active = users[u].active
      BY <2>1, <2>4, Zenon DEF Written
    <2>6. /\ users'[u].role = Written(row.role, req[r].role, users[u].role)
          /\ users'[u].failed = users[u].failed
          /\ users'[u].locked = users[u].locked
      BY <2>1, <2>4 DEF Written
    <2> QED
      BY <1>4, <1>8, <2>2, <2>4, <2>5, <2>6 DEF RoleSet
  <1>9. ASSUME CommitStatusChange(r)
        PROVE  /\ req[r].op = "status" /\ StatusSet(u, row, req[r].active)
               /\ \A v \in Users : v /= u => users'[v] = users[v]
    <2> DEFINE new == [row EXCEPT !.active = req[r].active]
    <2>1. /\ new.role = row.role /\ new.active = req[r].active
          /\ new.failed = row.failed /\ new.locked = row.locked
      BY <1>4, <1>9 DEF Row
    <2>2. users' = [users EXCEPT ![u] = Merged(row, new, @)] /\ req[r].op = "status"
      BY <1>9 DEF CommitStatusChange
    <2>3. new \in Row
      BY <1>4, <1>9
    <2> HIDE DEF new
    <2>4. /\ \A v \in Users : v /= u => users'[v] = users[v]
          /\ users'[u].registered
          /\ users'[u].role = Written(row.role, new.role, users[u].role)
          /\ users'[u].active = Written(row.active, new.active, users[u].active)
          /\ users'[u].failed = Written(row.failed, new.failed, users[u].failed)
          /\ users'[u].locked = Written(row.locked, new.locked, users[u].locked)
      BY <1>4, <1>5, <1>9, <2>2, <2>3
    <2>5. users'[u].active = Written(row.active, req[r].active, users[u].active)
      BY <2>1, <2>4, Zenon
    <2>6. /\ users'[u].role = users[u].role
          /\ users'[u].failed = users[u].failed
          /\ users'[u].locked = users[u].locked
      BY <2>1, <2>4 DEF Written
    <2> QED
      BY <1>4, <1>9, <2>2, <2>4, <2>5, <2>6 DEF StatusSet
  <1>10. \/ InsertRaced(r) \/ WelcomeRaises(r) \/ LoadOwner(r) \/ Die(r)
             \/ Rotate(r) \/ Revoke(r) \/ FinishRegister(r) \/ FinishAudited(r)
           => users' = users
    BY DEF InsertRaced, WelcomeRaises, LoadOwner, Die, Rotate, Revoke,
       FinishRegister, FinishAudited
  <1> HIDE DEF u, row
  <1> QED
    BY <1>3, <1>4, <1>6, <1>7, <1>8, <1>9, <1>10 DEF Step, u, row
-----------------------------------------------------------------------------
(***************************************************************************)
(* Changes by administrators hold.                                         *)
(***************************************************************************)

\* A change in flight has read the current value, and one that is committed has
\* set it, unless there was another that it had not seen.
HeldBy(r) ==
  /\ req[r].op = "status" /\ Unseen(r, "status", req[r].user) = {} =>
       /\ req[r].pc = "loaded" => req[r].row.active = users[req[r].user].active
       /\ req[r].result = "ok" => users[req[r].user].active = req[r].active
  /\ req[r].op = "role" /\ Unseen(r, "role", req[r].user) = {} =>
       /\ req[r].pc = "loaded" => req[r].row.role = users[req[r].user].role
       /\ req[r].pc = "committed" \/ req[r].result = "ok"
            => users[req[r].user].role = req[r].role

Held == \A r \in Requests : HeldBy(r)

LEMMA AdminsCommit ==
  ASSUME Base, NEW q \in Requests, req[q].op \in {"status", "role", "login", "logout"}
  PROVE  q \in Committed <=> q \in Past
  BY DEF Base, Phases, PhaseOf, Committed, Past

\* What a request has not seen remains unseen.
LEMMA UnseenStays ==
  ASSUME Base, Base', Past \subseteq Past',
         NEW r \in Requests, req'[r].seen = req[r].seen,
         \A q \in Requests : q \in Past => req'[q].op = req[q].op
                                         /\ req'[q].user = req[q].user,
         NEW op \in {"status", "role"}, NEW u \in Users
  PROVE  /\ Unseen(r, op, u) \subseteq Unseen(r, op, u)'
         /\ \A q \in Requests : q \in Past' /\ q \notin Past /\ q /= r /\ req'[q].op = op
                                /\ req'[q].user = u => Unseen(r, op, u)' /= {}
  <1>1. ASSUME NEW q \in Unseen(r, op, u)
        PROVE  q \in Unseen(r, op, u)'
    <2>1. /\ q \in Requests /\ q \in Committed /\ q /= r /\ req[q].op = op
          /\ req[q].user = u /\ q \notin req[r].seen
      BY DEF Unseen, Committed
    <2>2. q \in Past
      BY <2>1, AdminsCommit
    <2>3. q \in Past' /\ req'[q].op = op /\ req'[q].user = u
      BY <2>1, <2>2
    <2>4. q \in Committed'
      BY <2>1, <2>3 DEF Base, Phases, PhaseOf, Committed, Past
    <2> QED
      BY <2>1, <2>3, <2>4 DEF Unseen
  <1>2. ASSUME NEW q \in Requests, q \in Past', q \notin Past, q /= r,
               req'[q].op = op, req'[q].user = u
        PROVE  q \in Unseen(r, op, u)'
    <2>1. q \in Committed'
      BY <1>2 DEF Base, Phases, PhaseOf, Committed, Past
    <2>2. q \notin req'[r].seen
      BY <1>2 DEF Base, Phases, PhaseOf
    <2> QED
      BY <1>2, <2>1, <2>2 DEF Unseen
  <1> QED
    BY <1>1, <1>2

LEMMA Held_Arrived ==
  ASSUME Base, Base', Held, NEW q \in Requests, Arrived(q)
  PROVE  Held'
  <1>1. Past \subseteq Past' /\ \A x \in Requests : x \in Past => x /= q
    BY DEF Arrived, Others, Past
  <1>2. ASSUME NEW r \in Requests
        PROVE  HeldBy(r)'
    <2>1. CASE r = q
      BY <2>1 DEF Arrived, HeldBy
    <2>2. CASE r /= q
      <3>1. req'[r] = req[r] /\ users' = users
            /\ \A x \in Requests : x \in Past => req'[x] = req[x]
        BY <1>1, <2>2 DEF Arrived, Others
      <3>2. req[r].op \in {"status", "role"} => req[r].user \in Users
        BY DEF Base, Phases, PhaseOf
      <3>3. \A op \in {"status", "role"} : req[r].op = op =>
              Unseen(r, op, req[r].user) \subseteq Unseen(r, op, req[r].user)'
        <4> SUFFICES ASSUME NEW op \in {"status", "role"}, req[r].op = op
                     PROVE  Unseen(r, op, req[r].user)
                              \subseteq Unseen(r, op, req[r].user)'
          OBVIOUS
        <4>1. PICK u \in Users : u = req[r].user
          BY <3>2
        <4>2. Unseen(r, op, u) \subseteq Unseen(r, op, u)'
          BY <1>1, <3>1, UnseenStays
        <4> QED
          BY <3>1, <4>1, <4>2
      <3>4. HeldBy(r)
        BY DEF Held
      <3> QED
        BY <3>1, <3>3, <3>4 DEF HeldBy
    <2> QED
      BY <2>1, <2>2
  <1> QED
    BY <1>2 DEF Held

LEMMA Held_Step ==
  ASSUME Base, Base', Held, NEW q \in Requests, Step(q) \/ Die(q)
  PROVE  Held'
  <1>1. /\ Kept(q) /\ Past \subseteq Past' /\ req[q].result = "none"
        /\ req[q].pc \in InFlight
        /\ req'[q].pc \in {"loaded", "committed", "answered"}
        /\ req[q].pc = "committed" => req'[q].pc = "answered"
    BY Stepped
  <1>2. \A x \in Requests : /\ req'[x].op = req[x].op /\ req'[x].user = req[x].user
                            /\ req'[x].seen = req[x].seen /\ req'[x].row = req[x].row
                            /\ req'[x].role = req[x].role
                            /\ req'[x].active = req[x].active
                            /\ x /= q => req'[x] = req[x]
    BY <1>1 DEF Kept, Others
  <1>3. ASSUME NEW r \in Requests, NEW u \in Users,
               req[r].user = u
        PROVE  HeldBy(r)'
    <2>1. \A op \in {"status", "role"} :
            /\ Unseen(r, op, u)' = {} => Unseen(r, op, u) = {}
            /\ Unseen(r, op, u)' = {} /\ q /= r /\ req[q].op = op /\ req[q].user = u
                 => q \in Past \/ q \notin Past'
      BY <1>1, <1>2, UnseenStays
    <2>2. HeldBy(r)
      BY DEF Held
    <2>3. /\ req'[r].user = u /\ req'[r].op = req[r].op
          /\ req'[r].row = req[r].row /\ req'[r].role = req[r].role
          /\ req'[r].active = req[r].active
      BY <1>2, <1>3
    \* who writes the status of u, and who the role
    <2>4. \/ users'[u].active = users[u].active
          \/ /\ CommitStatusChange(q) /\ req[q].op = "status" /\ req[q].user = u
             /\ req[q].pc = "loaded"
             /\ users'[u].active = Written(req[q].row.active, req[q].active,
                                           users[u].active)
          \/ Insert(q) /\ ~users[u].registered
      BY <1>3, Columns DEF Fresh, OneMore, Cleared, RoleSet, StatusSet
    <2>5. \/ users'[u].role = users[u].role
          \/ /\ CommitRoleChange(q) /\ req[q].op = "role" /\ req[q].user = u
             /\ req[q].pc = "loaded"
             /\ users'[u].role = Written(req[q].row.role, req[q].role, users[u].role)
          \/ Insert(q) /\ ~users[u].registered
      BY <1>3, Columns DEF Fresh, OneMore, Cleared, RoleSet, StatusSet
    <2>6. req[r].op \in {"status", "role"} => users[u].registered
      BY <1>3 DEF Base, Phases, PhaseOf
    <2>7. CommitStatusChange(q) => q \in Past' /\ req'[q].result = "ok"
                                   /\ req'[q].pc = "answered"
      BY StepMoves DEF Past, Moved
    <2>8. CommitRoleChange(q) => q \in Past' /\ req'[q].result = "none"
                                 /\ req'[q].pc = "committed"
      BY StepMoves DEF Past, Moved
    <2>9. ASSUME req[r].op = "status", Unseen(r, "status", u)' = {}
          PROVE  /\ req'[r].pc = "loaded" => req[r].row.active = users'[u].active
                 /\ req'[r].result = "ok" => users'[u].active = req[r].active
      <3>1. /\ req[r].pc = "loaded" => req[r].row.active = users[u].active
            /\ req[r].result = "ok" => users[u].active = req[r].active
        BY <1>3, <2>1, <2>2, <2>9 DEF HeldBy
      <3>2. CASE r /= q
        <4>1. users'[u].active = users[u].active
          <5>1. ~(CommitStatusChange(q) /\ req[q].op = "status" /\ req[q].user = u
                  /\ req[q].pc = "loaded")
            BY <2>1, <2>7, <2>9, <3>2 DEF Past
          <5> QED
            BY <2>4, <2>6, <2>9, <5>1
        <4>2. req'[r] = req[r]
          BY <1>2, <3>2
        <4> QED
          BY <3>1, <4>1, <4>2
      <3>3. CASE r = q /\ CommitStatusChange(q)
        <4>1. req[q].pc = "loaded" /\ req'[q].pc = "answered"
          BY <2>7, <3>3 DEF CommitStatusChange
        <4>2. \/ users'[u].active = users[u].active
                  /\ req[q].active = req[q].row.active
              \/ users'[u].active = req[q].active
          <5>1. users'[u].active = Written(req[q].row.active, req[q].active,
                                           users[u].active)
            BY <1>3, <3>3, Columns DEF StatusSet
          <5> QED
            BY <5>1, Zenon DEF Written
        <4> QED
          BY <3>1, <3>3, <4>1, <4>2, Zenon
      <3>4. CASE r = q /\ ~CommitStatusChange(q)
        <4>1. req[q].pc = "loaded" /\ Die(q)
          BY <1>1, <2>9, <3>4 DEF Step, Insert, InsertRaced, WelcomeRaises, LoadOwner,
             Rotate, Revoke, FinishRegister, FinishAudited, RejectLogin, AcceptLogin,
             CommitRoleChange, Base, Phases, PhaseOf, InFlight
        <4>2. req'[q].pc = "answered" /\ req'[q].result = "dead"
          BY <4>1, StepMoves DEF Moved
        <4> QED
          BY <3>4, <4>2
      <3> QED
        BY <3>2, <3>3, <3>4
    <2>10. ASSUME req[r].op = "role", Unseen(r, "role", u)' = {}
           PROVE  /\ req'[r].pc = "loaded" => req[r].row.role = users'[u].role
                  /\ req'[r].pc = "committed" \/ req'[r].result = "ok"
                       => users'[u].role = req[r].role
      <3>1. /\ req[r].pc = "loaded" => req[r].row.role = users[u].role
            /\ req[r].pc = "committed" \/ req[r].result = "ok"
                 => users[u].role = req[r].role
        BY <1>3, <2>1, <2>2, <2>10 DEF HeldBy
      <3>2. CASE r /= q
        <4>1. users'[u].role = users[u].role
          <5>1. ~(CommitRoleChange(q) /\ req[q].op = "role" /\ req[q].user = u
                  /\ req[q].pc = "loaded")
            BY <2>1, <2>8, <2>10, <3>2 DEF Past
          <5> QED
            BY <2>5, <2>6, <2>10, <5>1
        <4>2. req'[r] = req[r]
          BY <1>2, <3>2
        <4> QED
          BY <3>1, <4>1, <4>2
      <3>3. CASE r = q /\ CommitRoleChange(q)
        <4>1. req[q].pc = "loaded" /\ req'[q].pc = "committed"
          BY <2>8, <3>3 DEF CommitRoleChange
        <4>2. users'[u].role = Written(req[q].row.role, req[q].role, users[u].role)
          BY <1>3, <3>3, Columns DEF RoleSet
        <4> QED
          BY <3>1, <3>3, <4>1, <4>2 DEF Written
      <3>4. CASE r = q /\ FinishAudited(q)
        <4>1. users' = users /\ req[q].pc = "committed" /\ req'[q].pc = "answered"
          BY <3>4, StepMoves DEF FinishAudited, Moved
        <4> QED
          BY <3>1, <3>4, <4>1
      <3>5. CASE r = q /\ ~CommitRoleChange(q) /\ ~FinishAudited(q)
        <4>1. Die(q)
          BY <1>1, <2>10, <3>5 DEF Step, Insert, InsertRaced, WelcomeRaises, LoadOwner,
             Rotate, Revoke, FinishRegister, RejectLogin, AcceptLogin,
             CommitStatusChange, Base, Phases, PhaseOf, InFlight
        <4>2. req'[q].pc = "answered" /\ req'[q].result = "dead"
          BY <4>1, StepMoves DEF Moved
        <4> QED
          BY <3>5, <4>2
      <3> QED
        BY <3>2, <3>3, <3>4, <3>5
    <2> QED
      BY <2>3, <2>9, <2>10 DEF HeldBy
  <1>4. ASSUME NEW r \in Requests
        PROVE  HeldBy(r)'
    <2>1. CASE req[r].op \in {"status", "role"}
      <3>1. PICK u \in Users : req[r].user = u
        BY <2>1 DEF Base, Phases, PhaseOf
      <3> QED
        BY <1>3, <3>1
    <2>2. CASE req[r].op \notin {"status", "role"}
      BY <1>2, <2>2 DEF HeldBy
    <2> QED
      BY <2>1, <2>2
  <1> QED
    BY <1>4 DEF Held

LEMMA Held_Next == Base /\ Held /\ [Next]_vars => Base' /\ Held'
  <1> SUFFICES ASSUME Base, Held, [Next]_vars PROVE Base' /\ Held'
    OBVIOUS
  <1>1. Base'
    BY Base_Next
  <1>2. CASE UNCHANGED <<users, tokens, audit, welcome, req>>
    <2>1. \A r \in Requests, op \in Operations, u \in Users \cup {Null} :
            Unseen(r, op, u)' = Unseen(r, op, u)
      BY <1>2 DEF Unseen, Committed
    <2>2. \A r \in Requests : /\ req[r].user \in Users \cup {Null}
                              /\ req'[r] = req[r] /\ users' = users
      BY <1>2 DEF Base, TypeOK, Request
    <2>3. ASSUME NEW r \in Requests
          PROVE  HeldBy(r)'
      <3>1. PICK u \in Users \cup {Null} : u = req[r].user /\ u = req'[r].user
        BY <2>2
      <3>2. /\ Unseen(r, "status", u)' = Unseen(r, "status", u)
            /\ Unseen(r, "role", u)' = Unseen(r, "role", u)
        BY <2>1 DEF Operations
      <3> QED
        BY <2>2, <3>1, <3>2 DEF Held, HeldBy
    <2> QED
      BY <1>1, <2>3 DEF Held
  <1>3. CASE \E r \in Requests : Arrived(r)
    BY <1>1, <1>3, Held_Arrived
  <1>4. CASE \E r \in Requests : Step(r) \/ Die(r)
    BY <1>1, <1>4, Held_Step
  <1> QED
    BY <1>1, <1>2, <1>3, <1>4, NextShape

\* A change by an administrator that was confirmed holds until another one: no
\* login in flight writes back the role or the status it has read.
THEOREM ChangesHold == Spec => []AdminChangesHold
  <1>1. Init => Base /\ Held
    BY Base_Init DEF Init, Held, HeldBy, NotArrived
  <1>2. Base /\ Held => AdminChangesHold
    BY DEF Held, HeldBy, AdminChangesHold
  <1> QED
    BY <1>1, <1>2, Held_Next, PTL DEF Spec
-----------------------------------------------------------------------------
(***************************************************************************)
(* Locks are earned.                                                       *)
(***************************************************************************)

\* Counts that handlers have loaded are earned as well.
Earned ==
  /\ LocksAreEarned
  /\ \A r \in Requests :
       req[r].pc = "loaded" /\ req[r].op = "login"
         => req[r].row.failed <= Cardinality(Rejected(req[r].user))

LEMMA RejectedCount ==
  ASSUME Base, NEW u
  PROVE  IsFiniteSet(Rejected(u)) /\ Cardinality(Rejected(u)) \in Nat
  <1>1. Rejected(u) \subseteq Requests
    BY DEF Rejected
  <1> QED
    BY <1>1, FewRequests, FS_Subset, FS_CardinalityType

\* A step rejects one attempt more, or none.
LEMMA RejectedGrows ==
  ASSUME Base, NEW r \in Requests, Step(r) \/ Die(r), NEW u \in Users
  PROVE  /\ RejectLogin(r) /\ req[r].user = u =>
              /\ r \notin Rejected(u) /\ Rejected(u)' = Rejected(u) \cup {r}
              /\ Cardinality(Rejected(u)') = Cardinality(Rejected(u)) + 1
         /\ ~RejectLogin(r) \/ req[r].user /= u => Rejected(u)' = Rejected(u)
  <1>1. /\ Kept(r) /\ req[r].result = "none"
        /\ req' = [q \in Requests |-> req'[q]]
    BY Stepped DEF Kept, Others
  <1>2. \A q \in Requests : req'[q].user = req[q].user
                            /\ (q /= r => req'[q].result = req[q].result)
    BY <1>1 DEF Kept, Others
  <1>3. RejectLogin(r) => req'[r].result = "rejected"
    BY StepMoves DEF Moved
  <1>4. ~RejectLogin(r) => req'[r].result /= "rejected"
    <2>1. ASSUME ~RejectLogin(r)
          PROVE  \E pc \in Pcs, result \in Results \ {"rejected"} : Moved(r, pc, result)
      <3>1. "ok" \in Results /\ "error" \in Results
            /\ "refused" \in Results /\ "none" \in Results /\ "dead" \in Results
            /\ "loaded" \in Pcs /\ "committed" \in Pcs /\ "answered" \in Pcs
        BY DEF Results, Pcs
      <3>2. CASE Insert(r) \/ AcceptLogin(r) \/ CommitRoleChange(r)
        BY <3>1, <3>2, StepMoves
      <3>3. CASE InsertRaced(r) \/ WelcomeRaises(r) \/ Die(r)
        BY <3>1, <3>3, StepMoves
      <3>4. CASE FinishRegister(r) \/ FinishAudited(r)
        BY <3>1, <3>4, StepMoves
      <3>5. CASE LoadOwner(r)
        BY <3>1, <3>5, StepMoves
      <3>6. CASE Rotate(r) \/ Revoke(r) \/ CommitStatusChange(r)
        BY <3>1, <3>6, StepMoves
      <3> QED
        BY <2>1, <3>2, <3>3, <3>4, <3>5, <3>6 DEF Step
    <2> QED
      BY <2>1 DEF Moved
  <1>5. ASSUME RejectLogin(r), req[r].user = u
        PROVE  /\ r \notin Rejected(u) /\ Rejected(u)' = Rejected(u) \cup {r}
               /\ Cardinality(Rejected(u)') = Cardinality(Rejected(u)) + 1
    <2>1. r \notin Rejected(u) /\ Rejected(u)' = Rejected(u) \cup {r}
      BY <1>1, <1>2, <1>3, <1>5 DEF Rejected
    <2> QED
      BY <2>1, RejectedCount, FS_AddElement
  <1>6. ~RejectLogin(r) \/ req[r].user /= u => Rejected(u)' = Rejected(u)
    BY <1>1, <1>2, <1>4 DEF Rejected
  <1> QED
    BY <1>5, <1>6

LEMMA Earned_Step ==
  ASSUME Base, Earned, NEW r \in Requests, Step(r) \/ Die(r)
  PROVE  Earned'
  <1>1. /\ Kept(r) /\ req[r].pc \in InFlight
        /\ req'[r].pc \in {"loaded", "committed", "answered"}
        /\ req[r].pc = "committed" => req'[r].pc = "answered"
    BY Stepped
  <1>2. \A u \in Users : /\ Cardinality(Rejected(u)) \in Nat
                         /\ Cardinality(Rejected(u)') \in Nat
                         /\ Cardinality(Rejected(u)) <= Cardinality(Rejected(u)')
    <2> SUFFICES ASSUME NEW u \in Users
                 PROVE  /\ Cardinality(Rejected(u)) \in Nat
                        /\ Cardinality(Rejected(u)') \in Nat
                        /\ Cardinality(Rejected(u)) <= Cardinality(Rejected(u)')
      OBVIOUS
    <2>1. Cardinality(Rejected(u)) \in Nat
      BY RejectedCount
    <2>2. \/ Rejected(u)' = Rejected(u)
          \/ Cardinality(Rejected(u)') = Cardinality(Rejected(u)) + 1
      BY RejectedGrows
    <2> QED
      BY <2>1, <2>2
  <1>3. TypeOK /\ now + Lockout \in Nat /\ MaxFailed \in Nat
    BY Durations DEF Base, TypeOK
  <1>4. ASSUME NEW u \in Users
        PROVE  /\ users'[u].failed <= Cardinality(Rejected(u)')
               /\ users'[u].locked /= 0 => Cardinality(Rejected(u)') >= MaxFailed
    <2>1. /\ users[u].failed <= Cardinality(Rejected(u))
          /\ users[u].locked /= 0 => Cardinality(Rejected(u)) >= MaxFailed
          /\ users[u].failed \in Nat /\ users[u].locked \in Nat
      BY <1>3 DEF Earned, LocksAreEarned, TypeOK, Row
    <2>2. Cardinality(Rejected(u)) \in Nat /\ Cardinality(Rejected(u)') \in Nat
          /\ Cardinality(Rejected(u)) <= Cardinality(Rejected(u)')
      BY <1>2
    <2>3. CASE /\ users'[u].failed \in {0, users[u].failed}
               /\ users'[u].locked \in {0, users[u].locked}
      BY <1>3, <2>1, <2>2, <2>3
    <2>4. CASE RejectLogin(r) /\ req[r].user = u
      <3>1. /\ OneMore(u, req[r].row) /\ req[r].pc = "loaded" /\ req[r].op = "login"
        BY <2>4, Columns DEF RejectLogin
      <3>2. /\ req[r].row.failed <= Cardinality(Rejected(u))
            /\ req[r].row.failed \in Nat
            /\ Cardinality(Rejected(u)') = Cardinality(Rejected(u)) + 1
        BY <1>3, <2>4, <3>1, RejectedGrows DEF Earned, TypeOK, Request, Row
      <3>3. \/ req[r].row.failed + 1 >= MaxFailed
            \/ users'[u].locked = users[u].locked
        BY <3>1 DEF OneMore
      <3>4. users'[u].failed = req[r].row.failed + 1
        BY <3>1 DEF OneMore
      <3> QED
        BY <1>3, <2>1, <2>2, <3>2, <3>3, <3>4
    <2>5. \/ users'[u] = users[u]
          \/ RejectLogin(r) /\ req[r].user = u
          \/ /\ users'[u].failed \in {0, users[u].failed}
             /\ users'[u].locked \in {0, users[u].locked}
      BY Columns DEF Fresh, Cleared, RoleSet, StatusSet
    <2> QED
      BY <2>3, <2>4, <2>5
  <1>5. ASSUME NEW q \in Requests, req'[q].pc = "loaded", req'[q].op = "login"
        PROVE  (req[q].row.failed <= Cardinality(Rejected(req[q].user)))'
    <2>1. q /= r
      <3> SUFFICES ASSUME q = r PROVE FALSE
        OBVIOUS
      <3>1. req'[r].pc = "loaded" /\ req[r].op = "login"
        BY <1>1, <1>5 DEF Kept
      <3>2. ~LoadOwner(r)
        BY <3>1, StepMoves
      <3>3. ~(Insert(r) \/ AcceptLogin(r) \/ CommitRoleChange(r))
        BY <3>1, StepMoves DEF Moved
      <3>4. ~(InsertRaced(r) \/ WelcomeRaises(r) \/ Die(r) \/ FinishRegister(r)
              \/ FinishAudited(r))
        BY <3>1, StepMoves DEF Moved
      <3>5. ~(RejectLogin(r) \/ Rotate(r) \/ Revoke(r) \/ CommitStatusChange(r))
        BY <3>1, StepMoves DEF Moved
      <3> QED
        BY <3>2, <3>3, <3>4, <3>5 DEF Step
    <2>2. req'[q] = req[q]
      BY <1>1, <2>1 DEF Kept, Others
    <2>3. PICK u \in Users : u = req[q].user
      BY <1>3, <1>5, <2>2 DEF TypeOK, InFlight
    <2>4. /\ req[q].row.failed <= Cardinality(Rejected(u)) /\ req[q].row.failed \in Nat
      BY <1>3, <1>5, <2>2, <2>3 DEF Earned, TypeOK, Request, Row
    <2>5. req[q].row.failed <= Cardinality(Rejected(u)')
      BY <1>2, <2>4
    <2> QED
      BY <2>2, <2>3, <2>5
  <1> QED
    BY <1>4, <1>5 DEF Earned, LocksAreEarned

LEMMA Earned_Next == Base /\ Earned /\ [Next]_vars => Earned'
  <1> SUFFICES ASSUME Base, Earned, [Next]_vars PROVE Earned'
    OBVIOUS
  <1>1. ASSUME users' = users, \A u : Rejected(u)' = Rejected(u),
               \A q \in Requests : req'[q].pc = "loaded" /\ req'[q].op = "login"
                 => \/ req'[q] = req[q]
                    \/ req'[q].user \in Users /\ req'[q].row = users[req'[q].user]
        PROVE  Earned'
    BY <1>1 DEF Earned, LocksAreEarned
  <1>2. CASE UNCHANGED <<users, tokens, audit, welcome, req>>
    <2>1. \A u : Rejected(u)' = Rejected(u)
      BY <1>2 DEF Rejected
    <2> QED
      BY <1>1, <1>2, <2>1
  <1>3. ASSUME NEW r \in Requests, Arrived(r)
        PROVE  Earned'
    <2>1. req[r].result = "none" /\ req'[r].result /= "rejected"
      BY <1>3 DEF Arrived, Base, Phases, PhaseOf
    <2>2. \A u : Rejected(u)' = Rejected(u)
      BY <1>3, <2>1 DEF Arrived, Others, Rejected
    <2> QED
      BY <1>1, <1>3, <2>2 DEF Arrived, Others
  <1>4. CASE \E r \in Requests : Step(r) \/ Die(r)
    BY <1>4, Earned_Step
  <1> QED
    BY <1>2, <1>3, <1>4, NextShape

LEMMA Earned_Init == Init => Earned
  <1> SUFFICES ASSUME Init PROVE Earned
    BY Base_Init
  <1>1. \A u \in Users : users[u].failed = 0 /\ users[u].locked = 0
    <2>1. \A u \in Users :
            users[u] \in {NoRow, [NoRow EXCEPT !.registered = TRUE],
                         [NoRow EXCEPT !.registered = TRUE, !.role = "admin"]}
      BY DEF Init
    <2>2. /\ NoRow.failed = 0 /\ NoRow.locked = 0
          /\ [NoRow EXCEPT !.registered = TRUE].failed = 0
          /\ [NoRow EXCEPT !.registered = TRUE].locked = 0
          /\ [NoRow EXCEPT !.registered = TRUE, !.role = "admin"].failed = 0
          /\ [NoRow EXCEPT !.registered = TRUE, !.role = "admin"].locked = 0
      BY DEF NoRow
    <2> QED
      BY <2>1, <2>2, Zenon
  <1>2. \A u : Cardinality(Rejected(u)) \in Nat
    BY Base_Init, RejectedCount
  <1>3. \A r \in Requests : req[r].pc /= "loaded"
    BY DEF Init, NotArrived
  <1> QED
    BY <1>1, <1>2, <1>3 DEF Earned, LocksAreEarned

-----------------------------------------------------------------------------
(***************************************************************************)
(* Tokens succeed each other.                                              *)
(***************************************************************************)

\* A revoked token shows it; a refresh in flight has seen none revoke its token.
Succession ==
  /\ \A t \in Requests :
       Revokers(t) /= {} => tokens[t] /= Null /\ tokens[t].revoked
  /\ \A r \in Requests :
       req[r].op = "refresh" /\ req[r].pc \in {"reading", "loaded"} =>
         /\ req[r].token \in Requests /\ tokens[req[r].token] /= Null
         /\ tokens[req[r].token].user = req[r].user
         /\ Revokers(req[r].token) \cap req[r].seen = {}
  /\ TokensSucceedOnce

Link(q) ==
  LET p == tokens[q].parent
  IN IF p = Null
     THEN req[q].op = "login" /\ req[q].right
     ELSE /\ tokens[p] /= Null
          /\ tokens[p].user = tokens[q].user
          /\ tokens[p].revoked
          /\ Revokers(p) \cap req[q].seen = {}

\* What a step does to the table of tokens
LEMMA TokenRows ==
  ASSUME Base, NEW r \in Requests, Step(r) \/ Die(r)
  PROVE  /\ \A t \in Requests : tokens[t] /= Null =>
              /\ tokens'[t] /= Null /\ tokens'[t].user = tokens[t].user
              /\ tokens'[t].parent = tokens[t].parent
              /\ tokens[t].revoked => tokens'[t].revoked
         /\ \A t \in Requests : tokens[t] = Null /\ tokens'[t] /= Null =>
              /\ t = r
              /\ \/ AcceptLogin(r) /\ tokens'[r].parent = Null
                 \/ /\ Rotate(r) /\ tokens'[r].parent = req[r].token
                    /\ tokens'[r].user = req[r].user
         /\ Rotate(r) \/ Revoke(r) =>
              /\ req[r].token \in Requests /\ tokens[req[r].token] /= Null
              /\ tokens'[req[r].token] /= Null
              /\ tokens'[req[r].token].revoked
  <1>1. TypeOK /\ PhaseOf(r)
    BY DEF Base, Phases
  <1>2. \A t \in Requests : tokens'[t] \in Token => tokens'[t] /= Null
    BY NullIsNoToken
  <1>3. req[r].pc \in {"loaded", "reading"} => tokens[r] = Null
    BY <1>1 DEF PhaseOf, Past
  <1>4. CASE AcceptLogin(r)
    <2>1. /\ \A t \in Requests : t /= r => tokens'[t] = tokens[t]
          /\ tokens'[r] = NewToken(req[r].user, Null) /\ tokens[r] = Null
      BY <1>1, <1>3, <1>4 DEF AcceptLogin, TypeOK
    <2>2. NewToken(req[r].user, Null).parent = Null
      BY DEF NewToken
    <2>3. ~(Rotate(r) \/ Revoke(r))
      BY <1>4 DEF AcceptLogin, Rotate, Revoke
    <2> QED
      BY <1>4, <2>1, <2>2, <2>3
  <1>5. CASE Rotate(r) \/ Revoke(r)
    <2>1. PICK t \in Requests : t = req[r].token /\ tokens[t] \in Token
      BY <1>5, StepWrites
    <2>2. PICK row \in Token : row = [tokens[t] EXCEPT !.revoked = TRUE]
      BY <2>1 DEF Token
    <2>3. row.revoked /\ row.user = tokens[t].user /\ row.parent = tokens[t].parent
      BY <2>1, <2>2 DEF Token
    <2>4. tokens[t] /= Null /\ row /= Null
      BY <2>1, NullIsNoToken
    <2>5. tokens[r] = Null /\ t /= r
      BY <1>3, <1>5, <2>1, <2>4 DEF Rotate, Revoke
    <2>6. CASE Rotate(r)
      <3>1. /\ \A x \in Requests : x \notin {r, t} => tokens'[x] = tokens[x]
            /\ tokens'[t] = row /\ tokens'[r] = NewToken(req[r].user, t)
        BY <1>1, <2>1, <2>2, <2>5, <2>6 DEF Rotate, TypeOK
      <3>2. NewToken(req[r].user, t).parent = t
            /\ NewToken(req[r].user, t).user = req[r].user
        BY DEF NewToken
      <3> QED
        BY <2>1, <2>3, <2>4, <2>5, <2>6, <3>1, <3>2
    <2>7. CASE Revoke(r)
      <3>1. /\ \A x \in Requests : x /= t => tokens'[x] = tokens[x]
            /\ tokens'[t] = row
        BY <1>1, <2>1, <2>2, <2>7 DEF Revoke, TypeOK
      <3> QED
        BY <2>1, <2>3, <2>4, <3>1
    <2> QED
      BY <1>5, <2>6, <2>7
  <1>6. CASE ~AcceptLogin(r) /\ ~Rotate(r) /\ ~Revoke(r)
    <2>1. tokens' = tokens
      BY <1>6 DEF Step, Insert, InsertRaced, WelcomeRaises, LoadOwner, Die,
         RejectLogin, CommitRoleChange, CommitStatusChange, FinishRegister,
         FinishAudited
    <2> QED
      BY <1>6, <2>1
  <1> QED
    BY <1>4, <1>5, <1>6

\* Who revokes a token is the request that takes the step, and nobody has seen it.
LEMMA NewRevoker ==
  ASSUME Base, NEW r \in Requests, Step(r) \/ Die(r), NEW t \in Requests,
         NEW q \in Requests, q \in Revokers(t)', q \notin Revokers(t)
  PROVE  /\ q = r /\ req[r].token = t /\ r \notin Past
         /\ Rotate(r) \/ Revoke(r)
  <1>1. Kept(r)
    BY Stepped
  <1>2. /\ q \in Requests /\ req'[q].token = t /\ req'[q].op \in {"refresh", "logout"}
        /\ req'[q].result = "ok" /\ q \in Committed'
    BY DEF Revokers, Committed
  <1>3. q = r
    <2> SUFFICES ASSUME q /= r PROVE FALSE
      OBVIOUS
    <2>1. req'[q] = req[q]
      BY <1>1, <1>2 DEF Kept, Others
    <2> QED
      BY <1>2, <2>1 DEF Revokers, Committed
  <1>4. req[r].token = t /\ req[r].op \in {"refresh", "logout"} /\ req'[r].result = "ok"
    BY <1>1, <1>2, <1>3 DEF Kept
  <1>5. Rotate(r) \/ Revoke(r)
    <2>1. ~(Insert(r) \/ AcceptLogin(r) \/ CommitRoleChange(r))
      BY <1>4, StepMoves DEF Moved
    <2>2. ~(InsertRaced(r) \/ WelcomeRaises(r) \/ Die(r) \/ RejectLogin(r))
      BY <1>4, StepMoves DEF Moved
    <2>3. ~LoadOwner(r)
      BY <1>4, StepMoves DEF Moved
    <2>4. ~(FinishRegister(r) \/ FinishAudited(r) \/ CommitStatusChange(r))
      BY <1>4 DEF FinishRegister, FinishAudited, CommitStatusChange
    <2> QED
      BY <2>1, <2>2, <2>3, <2>4 DEF Step
  <1>6. r \notin Past
    BY <1>5 DEF Rotate, Revoke, Past
  <1> QED
    BY <1>3, <1>4, <1>5, <1>6

LEMMA Succession_Step ==
  ASSUME Base, Base', Succession, NEW r \in Requests, Step(r) \/ Die(r)
  PROVE  Succession'
  <1>1. /\ Kept(r) /\ req[r].pc \in InFlight
        /\ \A q \in Requests : req'[q].op = req[q].op /\ req'[q].user = req[q].user
                               /\ req'[q].token = req[q].token
                               /\ req'[q].seen = req[q].seen
                               /\ req'[q].right = req[q].right
                               /\ (q /= r => req'[q] = req[q])
    BY Stepped DEF Kept, Others
  <1>2. \A q \in Requests : req[q].seen \subseteq Past
    BY DEF Base, Phases, PhaseOf
  \* what a request had not seen revoked it has not seen revoked now
  <1>3. \A q, t \in Requests : Revokers(t) \cap req[q].seen = {}
                                => Revokers(t)' \cap req'[q].seen = {}
    <2> SUFFICES ASSUME NEW q \in Requests, NEW t \in Requests,
                        Revokers(t) \cap req[q].seen = {},
                        NEW x \in Revokers(t)', x \in req'[q].seen
                 PROVE  FALSE
      OBVIOUS
    <2>1. x \in Requests /\ x \notin Revokers(t)
      BY <1>1 DEF Revokers, Committed
    <2>2. x = r /\ r \notin Past
      BY <2>1, NewRevoker
    <2> QED
      BY <1>1, <1>2, <2>2
  <1>4. ASSUME NEW t \in Requests, Revokers(t)' /= {}
        PROVE  tokens'[t] /= Null /\ tokens'[t].revoked
    <2>1. CASE Revokers(t) /= {}
      BY <2>1, TokenRows DEF Succession
    <2>2. CASE Revokers(t) = {}
      <3>1. PICK q \in Requests : q \in Revokers(t)' /\ q \notin Revokers(t)
        BY <1>4, <2>2 DEF Revokers, Committed
      <3>2. req[r].token = t /\ (Rotate(r) \/ Revoke(r))
        BY <3>1, NewRevoker
      <3> QED
        BY <3>2, TokenRows
    <2> QED
      BY <2>1, <2>2
  <1>5. ASSUME NEW q \in Requests, req'[q].op = "refresh",
               req'[q].pc \in {"reading", "loaded"}
        PROVE  /\ req[q].token \in Requests /\ tokens'[req[q].token] /= Null
               /\ tokens'[req[q].token].user = req[q].user
               /\ Revokers(req[q].token)' \cap req[q].seen = {}
    <2>1. req[q].op = "refresh" /\ req[q].pc \in {"reading", "loaded"}
      BY <1>1, <1>5 DEF Base, Phases, PhaseOf, InFlight
    <2>2. /\ req[q].token \in Requests /\ tokens[req[q].token] /= Null
          /\ tokens[req[q].token].user = req[q].user
          /\ Revokers(req[q].token) \cap req[q].seen = {}
      BY <2>1 DEF Succession
    <2>3. PICK t \in Requests : t = req[q].token
      BY <2>2
    <2> QED
      BY <1>1, <1>3, <2>2, <2>3, TokenRows
  <1>6. ASSUME NEW q \in Requests, tokens'[q] /= Null
        PROVE  Link(q)'
    <2>1. CASE tokens[q] /= Null
      <3>1. PICK p \in Requests \cup {Null} : p = tokens[q].parent
        BY <2>1 DEF Base, TypeOK, Token
      <3>2. tokens'[q].parent = p /\ tokens'[q].user = tokens[q].user
        BY <2>1, <3>1, TokenRows
      <3>3. CASE p = Null
        <4>1. req[q].op = "login" /\ req[q].right
          BY <2>1, <3>1, <3>3 DEF Succession, TokensSucceedOnce
        <4> QED
          BY <1>1, <3>2, <3>3, <4>1 DEF Link
      <3>4. CASE p /= Null
        <4>1. /\ p \in Requests /\ tokens[p] /= Null
              /\ tokens[p].user = tokens[q].user /\ tokens[p].revoked
              /\ Revokers(p) \cap req[q].seen = {}
          BY <2>1, <3>1, <3>4 DEF Succession, TokensSucceedOnce
        <4>2. /\ tokens'[p] /= Null /\ tokens'[p].user = tokens[p].user
              /\ tokens'[p].revoked
          BY <4>1, TokenRows
        <4>3. Revokers(p)' \cap req'[q].seen = {}
          BY <1>3, <4>1
        <4> QED
          BY <3>2, <3>4, <4>1, <4>2, <4>3 DEF Link
      <3> QED
        BY <3>1, <3>3, <3>4
    <2>2. CASE tokens[q] = Null /\ AcceptLogin(r)
      <3>0. ~Rotate(r)
        BY <2>2 DEF AcceptLogin, Rotate
      <3>1. q = r /\ tokens'[q].parent = Null
        BY <1>6, <2>2, <3>0, TokenRows
      <3>2. req[r].op = "login" /\ req[r].right
        BY <2>2 DEF AcceptLogin
      <3> QED
        BY <1>1, <3>1, <3>2 DEF Link
    <2>3. CASE tokens[q] = Null /\ ~AcceptLogin(r)
      <3>1. PICK p \in Requests : p = req[r].token
        BY <1>6, <2>3, TokenRows
      <3>2. /\ q = r /\ Rotate(r) /\ tokens'[r].parent = p
            /\ tokens'[r].user = req[r].user
            /\ tokens[p] /= Null /\ tokens'[p] /= Null /\ tokens'[p].revoked
        BY <1>6, <2>3, <3>1, TokenRows
      <3>3. /\ tokens[p].user = req[r].user
            /\ Revokers(p) \cap req[r].seen = {}
        BY <3>1, <3>2 DEF Rotate, Succession
      <3>4. tokens'[p].user = req[r].user
        BY <3>2, <3>3, TokenRows
      <3>5. Revokers(p)' \cap req'[r].seen = {}
        BY <1>3, <3>3
      <3>6. p /= Null
        BY NullIsNoId
      <3> QED
        BY <3>2, <3>4, <3>5, <3>6 DEF Link
    <2> QED
      BY <2>1, <2>2, <2>3
  <1>7. TokensSucceedOnce'
    BY <1>6 DEF TokensSucceedOnce, Link
  <1>8. \A q \in Requests :
          req'[q].op = "refresh" /\ req'[q].pc \in {"reading", "loaded"} =>
            /\ req'[q].token \in Requests /\ tokens'[req'[q].token] /= Null
            /\ tokens'[req'[q].token].user = req'[q].user
            /\ (Revokers(req[q].token) \cap req[q].seen)' = {}
    <2> SUFFICES ASSUME NEW q \in Requests, req'[q].op = "refresh",
                        req'[q].pc \in {"reading", "loaded"}
                 PROVE  /\ req'[q].token \in Requests
                        /\ tokens'[req'[q].token] /= Null
                        /\ tokens'[req'[q].token].user = req'[q].user
                        /\ (Revokers(req[q].token) \cap req[q].seen)' = {}
      OBVIOUS
    <2>1. PICK t \in Requests : t = req[q].token /\ t = req'[q].token
      BY <1>1, <1>5
    <2>2. /\ tokens[t] /= Null /\ Revokers(t) \cap req[q].seen = {}
          /\ tokens[t].user = req[q].user
      <3>1. req[q].op = "refresh" /\ req[q].pc \in {"reading", "loaded"}
        BY <1>1 DEF Base, Phases, PhaseOf, InFlight
      <3> QED
        BY <2>1, <3>1 DEF Succession
    <2>3. Revokers(t)' \cap req'[q].seen = {}
      BY <1>3, <2>2
    <2>4. tokens'[t] /= Null /\ tokens'[t].user = req[q].user
      BY <2>2, TokenRows
    <2> QED
      BY <1>1, <2>1, <2>3, <2>4
  <1> QED
    BY <1>4, <1>7, <1>8 DEF Succession

LEMMA Succession_Arrived ==
  ASSUME Base, Succession, NEW r \in Requests, Arrived(r)
  PROVE  Succession'
  <1>1. /\ req[r].pc = "idle" /\ tokens' = tokens /\ r \notin Past
        /\ \A q \in Requests : q /= r => req'[q] = req[q]
    BY DEF Arrived, Others, Past
  <1>2. \A q \in Requests : req[q].seen \subseteq Past
    BY DEF Base, Phases, PhaseOf
  <1>3. \A t \in Requests : Revokers(t)' = Revokers(t)
    <2>1. req'[r].result /= "ok" /\ req[r].result /= "ok"
      BY DEF Arrived, Base, Phases, PhaseOf
    <2>2. \A t : Revokers(t) = {q \in Requests :
                   /\ req[q].pc \in {"committed", "answered"} /\ req[q].token = t
                   /\ req[q].op \in {"refresh", "logout"} /\ req[q].result = "ok"}
      BY DEF Revokers, Committed
    <2>3. \A t : Revokers(t)' = {q \in Requests :
                   /\ req'[q].pc \in {"committed", "answered"} /\ req'[q].token = t
                   /\ req'[q].op \in {"refresh", "logout"} /\ req'[q].result = "ok"}
      BY DEF Revokers, Committed
    <2> QED
      BY <1>1, <2>1, <2>2, <2>3
  <1>4. ASSUME NEW q \in Requests, req'[q].op = "refresh",
               req'[q].pc \in {"reading", "loaded"}
        PROVE  /\ req'[q].token \in Requests /\ tokens'[req'[q].token] /= Null
               /\ tokens'[req'[q].token].user = req'[q].user
               /\ (Revokers(req[q].token) \cap req[q].seen)' = {}
    <2>1. CASE q = r
      <3>1. PICK t \in Requests :
              /\ t = req'[r].token /\ tokens[t] /= Null /\ ~tokens[t].revoked
              /\ req'[r].user = tokens[t].user /\ req'[r].seen = Committed
        BY <1>4, <2>1 DEF Arrived
      <3>2. Revokers(t)' = {}
        BY <1>3, <3>1 DEF Succession
      <3> QED
        BY <1>1, <2>1, <3>1, <3>2
    <2>2. CASE q /= r
      <3>1. req'[q] = req[q]
        BY <1>1, <2>2
      <3>2. PICK t \in Requests :
              /\ t = req[q].token /\ tokens[t] /= Null /\ tokens[t].user = req[q].user
              /\ Revokers(t) \cap req[q].seen = {}
        BY <1>4, <3>1 DEF Succession
      <3> QED
        BY <1>1, <1>3, <3>1, <3>2
    <2> QED
      BY <2>1, <2>2
  <1>5. ASSUME NEW q \in Requests, tokens'[q] /= Null
        PROVE  Link(q)'
    <2>1. q /= r
      BY <1>1, <1>5 DEF Base, Phases, PhaseOf
    <2>2. req'[q] = req[q] /\ Link(q)
      BY <1>1, <1>5, <2>1 DEF Succession, TokensSucceedOnce, Link
    <2>3. PICK p \in Requests \cup {Null} : p = tokens[q].parent
      BY <1>1, <1>5 DEF Base, TypeOK, Token
    <2>4. p /= Null => Revokers(p)' = Revokers(p)
      BY <1>3
    <2> QED
      BY <1>1, <2>2, <2>3, <2>4 DEF Link
  <1>6. ASSUME NEW t \in Requests, Revokers(t)' /= {}
        PROVE  tokens'[t] /= Null /\ tokens'[t].revoked
    BY <1>1, <1>3, <1>6 DEF Succession
  <1>7. TokensSucceedOnce'
    BY <1>5 DEF TokensSucceedOnce, Link
  <1> QED
    BY <1>4, <1>6, <1>7 DEF Succession

LEMMA Succession_Next == Base /\ Succession /\ [Next]_vars => Succession'
  <1> SUFFICES ASSUME Base, Succession, [Next]_vars PROVE Succession'
    OBVIOUS
  <1>1. Base'
    BY Base_Next
  <1>2. CASE UNCHANGED <<users, tokens, audit, welcome, req>>
    <2>1. \A t : Revokers(t)' = Revokers(t)
      BY <1>2 DEF Revokers, Committed
    <2>2. ASSUME NEW q \in Requests, tokens'[q] /= Null
          PROVE  Link(q)'
      <3>1. Link(q)
        BY <1>2, <2>2 DEF Succession, TokensSucceedOnce, Link
      <3>2. PICK p : p = tokens[q].parent /\ p = tokens'[q].parent
        BY <1>2
      <3> QED
        BY <1>2, <2>1, <3>1, <3>2 DEF Link
    <2>3. ASSUME NEW q \in Requests, req'[q].op = "refresh",
                 req'[q].pc \in {"reading", "loaded"}
          PROVE  /\ req'[q].token \in Requests /\ tokens'[req'[q].token] /= Null
                 /\ tokens'[req'[q].token].user = req'[q].user
                 /\ (Revokers(req[q].token) \cap req[q].seen)' = {}
      <3>1. PICK t : t = req[q].token /\ t = req'[q].token
        BY <1>2
      <3> QED
        BY <1>2, <2>1, <2>3, <3>1 DEF Succession
    <2>4. \A t \in Requests : Revokers(t)' /= {} => tokens'[t] /= Null /\ tokens'[t].revoked
      BY <1>2, <2>1 DEF Succession
    <2>5. TokensSucceedOnce'
      BY <2>2 DEF TokensSucceedOnce, Link
    <2> QED
      BY <2>3, <2>4, <2>5 DEF Succession
  <1>3. CASE \E r \in Requests : Arrived(r)
    BY <1>3, Succession_Arrived
  <1>4. CASE \E r \in Requests : Step(r) \/ Die(r)
    BY <1>1, <1>4, Succession_Step
  <1> QED
    BY <1>2, <1>3, <1>4, NextShape

\* Each token comes from an accepted login, or from a refresh of a token of the
\* same user that is revoked for good and that nobody the refresh could see had
\* revoked before.
THEOREM TokensSucceed == Spec => []TokensSucceedOnce
  <1>1. Init => Base /\ Succession
    <2> SUFFICES ASSUME Init PROVE Succession
      BY Base_Init
    <2>1. \A r \in Requests : tokens[r] = Null /\ req[r] = NotArrived
      BY DEF Init
    <2>2. \A t : Revokers(t) = {}
      BY <2>1 DEF Revokers, Committed, NotArrived
    <2> QED
      BY <2>1, <2>2 DEF Succession, TokensSucceedOnce, NotArrived
  <1>2. Succession => TokensSucceedOnce
    BY DEF Succession
  <1> QED
    BY <1>1, <1>2, Base_Next, Succession_Next, PTL DEF Spec
-----------------------------------------------------------------------------
(***************************************************************************)
(* Registrations.                                                          *)
(***************************************************************************)

\* The requests whose INSERT has been committed, as far as it shows
Inserted(r) == req[r].op = "register" /\ (req[r].pc = "committed" \/ r \in welcome)

Registrations ==
  /\ \A r \in Requests : Inserted(r) => users[req[r].user].registered
  /\ \A r, q \in Requests :
       Inserted(r) /\ Inserted(q) /\ req[r].user = req[q].user => r = q
  /\ \A r \in Requests :
       req[r].op = "register" =>
         /\ req[r].result \in {"refused", "error"} => users[req[r].user].registered
         /\ req[r].result = "ok" => r \in welcome /\ \E x \in audit : x.by = r

LEMMA RegisteredStays ==
  ASSUME Base, NEW r \in Requests, Step(r) \/ Die(r), NEW u \in Users,
         users[u].registered
  PROVE  users'[u].registered
  <1>1. CASE users'[u] = users[u]
    BY <1>1
  <1>2. CASE users'[u] /= users[u]
    BY <1>2, Columns DEF Fresh, OneMore, Cleared, RoleSet, StatusSet
  <1> QED
    BY <1>1, <1>2

LEMMA Registrations_Step ==
  ASSUME Base, Registrations, NEW r \in Requests, Step(r) \/ Die(r)
  PROVE  Registrations'
  <1>1. \A q \in Requests : /\ req'[q].op = req[q].op /\ req'[q].user = req[q].user
                            /\ q /= r => req'[q] = req[q]
    BY Stepped DEF Kept, Others
  <1>2. \A q \in Requests : req[q].op = "register" => req[q].user \in Users
    BY DEF Base, Phases, PhaseOf
  <1>3. \A q \in Requests : req[q].op = "register" /\ users[req[q].user].registered
                            => users'[req[q].user].registered
    BY <1>2, RegisteredStays
  <1>4. /\ welcome' \in {welcome, welcome \cup {r}} /\ audit \subseteq audit'
        /\ r \in welcome' /\ r \notin welcome => FinishRegister(r)
    BY DEF Step, Insert, InsertRaced, WelcomeRaises, LoadOwner, Die, RejectLogin,
       CommitRoleChange, CommitStatusChange, FinishRegister, FinishAudited,
       AcceptLogin, Rotate, Revoke, Audited
  <1>5. req[r].op = "register" =>
          Insert(r) \/ InsertRaced(r) \/ FinishRegister(r) \/ WelcomeRaises(r) \/ Die(r)
    BY DEF Step, LoadOwner, RejectLogin, CommitRoleChange, CommitStatusChange,
       FinishAudited, AcceptLogin, Rotate, Revoke, Base, Phases, PhaseOf
  <1>6. ASSUME NEW q \in Requests, Inserted(q)'
        PROVE  Inserted(q) \/ (q = r /\ Insert(r))
    <2>1. CASE q /= r
      BY <1>1, <1>4, <1>6, <2>1 DEF Inserted
    <2>2. CASE q = r /\ r \in welcome'
      BY <1>1, <1>4, <1>6, <2>2 DEF Inserted, FinishRegister
    <2>3. CASE q = r /\ r \notin welcome'
      <3>1. req[r].op = "register" /\ req'[r].pc = "committed"
        BY <1>1, <1>6, <2>3 DEF Inserted
      <3>2. ~(InsertRaced(r) \/ FinishRegister(r) \/ WelcomeRaises(r) \/ Die(r))
        BY <3>1, StepMoves DEF Moved
      <3> QED
        BY <1>5, <2>3, <3>1, <3>2
    <2> QED
      BY <2>1, <2>2, <2>3
  <1>7. ASSUME Insert(r)
        PROVE  /\ req[r].op = "register" /\ users'[req[r].user].registered
               /\ \A q \in Requests : Inserted(q) => req[q].user /= req[r].user
    BY <1>7, Columns DEF Fresh, Registrations
  <1>8. ASSUME NEW q \in Requests, Inserted(q)'
        PROVE  users'[req[q].user].registered
    BY <1>3, <1>6, <1>7, <1>8 DEF Registrations, Inserted
  <1>9. ASSUME NEW q \in Requests, NEW p \in Requests, Inserted(q)', Inserted(p)',
               req[q].user = req[p].user
        PROVE  q = p
    BY <1>6, <1>7, <1>9 DEF Registrations
  <1>10. ASSUME NEW q \in Requests, req[q].op = "register"
         PROVE  /\ req'[q].result \in {"refused", "error"}
                     => users'[req[q].user].registered
                /\ req'[q].result = "ok" => q \in welcome' /\ \E x \in audit' : x.by = q
    <2>1. CASE q /= r
      BY <1>1, <1>3, <1>4, <1>10, <2>1 DEF Registrations
    <2>2. CASE q = r /\ Insert(r)
      <3>1. req'[r].result = "none"
        BY <2>2, StepMoves DEF Moved
      <3> QED
        BY <2>2, <3>1
    <2>3. CASE q = r /\ InsertRaced(r)
      <3>1. req'[r].result = "error" /\ users[req[r].user].registered
        BY <2>3, StepMoves DEF Moved, InsertRaced
      <3> QED
        BY <1>3, <1>10, <2>3, <3>1
    <2>4. CASE q = r /\ WelcomeRaises(r)
      <3>1. req'[r].result = "error" /\ Inserted(r)
        BY <2>4, StepMoves DEF Moved, WelcomeRaises, Inserted
      <3> QED
        BY <1>3, <1>10, <2>4, <3>1 DEF Registrations
    <2>5. CASE q = r /\ FinishRegister(r)
      <3>1. req'[r].result = "ok"
        BY <2>5, StepMoves DEF Moved
      <3>2. r \in welcome'
        BY <2>5 DEF FinishRegister
      <3>3. \E x \in audit' : x.by = r
        <4> DEFINE x == [by |-> r, user |-> req[r].user, action |-> req[r].op]
        <4>1. x \in audit' /\ x.by = r
          BY <2>5 DEF FinishRegister, Audited
        <4> QED
          BY <4>1
      <3> QED
        BY <2>5, <3>1, <3>2, <3>3
    <2>6. CASE q = r /\ Die(r)
      <3>1. req'[r].result = "dead"
        BY <2>6, StepMoves DEF Moved
      <3> QED
        BY <2>6, <3>1
    <2> QED
      BY <1>5, <1>10, <2>1, <2>2, <2>3, <2>4, <2>5, <2>6
  <1>11. \A q \in Requests : Inserted(q)' => users'[req'[q].user].registered
    BY <1>1, <1>8
  <1>12. \A q, p \in Requests :
           Inserted(q)' /\ Inserted(p)' /\ req'[q].user = req'[p].user => q = p
    BY <1>1, <1>9
  <1>13. \A q \in Requests : req'[q].op = "register" =>
           /\ req'[q].result \in {"refused", "error"} => users'[req'[q].user].registered
           /\ req'[q].result = "ok" => q \in welcome' /\ \E x \in audit' : x.by = q
    BY <1>1, <1>10
  <1> QED
    BY <1>11, <1>12, <1>13 DEF Registrations

LEMMA Registrations_Next == Base /\ Registrations /\ [Next]_vars => Registrations'
  <1> SUFFICES ASSUME Base, Registrations, [Next]_vars PROVE Registrations'
    OBVIOUS
  <1>1. CASE UNCHANGED <<users, tokens, audit, welcome, req>>
    BY <1>1 DEF Registrations, Inserted
  <1>2. ASSUME NEW r \in Requests, Arrived(r)
        PROVE  Registrations'
    <2>1. /\ UNCHANGED <<users, audit, welcome>> /\ r \notin welcome
          /\ req'[r].pc /= "committed" /\ req'[r].result \in {"none", "refused"}
          /\ req'[r].result = "refused" /\ req'[r].op = "register"
               => users[req'[r].user].registered
          /\ \A q \in Requests : q /= r => req'[q] = req[q]
      BY <1>2 DEF Arrived, Others, Base, Phases, PhaseOf, Past
    <2>2. \A q \in Requests : Inserted(q)' => q /= r /\ Inserted(q)
      BY <2>1 DEF Inserted
    <2> QED
      BY <2>1, <2>2 DEF Registrations
  <1>3. CASE \E r \in Requests : Step(r) \/ Die(r)
    BY <1>3, Registrations_Step
  <1> QED
    BY <1>1, <1>2, <1>3, NextShape

\* One registration at most creates an account; answered without an error, it
\* leaves account, audit row and notification, and refused, there was one.
THEOREM RegistrationsTell == Spec => []RegistrationOutcome
  <1>1. Init => Base /\ Registrations
    BY Base_Init DEF Init, Registrations, Inserted, NotArrived
  <1>2. Base /\ Registrations => RegistrationOutcome
    <2> SUFFICES ASSUME Base, Registrations, NEW r \in Requests,
                        req[r].op = "register"
                 PROVE  /\ req[r].result = "ok" => r \in welcome /\ \E x \in audit : x.by = r
                        /\ r \in welcome =>
                             \A q \in welcome : req[q].user = req[r].user => q = r
                        /\ r \in welcome \/ req[r].result \in {"refused", "error"}
                             => users[req[r].user].registered
      BY DEF RegistrationOutcome
    <2>1. \A q \in welcome : q \in Requests /\ Inserted(q)
      BY DEF Base, TypeOK, Phases, PhaseOf, Inserted
    <2> QED
      BY <2>1 DEF Registrations
  <1> QED
    BY <1>1, <1>2, Base_Next, Registrations_Next, PTL DEF Spec
-----------------------------------------------------------------------------
(***************************************************************************)
(* Failures that do not overlap are all counted. Each count that a handler *)
(* has read, and each that the table holds, was reached from 0 in steps of *)
(* one: every lower count is the one that some rejected attempt has read.  *)
(***************************************************************************)

\* Some rejected attempt on u had read count n
Passed(u, n) == \E q \in Rejected(u) : req[q].row.failed = n

Distinct(u) ==
  \A r, q \in Rejected(u) : r /= q => req[r].row.failed /= req[q].row.failed

Pending(r, u) == req[r].pc = "loaded" /\ req[r].op = "login" /\ req[r].user = u

StepByStep(u) ==
  /\ \A n \in 0..users[u].failed - 1 : Passed(u, n)
  /\ \A r \in Requests : Pending(r, u) =>
       \A n \in 0..req[r].row.failed - 1 : Passed(u, n)

\* As long as nobody has logged in and no count was read twice
Exact(u) ==
  /\ \A q \in Rejected(u) : req[q].row.failed < users[u].failed
  /\ \A r \in Requests : Pending(r, u) =>
       /\ req[r].row.failed <= users[u].failed
       /\ req[r].row.locked /= 0 => users[u].locked /= 0
  /\ users[u].failed >= MaxFailed => users[u].locked /= 0

Counting ==
  \A u \in Users : /\ StepByStep(u)
                   /\ Accepted(u) = {} /\ Distinct(u) => Exact(u)

\* Types of the numbers compared
LEMMA Numbers ==
  ASSUME Base
  PROVE  /\ \A u \in Users : users[u].failed \in Nat /\ users[u].locked \in Nat
         /\ \A r \in Requests : req[r].row.failed \in Nat /\ req[r].row.locked \in Nat
         /\ now + Lockout \in Nat \ {0} /\ MaxFailed \in Nat \ {0}
  BY Durations DEF Base, TypeOK, Request, Row

\* Rejections and successes stay, as they were.
LEMMA HistoryStays ==
  ASSUME Base, Base', NEW r \in Requests, Step(r) \/ Die(r), NEW u \in Users
  PROVE  /\ Rejected(u) \subseteq Rejected(u)'
         /\ \A q \in Requests : req'[q].row = req[q].row
         /\ \A n : Passed(u, n) => Passed(u, n)'
         /\ Distinct(u)' => Distinct(u)
         /\ Accepted(u)' = {} => Accepted(u) = {}
         /\ \A q \in Requests : Pending(q, u)' => Pending(q, u) /\ q /= r
  <1>1. Rejected(u) \subseteq Rejected(u)'
    BY RejectedGrows
  <1>2. /\ Past \subseteq Past' /\ req[r].pc \in InFlight /\ req[r].result = "none"
        /\ \A q \in Requests : /\ req'[q].row = req[q].row /\ req'[q].op = req[q].op
                               /\ req'[q].user = req[q].user
                               /\ req'[q].right = req[q].right
                               /\ q /= r => req'[q] = req[q]
    BY Stepped DEF Kept, Others
  <1>3. \A q \in Rejected(u) : q \in Requests
    BY DEF Rejected
  <1>4. \A n : Passed(u, n) => Passed(u, n)'
    BY <1>1, <1>2, <1>3 DEF Passed
  <1>5. Distinct(u)' => Distinct(u)
    BY <1>1, <1>2, <1>3 DEF Distinct
  <1>6. Accepted(u) \subseteq Accepted(u)'
    <2> SUFFICES ASSUME NEW q \in Accepted(u)
                 PROVE  q \in Accepted(u)'
      OBVIOUS
    <2>1. /\ q \in Requests /\ q \in Committed /\ req[q].op = "login"
          /\ req[q].user = u /\ req[q].right /\ tokens[q] /= Null
      BY DEF Accepted, Committed
    <2>2. q \in Past' /\ tokens'[q] /= Null
      BY <1>2, <2>1, AdminsCommit, TokenRows
    <2>3. /\ q \in Past' /\ req'[q].op = "login" /\ req'[q].user = u
          /\ req'[q].right
      BY <1>2, <2>1, <2>2
    <2>4. q \in Committed'
      BY <2>1, <2>3 DEF Base, Phases, PhaseOf, Committed, Past
    <2> QED
      BY <2>2, <2>3, <2>4 DEF Accepted
  <1>7. ASSUME NEW q \in Requests, Pending(q, u)'
        PROVE  Pending(q, u) /\ q /= r
    <2>1. q /= r
      <3> SUFFICES ASSUME q = r PROVE FALSE
        OBVIOUS
      <3>1. req'[r].pc = "loaded" /\ req[r].op = "login"
        BY <1>2, <1>7 DEF Pending
      <3>2. ~LoadOwner(r)
        BY <3>1, StepMoves
      <3>3. ~(Insert(r) \/ AcceptLogin(r) \/ CommitRoleChange(r))
        BY <3>1, StepMoves DEF Moved
      <3>4. ~(InsertRaced(r) \/ WelcomeRaises(r) \/ Die(r) \/ FinishRegister(r)
              \/ FinishAudited(r))
        BY <3>1, StepMoves DEF Moved
      <3>5. ~(RejectLogin(r) \/ Rotate(r) \/ Revoke(r) \/ CommitStatusChange(r))
        BY <3>1, StepMoves DEF Moved
      <3> QED
        BY <3>2, <3>3, <3>4, <3>5 DEF Step
    <2> QED
      BY <1>2, <1>7, <2>1 DEF Pending
  <1> QED
    BY <1>1, <1>2, <1>4, <1>5, <1>6, <1>7

LEMMA Counting_Rejected ==
  ASSUME Base, Base', Counting, NEW r \in Requests, RejectLogin(r),
         NEW u \in Users, req[r].user = u
  PROVE  StepByStep(u)' /\ (Accepted(u)' = {} /\ Distinct(u)' => Exact(u)')
  <1>1. Step(r) /\ Pending(r, u)
    BY DEF Step, RejectLogin, Pending
  <1>0. PICK k \in Nat : k = req[r].row.failed
    BY Numbers
  <1> DEFINE old == users[u]
             new == users'[u]
  <1>2. /\ new.failed = k + 1
        /\ new.locked = IF k + 1 >= MaxFailed
                        THEN Written(req[r].row.locked, now + Lockout, old.locked)
                        ELSE old.locked
    BY <1>0, <1>1, Columns DEF OneMore
  <1>3. /\ old.failed \in Nat /\ old.locked \in Nat
        /\ now + Lockout \in Nat \ {0} /\ MaxFailed \in Nat \ {0}
        /\ \A q \in Requests : req[q].row.failed \in Nat
    BY Numbers
  <1>4. /\ r \in Rejected(u)' /\ r \notin Rejected(u)
        /\ Rejected(u)' = Rejected(u) \cup {r}
    BY <1>1, RejectedGrows
  <1>5. /\ \A q \in Requests : req'[q].row = req[q].row
        /\ \A n : Passed(u, n) => Passed(u, n)'
        /\ Distinct(u)' => Distinct(u)
        /\ Accepted(u)' = {} => Accepted(u) = {}
        /\ \A q \in Requests : Pending(q, u)' => Pending(q, u) /\ q /= r
    BY <1>1, HistoryStays
  <1>6. Passed(u, k)'
    BY <1>0, <1>4, <1>5 DEF Passed
  <1>7. StepByStep(u)
    BY DEF Counting
  <1>8. \A n \in 0..k - 1 : Passed(u, n)'
    BY <1>0, <1>1, <1>5, <1>7 DEF StepByStep
  <1> HIDE DEF old, new
  <1>9. \A n \in 0..new.failed - 1 : Passed(u, n)'
    <2> SUFFICES ASSUME NEW n \in 0..new.failed - 1
                 PROVE  Passed(u, n)'
      OBVIOUS
    <2>1. n \in 0..k - 1 \/ n = k
      BY <1>2, <1>3
    <2> QED
      BY <1>6, <1>8, <2>1
  <1>10. ASSUME NEW q \in Requests, Pending(q, u)'
         PROVE  \A n \in 0..req'[q].row.failed - 1 : Passed(u, n)'
    <2>1. Pending(q, u) /\ req'[q].row = req[q].row
      BY <1>5, <1>10
    <2> QED
      BY <1>5, <1>7, <2>1 DEF StepByStep
  <1>11. StepByStep(u)'
    BY <1>9, <1>10 DEF StepByStep, new
  <1>12. ASSUME Accepted(u)' = {}, Distinct(u)'
         PROVE  Exact(u)'
    <2>1. Exact(u)
      BY <1>5, <1>12 DEF Counting
    \* a stale count has been read before, so k is the current one
    <2>2. k = old.failed
      <3>1. k <= old.failed
        BY <1>0, <1>1, <2>1 DEF Exact, old
      <3>2. CASE k < old.failed
        <4>1. k \in 0..old.failed - 1
          BY <1>3, <3>2
        <4>2. Passed(u, k)
          BY <1>7, <4>1 DEF StepByStep, old
        <4>3. PICK q \in Rejected(u) : req[q].row.failed = k
          BY <4>2 DEF Passed
        <4>4. q \in Rejected(u)' /\ q /= r /\ q \in Requests
          BY <1>4, <4>3 DEF Rejected
        <4>5. req'[q].row.failed = req'[r].row.failed
          BY <1>0, <1>5, <4>3, <4>4
        <4> QED
          BY <1>4, <1>12, <4>4, <4>5 DEF Distinct
      <3> QED
        BY <1>3, <3>1, <3>2
    <2>3. ASSUME NEW q \in Rejected(u)'
          PROVE  req'[q].row.failed < new.failed
      <3>1. CASE q = r
        BY <1>0, <1>2, <1>3, <1>5, <3>1
      <3>2. CASE q \in Rejected(u)
        <4>1. req[q].row.failed < old.failed /\ q \in Requests
          BY <2>1, <3>2 DEF Exact, Rejected, old
        <4>2. req'[q].row.failed = req[q].row.failed /\ req[q].row.failed \in Nat
          BY <1>3, <1>5, <4>1
        <4> QED
          BY <1>2, <1>3, <2>2, <4>1, <4>2
      <3> QED
        BY <1>4, <3>1, <3>2
    <2>4. new.locked \in {old.locked, now + Lockout}
      BY <1>2 DEF Written
    <2>5. old.locked /= 0 => new.locked /= 0
      BY <1>3, <2>4
    <2>6. ASSUME NEW q \in Requests, Pending(q, u)'
          PROVE  /\ req'[q].row.failed <= new.failed
                 /\ req'[q].row.locked /= 0 => new.locked /= 0
      <3>1. /\ Pending(q, u) /\ req'[q].row = req[q].row
        BY <1>5, <2>6
      <3>2. /\ req[q].row.failed <= old.failed
            /\ req[q].row.locked /= 0 => old.locked /= 0
        BY <2>1, <3>1 DEF Exact, old
      <3> QED
        BY <1>2, <1>3, <2>2, <2>5, <3>1, <3>2
    <2>7. new.failed >= MaxFailed => new.locked /= 0
      <3>1. req[r].row.locked /= 0 => old.locked /= 0
        BY <1>1, <2>1 DEF Exact, old
      <3>2. CASE k + 1 >= MaxFailed
        <4>1. new.locked = IF now + Lockout = req[r].row.locked THEN old.locked
                                                             ELSE now + Lockout
          BY <1>2, <3>2 DEF Written
        <4> QED
          BY <1>3, <3>1, <4>1
      <3>3. CASE ~(k + 1 >= MaxFailed)
        BY <1>2, <3>3
      <3> QED
        BY <3>2, <3>3
    <2> QED
      BY <2>3, <2>6, <2>7 DEF Exact, new
  <1> QED
    BY <1>11, <1>12

LEMMA Counting_Step ==
  ASSUME Base, Base', Counting, NEW r \in Requests, Step(r) \/ Die(r), NEW u \in Users
  PROVE  StepByStep(u)' /\ (Accepted(u)' = {} /\ Distinct(u)' => Exact(u)')
  <1>1. /\ \A q \in Requests : req'[q].row = req[q].row
        /\ \A n : Passed(u, n) => Passed(u, n)'
        /\ Distinct(u)' => Distinct(u)
        /\ Accepted(u)' = {} => Accepted(u) = {}
        /\ \A q \in Requests : Pending(q, u)' => Pending(q, u)
    BY HistoryStays
  <1>2. StepByStep(u) /\ (Accepted(u) = {} /\ Distinct(u) => Exact(u))
    BY DEF Counting
  <1>3. /\ users[u].failed \in Nat /\ users[u].locked \in Nat
        /\ MaxFailed \in Nat \ {0}
    BY Numbers
  <1>4. ASSUME NEW q \in Requests, Pending(q, u)'
        PROVE  \A n \in 0..req'[q].row.failed - 1 : Passed(u, n)'
    <2>1. Pending(q, u) /\ req'[q].row = req[q].row
      BY <1>1, <1>4
    <2> QED
      BY <1>1, <1>2, <2>1 DEF StepByStep
  <1>5. CASE RejectLogin(r) /\ req[r].user = u
    BY <1>5, Counting_Rejected
  <1>6. CASE users'[u].failed = users[u].failed /\ users'[u].locked = users[u].locked
             /\ ~(RejectLogin(r) /\ req[r].user = u)
    <2>1. StepByStep(u)'
      <3>1. \A n \in 0..users'[u].failed - 1 : Passed(u, n)'
        BY <1>1, <1>2, <1>6 DEF StepByStep
      <3> QED
        BY <1>4, <3>1 DEF StepByStep
    <2>2. Rejected(u)' = Rejected(u)
      BY <1>6, RejectedGrows
    <2>3. ASSUME Accepted(u)' = {}, Distinct(u)'
          PROVE  Exact(u)'
      <3>1. Exact(u)
        BY <1>1, <1>2, <2>3
      <3>2. \A q \in Rejected(u)' : req'[q].row.failed < users'[u].failed
        BY <1>1, <1>6, <2>2, <3>1 DEF Exact, Rejected
      <3>3. \A q \in Requests : Pending(q, u)' =>
              /\ req'[q].row.failed <= users'[u].failed
              /\ req'[q].row.locked /= 0 => users'[u].locked /= 0
        BY <1>1, <1>6, <3>1 DEF Exact
      <3>4. users'[u].failed >= MaxFailed => users'[u].locked /= 0
        BY <1>6, <3>1 DEF Exact
      <3> QED
        BY <3>2, <3>3, <3>4 DEF Exact
    <2> QED
      BY <2>1, <2>3
  <1>7. CASE AcceptLogin(r) /\ req[r].user = u
    <2>1. Cleared(u)
      BY <1>7, Columns
    <2>2. StepByStep(u)'
      <3>1. \A n \in 0..users'[u].failed - 1 : Passed(u, n)'
        BY <1>1, <1>2, <1>3, <2>1 DEF StepByStep, Cleared
      <3> QED
        BY <1>4, <3>1 DEF StepByStep
    <2>3. r \in Accepted(u)'
      <3>1. /\ req'[r].pc = "committed" /\ req'[r].result = "none"
            /\ req'[r].op = "login" /\ req'[r].user = u /\ req'[r].right
        <4>1. Moved(r, "committed", "none")
          BY <1>7, StepMoves
        <4>2. req[r].op = "login" /\ req[r].right
          BY <1>7 DEF AcceptLogin
        <4> QED
          BY <1>7, <4>1, <4>2 DEF Moved
      <3>2. tokens'[r] /= Null
        <4>1. tokens'[r] = NewToken(req[r].user, Null)
          BY <1>7 DEF AcceptLogin, Base, TypeOK
        <4> QED
          BY <1>7, <4>1, StepWrites, NullIsNoToken
      <3> QED
        BY <3>1, <3>2 DEF Accepted, Committed
    <2> QED
      BY <2>2, <2>3
  <1>8. CASE Insert(r) /\ req[r].user = u
    <2>1. Fresh(u)
      BY <1>8, Columns
    <2>2. StepByStep(u)'
      <3>1. \A n \in 0..users'[u].failed - 1 : Passed(u, n)'
        BY <2>1 DEF Fresh
      <3> QED
        BY <1>4, <3>1 DEF StepByStep
    <2>3. \A q \in Requests : req[q].op = "login" => req[q].user /= u
      BY <2>1 DEF Fresh, Base, Phases, PhaseOf
    <2>4. Rejected(u)' = Rejected(u)
      <3>1. ~RejectLogin(r)
        BY <1>8 DEF Insert, RejectLogin
      <3> QED
        BY <3>1, RejectedGrows
    <2>5. Rejected(u) = {}
      BY <2>3 DEF Rejected, Base, Phases, PhaseOf
    <2>6. \A q \in Requests : ~Pending(q, u)'
      BY <1>1, <2>3 DEF Pending
    <2>7. ~(users'[u].failed >= MaxFailed)
      BY <1>3, <2>1 DEF Fresh
    <2>8. Exact(u)'
      BY <2>4, <2>5, <2>6, <2>7 DEF Exact
    <2> QED
      BY <2>2, <2>8
  <1>9. \/ RejectLogin(r) /\ req[r].user = u
        \/ AcceptLogin(r) /\ req[r].user = u
        \/ Insert(r) /\ req[r].user = u
        \/ users'[u].failed = users[u].failed /\ users'[u].locked = users[u].locked
    BY Columns DEF RoleSet, StatusSet
  <1> QED
    BY <1>5, <1>6, <1>7, <1>8, <1>9

LEMMA Counting_Next == Base /\ Counting /\ [Next]_vars => Counting'
  <1> SUFFICES ASSUME Base, Counting, [Next]_vars PROVE Counting'
    OBVIOUS
  <1>1. Base'
    BY Base_Next
  <1>2. CASE UNCHANGED <<users, tokens, audit, welcome, req>>
    <2>1. \A u : /\ Rejected(u)' = Rejected(u) /\ Accepted(u)' = Accepted(u)
      BY <1>2 DEF Rejected, Accepted, Committed
    <2>2. ASSUME NEW u \in Users
          PROVE  StepByStep(u)' /\ (Accepted(u)' = {} /\ Distinct(u)' => Exact(u)')
      BY <1>2, <2>1 DEF Counting, StepByStep, Exact, Passed, Distinct, Pending
    <2> QED
      BY <2>2 DEF Counting
  <1>3. ASSUME NEW r \in Requests, Arrived(r)
        PROVE  Counting'
    <2>1. /\ users' = users /\ tokens' = tokens /\ req[r].pc = "idle"
          /\ req[r].result = "none" /\ req'[r].result \in {"none", "refused"}
          /\ tokens[r] = Null
          /\ \A q \in Requests : q /= r => req'[q] = req[q]
          /\ req'[r].pc = "loaded" /\ req'[r].op = "login"
               => req'[r].row = users[req'[r].user]
      BY <1>3 DEF Arrived, Others, Base, Phases, PhaseOf, Past
    <2>2. ASSUME NEW u \in Users
          PROVE  StepByStep(u)' /\ (Accepted(u)' = {} /\ Distinct(u)' => Exact(u)')
      <3>1. Rejected(u)' = Rejected(u) /\ r \notin Rejected(u)
        BY <2>1 DEF Rejected
      <3>2. \A q \in Rejected(u) : req'[q] = req[q]
        BY <2>1, <3>1 DEF Rejected
      <3>3. \A n : Passed(u, n)' <=> Passed(u, n)
        BY <3>1, <3>2 DEF Passed
      <3>4. Distinct(u)' => Distinct(u)
        BY <3>1, <3>2 DEF Distinct
      <3>5. Accepted(u)' = Accepted(u)
        BY <2>1 DEF Accepted, Committed
      <3>6. \A q \in Requests : Pending(q, u)' =>
              \/ q /= r /\ Pending(q, u) /\ req'[q] = req[q]
              \/ q = r /\ req'[q].row = users[u]
        BY <2>1 DEF Pending
      <3>7. StepByStep(u) /\ (Accepted(u) = {} /\ Distinct(u) => Exact(u))
        BY DEF Counting
      <3>8. StepByStep(u)'
        BY <2>1, <3>3, <3>6, <3>7 DEF StepByStep
      <3>9. ASSUME Accepted(u)' = {}, Distinct(u)'
            PROVE  Exact(u)'
        <4>1. Exact(u) /\ users[u].failed \in Nat
          BY <3>4, <3>5, <3>7, <3>9, Numbers
        <4> QED
          BY <2>1, <3>1, <3>2, <3>6, <4>1 DEF Exact
      <3> QED
        BY <3>8, <3>9
    <2> QED
      BY <2>2 DEF Counting
  <1>4. ASSUME NEW r \in Requests, Step(r) \/ Die(r)
        PROVE  Counting'
    BY <1>1, <1>4, Counting_Step DEF Counting
  <1> QED
    BY <1>2, <1>3, <1>4, NextShape

\* Without a success, and with no count read twice, the attempts are counted out.
LEMMA CountedOut ==
  ASSUME Base, Counting, NEW u \in Users, Accepted(u) = {}, Distinct(u)
  PROVE  users[u].failed = Cardinality(Rejected(u))
  <1> DEFINE n == users[u].failed
             counts == [q \in Rejected(u) |-> req[q].row.failed]
  <1>1. /\ n \in Nat /\ IsFiniteSet(Rejected(u))
        /\ \A q \in Rejected(u) : q \in Requests /\ req[q].row.failed \in Nat
    BY Numbers, RejectedCount DEF Rejected
  <1>2. Exact(u) /\ StepByStep(u)
    BY DEF Counting
  <1>3. counts \in [Rejected(u) -> 0..n - 1]
    BY <1>1, <1>2 DEF Exact
  <1>4. counts \in Injection(Rejected(u), 0..n - 1)
    BY <1>3 DEF Injection, IsInjective, Distinct
  <1>5. counts \in Surjection(Rejected(u), 0..n - 1)
    BY <1>2, <1>3 DEF Surjection, StepByStep, Passed
  <1> HIDE DEF n, counts
  <1>6. Cardinality(0..n - 1) = Cardinality(Rejected(u))
    BY <1>1, <1>4, <1>5, FS_Surjection
  <1>7. Cardinality(0..n - 1) = n
    BY <1>1, FS_Interval
  <1> QED
    BY <1>6, <1>7 DEF n

\* Locks are earned; and as long as nobody has logged in, attempts that never
\* read the same count are all counted, and MaxFailed of them have locked the
\* account.
THEOREM FailuresAreCounted == Spec => []FailuresCount
  <1>1. Init => Base /\ Counting
    <2> SUFFICES ASSUME Init PROVE Counting
      BY Base_Init
    <2>1. \A r \in Requests : req[r].pc = "idle" /\ req[r].result = "none"
      BY DEF Init, NotArrived
    <2>2. \A u : Rejected(u) = {}
      BY <2>1 DEF Rejected
    <2>3. \A u \in Users : users[u].failed = 0
      <3>1. /\ NoRow.failed = 0
            /\ [NoRow EXCEPT !.registered = TRUE].failed = 0
            /\ [NoRow EXCEPT !.registered = TRUE, !.role = "admin"].failed = 0
        BY DEF NoRow
      <3>2. \A u \in Users :
              users[u] \in {NoRow, [NoRow EXCEPT !.registered = TRUE],
                           [NoRow EXCEPT !.registered = TRUE, !.role = "admin"]}
        BY DEF Init
      <3> QED
        BY <3>1, <3>2, Zenon
    <2> QED
      BY <2>1, <2>2, <2>3, Durations DEF Counting, StepByStep, Exact, Pending
  <1>2. Base /\ Counting /\ Earned => FailuresCount
    <2> SUFFICES ASSUME Base, Counting, Earned, NEW u \in Users, Accepted(u) = {},
                        Distinct(u)
                 PROVE  /\ users[u].failed = Cardinality(Rejected(u))
                        /\ Cardinality(Rejected(u)) >= MaxFailed => users[u].locked /= 0
      BY DEF FailuresCount, Earned, Distinct
    <2>1. users[u].failed = Cardinality(Rejected(u))
      BY CountedOut
    <2>2. Exact(u)
      BY DEF Counting
    <2> QED
      BY <2>1, <2>2 DEF Exact
  <1>3. Spec => []Base
    BY Base_Init, Base_Next, PTL DEF Spec
  <1>4. Base /\ Counting /\ [Next]_vars => Counting'
    BY Counting_Next
  <1>5. Base /\ Earned /\ [Next]_vars => Earned'
    BY Earned_Next
  <1>6. Init => Earned
    BY Earned_Init
  <1> QED
    BY <1>1, <1>2, <1>3, <1>4, <1>5, <1>6, PTL DEF Spec
=============================================================================
