--------------------------- MODULE LifecycleProofs ---------------------------
(***************************************************************************)
(* Safety of the lifecycle for any set of applications, users, requests,   *)
(* payloads and terms. IInv is the inductive invariant; every property     *)
(* follows from one of its conjuncts.                                      *)
(***************************************************************************)
EXTENDS LifecycleProps, TLAPS

\* The initial state is well typed.
LEMMA InitTypeOK == Init => TypeOK
<1>1. NotArrived \in Request
  BY DEF NotArrived, Request, Operations, Statuses, Outcomes, Terms
<1>. QED BY <1>1 DEF Init, TypeOK, NotArrived, InFlight

\* What the rest of TypeOK says of the requests.
RequestsTyped ==
  /\ req \in [Requests -> Request]
  /\ \A r \in Requests :
       req[r].pc \in InFlight => req[r].user \in Users /\ req[r].app \in Apps

\* Answering a request keeps the requests well typed.
LEMMA AnswerTyped ==
  ASSUME RequestsTyped, NEW r \in Requests,
         NEW result \in {"ok", "error", "dead"}, Answer(r, result)
  PROVE  RequestsTyped'
<1>1. req' = [req EXCEPT ![r] = [req[r] EXCEPT !.pc = "answered",
                                               !.result = result]]
  BY DEF Answer, RequestsTyped
<1>2. req[r] \in Request
  BY DEF RequestsTyped
<1>3. [req[r] EXCEPT !.pc = "answered", !.result = result] \in Request
  BY <1>2 DEF Request
<1>4. req' \in [Requests -> Request]
  BY <1>1, <1>3 DEF RequestsTyped
<1>5. ASSUME NEW q \in Requests, req'[q].pc \in InFlight
      PROVE  req'[q] = req[q]
  BY <1>1, <1>2, <1>5 DEF RequestsTyped, Request, InFlight
<1>. QED BY <1>4, <1>5 DEF RequestsTyped

\* A handler that goes on keeps the requests well typed.
LEMMA ProgressTyped ==
  ASSUME RequestsTyped, NEW r \in Requests, req[r].pc \in InFlight,
         NEW pc \in {"committed", "mailed"}, NEW mail \in {"sent", "failed"},
         req' = [req EXCEPT ![r] = [req[r] EXCEPT !.pc = pc, !.mail = mail]]
  PROVE  RequestsTyped'
<1>1. req[r] \in Request
  BY DEF RequestsTyped
<1>2. [req[r] EXCEPT !.pc = pc, !.mail = mail] \in Request
  BY <1>1 DEF Request
<1>3. req' \in [Requests -> Request]
  BY <1>2 DEF RequestsTyped
<1>4. /\ req'[r].user = req[r].user
      /\ req'[r].app = req[r].app
  BY <1>1 DEF RequestsTyped, Request
<1>5. \A q \in Requests \ {r} : req'[q] = req[q]
  BY DEF RequestsTyped
<1>. QED BY <1>3, <1>4, <1>5 DEF RequestsTyped

\* Every handler keeps tables and requests well typed.
LEMMA NextTypeOK == TypeOK /\ [Next]_vars => TypeOK'
<1> SUFFICES ASSUME TypeOK, [Next]_vars
             PROVE  TypeOK'
  OBVIOUS
<1> USE DEF TypeOK
<1>0. RequestsTyped
  BY DEF RequestsTyped
<1>1. ASSUME NEW r \in Requests, NEW op \in Operations, NEW u \in Users,
             NEW a \in Apps, NEW to \in Statuses, NEW outcome \in Outcomes,
             NEW terms \in Terms, Load(r, op, u, a, to, outcome, terms)
      PROVE  TypeOK'
  <2>1. app[a].status \in Statuses
    BY DEF Row
  <2>. QED BY <1>1, <2>1 DEF Load, Request, InFlight, tables
<1>2. ASSUME NEW r \in Requests, LoadStatusUpdate(r)
      PROVE  TypeOK'
  BY <1>1, <1>2, InputsAreLegal
     DEF LoadStatusUpdate, Operations, Outcomes, Terms, Users, Staff
<1>3. ASSUME NEW r \in Requests, LoadOverride(r)
      PROVE  TypeOK'
  BY <1>1, <1>3, InputsAreLegal
     DEF LoadOverride, Operations, Users, Statuses
<1>4. ASSUME NEW r \in Requests, LoadEscalation(r)
      PROVE  TypeOK'
  <2>1. PICK u \in Staff, a \in Apps :
           Load(r, "escalate", u, a, "submitted", "decline", "missing")
    BY <1>4 DEF LoadEscalation
  <2>2. "submitted" \in Statuses
    BY DEF Statuses
  <2>3. /\ "escalate" \in Operations
        /\ "decline" \in Outcomes
        /\ "missing" \in Terms
        /\ u \in Users
    BY DEF Operations, Outcomes, Terms, Users, Staff
  <2>. QED BY <1>1, <2>1, <2>2, <2>3
<1>5. ASSUME NEW r \in Requests, Refuse(r) \/ FailingHandler(r)
      PROVE  TypeOK'
  <2>1. PICK op \in Operations, result \in {"refused", "error"} :
           req' = [req EXCEPT ![r] = [NotArrived EXCEPT
                     !.pc = "answered", !.result = result, !.op = op]]
    <3>1. CASE Refuse(r)
      BY <3>1 DEF Refuse
    <3>2. CASE FailingHandler(r)
      <4>1. PICK op \in {"create", "assign", "auto_assign", "run_decision"} :
               req' = [req EXCEPT ![r] = [NotArrived EXCEPT
                         !.pc = "answered", !.result = "error", !.op = op]]
        BY <3>2 DEF FailingHandler
      <4>2. op \in Operations
        BY DEF Operations
      <4>. QED BY <4>1, <4>2
    <3>. QED BY <1>5, <3>1, <3>2
  <2>2. [NotArrived EXCEPT !.pc = "answered", !.result = result, !.op = op]
          \in Request
    BY DEF NotArrived, Request, Operations, Statuses, Outcomes, Terms
  <2>3. [NotArrived EXCEPT !.pc = "answered", !.result = result, !.op = op].pc
          \notin InFlight
    BY DEF NotArrived, InFlight
  <2>4. RequestsTyped'
    BY <1>0, <2>1, <2>2, <2>3 DEF RequestsTyped
  <2>. QED BY <1>5, <2>4 DEF RequestsTyped, Refuse, FailingHandler, tables
<1>6. ASSUME NEW r \in Requests, CommitStatusUpdate(r)
      PROVE  TypeOK'
  <2>1. req[r].app \in Apps
    BY <1>6 DEF CommitStatusUpdate, InFlight
  <2>2. app' \in [Apps -> Row]
    <3> DEFINE a == req[r].app
               new == req[r].to
               row == [Stamped(app[a], new) EXCEPT
                         !.status = Written(r, new, app[a].status)]
    <3>1. /\ app[a] \in Row
          /\ new \in Statuses
      BY <2>1 DEF Request
    <3>2. Stamped(app[a], new) \in Row
      BY <3>1 DEF Row, Stamped
    <3>3. row \in Row
      BY <3>1, <3>2 DEF Row, Written
    <3>4. app' = [app EXCEPT ![a] = row]
      BY <1>6, <2>1 DEF CommitStatusUpdate
    <3>. QED BY <3>3, <3>4
  <2>3. events' \subseteq Event
    BY <1>6, <2>1 DEF CommitStatusUpdate, Event, Request, StatusEvent
  <2>4. req' \in [Requests -> Request]
    BY <1>6 DEF CommitStatusUpdate, Request
  <2>5. /\ req'[r].user = req[r].user
        /\ req'[r].app = req[r].app
    BY <1>6 DEF CommitStatusUpdate, Request
  <2>6. /\ \A q \in Requests \ {r} : req'[q] = req[q]
        /\ req[r].pc \in InFlight
    BY <1>6 DEF CommitStatusUpdate, InFlight
  <2>. QED BY <1>6, <2>2, <2>3, <2>4, <2>5, <2>6 DEF CommitStatusUpdate
<1>7. ASSUME NEW r \in Requests, NotifyApplicant(r) \/ SesUnreachable(r)
      PROVE  TypeOK'
  <2>1. req[r].app \in Apps
    BY <1>7 DEF NotifyApplicant, SesUnreachable, InFlight
  <2>2. MailFor(req[r].to) \in MailKinds
    BY DEF MailFor, MailKinds
  <2>3. sesCalls' \subseteq SesCall
    BY <1>7, <2>1, <2>2 DEF NotifyApplicant, SesUnreachable, SesCall, Mail
  <2>4. CASE NotifyApplicant(r)
    <3>1. PICK mail \in {"sent", "failed"} :
             req' = [req EXCEPT ![r] = [req[r] EXCEPT !.pc = "mailed",
                                                      !.mail = mail]]
      BY <2>4 DEF NotifyApplicant, Request
    <3>2. RequestsTyped'
      BY <1>0, <2>4, <3>1, ProgressTyped DEF NotifyApplicant, InFlight
    <3>. QED BY <2>3, <2>4, <3>2 DEF RequestsTyped, NotifyApplicant, tables
  <2>5. CASE SesUnreachable(r)
    <3>1. RequestsTyped'
      BY <1>0, <2>5, AnswerTyped DEF SesUnreachable
    <3>. QED BY <2>3, <2>5, <3>1 DEF RequestsTyped, SesUnreachable, tables
  <2>. QED BY <1>7, <2>4, <2>5
<1>8. ASSUME NEW r \in Requests, FinishStatusUpdate(r)
      PROVE  TypeOK'
  <2>1. req[r].app \in Apps
    BY <1>8 DEF FinishStatusUpdate, InFlight
  <2>2. auditLog' \subseteq AuditRow
    BY <1>8, <2>1 DEF FinishStatusUpdate, AuditRow, Request, AuditEntry
  <2>3. MailFor(req[r].to) \in MailKinds
    BY DEF MailFor, MailKinds
  <2>4. notifications' \subseteq Notification
    BY <1>8, <2>1, <2>3
       DEF FinishStatusUpdate, Notification, Request, NotificationEntry
  <2>5. RequestsTyped'
    BY <1>0, <1>8, AnswerTyped DEF FinishStatusUpdate
  <2>. QED BY <1>8, <2>2, <2>4, <2>5 DEF RequestsTyped, FinishStatusUpdate
<1>9. ASSUME NEW r \in Requests, CommitOverride(r)
      PROVE  TypeOK'
  <2>1. req[r].app \in Apps
    BY <1>9 DEF CommitOverride, InFlight
  <2>2. app' \in [Apps -> Row]
    <3> DEFINE a == req[r].app
               row == [app[a] EXCEPT
                         !.status = Written(r, StatusFor(req[r].outcome), @)]
    <3>1. app[a] \in Row
      BY <2>1
    <3>2. Written(r, StatusFor(req[r].outcome), app[a].status) \in Statuses
      BY <3>1 DEF Row, Written, StatusFor, Statuses
    <3>3. row \in Row
      BY <3>1, <3>2 DEF Row
    <3>4. app' = [app EXCEPT ![a] = row]
      BY <1>9, <2>1 DEF CommitOverride
    <3>. QED BY <3>3, <3>4
  <2>3. decisions' \subseteq Decision
    BY <1>9, <2>1 DEF CommitOverride, Decision, Request, OverrideDecision
  <2>4. RequestsTyped'
    BY <1>0, <1>9, AnswerTyped DEF CommitOverride
  <2>. QED BY <1>9, <2>2, <2>3, <2>4 DEF RequestsTyped, CommitOverride
<1>10. ASSUME NEW r \in Requests, CommitEscalation(r)
       PROVE  TypeOK'
  <2>1. req[r].app \in Apps
    BY <1>10 DEF CommitEscalation, InFlight
  <2>2. app' \in [Apps -> Row]
    BY <1>10, <2>1 DEF CommitEscalation, Row
  <2>3. events' \subseteq Event
    BY <1>10, <2>1 DEF CommitEscalation, Event, Request, EscalationEvent
  <2>4. RequestsTyped'
    BY <1>0, <1>10, AnswerTyped DEF CommitEscalation
  <2>. QED BY <1>10, <2>2, <2>3, <2>4 DEF RequestsTyped, CommitEscalation
<1>11. ASSUME NEW r \in Requests, PricingRaises(r) \/ Die(r)
       PROVE  TypeOK'
  <2>1. RequestsTyped'
    BY <1>0, <1>11, AnswerTyped DEF PricingRaises, Die
  <2>. QED BY <1>11, <2>1 DEF RequestsTyped, PricingRaises, Die, tables
<1>12. ASSUME UNCHANGED vars
       PROVE  TypeOK'
  BY <1>12 DEF vars
<1>. QED
  BY <1>2, <1>3, <1>4, <1>5, <1>6, <1>7, <1>8, <1>9, <1>10, <1>11, <1>12
     DEF Next, Arrive, Step, Quiet
-----------------------------------------------------------------------------
(***************************************************************************)
(* What the steps of a request leave alone.                                *)
(***************************************************************************)

\* Request r takes a step, every other request stands where it stood.
OthersStand(r) == \A q \in Requests \ {r} : req'[q] = req[q]

\* Request r moves on: it keeps what it was asked and what it read.
KeepsInput(r) ==
  /\ req'[r].op = req[r].op
  /\ req'[r].user = req[r].user
  /\ req'[r].app = req[r].app
  /\ req'[r].to = req[r].to
  /\ req'[r].loaded = req[r].loaded

\* A request that arrives is answered at once, or has loaded the row of an
\* application; no table changes.
LEMMA ArriveFrame ==
  ASSUME TypeOK, NEW r \in Requests, Arrive(r)
  PROVE  /\ UNCHANGED <<tables, sesCalls>>
         /\ OthersStand(r)
         /\ req[r].pc = "idle"
         /\ \/ /\ req'[r].pc = "answered"
               /\ req'[r].result \in {"refused", "error"}
            \/ /\ req'[r].pc = "loaded"
               /\ req'[r].result = "none"
               /\ req'[r].app \in Apps
               /\ req'[r].loaded = app[req'[r].app].status
<1>1. ASSUME NEW op, NEW u, NEW a \in Apps, NEW to, NEW outcome, NEW terms,
             Load(r, op, u, a, to, outcome, terms)
      PROVE  /\ UNCHANGED <<tables, sesCalls>>
             /\ OthersStand(r)
             /\ req[r].pc = "idle"
             /\ req'[r].pc = "loaded"
             /\ req'[r].result = "none"
             /\ req'[r].app \in Apps
             /\ req'[r].loaded = app[req'[r].app].status
  BY <1>1 DEF Load, TypeOK, OthersStand
<1>2. CASE LoadStatusUpdate(r)
  BY <1>1, <1>2 DEF LoadStatusUpdate
<1>3. CASE LoadOverride(r)
  BY <1>1, <1>3 DEF LoadOverride
<1>4. CASE LoadEscalation(r)
  BY <1>1, <1>4 DEF LoadEscalation
<1>5. CASE Refuse(r)
  BY <1>5 DEF Refuse, NotArrived, TypeOK, OthersStand
<1>6. CASE FailingHandler(r)
  BY <1>6 DEF FailingHandler, NotArrived, TypeOK, OthersStand
<1>. QED BY <1>2, <1>3, <1>4, <1>5, <1>6 DEF Arrive

\* Answering a request changes its pc and its result only.
LEMMA AnswerFrame ==
  ASSUME TypeOK, NEW r \in Requests, NEW result, Answer(r, result)
  PROVE  /\ OthersStand(r)
         /\ KeepsInput(r)
         /\ req'[r].pc = "answered"
         /\ req'[r].result = result
BY DEF Answer, TypeOK, Request, OthersStand, KeepsInput

\* The first commit of a status update moves its request to "committed".
LEMMA CommitFrame ==
  ASSUME TypeOK, NEW r \in Requests, CommitStatusUpdate(r)
  PROVE  /\ OthersStand(r)
         /\ KeepsInput(r)
         /\ req'[r].pc = "committed"
         /\ req'[r].result = req[r].result
BY DEF CommitStatusUpdate, TypeOK, Request, OthersStand, KeepsInput

\* An answer of SES moves its request to "mailed".
LEMMA NotifyFrame ==
  ASSUME TypeOK, NEW r \in Requests, NotifyApplicant(r)
  PROVE  /\ OthersStand(r)
         /\ KeepsInput(r)
         /\ req'[r].pc = "mailed"
         /\ req'[r].result = req[r].result
         /\ EmailEnabled =>
              sesCalls' = sesCalls \cup {Mail(r, req'[r].mail)}
         /\ ~EmailEnabled => sesCalls' = sesCalls
BY DEF NotifyApplicant, TypeOK, Request, OthersStand, KeepsInput
-----------------------------------------------------------------------------
(***************************************************************************)
(* Where a handler stands tells what it has done.                          *)
(***************************************************************************)

\* No request has arrived and no row is written at first.
LEMMA InitPhases == Init => HandlerPhases
BY DEF Init, HandlerPhases, PastFirstCommit, PastMail, OkIsFinal,
       EventsAreCommitted, NotArrived, InFlight

\* The events of a request that moves on, or is answered, stay committed.
LEMMA MovePhases ==
  ASSUME TypeOK, HandlerPhases, NEW r \in Requests, OthersStand(r),
         req'[r].pc \in {"committed", "mailed", "answered"}
  PROVE  \A e \in events : req'[e.by].pc \notin {"idle", "loaded"}
BY DEF HandlerPhases, EventsAreCommitted, OthersStand, TypeOK, Event

\* Every step keeps what the phases say.
LEMMA NextPhases == TypeOK /\ HandlerPhases /\ [Next]_vars => HandlerPhases'
<1> SUFFICES ASSUME TypeOK, HandlerPhases, [Next]_vars
             PROVE  HandlerPhases'
  OBVIOUS
<1> USE DEF HandlerPhases
<1>1. ASSUME NEW r \in Requests, Arrive(r)
      PROVE  HandlerPhases'
  <2>1. /\ UNCHANGED <<tables, sesCalls>>
        /\ OthersStand(r)
        /\ req[r].pc = "idle"
        /\ \/ /\ req'[r].pc = "answered"
              /\ req'[r].result \in {"refused", "error"}
           \/ /\ req'[r].pc = "loaded"
              /\ req'[r].result = "none"
              /\ req'[r].app \in Apps
    BY <1>1, ArriveFrame
  <2>2. PastFirstCommit'
    BY <2>1 DEF PastFirstCommit, OthersStand, tables
  <2>3. PastMail'
    BY <2>1 DEF PastMail, OthersStand, tables
  <2>5. OkIsFinal'
    BY <2>1 DEF OkIsFinal, OthersStand
  <2>6. EventsAreCommitted'
    BY <2>1 DEF EventsAreCommitted, OthersStand, TypeOK, Event, tables
  <2>. QED BY <2>2, <2>3, <2>5, <2>6
<1>2. ASSUME NEW r \in Requests, CommitStatusUpdate(r)
      PROVE  HandlerPhases'
  <2>1. /\ OthersStand(r) /\ KeepsInput(r)
        /\ req'[r].pc = "committed"
        /\ req'[r].result = req[r].result
        /\ req[r].pc = "loaded"
    BY <1>2, CommitFrame DEF CommitStatusUpdate
  <2>2. PastFirstCommit'
    <3> DEFINE e == StatusEvent(r)
    <3>1. /\ events' = events \cup {e}
          /\ req[r].op = "update_status"
      BY <1>2 DEF CommitStatusUpdate
    <3>2. ASSUME NEW q \in Requests \ {r},
                 req'[q].pc \in {"committed", "mailed"}
          PROVE  /\ req'[q].op = "update_status"
                 /\ \E x \in events' :
                      /\ x.by = q /\ x.app = req'[q].app /\ x.kind = "status"
                      /\ x.from = req'[q].loaded /\ x.to = req'[q].to
      BY <2>1, <3>1, <3>2 DEF PastFirstCommit, OthersStand
    <3>3. /\ e.by = r /\ e.app = req'[r].app /\ e.kind = "status"
          /\ e.from = req'[r].loaded /\ e.to = req'[r].to
      BY <2>1 DEF KeepsInput, StatusEvent
    <3>4. req'[r].op = "update_status" /\ e \in events'
      BY <2>1, <3>1 DEF KeepsInput
    <3>. HIDE DEF e
    <3>. QED BY <3>2, <3>3, <3>4 DEF PastFirstCommit
  <2>3. PastMail'
    BY <1>2, <2>1 DEF CommitStatusUpdate, PastMail, OthersStand
  <2>4. \A e \in events : req'[e.by].pc \notin {"idle", "loaded"}
    BY <2>1, MovePhases
  <2>5. OkIsFinal'
    BY <2>1 DEF OkIsFinal, OthersStand
  <2>6. EventsAreCommitted'
    BY <1>2, <2>1, <2>4 DEF CommitStatusUpdate, EventsAreCommitted, StatusEvent
  <2>. QED BY <2>2, <2>3, <2>5, <2>6
<1>3. ASSUME NEW r \in Requests, NotifyApplicant(r)
      PROVE  HandlerPhases'
  <2>1. /\ OthersStand(r) /\ KeepsInput(r)
        /\ req'[r].pc = "mailed"
        /\ req'[r].result = req[r].result
        /\ req[r].pc = "committed"
        /\ UNCHANGED tables
    BY <1>3, NotifyFrame DEF NotifyApplicant
  <2>2. PastFirstCommit'
    BY <2>1 DEF PastFirstCommit, OthersStand, KeepsInput, tables
  <2>3. PastMail'
    <3>1. ASSUME NEW q \in Requests \ {r}, EmailEnabled, req'[q].pc = "mailed"
          PROVE  \E c \in sesCalls' : /\ c.by = q
                                      /\ c.event = MailFor(req'[q].to)
                                      /\ c.result = req'[q].mail
      BY <1>3, <2>1, <3>1, NotifyFrame DEF PastMail, OthersStand
    <3>2. ASSUME EmailEnabled
          PROVE  \E c \in sesCalls' : /\ c.by = r
                                      /\ c.event = MailFor(req'[r].to)
                                      /\ c.result = req'[r].mail
      <4> DEFINE c == Mail(r, req'[r].mail)
      <4>1. c \in sesCalls'
        BY <1>3, <3>2, NotifyFrame
      <4>2. /\ c.by = r /\ c.event = MailFor(req'[r].to)
            /\ c.result = req'[r].mail
        BY <2>1 DEF KeepsInput, Mail
      <4>. QED BY <4>1, <4>2
    <3>. QED BY <3>1, <3>2 DEF PastMail
  <2>4. \A e \in events : req'[e.by].pc \notin {"idle", "loaded"}
    BY <2>1, MovePhases
  <2>5. OkIsFinal'
    BY <2>1 DEF OkIsFinal, OthersStand
  <2>6. EventsAreCommitted'
    BY <2>1, <2>4 DEF EventsAreCommitted, tables
  <2>. QED BY <2>2, <2>3, <2>5, <2>6
<1>4. ASSUME NEW r \in Requests, NEW result, Answer(r, result),
             req[r].pc \in InFlight, sesCalls \subseteq sesCalls',
             events \subseteq events',
             \A e \in events' \ events : e.by = r
      PROVE  HandlerPhases'
  <2>1. /\ OthersStand(r) /\ KeepsInput(r)
        /\ req'[r].pc = "answered"
    BY <1>4, AnswerFrame
  <2>2. PastFirstCommit'
    BY <1>4, <2>1 DEF PastFirstCommit, OthersStand
  <2>3. PastMail'
    BY <1>4, <2>1 DEF PastMail, OthersStand
  <2>4. \A e \in events : req'[e.by].pc \notin {"idle", "loaded"}
    BY <2>1, MovePhases
  <2>5. OkIsFinal'
    BY <2>1 DEF OkIsFinal, OthersStand
  <2>6. EventsAreCommitted'
    BY <1>4, <2>1, <2>4 DEF EventsAreCommitted
  <2>. QED BY <2>2, <2>3, <2>5, <2>6
<1>5. ASSUME NEW r \in Requests, SesUnreachable(r) \/ FinishStatusUpdate(r)
      PROVE  HandlerPhases'
  BY <1>4, <1>5 DEF SesUnreachable, FinishStatusUpdate, InFlight, tables
<1>6. ASSUME NEW r \in Requests, CommitOverride(r) \/ CommitEscalation(r)
      PROVE  HandlerPhases'
  BY <1>4, <1>6 DEF CommitOverride, CommitEscalation, InFlight, EscalationEvent
<1>7. ASSUME NEW r \in Requests, PricingRaises(r) \/ Die(r)
      PROVE  HandlerPhases'
  BY <1>4, <1>7 DEF PricingRaises, Die, InFlight, tables
<1>8. CASE UNCHANGED vars
  BY <1>8 DEF vars, PastFirstCommit, PastMail, OkIsFinal, EventsAreCommitted
<1>. QED BY <1>1, <1>2, <1>3, <1>5, <1>6, <1>7, <1>8 DEF Next, Step, Quiet
-----------------------------------------------------------------------------
(***************************************************************************)
(* The properties that speak of tables and mail only.                      *)
(***************************************************************************)

\* The steps that write a table or call SES; every other step leaves both.
LEMMA WritingSteps ==
  ASSUME TypeOK, [Next]_vars
  PROVE  \/ \E r \in Requests : CommitStatusUpdate(r)
         \/ \E r \in Requests : NotifyApplicant(r) \/ SesUnreachable(r)
         \/ \E r \in Requests : FinishStatusUpdate(r)
         \/ \E r \in Requests : CommitOverride(r)
         \/ \E r \in Requests : CommitEscalation(r)
         \/ UNCHANGED <<tables, sesCalls>>
<1>1. ASSUME NEW r \in Requests, Arrive(r)
      PROVE  UNCHANGED <<tables, sesCalls>>
  BY <1>1, ArriveFrame
<1>2. ASSUME NEW r \in Requests, PricingRaises(r) \/ Die(r)
      PROVE  UNCHANGED <<tables, sesCalls>>
  BY <1>2 DEF PricingRaises, Die
<1>3. CASE UNCHANGED vars
  BY <1>3 DEF vars, tables
<1>. QED BY <1>1, <1>2, <1>3 DEF Next, Step, Quiet

\* The trail follows the commit of the change it speaks of.
LEMMA NextTrail ==
  TypeOK /\ HandlerPhases /\ TrailFollowsCommit /\ [Next]_vars
    => TrailFollowsCommit'
<1> SUFFICES ASSUME TypeOK, HandlerPhases, TrailFollowsCommit, [Next]_vars
             PROVE  TrailFollowsCommit'
  OBVIOUS
<1>1. ASSUME NEW r \in Requests, CommitStatusUpdate(r) \/ CommitEscalation(r)
      PROVE  TrailFollowsCommit'
  BY <1>1 DEF CommitStatusUpdate, CommitEscalation, TrailFollowsCommit,
              SameChange
<1>2. ASSUME NEW r \in Requests, NotifyApplicant(r) \/ SesUnreachable(r)
      PROVE  TrailFollowsCommit'
  <2>1. PICK e \in events : /\ e.by = r /\ e.app = req[r].app
                            /\ e.kind = "status"
                            /\ e.to = req[r].to
    BY <1>2 DEF NotifyApplicant, SesUnreachable, HandlerPhases, PastFirstCommit
  <2>2. ASSUME NEW c \in sesCalls', c \notin sesCalls
        PROVE  /\ c.by = r /\ c.app = req[r].app
               /\ c.event = MailFor(req[r].to)
    BY <1>2, <2>2 DEF NotifyApplicant, SesUnreachable, Mail
  <2>3. UNCHANGED <<events, auditLog, notifications>>
    BY <1>2 DEF NotifyApplicant, SesUnreachable, tables
  <2>. QED BY <2>1, <2>2, <2>3 DEF TrailFollowsCommit, SameChange
<1>3. ASSUME NEW r \in Requests, FinishStatusUpdate(r)
      PROVE  TrailFollowsCommit'
  <2>1. PICK e \in events : /\ e.by = r /\ e.app = req[r].app
                            /\ e.kind = "status"
                            /\ e.from = req[r].loaded /\ e.to = req[r].to
    BY <1>3 DEF FinishStatusUpdate, HandlerPhases, PastFirstCommit
  <2>2. ASSUME NEW x \in auditLog', x \notin auditLog
        PROVE  /\ x.by = r /\ x.app = req[r].app
               /\ x.from = req[r].loaded /\ x.to = req[r].to
    BY <1>3, <2>2 DEF FinishStatusUpdate, AuditEntry
  <2>3. ASSUME NEW n \in notifications', n \notin notifications
        PROVE  n.by = r /\ n.app = req[r].app /\ n.event = MailFor(req[r].to)
    BY <1>3, <2>3 DEF FinishStatusUpdate, NotificationEntry
  <2>4. UNCHANGED <<events, sesCalls>>
    BY <1>3 DEF FinishStatusUpdate
  <2>. QED BY <2>1, <2>2, <2>3, <2>4 DEF TrailFollowsCommit, SameChange
<1>4. ASSUME NEW r \in Requests, CommitOverride(r)
      PROVE  TrailFollowsCommit'
  BY <1>4 DEF CommitOverride, TrailFollowsCommit, SameChange
<1>5. CASE UNCHANGED <<tables, sesCalls>>
  BY <1>5 DEF tables, TrailFollowsCommit, SameChange
<1>. QED BY <1>1, <1>2, <1>3, <1>4, <1>5, WritingSteps

\* The second commit of a status update writes both rows.
LEMMA FinishWrites ==
  ASSUME NEW r \in Requests, FinishStatusUpdate(r)
  PROVE  /\ \E x \in auditLog' : x.by = r
         /\ \E n \in notifications' : n.by = r
<1> DEFINE x == AuditEntry(r)
           n == NotificationEntry(r)
<1>1. x \in auditLog' /\ x.by = r
  BY DEF FinishStatusUpdate, AuditEntry
<1>2. n \in notifications' /\ n.by = r
  BY DEF FinishStatusUpdate, NotificationEntry
<1>. QED BY <1>1, <1>2

\* Audit row and notification row come together.
LEMMA NextAtomic ==
  TypeOK /\ SecondTransactionAtomic /\ [Next]_vars => SecondTransactionAtomic'
<1> SUFFICES ASSUME TypeOK, SecondTransactionAtomic, [Next]_vars
             PROVE  SecondTransactionAtomic'
  OBVIOUS
<1>1. ASSUME NEW r \in Requests, FinishStatusUpdate(r)
      PROVE  SecondTransactionAtomic'
  <2>1. ASSUME NEW q \in Requests \ {r}
        PROVE  /\ (\E x \in auditLog' : x.by = q)
                    <=> (\E x \in auditLog : x.by = q)
               /\ (\E n \in notifications' : n.by = q)
                    <=> (\E n \in notifications : n.by = q)
    BY <1>1 DEF FinishStatusUpdate, AuditEntry, NotificationEntry
  <2>2. /\ \E x \in auditLog' : x.by = r
        /\ \E n \in notifications' : n.by = r
    BY <1>1, FinishWrites
  <2>. QED BY <2>1, <2>2 DEF SecondTransactionAtomic
<1>2. CASE UNCHANGED <<auditLog, notifications>>
  BY <1>2 DEF SecondTransactionAtomic
<1>. QED
  BY <1>1, <1>2, WritingSteps
     DEF CommitStatusUpdate, NotifyApplicant, SesUnreachable, CommitOverride,
         CommitEscalation, tables

\* What the notification log says of a mail is what SES said.
LEMMA NextMailLog ==
  TypeOK /\ HandlerPhases /\ LogTellsTheMail /\ [Next]_vars => LogTellsTheMail'
<1> SUFFICES ASSUME TypeOK, HandlerPhases, LogTellsTheMail, [Next]_vars,
                    EmailEnabled
             PROVE  LogTellsTheMail'
  BY DEF LogTellsTheMail
<1>1. ASSUME NEW r \in Requests, FinishStatusUpdate(r)
      PROVE  LogTellsTheMail'
  <2>1. PICK c \in sesCalls : /\ c.by = r /\ c.event = MailFor(req[r].to)
                              /\ c.result = req[r].mail
    BY <1>1 DEF FinishStatusUpdate, HandlerPhases, PastMail
  <2>2. ASSUME NEW n \in notifications', n \notin notifications
        PROVE  /\ n.by = r /\ n.event = MailFor(req[r].to)
               /\ n.status = req[r].mail
    BY <1>1, <2>2 DEF FinishStatusUpdate, NotificationEntry
  <2>3. sesCalls' = sesCalls
    BY <1>1 DEF FinishStatusUpdate
  <2>. QED BY <2>1, <2>2, <2>3 DEF LogTellsTheMail
<1>2. CASE notifications' = notifications /\ sesCalls \subseteq sesCalls'
  BY <1>2 DEF LogTellsTheMail
<1>. QED
  BY <1>1, <1>2, WritingSteps
     DEF CommitStatusUpdate, NotifyApplicant, SesUnreachable, CommitOverride,
         CommitEscalation, tables

\* An approval mail goes out on terms a decision states.
LEMMA NextApproval ==
  TypeOK /\ ApprovalHasTerms /\ [Next]_vars => ApprovalHasTerms'
<1> SUFFICES ASSUME TypeOK, ApprovalHasTerms, [Next]_vars
             PROVE  ApprovalHasTerms'
  OBVIOUS
<1>1. ASSUME NEW r \in Requests, NotifyApplicant(r) \/ SesUnreachable(r)
      PROVE  ApprovalHasTerms'
  <2>1. req[r].to = "approved" =>
          \E d \in decisions : d.app = req[r].app /\ d.terms = "below_1000"
    BY <1>1 DEF NotifyApplicant, SesUnreachable, NotificationRaises,
                CanPriceApproval
  <2>2. ASSUME NEW c \in sesCalls', c \notin sesCalls, c.event = "approved"
        PROVE  c.app = req[r].app /\ req[r].to = "approved"
    BY <1>1, <2>2 DEF NotifyApplicant, SesUnreachable, MailFor, Mail
  <2>3. decisions' = decisions
    BY <1>1 DEF NotifyApplicant, SesUnreachable, tables
  <2>. QED BY <2>1, <2>2, <2>3 DEF ApprovalHasTerms
<1>2. CASE sesCalls' = sesCalls /\ decisions \subseteq decisions'
  BY <1>2 DEF ApprovalHasTerms
<1>. QED
  BY <1>1, <1>2, WritingSteps
     DEF CommitStatusUpdate, FinishStatusUpdate, CommitOverride,
         CommitEscalation, tables

\* A stamp is set by the events that set it, and by nothing else.
LEMMA NextStamps ==
  TypeOK /\ StampsMatchHistory /\ [Next]_vars => StampsMatchHistory'
<1> SUFFICES ASSUME TypeOK, StampsMatchHistory, [Next]_vars, NEW b \in Apps
             PROVE  /\ app'[b].completed <=> HasStatusEvent(b, Closing)'
                    /\ app'[b].reviewed <=> HasStatusEvent(b, {"under_review"})'
                    /\ app'[b].escalated <=>
                         \E e \in events' : e.app = b /\ e.kind = "escalation"
  BY DEF StampsMatchHistory
<1>0. /\ app[b].completed <=> HasStatusEvent(b, Closing)
      /\ app[b].reviewed <=> HasStatusEvent(b, {"under_review"})
      /\ app[b].escalated <=>
           \E e \in events : e.app = b /\ e.kind = "escalation"
  BY DEF StampsMatchHistory
<1>1. ASSUME NEW r \in Requests, CommitStatusUpdate(r)
      PROVE  /\ app'[b].completed <=> HasStatusEvent(b, Closing)'
             /\ app'[b].reviewed <=> HasStatusEvent(b, {"under_review"})'
             /\ app'[b].escalated <=>
                  \E e \in events' : e.app = b /\ e.kind = "escalation"
  <2> DEFINE new == StatusEvent(r)
  <2>1. events' = events \cup {new}
    BY <1>1 DEF CommitStatusUpdate
  <2>2. new.app = req[r].app /\ new.kind = "status" /\ new.to = req[r].to
    BY DEF StatusEvent
  <2>3. /\ app'[b].escalated = app[b].escalated
        /\ b # req[r].app => app'[b] = app[b]
        /\ b = req[r].app =>
             /\ app'[b].completed = IF req[r].to \in Closing THEN TRUE
                                    ELSE app[b].completed
             /\ app'[b].reviewed = IF req[r].to = "under_review" THEN TRUE
                                   ELSE app[b].reviewed
    BY <1>1 DEF CommitStatusUpdate, TypeOK, Row, Stamped
  <2> HIDE DEF new
  <2>a. \A targets : HasStatusEvent(b, targets)' <=>
          \/ HasStatusEvent(b, targets)
          \/ req[r].app = b /\ req[r].to \in targets
    BY <2>1, <2>2 DEF HasStatusEvent
  <2>4. app'[b].completed <=> HasStatusEvent(b, Closing)'
    BY <1>0, <2>3, <2>a
  <2>5. app'[b].reviewed <=> HasStatusEvent(b, {"under_review"})'
    BY <1>0, <2>3, <2>a
  <2>6. app'[b].escalated <=>
          \E e \in events' : e.app = b /\ e.kind = "escalation"
    BY <1>0, <2>1, <2>2, <2>3
  <2>. QED BY <2>4, <2>5, <2>6
<1>2. ASSUME NEW r \in Requests, CommitEscalation(r)
      PROVE  /\ app'[b].completed <=> HasStatusEvent(b, Closing)'
             /\ app'[b].reviewed <=> HasStatusEvent(b, {"under_review"})'
             /\ app'[b].escalated <=>
                  \E e \in events' : e.app = b /\ e.kind = "escalation"
  <2> DEFINE new == EscalationEvent(r)
  <2>1. events' = events \cup {new}
    BY <1>2 DEF CommitEscalation
  <2>2. new.app = req[r].app /\ new.kind = "escalation"
    BY DEF EscalationEvent
  <2>3. /\ app'[b].completed = app[b].completed
        /\ app'[b].reviewed = app[b].reviewed
        /\ b # req[r].app => app'[b] = app[b]
        /\ b = req[r].app => app'[b].escalated = TRUE
    BY <1>2 DEF CommitEscalation, TypeOK, Row
  <2> HIDE DEF new
  <2>4. app'[b].completed <=> HasStatusEvent(b, Closing)'
    BY <1>0, <2>1, <2>2, <2>3 DEF HasStatusEvent
  <2>5. app'[b].reviewed <=> HasStatusEvent(b, {"under_review"})'
    BY <1>0, <2>1, <2>2, <2>3 DEF HasStatusEvent
  <2>6. app'[b].escalated <=>
          \E e \in events' : e.app = b /\ e.kind = "escalation"
    BY <1>0, <2>1, <2>2, <2>3
  <2>. QED BY <2>4, <2>5, <2>6
<1>3. ASSUME NEW r \in Requests, CommitOverride(r)
      PROVE  /\ events' = events
             /\ app'[b].completed = app[b].completed
             /\ app'[b].reviewed = app[b].reviewed
             /\ app'[b].escalated = app[b].escalated
  BY <1>3 DEF CommitOverride, TypeOK, Row
<1>4. CASE events' = events /\ app' = app
  BY <1>0, <1>4 DEF HasStatusEvent
<1>. QED
  <2>1. CASE \E r \in Requests : CommitOverride(r)
    BY <1>0, <1>3, <2>1 DEF HasStatusEvent
  <2>. QED BY <1>1, <1>2, <1>4, <2>1, WritingSteps
           DEF NotifyApplicant, SesUnreachable, FinishStatusUpdate, tables
-----------------------------------------------------------------------------
(***************************************************************************)
(* The properties that relate requests to tables.                          *)
(***************************************************************************)

\* How a step changes the requests, whatever else it does.
LEMMA RequestSteps ==
  ASSUME TypeOK, [Next]_vars
  PROVE  \/ req' = req
         \/ \E r \in Requests : Arrive(r)
         \/ \E r \in Requests : /\ OthersStand(r) /\ KeepsInput(r)
                                /\ req[r].pc \in InFlight
<1>1. ASSUME NEW r \in Requests, Step(r) \/ Die(r)
      PROVE  OthersStand(r) /\ KeepsInput(r) /\ req[r].pc \in InFlight
  <2>1. CASE CommitStatusUpdate(r)
    BY <2>1, CommitFrame DEF CommitStatusUpdate, InFlight
  <2>2. CASE NotifyApplicant(r)
    BY <2>2, NotifyFrame DEF NotifyApplicant, InFlight
  <2>3. CASE PricingRaises(r) \/ SesUnreachable(r) \/ FinishStatusUpdate(r)
    BY <2>3, AnswerFrame
       DEF PricingRaises, SesUnreachable, FinishStatusUpdate, InFlight
  <2>4. CASE CommitOverride(r) \/ CommitEscalation(r) \/ Die(r)
    BY <2>4, AnswerFrame DEF CommitOverride, CommitEscalation, Die, InFlight
  <2>. QED BY <1>1, <2>1, <2>2, <2>3, <2>4 DEF Step
<1>2. CASE UNCHANGED vars
  BY <1>2 DEF vars
<1>. QED BY <1>1, <1>2 DEF Next, Quiet

\* Rows of the history are never taken back.
LEMMA HistoryGrows ==
  ASSUME TypeOK, [Next]_vars
  PROVE  events \subseteq events' /\ decisions \subseteq decisions'
BY WritingSteps
   DEF CommitStatusUpdate, NotifyApplicant, SesUnreachable, FinishStatusUpdate,
       CommitOverride, CommitEscalation, tables

\* What is explained stays explained.
LEMMA ExplainedStays ==
  ASSUME TypeOK, [Next]_vars, NEW a, NEW s, Explained(events, decisions, a, s)
  PROVE  Explained(events', decisions', a, s)
BY HistoryGrows DEF Explained

\* Both kinds of handler that write a status record what explains it.
LEMMA NewStatusExplained ==
  ASSUME TypeOK, [Next]_vars, NEW b \in Apps, app'[b].status # app[b].status
  PROVE  Explained(events', decisions', b, app'[b].status)
<1>1. ASSUME NEW r \in Requests, CommitStatusUpdate(r)
      PROVE  Explained(events', decisions', b, app'[b].status)
  <2> DEFINE e == StatusEvent(r)
  <2>1. /\ e \in events' /\ e.app = req[r].app
        /\ e.kind = "status" /\ e.to = req[r].to
    BY <1>1 DEF CommitStatusUpdate, StatusEvent
  <2>2. b = req[r].app /\ app'[b].status = req[r].to
    BY <1>1 DEF CommitStatusUpdate, Written, TypeOK, Row, Stamped
  <2> HIDE DEF e
  <2>. QED BY <2>1, <2>2 DEF Explained
<1>2. ASSUME NEW r \in Requests, CommitOverride(r)
      PROVE  Explained(events', decisions', b, app'[b].status)
  <2> DEFINE d == OverrideDecision(r)
  <2>1. d \in decisions' /\ d.app = req[r].app /\ d.outcome = req[r].outcome
    BY <1>2 DEF CommitOverride, OverrideDecision
  <2>2. b = req[r].app /\ app'[b].status = StatusFor(req[r].outcome)
    BY <1>2 DEF CommitOverride, Written, TypeOK, Row
  <2> HIDE DEF d
  <2>. QED BY <1>2, <2>1, <2>2 DEF Explained
<1>3. ASSUME NEW r \in Requests, CommitEscalation(r)
      PROVE  FALSE
  BY <1>3 DEF CommitEscalation, TypeOK, Row
<1>4. ASSUME NEW r \in Requests, NotifyApplicant(r) \/ SesUnreachable(r)
                                  \/ FinishStatusUpdate(r)
      PROVE  FALSE
  BY <1>4 DEF NotifyApplicant, SesUnreachable, FinishStatusUpdate, tables
<1>5. CASE UNCHANGED <<tables, sesCalls>>
  BY <1>5 DEF tables
<1>. QED BY <1>1, <1>2, <1>3, <1>4, <1>5, WritingSteps

\* A history row starts from what its handler had loaded.
LEMMA NewEventFrom ==
  ASSUME TypeOK, [Next]_vars, NEW e \in events', e \notin events
  PROVE  \E r \in Requests : /\ req[r].pc \in InFlight
                             /\ e.by = r /\ e.app = req[r].app
                             /\ e.from = req[r].loaded
                             /\ e.kind = "status" => req[r].op = "update_status"
<1>1. ASSUME NEW r \in Requests, CommitStatusUpdate(r) \/ CommitEscalation(r)
      PROVE  /\ req[r].pc \in InFlight
             /\ e.by = r /\ e.app = req[r].app /\ e.from = req[r].loaded
             /\ e.kind = "status" => req[r].op = "update_status"
  BY <1>1 DEF CommitStatusUpdate, CommitEscalation, InFlight,
              StatusEvent, EscalationEvent
<1>. QED
  BY <1>1, WritingSteps
     DEF NotifyApplicant, SesUnreachable, FinishStatusUpdate, CommitOverride,
         tables

\* Every status in a row, in a handler and in the history is explained.
LEMMA NextExplained ==
  TypeOK /\ StatusExplained /\ [Next]_vars => StatusExplained'
<1> SUFFICES ASSUME TypeOK, StatusExplained, [Next]_vars
             PROVE  StatusExplained'
  OBVIOUS
<1>1. ASSUME NEW b \in Apps
      PROVE  Explained(events', decisions', b, app'[b].status)
  <2>1. CASE app'[b].status = app[b].status
    BY <2>1, ExplainedStays DEF StatusExplained
  <2>2. CASE app'[b].status # app[b].status
    BY <2>2, NewStatusExplained
  <2>. QED BY <2>1, <2>2
<1>2. ASSUME NEW q \in Requests, req'[q].pc \in InFlight
      PROVE  Explained(events', decisions', req'[q].app, req'[q].loaded)
  <2>1. CASE /\ req[q].pc \in InFlight
             /\ req'[q].app = req[q].app
             /\ req'[q].loaded = req[q].loaded
    BY <2>1, ExplainedStays DEF StatusExplained
  <2>2. CASE Arrive(q)
    <3>1. /\ req'[q].app \in Apps
          /\ req'[q].loaded = app[req'[q].app].status
      BY <1>2, <2>2, ArriveFrame DEF InFlight
    <3>. QED BY <3>1, ExplainedStays DEF StatusExplained
  <2>3. ASSUME NEW r \in Requests, Arrive(r)
        PROVE  OthersStand(r)
    BY <2>3, ArriveFrame
  <2>. QED BY <1>2, <2>1, <2>2, <2>3, RequestSteps DEF OthersStand, KeepsInput
<1>3. ASSUME NEW e \in events'
      PROVE  Explained(events', decisions', e.app, e.from)
  <2>1. CASE e \in events
    BY <2>1, ExplainedStays DEF StatusExplained
  <2>2. CASE e \notin events
    BY <2>2, NewEventFrom, ExplainedStays DEF StatusExplained
  <2>. QED BY <2>1, <2>2
<1>. QED BY <1>1, <1>2, <1>3 DEF StatusExplained

\* Rows of the trail are never taken back.
LEMMA TrailGrows ==
  ASSUME TypeOK, [Next]_vars
  PROVE  auditLog \subseteq auditLog' /\ notifications \subseteq notifications'
BY WritingSteps
   DEF CommitStatusUpdate, NotifyApplicant, SesUnreachable, FinishStatusUpdate,
       CommitOverride, CommitEscalation, tables

\* Only the last step of a handler answers "ok".
LEMMA NewSuccess ==
  ASSUME TypeOK, [Next]_vars, NEW r \in Requests,
         req[r].result # "ok", req'[r].result = "ok"
  PROVE  FinishStatusUpdate(r) \/ CommitOverride(r) \/ CommitEscalation(r)
<1>1. ASSUME NEW q \in Requests, Arrive(q)
      PROVE  FALSE
  BY <1>1, ArriveFrame DEF OthersStand
<1>2. ASSUME NEW q \in Requests, CommitStatusUpdate(q) \/ NotifyApplicant(q)
      PROVE  FALSE
  BY <1>2, CommitFrame, NotifyFrame DEF OthersStand
<1>3. ASSUME NEW q \in Requests, PricingRaises(q) \/ SesUnreachable(q) \/ Die(q)
      PROVE  FALSE
  BY <1>3, AnswerFrame DEF PricingRaises, SesUnreachable, Die, OthersStand
<1>4. ASSUME NEW q \in Requests,
             FinishStatusUpdate(q) \/ CommitOverride(q) \/ CommitEscalation(q)
      PROVE  q = r
  BY <1>4, AnswerFrame
     DEF FinishStatusUpdate, CommitOverride, CommitEscalation, OthersStand
<1>5. CASE UNCHANGED vars
  BY <1>5 DEF vars
<1>. QED BY <1>1, <1>2, <1>3, <1>4, <1>5 DEF Next, Step, Quiet

\* A request answered "ok" stays recorded, and a new answer "ok" is recorded.
LEMMA NextSuccess ==
  TypeOK /\ HandlerPhases /\ SuccessIsRecorded /\ [Next]_vars
    => SuccessIsRecorded'
<1> SUFFICES ASSUME TypeOK, HandlerPhases, SuccessIsRecorded, [Next]_vars,
                    NEW r \in Requests, req'[r].result = "ok"
             PROVE  /\ req'[r].op = "update_status" =>
                         /\ \E e \in events' : e.by = r /\ e.to = req'[r].to
                         /\ \E x \in auditLog' : x.by = r
                         /\ \E n \in notifications' : n.by = r
                    /\ req'[r].op = "override" => \E d \in decisions' : d.by = r
                    /\ req'[r].op = "escalate" =>
                         \E e \in events' : e.by = r /\ e.kind = "escalation"
  BY DEF SuccessIsRecorded
<1>1. CASE req[r].result = "ok"
  <2>1. req'[r].op = req[r].op /\ req'[r].to = req[r].to
    <3>1. req[r].pc = "answered"
      BY <1>1 DEF HandlerPhases, OkIsFinal
    <3>2. ASSUME NEW q \in Requests, Arrive(q)
          PROVE  req'[r] = req[r]
      BY <3>1, <3>2, ArriveFrame DEF OthersStand
    <3>. QED BY <3>1, <3>2, RequestSteps DEF OthersStand, KeepsInput
  <2>. QED BY <1>1, <2>1, HistoryGrows, TrailGrows DEF SuccessIsRecorded
<1>2. CASE req[r].result # "ok"
  <2>1. CASE FinishStatusUpdate(r)
    <3>1. /\ req[r].op = "update_status"
          /\ \E e \in events : e.by = r /\ e.to = req[r].to
      BY <2>1 DEF FinishStatusUpdate, HandlerPhases, PastFirstCommit
    <3>2. req'[r].op = req[r].op /\ req'[r].to = req[r].to
      BY <2>1, AnswerFrame DEF FinishStatusUpdate, KeepsInput
    <3>3. \E x \in auditLog' : x.by = r
      BY <2>1, FinishWrites
    <3>4. \E n \in notifications' : n.by = r
      BY <2>1, FinishWrites
    <3>. QED BY <3>1, <3>2, <3>3, <3>4, HistoryGrows
  <2>2. CASE CommitOverride(r)
    <3> DEFINE d == OverrideDecision(r)
    <3>1. d \in decisions' /\ d.by = r
      BY <2>2 DEF CommitOverride, OverrideDecision
    <3>2. req'[r].op = "override"
      BY <2>2, AnswerFrame DEF CommitOverride, KeepsInput
    <3>. QED BY <3>1, <3>2
  <2>3. CASE CommitEscalation(r)
    <3> DEFINE e == EscalationEvent(r)
    <3>1. e \in events' /\ e.by = r /\ e.kind = "escalation"
      BY <2>3 DEF CommitEscalation, EscalationEvent
    <3>2. req'[r].op = "escalate"
      BY <2>3, AnswerFrame DEF CommitEscalation, KeepsInput
    <3>. QED BY <3>1, <3>2
  <2>. QED BY <1>2, <2>1, <2>2, <2>3, NewSuccess
<1>. QED BY <1>1, <1>2
-----------------------------------------------------------------------------
(***************************************************************************)
(* The theorems.                                                           *)
(***************************************************************************)

\* The inductive invariant: types, what each handler has done so far, and the
\* properties themselves, none of which is inductive without the first two.
IInv == /\ TypeOK
        /\ HandlerPhases
        /\ StatusExplained
        /\ StampsMatchHistory
        /\ TrailFollowsCommit
        /\ SecondTransactionAtomic
        /\ LogTellsTheMail
        /\ SuccessIsRecorded
        /\ ApprovalHasTerms

\* The invariant holds at first.
LEMMA InitIInv == Init => IInv
<1> SUFFICES ASSUME Init
             PROVE  IInv
  OBVIOUS
<1>1. StatusExplained
  BY DEF Init, StatusExplained, Explained, NotArrived, InFlight
<1>2. StampsMatchHistory
  BY DEF Init, StampsMatchHistory, HasStatusEvent
<1>3. /\ TrailFollowsCommit
      /\ SecondTransactionAtomic
      /\ LogTellsTheMail
      /\ ApprovalHasTerms
  BY DEF Init, TrailFollowsCommit, SecondTransactionAtomic, LogTellsTheMail,
         ApprovalHasTerms
<1>4. SuccessIsRecorded
  BY DEF Init, SuccessIsRecorded, NotArrived
<1>. QED BY <1>1, <1>2, <1>3, <1>4, InitTypeOK, InitPhases DEF IInv

\* Every step keeps the invariant.
LEMMA NextIInv == IInv /\ [Next]_vars => IInv'
BY NextTypeOK, NextPhases, NextExplained, NextStamps, NextTrail, NextAtomic,
   NextMailLog, NextSuccess, NextApproval
   DEF IInv

\* The invariant holds in every reachable state.
THEOREM Invariance == Spec => []IInv
BY InitIInv, NextIInv, PTL DEF Spec

\* TypeOK holds in every reachable state.
THEOREM TypeCorrect == Spec => []TypeOK
BY Invariance, PTL DEF IInv

\* Every status in use was put there by a committed record.
THEOREM StatusProvenance == Spec => []StatusExplained
BY Invariance, PTL DEF IInv

\* Stamps and history agree.
THEOREM StampsCorrect == Spec => []StampsMatchHistory
BY Invariance, PTL DEF IInv

\* No audit row, notification or mail about a change that was not committed.
THEOREM TrailCorrect == Spec => []TrailFollowsCommit
BY Invariance, PTL DEF IInv

\* Audit row and notification row are committed together.
THEOREM TrailAtomic == Spec => []SecondTransactionAtomic
BY Invariance, PTL DEF IInv

\* The notification log tells what SES said.
THEOREM MailLogCorrect == Spec => []LogTellsTheMail
BY Invariance, PTL DEF IInv

\* A request answered without an error has left its records.
THEOREM SuccessRecorded == Spec => []SuccessIsRecorded
BY Invariance, PTL DEF IInv

\* Approval mails state the terms of a decision.
THEOREM ApprovalPriced == Spec => []ApprovalHasTerms
BY Invariance, PTL DEF IInv
-----------------------------------------------------------------------------
(***************************************************************************)
(* Refinement of StatusHistory. That a request records once needs one more *)
(* invariant: who has a decision on record has been answered.              *)
(***************************************************************************)
DecisionsAreCommitted ==
  \A d \in decisions : req[d.by].pc = "answered"

\* Nobody who was answered takes another step, and an override is answered in
\* the step that records it.
LEMMA NextDecisionsCommitted ==
  TypeOK /\ DecisionsAreCommitted /\ [Next]_vars => DecisionsAreCommitted'
<1> SUFFICES ASSUME TypeOK, DecisionsAreCommitted, [Next]_vars,
                    NEW d \in decisions'
             PROVE  req'[d.by].pc = "answered"
  BY DEF DecisionsAreCommitted
<1>1. CASE d \in decisions
  <2>1. d.by \in Requests /\ req[d.by].pc = "answered"
    BY <1>1 DEF DecisionsAreCommitted, TypeOK, Decision
  <2>2. ASSUME NEW r \in Requests, Arrive(r)
        PROVE  req'[d.by] = req[d.by]
    BY <2>1, <2>2, ArriveFrame DEF OthersStand
  <2>3. ASSUME NEW r \in Requests, OthersStand(r), req[r].pc \in InFlight
        PROVE  req'[d.by] = req[d.by]
    BY <2>1, <2>3 DEF OthersStand, InFlight
  <2>. QED BY <2>1, <2>2, <2>3, RequestSteps
<1>2. CASE d \notin decisions
  <2>1. PICK r \in Requests : CommitOverride(r)
    BY <1>2, WritingSteps
       DEF CommitStatusUpdate, NotifyApplicant, SesUnreachable,
           FinishStatusUpdate, CommitEscalation, tables
  <2>2. d.by = r
    BY <1>2, <2>1 DEF CommitOverride, OverrideDecision
  <2>. QED BY <2>1, <2>2, AnswerFrame DEF CommitOverride
<1>. QED BY <1>1, <1>2

\* A request about to commit has not recorded anything yet.
LEMMA RecordsFresh ==
  ASSUME TypeOK, HandlerPhases, DecisionsAreCommitted,
         NEW r \in Requests, req[r].pc = "loaded",
         NEW h \in StatusRecords(events, decisions)
  PROVE  h.by /= r
<1>1. \A e \in events : e.by /= r
  BY DEF HandlerPhases, EventsAreCommitted
<1>2. \A d \in decisions : d.by /= r
  BY DEF DecisionsAreCommitted
<1>. QED BY <1>1, <1>2 DEF StatusRecords

\* The first commit of a status update is one record.
LEMMA UpdateRecords ==
  ASSUME TypeOK, HandlerPhases, DecisionsAreCommitted,
         NEW r \in Requests, CommitStatusUpdate(r)
  PROVE  H!Next
<1> DEFINE a == req[r].app
           e == StatusEvent(r)
<1>1. a \in Apps /\ req[r].to \in Statuses /\ req[r].pc = "loaded"
  BY DEF CommitStatusUpdate, TypeOK, Request, InFlight
<1>2. StatusRecords(events, decisions)'
        = StatusRecords(events, decisions)
            \cup {[by |-> r, app |-> a, to |-> req[r].to]}
  <2>1. events' = events \cup {e} /\ decisions' = decisions
    BY DEF CommitStatusUpdate
  <2>2. e.by = r /\ e.app = a /\ e.kind = "status" /\ e.to = req[r].to
    BY DEF StatusEvent
  <2> HIDE DEF e
  <2>3. {x \in events' : x.kind = "status"}
          = {x \in events : x.kind = "status"} \cup {e}
    BY <2>1, <2>2
  <2>. QED BY <2>1, <2>2, <2>3 DEF StatusRecords
<1>3. [b \in Apps |-> app'[b].status] = [b \in Apps |-> app[b].status]
      \/ [b \in Apps |-> app'[b].status]
           = [[b \in Apps |-> app[b].status] EXCEPT ![a] = req[r].to]
  <2>1. \A b \in Apps \ {a} : app'[b].status = app[b].status
    BY DEF CommitStatusUpdate, TypeOK
  <2>2. app'[a].status \in {app[a].status, req[r].to}
    BY <1>1 DEF CommitStatusUpdate, TypeOK, Row, Stamped, Written
  <2>. QED BY <1>1, <2>1, <2>2
<1>4. H!Record(r, a, req[r].to)
  BY <1>1, <1>2, <1>3, RecordsFresh DEF H!Record
<1>. QED BY <1>1, <1>4 DEF H!Next, H!Record

\* So is the commit of an override.
LEMMA OverrideRecords ==
  ASSUME TypeOK, HandlerPhases, DecisionsAreCommitted,
         NEW r \in Requests, CommitOverride(r)
  PROVE  H!Next
<1> DEFINE a == req[r].app
           s == StatusFor(req[r].outcome)
           d == OverrideDecision(r)
<1>1. a \in Apps /\ s \in Statuses /\ req[r].pc = "loaded"
  BY DEF CommitOverride, TypeOK, Request, InFlight, StatusFor, Statuses
<1>2. StatusRecords(events, decisions)'
        = StatusRecords(events, decisions)
            \cup {[by |-> r, app |-> a, to |-> s]}
  <2>1. decisions' = decisions \cup {d} /\ events' = events
    BY DEF CommitOverride
  <2>2. d.by = r /\ d.app = a /\ StatusFor(d.outcome) = s
    BY DEF OverrideDecision
  <2> HIDE DEF d, s
  <2>. QED BY <2>1, <2>2 DEF StatusRecords
<1>3. [b \in Apps |-> app'[b].status] = [b \in Apps |-> app[b].status]
      \/ [b \in Apps |-> app'[b].status]
           = [[b \in Apps |-> app[b].status] EXCEPT ![a] = s]
  <2>1. \A b \in Apps \ {a} : app'[b].status = app[b].status
    BY DEF CommitOverride, TypeOK
  <2>2. app'[a].status \in {app[a].status, s}
    BY <1>1 DEF CommitOverride, TypeOK, Row, Written
  <2>. QED BY <1>1, <2>1, <2>2
<1> HIDE DEF s
<1>4. H!Record(r, a, s)
  BY <1>1, <1>2, <1>3, RecordsFresh DEF H!Record
<1>. QED BY <1>1, <1>4 DEF H!Next, H!Record

\* An escalation leaves status and records as they are.
LEMMA EscalationStutters ==
  ASSUME TypeOK, NEW r \in Requests, CommitEscalation(r)
  PROVE  UNCHANGED H!vars
<1> DEFINE e == EscalationEvent(r)
<1>1. /\ events' = events \cup {e}
      /\ e.kind = "escalation"
      /\ decisions' = decisions
  BY DEF CommitEscalation, EscalationEvent
<1> HIDE DEF e
<1>2. {x \in events' : x.kind = "status"} = {x \in events : x.kind = "status"}
  BY <1>1
<1>3. \A b \in Apps : app'[b].status = app[b].status
  BY DEF CommitEscalation, TypeOK, Row
<1>. QED BY <1>1, <1>2, <1>3 DEF H!vars, StatusRecords

\* The tables start as the specification says.
LEMMA RefinesInit == Init => H!Init
BY DEF Init, Row, H!Init, StatusRecords

\* Every step of a handler is a record or leaves status and records alone.
LEMMA RefinesNext ==
  TypeOK /\ HandlerPhases /\ DecisionsAreCommitted /\ [Next]_vars
    => [H!Next]_(H!vars)
<1> SUFFICES ASSUME TypeOK, HandlerPhases, DecisionsAreCommitted, [Next]_vars
             PROVE  H!Next \/ UNCHANGED H!vars
  OBVIOUS
<1>1. CASE UNCHANGED <<app, events, decisions>>
  BY <1>1 DEF H!vars, StatusRecords
<1>. QED
  BY <1>1, WritingSteps, UpdateRecords, OverrideRecords, EscalationStutters
     DEF NotifyApplicant, SesUnreachable, FinishStatusUpdate, tables

\* The handlers implement the abstract history of statuses.
THEOREM HistoryRefined == Spec => HistoryImplemented
<1>1. Init => DecisionsAreCommitted
  BY DEF Init, DecisionsAreCommitted
<1>2. TypeOK /\ HandlerPhases /\ DecisionsAreCommitted /\ [Next]_vars
        => DecisionsAreCommitted'
  BY NextDecisionsCommitted
<1>3. IInv => TypeOK /\ HandlerPhases
  BY DEF IInv
<1>. QED BY <1>1, <1>2, <1>3, Invariance, RefinesInit, RefinesNext, PTL
            DEF Spec, HistoryImplemented, H!Spec
=============================================================================
