-------------------------- MODULE CreditCheckProofs --------------------------
(***************************************************************************)
(* Safety of the credit check for any set of applications, users, requests *)
(* and callbacks. IInv is the inductive invariant; its first conjuncts     *)
(* relate what handlers and tasks at work have read to what the tables     *)
(* hold by now.                                                            *)
(***************************************************************************)
EXTENDS CreditCheckProps, TLAPS

\* Consent c covers a check of application a
Covers(c, a) == c.app = a /\ c.user = Applicant[c.app]
                /\ c.purpose = "credit_check"

\* The consent a check has read is still on record.
ChecksHaveConsent ==
  \A r \in Requests : req[r].pc = "loaded" /\ req[r].op = "check" =>
    \E c \in consents : c.by = req[r].consent /\ Covers(c, req[r].app)

\* A request has no snapshot before it commits one.
RowsAreFresh ==
  \A r \in Requests : req[r].pc \in {"idle", "loaded"} => ~Opened(r)

\* What is left to audit is on record.
GrantsCommitted ==
  \A r \in Requests : req[r].pc = "committed" => \E c \in consents : c.by = r

\* A task at work has a snapshot that exists; a report it has read or written
\* is still there.
TasksKnow ==
  \A w \in Hooks : hook[w].pc \in AtWork =>
    /\ hook[w].ref \in Requests
    /\ Opened(hook[w].ref)
    /\ hook[w].loaded.status = "success" \/ hook[w].pc # "running"
       => snapshots[hook[w].ref].status = "success"

\* A task has read the row as it still is, unless another callback is about it.
RowsReadAreCurrent ==
  \A w \in Hooks :
    hook[w].pc = "running" /\ About(hook[w].ref) = {w} =>
      hook[w].loaded = snapshots[hook[w].ref]

\* A callback without a field for the score brings none.
ScoresHaveAField == \A w \in Hooks : hook[w].score # Null => hook[w].scored

\* Decisions are asked for on behalf of callbacks that arrived.
DecisionsHaveCallers == \A t \in decisions : Accepted(t.hook)

IInv ==
  /\ TypeOK
  /\ ChecksHaveConsent
  /\ RowsAreFresh
  /\ GrantsCommitted
  /\ TasksKnow
  /\ RowsReadAreCurrent
  /\ ScoresHaveAField
  /\ DecisionsHaveCallers
  /\ ConsentGate
  /\ SnapshotsAudited
  /\ ConsentsAudited
  /\ ReportProvenance
  /\ DecisionsFollowReports
-----------------------------------------------------------------------------
(***************************************************************************)
(* Type correctness.                                                       *)
(***************************************************************************)

\* The initial state is well typed.
LEMMA InitTypeOK == Init => TypeOK
<1>1. NoSnapshot \in Snapshot
  BY DEF NoSnapshot, Snapshot
<1>2. NotArrived \in Request
  BY DEF NotArrived, Request, Purposes
<1>3. NotSent \in Hook
  BY <1>1 DEF NotSent, Hook
<1>. QED BY <1>1, <1>2, <1>3 DEF Init, TypeOK, NotArrived

\* What TypeOK says of the requests.
RequestsTyped ==
  /\ req \in [Requests -> Request]
  /\ \A r \in Requests : req[r].pc \in {"loaded", "committed"} =>
       req[r].user \in Users /\ req[r].app \in Apps

\* Answering a request changes its phase and its result only.
LEMMA AnswerTyped ==
  ASSUME RequestsTyped, NEW r \in Requests,
         NEW result \in {"ok", "error", "dead"}, Answer(r, result)
  PROVE  RequestsTyped'
<1>1. req[r] \in Request
  BY DEF RequestsTyped
<1>2. req' = [req EXCEPT ![r] = [req[r] EXCEPT !.pc = "answered",
                                               !.result = result]]
  BY DEF Answer, RequestsTyped
<1>3. [req[r] EXCEPT !.pc = "answered", !.result = result] \in Request
  BY <1>1 DEF Request
<1>4. req'[r].pc = "answered"
  BY <1>1, <1>2 DEF RequestsTyped, Request
<1>5. \A q \in Requests \ {r} : req'[q] = req[q]
  BY <1>2 DEF RequestsTyped
<1>. QED BY <1>2, <1>3, <1>4, <1>5 DEF RequestsTyped

\* A refused request holds nothing.
LEMMA RefusedTyped ==
  ASSUME RequestsTyped, NEW r \in Requests, NEW result \in {"refused", "error"},
         NEW op \in {"consent", "check"},
         req' = [req EXCEPT ![r] = [NotArrived EXCEPT
                   !.pc = "answered", !.result = result, !.op = op]]
  PROVE  RequestsTyped'
<1>1. [NotArrived EXCEPT !.pc = "answered", !.result = result, !.op = op]
        \in Request
  BY DEF NotArrived, Request, Purposes
<1>2. [NotArrived EXCEPT !.pc = "answered", !.result = result,
                         !.op = op].pc = "answered"
  BY DEF NotArrived
<1>. QED BY <1>1, <1>2 DEF RequestsTyped

\* No step makes a handler lose its types.
LEMMA NextRequestsTyped == TypeOK /\ [Next]_vars => RequestsTyped'
<1> SUFFICES ASSUME TypeOK, [Next]_vars
             PROVE  RequestsTyped'
  OBVIOUS
<1>0. RequestsTyped
  BY DEF TypeOK, RequestsTyped
<1>1. ASSUME NEW r \in Requests, LoadConsent(r)
      PROVE  RequestsTyped'
  <2>1. PICK a \in Apps, purpose \in Purposes :
           req' = [req EXCEPT ![r] =
                     [pc |-> "loaded", result |-> "none", op |-> "consent",
                      user |-> Applicant[a], app |-> a, purpose |-> purpose,
                      consent |-> Null]]
    BY <1>1 DEF LoadConsent
  <2>2. Applicant[a] \in Users
    BY RowsAreLegal
  <2>. QED BY <1>0, <2>1, <2>2 DEF RequestsTyped, Request
<1>2. ASSUME NEW r \in Requests, RefuseConsent(r)
      PROVE  RequestsTyped'
  BY <1>0, <1>2, RefusedTyped DEF RefuseConsent, Refusal
<1>3. ASSUME NEW r \in Requests, CommitConsent(r)
      PROVE  RequestsTyped'
  <2>1. req[r] \in Request
    BY <1>0 DEF RequestsTyped
  <2>2. req' = [req EXCEPT ![r] = [req[r] EXCEPT !.pc = "committed"]]
    BY <1>3 DEF CommitConsent
  <2>3. [req[r] EXCEPT !.pc = "committed"] \in Request
    BY <2>1 DEF Request
  <2>4. req[r].user \in Users /\ req[r].app \in Apps
    BY <1>0, <1>3 DEF RequestsTyped, CommitConsent
  <2>5. /\ req'[r].user = req[r].user
        /\ req'[r].app = req[r].app
    BY <1>0, <2>1, <2>2 DEF RequestsTyped, Request
  <2>. QED BY <1>0, <2>2, <2>3, <2>4, <2>5 DEF RequestsTyped
<1>4. ASSUME NEW r \in Requests, LoadCheck(r)
      PROVE  RequestsTyped'
  <2>1. PICK u \in Staff, a \in Apps : \E c \in consents :
           req' = [req EXCEPT ![r] =
                     [pc |-> "loaded", result |-> "none", op |-> "check",
                      user |-> u, app |-> a, purpose |-> "credit_check",
                      consent |-> c.by]]
    BY <1>4 DEF LoadCheck, ValidForCheck, Active
  <2>2. \A c \in consents : c.by \in Requests
    BY DEF TypeOK, Consent
  <2>3. u \in Users
    BY DEF Staff, Users
  <2>. QED BY <1>0, <2>1, <2>2, <2>3 DEF RequestsTyped, Request, Purposes
<1>5. ASSUME NEW r \in Requests, RefuseCheck(r)
      PROVE  RequestsTyped'
  BY <1>0, <1>5, RefusedTyped DEF RefuseCheck, Refusal
<1>6. ASSUME NEW r \in Requests, AuditConsent(r) \/ CommitCheck(r) \/ Die(r)
      PROVE  RequestsTyped'
  BY <1>0, <1>6, AnswerTyped DEF AuditConsent, CommitCheck, Die
<1>7. ASSUME UNCHANGED req
      PROVE  RequestsTyped'
  BY <1>0, <1>7 DEF RequestsTyped
<1>8. ASSUME NEW w \in Hooks,
             \/ ReceiveHook(w) \/ RejectHook(w) \/ Take(w) \/ CommitReport(w)
             \/ TriggerDecision(w) \/ Acknowledge(w) \/ Redeliver(w) \/ Lose(w)
      PROVE  RequestsTyped'
  BY <1>7, <1>8 DEF ReceiveHook, RejectHook, Take, StartTask, IgnoreUnknown,
       CommitReport, TriggerDecision, Acknowledge, Redeliver, Lose
<1>9. ASSUME (\E t \in decisions : RunDecision(t)) \/ Quiet \/ UNCHANGED vars
      PROVE  RequestsTyped'
  BY <1>7, <1>9 DEF RunDecision, Quiet, vars
<1>. QED BY <1>1, <1>2, <1>3, <1>4, <1>5, <1>6, <1>8, <1>9
         DEF Next, Arrive, Handle
-----------------------------------------------------------------------------
(***************************************************************************)
(* What a step can do to each table.                                       *)
(***************************************************************************)

\* What each action of callbacks and decisions leaves alone.
LEMMA TaskFrame ==
  /\ \A w \in Hooks :
       /\ ReceiveHook(w) \/ RejectHook(w) \/ Take(w) \/ CommitReport(w)
          \/ TriggerDecision(w) \/ Acknowledge(w) \/ Redeliver(w) \/ Lose(w)
          => UNCHANGED <<consents, auditLog, req>>
       /\ ReceiveHook(w) \/ RejectHook(w) \/ Take(w)
          \/ TriggerDecision(w) \/ Acknowledge(w) \/ Redeliver(w) \/ Lose(w)
          => UNCHANGED snapshots
       /\ ReceiveHook(w) \/ RejectHook(w) \/ Take(w) \/ CommitReport(w)
          \/ Acknowledge(w) \/ Redeliver(w) \/ Lose(w)
          => UNCHANGED decisions
  /\ \A t \in decisions : RunDecision(t) =>
       UNCHANGED <<consents, snapshots, auditLog, req, hook>>
  /\ Quiet => UNCHANGED vars
BY DEF ReceiveHook, RejectHook, Take, StartTask, IgnoreUnknown, CommitReport,
       TriggerDecision, Acknowledge, Redeliver, Lose, RunDecision, Quiet

\* What each action of a request leaves alone.
LEMMA RequestFrame ==
  \A r \in Requests :
    /\ Arrive(r) \/ Handle(r) \/ Die(r) => UNCHANGED <<hook, decisions>>
    /\ Arrive(r) \/ CommitConsent(r) \/ AuditConsent(r) \/ Die(r)
       => UNCHANGED snapshots
    /\ Arrive(r) \/ CommitConsent(r) \/ Die(r) => UNCHANGED auditLog
    /\ Arrive(r) \/ AuditConsent(r) \/ CommitCheck(r) \/ Die(r)
       => UNCHANGED consents
<1> SUFFICES ASSUME NEW r \in Requests
             PROVE  /\ Arrive(r) \/ Handle(r) \/ Die(r)
                       => UNCHANGED <<hook, decisions>>
                    /\ Arrive(r) \/ CommitConsent(r) \/ AuditConsent(r) \/ Die(r)
                       => UNCHANGED snapshots
                    /\ Arrive(r) \/ CommitConsent(r) \/ Die(r)
                       => UNCHANGED auditLog
                    /\ Arrive(r) \/ AuditConsent(r) \/ CommitCheck(r) \/ Die(r)
                       => UNCHANGED consents
  OBVIOUS
<1>1. Arrive(r) => UNCHANGED <<hook, decisions, snapshots, auditLog, consents>>
  BY DEF Arrive, LoadConsent, RefuseConsent, LoadCheck, RefuseCheck
<1>2. Die(r) => UNCHANGED <<hook, decisions, snapshots, auditLog, consents>>
  BY DEF Die
<1>3. CommitConsent(r) => UNCHANGED <<hook, decisions, snapshots, auditLog>>
  BY DEF CommitConsent
<1>4. AuditConsent(r) => UNCHANGED <<hook, decisions, snapshots, consents>>
  BY DEF AuditConsent
<1>5. CommitCheck(r) => UNCHANGED <<hook, decisions, consents>>
  BY DEF CommitCheck
<1>. QED
  BY <1>1, <1>2, <1>3, <1>4, <1>5 DEF Handle

\* No consent is ever removed.
LEMMA ConsentsGrow == [Next]_vars => consents \subseteq consents'
<1>1. \A r \in Requests : CommitConsent(r) => consents \subseteq consents'
  BY DEF CommitConsent
<1>2. UNCHANGED vars => consents \subseteq consents'
  BY DEF vars
<1>. QED BY <1>1, <1>2, TaskFrame, RequestFrame DEF Next, Handle

\* Only a check and a report write snapshots.
LEMMA SnapshotSteps ==
  [Next]_vars => \/ UNCHANGED snapshots
                 \/ \E r \in Requests : CommitCheck(r)
                 \/ \E w \in Hooks : CommitReport(w)
<1>1. UNCHANGED vars => UNCHANGED snapshots
  BY DEF vars
<1>. QED BY <1>1, TaskFrame, RequestFrame DEF Next, Handle

\* Only a trigger and a run touch decisions.
LEMMA DecisionSteps ==
  [Next]_vars => \/ UNCHANGED decisions
                 \/ \E w \in Hooks : TriggerDecision(w)
                 \/ \E t \in decisions : RunDecision(t)
<1>1. UNCHANGED vars => UNCHANGED decisions
  BY DEF vars
<1>. QED BY <1>1, TaskFrame, RequestFrame DEF Next

\* What a callback reports, and about which snapshot, is the same after a step.
SameReport(w) ==
  /\ hook'[w].ref = hook[w].ref
  /\ hook'[w].named = hook[w].named
  /\ hook'[w].scored = hook[w].scored
  /\ hook'[w].score = hook[w].score

\* What a callback that was accepted reports stays as it is.
LEMMA CallbacksStay ==
  ASSUME TypeOK, [Next]_vars, NEW w \in Hooks, Accepted(w)
  PROVE  /\ Accepted(w)'
         /\ SameReport(w)
<1>1. hook \in [Hooks -> Hook]
  BY DEF TypeOK
<1>2. ASSUME NEW v \in Hooks, ReceiveHook(v) \/ RejectHook(v)
      PROVE  Accepted(w)' /\ SameReport(w)
  <2>1. hook'[w] = hook[w]
    BY <1>1, <1>2 DEF ReceiveHook, RejectHook, Accepted
  <2>. QED BY <2>1 DEF Accepted, SameReport
<1>3. ASSUME NEW v \in Hooks, StartTask(v)
      PROVE  /\ Accepted(w)'
             /\ SameReport(w)
  BY <1>1, <1>3 DEF StartTask, Accepted, SameReport, Hook
<1>4. ASSUME NEW v \in Hooks,
             \/ IgnoreUnknown(v) \/ CommitReport(v) \/ TriggerDecision(v)
             \/ Acknowledge(v) \/ Redeliver(v) \/ Lose(v)
      PROVE  /\ Accepted(w)'
             /\ SameReport(w)
  <2>1. PICK pc \in {"queued", "committed", "triggered", "done", "lost"} :
           hook' = [hook EXCEPT ![v].pc = pc]
    BY <1>4 DEF IgnoreUnknown, CommitReport, TriggerDecision, Acknowledge,
         Redeliver, Lose
  <2>. QED BY <1>1, <2>1 DEF Accepted, SameReport, Hook
<1>5. ASSUME UNCHANGED hook
      PROVE  /\ Accepted(w)'
             /\ SameReport(w)
  BY <1>5 DEF Accepted, SameReport
<1>6. UNCHANGED vars => UNCHANGED hook
  BY DEF vars
<1>. QED BY <1>2, <1>3, <1>4, <1>5, <1>6, TaskFrame, RequestFrame
         DEF Next, Take

\* A check opens a fresh row for the application and the consent it has read.
LEMMA CheckEffect ==
  ASSUME TypeOK, NEW r \in Requests, CommitCheck(r)
  PROVE  /\ \A q \in Requests \ {r} : snapshots'[q] = snapshots[q]
         /\ snapshots'[r].status = "pending"
         /\ snapshots'[r].app = req[r].app
         /\ snapshots'[r].consent = req[r].consent
         /\ snapshots'[r].score = Null
         /\ snapshots'[r].source = Null
BY DEF TypeOK, CommitCheck, NoSnapshot

\* A report makes the row of its snapshot successful, and writes the score and
\* the request id of its own callback or leaves them alone.
LEMMA ReportEffect ==
  ASSUME TypeOK, TasksKnow, NEW w \in Hooks, CommitReport(w)
  PROVE  LET r == hook[w].ref
         IN /\ r \in Requests
            /\ Opened(r)
            /\ \A q \in Requests \ {r} : snapshots'[q] = snapshots[q]
            /\ snapshots'[r].status = "success"
            /\ snapshots'[r].app = snapshots[r].app
            /\ snapshots'[r].consent = snapshots[r].consent
            /\ \/ snapshots'[r].score = snapshots[r].score
               \/ snapshots'[r].score = hook[w].score
            /\ \/ snapshots'[r].source = snapshots[r].source
               \/ snapshots'[r].source = RequestId(w)
            /\ hook[w].loaded = snapshots[r] =>
                 /\ snapshots'[r].source = RequestId(w)
                 /\ snapshots'[r].score = IF hook[w].scored THEN hook[w].score
                                          ELSE snapshots[r].score
<1> DEFINE r == hook[w].ref
           loaded == hook[w].loaded
           score == IF hook[w].scored THEN hook[w].score ELSE loaded.score
<1>1. /\ r \in Requests
      /\ Opened(r)
      /\ loaded.status = "success" => snapshots[r].status = "success"
  <2>1. hook[w].pc \in AtWork
    BY DEF CommitReport, AtWork
  <2>. QED BY <2>1 DEF TasksKnow
<1>2. snapshots[r] \in Snapshot /\ hook[w] \in Hook
  BY <1>1 DEF TypeOK
<1>3. snapshots' = [snapshots EXCEPT ![r] =
         [snapshots[r] EXCEPT
            !.status = Written("success", loaded.status, snapshots[r].status),
            !.source = Written(RequestId(w), loaded.source,
                               snapshots[r].source),
            !.score = Written(score, loaded.score, snapshots[r].score)]]
  BY DEF CommitReport, Reported
<1>4. /\ snapshots'[r].status =
           Written("success", loaded.status, snapshots[r].status)
      /\ snapshots'[r].source =
           Written(RequestId(w), loaded.source, snapshots[r].source)
      /\ snapshots'[r].score =
           Written(score, loaded.score, snapshots[r].score)
      /\ snapshots'[r].app = snapshots[r].app
      /\ snapshots'[r].consent = snapshots[r].consent
      /\ \A q \in Requests \ {r} : snapshots'[q] = snapshots[q]
  <2>. HIDE DEF r, loaded, score
  <2>. QED BY <1>1, <1>2, <1>3 DEF TypeOK, Snapshot
<1>5. snapshots'[r].status = "success"
  BY <1>1, <1>4 DEF Written
<1>6. \/ snapshots'[r].source = snapshots[r].source
      \/ snapshots'[r].source = RequestId(w)
  BY <1>4 DEF Written
<1>7. \/ snapshots'[r].score = snapshots[r].score
      \/ snapshots'[r].score = hook[w].score
  BY <1>4 DEF Written
<1>8. loaded = snapshots[r] =>
        /\ snapshots'[r].source = RequestId(w)
        /\ snapshots'[r].score = score
  <2>. HIDE DEF r, loaded, score
  <2>. QED BY <1>4 DEF Written
<1>. QED BY <1>1, <1>4, <1>5, <1>6, <1>7, <1>8
-----------------------------------------------------------------------------
(***************************************************************************)
(* Requests.                                                               *)
(***************************************************************************)

\* A consent a check has read stays on record.
LEMMA NextChecks ==
  TypeOK /\ ChecksHaveConsent /\ [Next]_vars => ChecksHaveConsent'
<1> SUFFICES ASSUME TypeOK, ChecksHaveConsent, [Next]_vars,
                    NEW r \in Requests,
                    req'[r].pc = "loaded", req'[r].op = "check"
             PROVE  \E c \in consents' : /\ c.by = req'[r].consent
                                         /\ Covers(c, req'[r].app)
  BY DEF ChecksHaveConsent, Covers
<1>0. req \in [Requests -> Request]
  BY DEF TypeOK
<1>1. ASSUME req'[r] = req[r]
      PROVE  \E c \in consents' : /\ c.by = req'[r].consent
                                  /\ Covers(c, req'[r].app)
  <2>1. PICK c \in consents : c.by = req[r].consent /\ Covers(c, req[r].app)
    BY <1>1 DEF ChecksHaveConsent
  <2>. QED BY <1>1, <2>1, ConsentsGrow
<1>2. ASSUME NEW q \in Requests, LoadCheck(q)
      PROVE  \E c \in consents' : /\ c.by = req'[r].consent
                                  /\ Covers(c, req'[r].app)
  <2>1. PICK u \in Staff, a \in Apps : \E c \in ValidForCheck(a) :
           req' = [req EXCEPT ![q] =
                     [pc |-> "loaded", result |-> "none", op |-> "check",
                      user |-> u, app |-> a, purpose |-> "credit_check",
                      consent |-> c.by]]
    BY <1>2 DEF LoadCheck
  <2>2. CASE r = q
    <3>1. PICK c \in ValidForCheck(a) :
             req'[r].consent = c.by /\ req'[r].app = a
      BY <1>0, <2>1, <2>2
    <3>2. c \in consents /\ Covers(c, a)
      BY <3>1 DEF ValidForCheck, Active, Covers
    <3>. QED BY <3>1, <3>2, ConsentsGrow
  <2>3. CASE r # q
    BY <1>0, <1>1, <2>1, <2>3
  <2>. QED BY <2>2, <2>3
<1>3. ASSUME NEW q \in Requests, LoadConsent(q) \/ CommitConsent(q)
      PROVE  req'[r] = req[r]
  <2>1. CASE LoadConsent(q)
    BY <1>0, <2>1 DEF LoadConsent
  <2>2. CASE CommitConsent(q)
    BY <1>0, <2>2 DEF CommitConsent, Request
  <2>. QED BY <1>3, <2>1, <2>2
<1>4. ASSUME NEW q \in Requests, RefuseConsent(q) \/ RefuseCheck(q)
      PROVE  req'[r] = req[r]
  <2>1. CASE RefuseConsent(q)
    BY <1>0, <2>1 DEF RefuseConsent, NotArrived
  <2>2. CASE RefuseCheck(q)
    BY <1>0, <2>2 DEF RefuseCheck, NotArrived
  <2>. QED BY <1>4, <2>1, <2>2
<1>5. ASSUME NEW q \in Requests,
             AuditConsent(q) \/ CommitCheck(q) \/ Die(q)
      PROVE  req'[r] = req[r]
  BY <1>0, <1>5 DEF AuditConsent, CommitCheck, Die, Answer, Request
<1>6. UNCHANGED req => req'[r] = req[r]
  OBVIOUS
<1>7. UNCHANGED vars => UNCHANGED req
  BY DEF vars
<1>. QED BY <1>1, <1>2, <1>3, <1>4, <1>5, <1>6, <1>7, TaskFrame
         DEF Next, Arrive, Handle

\* A request that commits its snapshot is answered with it.
LEMMA NextFresh ==
  TypeOK /\ RowsAreFresh /\ TasksKnow /\ [Next]_vars
  => RowsAreFresh'
<1> SUFFICES ASSUME TypeOK, RowsAreFresh, TasksKnow,
                    [Next]_vars, NEW r \in Requests,
                    req'[r].pc \in {"idle", "loaded"}
             PROVE  ~Opened(r)'
  BY DEF RowsAreFresh
<1>0. req \in [Requests -> Request]
  BY DEF TypeOK
<1>1. req[r].pc \in {"idle", "loaded"}
  <2>1. ASSUME NEW q \in Requests, LoadConsent(q) \/ LoadCheck(q)
        PROVE  req[r].pc \in {"idle", "loaded"}
    <3>1. req[q].pc = "idle" /\ \A x \in Requests \ {q} : req'[x] = req[x]
      BY <1>0, <2>1 DEF LoadConsent, LoadCheck
    <3>. QED BY <3>1
  <2>2. ASSUME NEW q \in Requests, RefuseConsent(q) \/ RefuseCheck(q)
        PROVE  req[r].pc \in {"idle", "loaded"}
    <3>1. req[q].pc = "idle" /\ \A x \in Requests \ {q} : req'[x] = req[x]
      BY <1>0, <2>2 DEF RefuseConsent, RefuseCheck
    <3>. QED BY <3>1
  <2>3. ASSUME NEW q \in Requests, \/ CommitConsent(q) \/ AuditConsent(q)
                                   \/ CommitCheck(q) \/ Die(q)
        PROVE  req[r].pc \in {"idle", "loaded"}
    BY <1>0, <2>3
       DEF CommitConsent, AuditConsent, CommitCheck, Die, Answer, Request
  <2>4. UNCHANGED req => req[r].pc \in {"idle", "loaded"}
    OBVIOUS
  <2>5. UNCHANGED vars => UNCHANGED req
    BY DEF vars
  <2>. QED BY <2>1, <2>2, <2>3, <2>4, <2>5, TaskFrame
           DEF Next, Arrive, Handle
<1>2. ~Opened(r)
  BY <1>1 DEF RowsAreFresh
<1>3. ASSUME NEW q \in Requests, CommitCheck(q)
      PROVE  snapshots'[r] = snapshots[r]
  <2>1. req'[q].pc = "answered"
    BY <1>0, <1>3 DEF CommitCheck, Answer, Request
  <2>. QED BY <1>3, <2>1, CheckEffect
<1>4. ASSUME NEW w \in Hooks, CommitReport(w)
      PROVE  snapshots'[r] = snapshots[r]
  BY <1>2, <1>4, ReportEffect
<1>. QED BY <1>2, <1>3, <1>4, SnapshotSteps DEF Opened

\* A grant is on record before it is audited.
LEMMA NextGrants ==
  TypeOK /\ GrantsCommitted /\ [Next]_vars => GrantsCommitted'
<1> SUFFICES ASSUME TypeOK, GrantsCommitted, [Next]_vars,
                    NEW r \in Requests, req'[r].pc = "committed"
             PROVE  \E c \in consents' : c.by = r
  BY DEF GrantsCommitted
<1>0. req \in [Requests -> Request]
  BY DEF TypeOK
<1>1. ASSUME req'[r] = req[r]
      PROVE  \E c \in consents' : c.by = r
  BY <1>1, ConsentsGrow DEF GrantsCommitted
<1>2. ASSUME NEW q \in Requests, CommitConsent(q)
      PROVE  \E c \in consents' : c.by = r
  <2>1. CASE r = q
    <3>1. [by |-> q, app |-> req[q].app, user |-> req[q].user,
           purpose |-> req[q].purpose] \in consents'
      BY <1>2 DEF CommitConsent
    <3>. QED BY <2>1, <3>1
  <2>2. CASE r # q
    BY <1>0, <1>1, <1>2, <2>2 DEF CommitConsent
  <2>. QED BY <2>1, <2>2
<1>3. ASSUME NEW q \in Requests, LoadConsent(q) \/ LoadCheck(q)
      PROVE  req'[r] = req[r]
  BY <1>0, <1>3 DEF LoadConsent, LoadCheck
<1>4. ASSUME NEW q \in Requests, RefuseConsent(q) \/ RefuseCheck(q)
      PROVE  req'[r] = req[r]
  <2>1. CASE RefuseConsent(q)
    BY <1>0, <2>1 DEF RefuseConsent, NotArrived
  <2>2. CASE RefuseCheck(q)
    BY <1>0, <2>2 DEF RefuseCheck, NotArrived
  <2>. QED BY <1>4, <2>1, <2>2
<1>5. ASSUME NEW q \in Requests,
             AuditConsent(q) \/ CommitCheck(q) \/ Die(q)
      PROVE  req'[r] = req[r]
  BY <1>0, <1>5 DEF AuditConsent, CommitCheck, Die, Answer, Request
<1>6. UNCHANGED req => req'[r] = req[r]
  OBVIOUS
<1>7. UNCHANGED vars => UNCHANGED req
  BY DEF vars
<1>. QED BY <1>1, <1>2, <1>3, <1>4, <1>5, <1>6, <1>7, TaskFrame
         DEF Next, Arrive, Handle
-----------------------------------------------------------------------------
(***************************************************************************)
(* Snapshots, callbacks and decisions.                                     *)
(***************************************************************************)

\* A snapshot stays with its application and its consent, and a report stays.
LEMMA SnapshotsStay ==
  ASSUME TypeOK, RowsAreFresh, TasksKnow, [Next]_vars,
         NEW r \in Requests, Opened(r)
  PROVE  /\ Opened(r)'
         /\ snapshots'[r].app = snapshots[r].app
         /\ snapshots'[r].consent = snapshots[r].consent
         /\ snapshots[r].status = "success" => snapshots'[r].status = "success"
<1>1. ASSUME NEW q \in Requests, CommitCheck(q)
      PROVE  snapshots'[r] = snapshots[r]
  <2>1. ~Opened(q)
    BY <1>1 DEF RowsAreFresh, CommitCheck
  <2>. QED BY <1>1, <2>1, CheckEffect
<1>2. ASSUME NEW w \in Hooks, CommitReport(w)
      PROVE  /\ Opened(r)'
             /\ snapshots'[r].app = snapshots[r].app
             /\ snapshots'[r].consent = snapshots[r].consent
             /\ snapshots[r].status = "success"
                => snapshots'[r].status = "success"
  BY <1>2, ReportEffect DEF Opened
<1>. QED BY <1>1, <1>2, SnapshotSteps DEF Opened

\* A check has the consent it needs, when it is opened and ever after.
LEMMA NextGate ==
  /\ TypeOK /\ RowsAreFresh /\ TasksKnow
  /\ ChecksHaveConsent /\ ConsentGate /\ [Next]_vars
  => ConsentGate'
<1> SUFFICES ASSUME TypeOK, RowsAreFresh, TasksKnow,
                    ChecksHaveConsent, ConsentGate, [Next]_vars,
                    NEW r \in Requests, Opened(r)'
             PROVE  \E c \in consents' : /\ c.by = snapshots'[r].consent
                                         /\ c.app = snapshots'[r].app
                                         /\ c.user = Applicant[c.app]
                                         /\ c.purpose = "credit_check"
  BY DEF ConsentGate
<1>1. CASE Opened(r)
  <2>1. PICK c \in consents : /\ c.by = snapshots[r].consent
                              /\ c.app = snapshots[r].app
                              /\ c.user = Applicant[c.app]
                              /\ c.purpose = "credit_check"
    BY <1>1 DEF ConsentGate
  <2>. QED BY <1>1, <2>1, SnapshotsStay, ConsentsGrow
<1>2. CASE ~Opened(r)
  <2>1. CommitCheck(r)
    <3>1. snapshots'[r] # snapshots[r]
      BY <1>2 DEF Opened
    <3>2. ASSUME NEW w \in Hooks, CommitReport(w)
          PROVE  FALSE
      BY <1>2, <3>1, <3>2, ReportEffect
    <3>. QED BY <3>1, <3>2, SnapshotSteps, CheckEffect
  <2>2. PICK c \in consents : c.by = req[r].consent /\ Covers(c, req[r].app)
    BY <2>1 DEF ChecksHaveConsent, CommitCheck
  <2>. QED BY <2>1, <2>2, CheckEffect, ConsentsGrow DEF Covers
<1>. QED BY <1>1, <1>2

\* The only steps that write the audit trail.
LEMMA AuditSteps ==
  [Next]_vars =>
    \/ UNCHANGED auditLog
    \/ \E r \in Requests :
         /\ AuditConsent(r)
         /\ auditLog' = auditLog \cup {[by |-> r, action |-> "consent_granted"]}
    \/ \E r \in Requests :
         /\ CommitCheck(r)
         /\ auditLog' = auditLog \cup {[by |-> r, action |-> "bureau_request"]}
<1>1. \A r \in Requests : AuditConsent(r) =>
        auditLog' = auditLog \cup {[by |-> r, action |-> "consent_granted"]}
  BY DEF AuditConsent
<1>2. \A r \in Requests : CommitCheck(r) =>
        auditLog' = auditLog \cup {[by |-> r, action |-> "bureau_request"]}
  BY DEF CommitCheck
<1>3. UNCHANGED vars => UNCHANGED auditLog
  BY DEF vars
<1>. QED BY <1>1, <1>2, <1>3, TaskFrame, RequestFrame DEF Next, Handle

\* Snapshot and audit row come together.
LEMMA NextAudited ==
  /\ TypeOK /\ RowsAreFresh /\ TasksKnow
  /\ SnapshotsAudited /\ [Next]_vars
  => SnapshotsAudited'
<1> SUFFICES ASSUME TypeOK, RowsAreFresh, TasksKnow,
                    SnapshotsAudited, [Next]_vars, NEW r \in Requests
             PROVE  Opened(r)' <=>
                      [by |-> r, action |-> "bureau_request"] \in auditLog'
  BY DEF SnapshotsAudited
<1>1. ASSUME NEW q \in Requests, CommitCheck(q)
      PROVE  Opened(r)' <=>
               [by |-> r, action |-> "bureau_request"] \in auditLog'
  <2>1. auditLog' = auditLog \cup {[by |-> q, action |-> "bureau_request"]}
    BY <1>1 DEF CommitCheck
  <2>2. CASE q = r
    BY <1>1, <2>1, <2>2, CheckEffect DEF Opened
  <2>3. CASE q # r
    <3>1. snapshots'[r] = snapshots[r]
      BY <1>1, <2>3, CheckEffect
    <3>2. [by |-> q, action |-> "bureau_request"]
            # [by |-> r, action |-> "bureau_request"]
      BY <2>3
    <3>. QED BY <2>1, <3>1, <3>2 DEF SnapshotsAudited, Opened
  <2>. QED BY <2>2, <2>3
<1>2. ASSUME ~\E q \in Requests : CommitCheck(q)
      PROVE  Opened(r)' <=>
               [by |-> r, action |-> "bureau_request"] \in auditLog'
  <2>1. Opened(r)' <=> Opened(r)
    <3>1. ASSUME NEW w \in Hooks, CommitReport(w)
          PROVE  Opened(r)' <=> Opened(r)
      BY <3>1, ReportEffect DEF Opened
    <3>2. UNCHANGED snapshots => (Opened(r)' <=> Opened(r))
      BY DEF Opened
    <3>. QED BY <1>2, <3>1, <3>2, SnapshotSteps
  <2>2. [by |-> r, action |-> "bureau_request"] \in auditLog' <=>
        [by |-> r, action |-> "bureau_request"] \in auditLog
    BY <1>2, AuditSteps
  <2>. QED BY <2>1, <2>2 DEF SnapshotsAudited
<1>. QED BY <1>1, <1>2

\* Who is told of a consent has it audited; who is audited has it.
LEMMA NextConsents ==
  TypeOK /\ GrantsCommitted /\ ConsentsAudited /\ [Next]_vars
  => ConsentsAudited'
<1> SUFFICES ASSUME TypeOK, GrantsCommitted, ConsentsAudited, [Next]_vars
             PROVE  ConsentsAudited'
  OBVIOUS
<1>0. req \in [Requests -> Request]
  BY DEF TypeOK
<1>1. ASSUME NEW r \in Requests, req'[r].result = "ok"
      PROVE  [by |-> r, action |-> "consent_granted"] \in auditLog'
  <2>1. auditLog \subseteq auditLog'
    BY AuditSteps
  <2>2. ASSUME NEW q \in Requests, AuditConsent(q)
        PROVE  req[r].result = "ok" \/ r = q
    BY <1>0, <1>1, <2>2 DEF AuditConsent, Answer
  <2>3. ASSUME NEW q \in Requests, LoadConsent(q) \/ LoadCheck(q)
        PROVE  req[r].result = "ok"
    BY <1>0, <1>1, <2>3 DEF LoadConsent, LoadCheck
  <2>4. ASSUME NEW q \in Requests, RefuseConsent(q) \/ RefuseCheck(q)
        PROVE  req[r].result = "ok"
    <3>1. PICK result \in {"refused", "error"}, op \in {"consent", "check"} :
             req' = [req EXCEPT ![q] = [NotArrived EXCEPT
                       !.pc = "answered", !.result = result, !.op = op]]
      BY <2>4 DEF RefuseConsent, RefuseCheck, Refusal
    <3>. QED BY <1>0, <1>1, <3>1 DEF NotArrived
  <2>5. ASSUME NEW q \in Requests, CommitCheck(q) \/ Die(q)
        PROVE  req[r].result = "ok"
    <3>1. PICK result \in {"error", "dead"} : Answer(q, result)
      BY <2>5 DEF CommitCheck, Die
    <3>. QED BY <1>0, <1>1, <3>1 DEF Answer
  <2>6. ASSUME NEW q \in Requests, CommitConsent(q)
        PROVE  req[r].result = "ok"
    BY <1>0, <1>1, <2>6 DEF CommitConsent, Request
  <2>7. UNCHANGED req => req[r].result = "ok"
    BY <1>1
  <2>8. UNCHANGED vars => UNCHANGED req
    BY DEF vars
  <2>9. req[r].result = "ok" \/ AuditConsent(r)
    BY <2>2, <2>3, <2>4, <2>5, <2>6, <2>7, <2>8, TaskFrame
       DEF Next, Arrive, Handle
  <2>. QED BY <2>1, <2>9 DEF ConsentsAudited, AuditConsent
<1>2. ASSUME NEW x \in auditLog', x.action = "consent_granted"
      PROVE  \E c \in consents' : c.by = x.by
  <2>1. CASE x \in auditLog
    BY <1>2, <2>1, ConsentsGrow DEF ConsentsAudited
  <2>2. CASE x \notin auditLog
    <3>1. PICK r \in Requests : AuditConsent(r) /\ x.by = r
      BY <1>2, <2>2, AuditSteps
    <3>2. \E c \in consents : c.by = r
      BY <3>1 DEF GrantsCommitted, AuditConsent
    <3>. QED BY <3>1, <3>2, ConsentsGrow
  <2>. QED BY <2>1, <2>2
<1>. QED BY <1>1, <1>2 DEF ConsentsAudited

\* A task at work is at the same place as before, or has just started,
\* committed or asked for a decision.
LEMMA WorkSteps ==
  ASSUME TypeOK, [Next]_vars, NEW w \in Hooks, hook'[w].pc \in AtWork
  PROVE  \/ hook'[w] = hook[w]
         \/ /\ StartTask(w)
            /\ hook'[w].ref = hook[w].ref
            /\ hook'[w].loaded = snapshots[hook[w].ref]
         \/ /\ CommitReport(w) \/ TriggerDecision(w)
            /\ hook'[w].ref = hook[w].ref
            /\ hook'[w].loaded = hook[w].loaded
<1>0. hook \in [Hooks -> Hook]
  BY DEF TypeOK
<1>1. ASSUME NEW v \in Hooks, v # w,
             \/ ReceiveHook(v) \/ RejectHook(v) \/ Take(v) \/ CommitReport(v)
             \/ TriggerDecision(v) \/ Acknowledge(v) \/ Redeliver(v) \/ Lose(v)
      PROVE  hook'[w] = hook[w]
  BY <1>0, <1>1 DEF ReceiveHook, RejectHook, Take, StartTask, IgnoreUnknown,
       CommitReport, TriggerDecision, Acknowledge, Redeliver, Lose
<1>2. StartTask(w) => /\ hook'[w].ref = hook[w].ref
                      /\ hook'[w].loaded = snapshots[hook[w].ref]
  BY <1>0 DEF StartTask, Hook
<1>3. CommitReport(w) \/ TriggerDecision(w) =>
        /\ hook'[w].ref = hook[w].ref
        /\ hook'[w].loaded = hook[w].loaded
  BY <1>0 DEF CommitReport, TriggerDecision, Hook
<1>4. ~ReceiveHook(w)
  BY <1>0 DEF ReceiveHook, AtWork
<1>5. ~RejectHook(w) /\ ~IgnoreUnknown(w)
  BY <1>0 DEF RejectHook, IgnoreUnknown, AtWork, Hook
<1>6. ~Acknowledge(w) /\ ~Redeliver(w) /\ ~Lose(w)
  BY <1>0 DEF Acknowledge, Redeliver, Lose, AtWork, Hook
<1>7. UNCHANGED hook => hook'[w] = hook[w]
  OBVIOUS
<1>8. UNCHANGED vars => UNCHANGED hook
  BY DEF vars
<1>. QED BY <1>1, <1>2, <1>3, <1>4, <1>5, <1>6, <1>7, <1>8, TaskFrame,
            RequestFrame
         DEF Next, Take

\* Tasks at work know a snapshot, and no report they rely on is undone.
LEMMA NextTasks ==
  TypeOK /\ RowsAreFresh /\ TasksKnow /\ [Next]_vars
  => TasksKnow'
<1> SUFFICES ASSUME TypeOK, RowsAreFresh, TasksKnow,
                    [Next]_vars, NEW w \in Hooks, hook'[w].pc \in AtWork
             PROVE  /\ hook'[w].ref \in Requests
                    /\ Opened(hook[w].ref)'
                    /\ \/ hook'[w].loaded.status = "success"
                       \/ hook'[w].pc # "running"
                       => snapshots'[hook'[w].ref].status = "success"
  BY DEF TasksKnow, AtWork
<1>1. CASE hook'[w] = hook[w]
  <2>1. /\ hook[w].ref \in Requests
        /\ Opened(hook[w].ref)
        /\ \/ hook[w].loaded.status = "success"
           \/ hook[w].pc # "running"
           => snapshots[hook[w].ref].status = "success"
    BY <1>1 DEF TasksKnow
  <2>2. /\ Opened(hook[w].ref)'
        /\ snapshots[hook[w].ref].status = "success"
           => snapshots'[hook[w].ref].status = "success"
    BY <1>1, <2>1, SnapshotsStay DEF Opened
  <2>. QED BY <1>1, <2>1, <2>2
<1>2. ASSUME StartTask(w), hook'[w].ref = hook[w].ref,
             hook'[w].loaded = snapshots[hook[w].ref]
      PROVE  /\ hook'[w].ref \in Requests
             /\ Opened(hook[w].ref)'
             /\ \/ hook'[w].loaded.status = "success"
                \/ hook'[w].pc # "running"
                => snapshots'[hook'[w].ref].status = "success"
  <2>1. hook[w].ref \in Requests /\ Opened(hook[w].ref)
    BY <1>2 DEF StartTask, Known, Opened, TypeOK, Hook
  <2>2. hook'[w].pc = "running" /\ snapshots' = snapshots
    BY <1>2 DEF StartTask, TypeOK, Hook
  <2>. QED BY <1>2, <2>1, <2>2 DEF Opened
<1>3. ASSUME CommitReport(w), hook'[w].ref = hook[w].ref
      PROVE  /\ hook'[w].ref \in Requests
             /\ Opened(hook[w].ref)'
             /\ snapshots'[hook'[w].ref].status = "success"
  BY <1>3, ReportEffect DEF Opened
<1>4. ASSUME TriggerDecision(w), hook'[w].ref = hook[w].ref
      PROVE  /\ hook'[w].ref \in Requests
             /\ Opened(hook[w].ref)'
             /\ snapshots'[hook'[w].ref].status = "success"
  <2>1. /\ hook[w].ref \in Requests
        /\ Opened(hook[w].ref)
        /\ snapshots[hook[w].ref].status = "success"
    BY <1>4 DEF TriggerDecision, TasksKnow, AtWork
  <2>2. snapshots' = snapshots
    BY <1>4 DEF TriggerDecision
  <2>. QED BY <1>4, <2>1, <2>2 DEF Opened
<1>. QED BY <1>1, <1>2, <1>3, <1>4, WorkSteps

\* Only the field of a callback decides whether it brings a score.
LEMMA NextScores == TypeOK /\ ScoresHaveAField /\ [Next]_vars => ScoresHaveAField'
<1> SUFFICES ASSUME TypeOK, ScoresHaveAField, [Next]_vars,
                    NEW w \in Hooks
             PROVE  hook'[w].score # Null => hook'[w].scored
  BY DEF ScoresHaveAField
<1>0. hook \in [Hooks -> Hook] /\ (hook[w].score # Null => hook[w].scored)
  BY DEF TypeOK, ScoresHaveAField
<1>1. ASSUME NEW v \in Hooks, ReceiveHook(v)
      PROVE  hook'[w].score # Null => hook'[w].scored
  <2>1. PICK ref \in Requests \cup {Null}, named \in BOOLEAN,
             scored \in BOOLEAN, score \in Scores \cup {Null} :
           /\ score # Null => scored
           /\ hook' = [hook EXCEPT ![v] =
                         [pc |-> "queued", ref |-> ref, named |-> named,
                          scored |-> scored, score |-> score,
                          loaded |-> NoSnapshot]]
    BY <1>1 DEF ReceiveHook
  <2>2. CASE v = w
    <3>1. hook'[w].scored = scored /\ hook'[w].score = score
      BY <1>0, <2>1, <2>2
    <3>. QED BY <2>1, <3>1
  <2>3. CASE v # w
    BY <1>0, <2>1, <2>3
  <2>. QED BY <2>2, <2>3
<1>2. ASSUME NEW v \in Hooks, RejectHook(v)
      PROVE  SameReport(w)
  BY <1>0, <1>2 DEF RejectHook, SameReport, Hook
<1>3. ASSUME Accepted(w)
      PROVE  SameReport(w)
  BY <1>3, CallbacksStay
<1>4. ASSUME NEW v \in Hooks, ~Accepted(w),
             \/ Take(v) \/ CommitReport(v)
             \/ TriggerDecision(v) \/ Acknowledge(v) \/ Redeliver(v) \/ Lose(v)
      PROVE  hook'[w] = hook[w]
  BY <1>0, <1>4 DEF Take, StartTask, IgnoreUnknown, CommitReport,
     TriggerDecision, Acknowledge, Redeliver, Lose, AtWork, Accepted
<1>5. UNCHANGED hook => hook'[w] = hook[w]
  OBVIOUS
<1>6. UNCHANGED vars => UNCHANGED hook
  BY DEF vars
<1>7. SameReport(w) => (hook'[w].score # Null => hook'[w].scored)
  BY <1>0 DEF SameReport
<1>. QED BY <1>0, <1>1, <1>2, <1>3, <1>4, <1>5, <1>6, <1>7, TaskFrame,
            RequestFrame
         DEF Next

\* A callback about a snapshot stays one, and reports what it did.
LEMMA AboutGrows ==
  ASSUME TypeOK, [Next]_vars, NEW r \in Requests, NEW w \in About(r)
  PROVE  /\ w \in Hooks
         /\ w \in About(r)'
         /\ SameReport(w)
         /\ RequestId(w)' = RequestId(w)
<1>1. w \in Hooks /\ Accepted(w) /\ hook[w].ref = r
  BY DEF About
<1>2. Accepted(w)' /\ SameReport(w)
  BY <1>1, CallbacksStay
<1>3. hook'[w].ref = r
  BY <1>1, <1>2 DEF SameReport
<1>4. RequestId(w)' = RequestId(w)
  BY <1>2 DEF SameReport, RequestId
<1>. QED BY <1>1, <1>2, <1>3, <1>4 DEF About, Accepted

\* A task at work is that of a callback about its snapshot.
LEMMA WorkIsAbout ==
  ASSUME NEW w \in Hooks, hook[w].pc \in AtWork
  PROVE  w \in About(hook[w].ref)
BY DEF About, Accepted, AtWork

\* As long as a callback is the only one about a snapshot no other task writes
\* what its task has read.
LEMMA NextCurrent ==
  /\ TypeOK /\ RowsAreFresh /\ TasksKnow /\ RowsReadAreCurrent /\ [Next]_vars
  => RowsReadAreCurrent'
<1> SUFFICES ASSUME TypeOK, RowsAreFresh, TasksKnow, RowsReadAreCurrent,
                    [Next]_vars, NEW w \in Hooks,
                    hook'[w].pc = "running", About(hook[w].ref)' = {w}
             PROVE  hook'[w].loaded = snapshots'[hook'[w].ref]
  BY DEF RowsReadAreCurrent, About, Accepted
<1>0. hook \in [Hooks -> Hook]
  BY DEF TypeOK
<1>1. CASE hook'[w] = hook[w]
  <2>1. hook[w].pc = "running" /\ hook[w].pc \in AtWork
    BY <1>1 DEF AtWork
  <2>0. PICK r \in Requests : r = hook[w].ref
    BY <2>1 DEF TasksKnow
  <2>2. Opened(r) /\ w \in About(r)
    BY <2>0, <2>1, WorkIsAbout DEF TasksKnow
  <2>3. \A v \in About(r) : v = w
    <3>1. hook'[w].ref = r
      BY <1>1, <2>0
    <3>2. About(r)' = {w}
      BY <3>1 DEF About, Accepted
    <3>. QED BY <3>2, AboutGrows
  <2>4. hook[w].loaded = snapshots[r]
    <3>1. About(r) = {w}
      BY <2>2, <2>3
    <3>. QED BY <2>0, <2>1, <3>1 DEF RowsReadAreCurrent
  <2>5. ASSUME NEW q \in Requests, CommitCheck(q)
        PROVE  snapshots'[r] = snapshots[r]
    <3>1. q # r
      BY <2>2, <2>5 DEF RowsAreFresh, CommitCheck
    <3>. QED BY <2>2, <2>5, <3>1, CheckEffect
  <2>6. ASSUME NEW v \in Hooks, CommitReport(v)
        PROVE  snapshots'[r] = snapshots[r]
    <3>1. hook[v].pc \in AtWork
      BY <2>6 DEF CommitReport, AtWork
    <3>2. v # w
      BY <1>0, <1>1, <2>1, <2>6 DEF CommitReport, Hook
    <3>3. hook[v].ref # r
      BY <2>3, <3>1, <3>2, WorkIsAbout
    <3>. QED BY <2>2, <2>6, <3>3, ReportEffect
  <2>7. snapshots'[r] = snapshots[r]
    BY <2>5, <2>6, SnapshotSteps
  <2>. QED BY <1>1, <2>0, <2>4, <2>7
<1>2. ASSUME StartTask(w), hook'[w].ref = hook[w].ref,
             hook'[w].loaded = snapshots[hook[w].ref]
      PROVE  hook'[w].loaded = snapshots'[hook'[w].ref]
  BY <1>2 DEF StartTask
<1>3. ~CommitReport(w) /\ ~TriggerDecision(w)
  BY <1>0 DEF CommitReport, TriggerDecision, Hook
<1>. QED BY <1>1, <1>2, <1>3, WorkSteps DEF AtWork

\* What ReportProvenance says of one snapshot.
ScoreReported(r) ==
  snapshots[r].score # Null =>
    \E w \in About(r) : hook[w].score = snapshots[r].score

SourceReports(r) ==
  snapshots[r].source # Null =>
    \E w \in About(r) : hook[w].named /\ w = snapshots[r].source

ReportComplete(r) ==
  IF snapshots[r].status = "success"
  THEN /\ About(r) # {}
       /\ \A w \in Hooks : About(r) = {w} =>
            /\ snapshots[r].score = hook[w].score
            /\ snapshots[r].source = RequestId(w)
  ELSE snapshots[r].score = Null /\ snapshots[r].source = Null

LEMMA ProvenanceByRow ==
  ReportProvenance <=> \A r \in Requests :
    ScoreReported(r) /\ SourceReports(r) /\ ReportComplete(r)
BY DEF ReportProvenance, ScoreReported, SourceReports, ReportComplete

\* A row that is left alone still holds what was reported.
LEMMA RowKept ==
  ASSUME TypeOK, [Next]_vars, NEW r \in Requests,
         ScoreReported(r) /\ SourceReports(r) /\ ReportComplete(r)
  PROVE  /\ snapshots'[r].score = snapshots[r].score => ScoreReported(r)'
         /\ snapshots'[r].source = snapshots[r].source => SourceReports(r)'
         /\ snapshots'[r] = snapshots[r] => ReportComplete(r)'
<1>1. ASSUME snapshots'[r].score = snapshots[r].score,
             snapshots'[r].score # Null
      PROVE  \E w \in About(r)' : hook'[w].score = snapshots'[r].score
  <2>1. PICK w \in About(r) : hook[w].score = snapshots[r].score
    BY <1>1 DEF ScoreReported
  <2>. QED BY <1>1, <2>1, AboutGrows DEF SameReport
<1>2. ASSUME snapshots'[r].source = snapshots[r].source,
             snapshots'[r].source # Null
      PROVE  \E w \in About(r)' : hook'[w].named /\ w = snapshots'[r].source
  <2>1. PICK w \in About(r) : hook[w].named /\ w = snapshots[r].source
    BY <1>2 DEF SourceReports
  <2>. QED BY <1>2, <2>1, AboutGrows DEF SameReport
<1>3. ASSUME snapshots'[r] = snapshots[r]
      PROVE  ReportComplete(r)'
  <2>1. CASE snapshots[r].status = "success"
    <3>1. PICK v \in About(r) : v \in About(r)'
      BY <2>1, AboutGrows DEF ReportComplete
    <3>2. ASSUME NEW w \in Hooks, About(r)' = {w}
          PROVE  /\ snapshots'[r].score = hook'[w].score
                 /\ snapshots'[r].source = RequestId(w)'
      <4>1. About(r) = {w}
        <5>1. \A x \in About(r) : x = w
          BY <3>2, AboutGrows
        <5>. QED BY <3>1, <5>1
      <4>2. /\ snapshots[r].score = hook[w].score
            /\ snapshots[r].source = RequestId(w)
        BY <2>1, <4>1 DEF ReportComplete
      <4>3. hook'[w].score = hook[w].score /\ RequestId(w)' = RequestId(w)
        BY <4>1, AboutGrows DEF SameReport
      <4>. QED BY <1>3, <4>2, <4>3
    <3>. QED BY <1>3, <2>1, <3>1, <3>2 DEF ReportComplete, About, RequestId,
                                            Accepted
  <2>2. CASE snapshots[r].status # "success"
    BY <1>3, <2>2 DEF ReportComplete
  <2>. QED BY <2>1, <2>2
<1>. QED
  <2>1. snapshots'[r].score = snapshots[r].score => ScoreReported(r)'
    BY <1>1 DEF ScoreReported
  <2>2. snapshots'[r].source = snapshots[r].source => SourceReports(r)'
    BY <1>2 DEF SourceReports
  <2>. QED BY <1>3, <2>1, <2>2

\* What a snapshot holds was reported about it.
LEMMA NextProvenance ==
  /\ TypeOK /\ TasksKnow /\ RowsReadAreCurrent
  /\ ScoresHaveAField /\ ReportProvenance /\ [Next]_vars
  => ReportProvenance'
<1> SUFFICES ASSUME TypeOK, TasksKnow, RowsReadAreCurrent, ScoresHaveAField,
                    ReportProvenance, [Next]_vars, NEW r \in Requests
             PROVE  (ScoreReported(r) /\ SourceReports(r)
                     /\ ReportComplete(r))'
  BY DEF ReportProvenance, ScoreReported, SourceReports, ReportComplete
<1>0. ScoreReported(r) /\ SourceReports(r) /\ ReportComplete(r)
  BY ProvenanceByRow
<1>1. ASSUME snapshots'[r] = snapshots[r]
      PROVE  (ScoreReported(r) /\ SourceReports(r) /\ ReportComplete(r))'
  BY <1>0, <1>1, RowKept
<1>2. ASSUME NEW q \in Requests, CommitCheck(q)
      PROVE  (ScoreReported(r) /\ SourceReports(r) /\ ReportComplete(r))'
  <2>1. CASE q = r
    <3>1. /\ snapshots'[r].status = "pending"
          /\ snapshots'[r].score = Null
          /\ snapshots'[r].source = Null
      BY <1>2, <2>1, CheckEffect
    <3>. QED BY <3>1 DEF ScoreReported, SourceReports, ReportComplete
  <2>2. CASE q # r
    BY <1>1, <1>2, <2>2, CheckEffect
  <2>. QED BY <2>1, <2>2
<1>3. ASSUME NEW v \in Hooks, CommitReport(v), hook[v].ref = r
      PROVE  (ScoreReported(r) /\ SourceReports(r) /\ ReportComplete(r))'
  <2>1. /\ snapshots'[r].status = "success"
        /\ \/ snapshots'[r].score = snapshots[r].score
           \/ snapshots'[r].score = hook[v].score
        /\ \/ snapshots'[r].source = snapshots[r].source
           \/ snapshots'[r].source = RequestId(v)
        /\ hook[v].loaded = snapshots[r] =>
             /\ snapshots'[r].source = RequestId(v)
             /\ snapshots'[r].score = IF hook[v].scored THEN hook[v].score
                                      ELSE snapshots[r].score
    BY <1>3, ReportEffect
  <2>2. v \in About(r)
    BY <1>3, WorkIsAbout DEF CommitReport, AtWork
  <2>3. /\ v \in About(r)'
        /\ hook'[v].score = hook[v].score
        /\ hook'[v].named = hook[v].named
        /\ RequestId(v)' = RequestId(v)
    BY <2>2, AboutGrows DEF SameReport
  <2>4. ScoreReported(r)'
    <3>1. CASE snapshots'[r].score = snapshots[r].score
      BY <1>0, <3>1, RowKept
    <3>2. CASE snapshots'[r].score = hook[v].score
      BY <2>3, <3>2 DEF ScoreReported
    <3>. QED BY <2>1, <3>1, <3>2
  <2>5. SourceReports(r)'
    <3>1. CASE snapshots'[r].source = snapshots[r].source
      BY <1>0, <3>1, RowKept
    <3>2. CASE snapshots'[r].source = RequestId(v)
      BY <2>3, <3>2 DEF SourceReports, RequestId
    <3>. QED BY <2>1, <3>1, <3>2
  <2>6. ASSUME NEW w \in Hooks, About(r)' = {w}
        PROVE  /\ snapshots'[r].score = hook'[w].score
               /\ snapshots'[r].source = RequestId(w)'
    <3>1. w = v /\ About(r) = {v}
      <4>1. \A x \in About(r) : x = w
        BY <2>6, AboutGrows
      <4>. QED BY <2>2, <4>1
    <3>2. hook[v].loaded = snapshots[r]
      BY <1>3, <3>1 DEF RowsReadAreCurrent, CommitReport
    <3>3. ~hook[v].scored => snapshots[r].score = hook[v].score
      <4>1. ~hook[v].scored => hook[v].score = Null
        BY DEF ScoresHaveAField
      <4>. QED BY <1>0, <3>1, <4>1 DEF ReportComplete
    <3>4. snapshots'[r].score = hook[v].score
      BY <2>1, <3>2, <3>3
    <3>. QED BY <2>1, <2>3, <3>1, <3>2, <3>4
  <2>7. ReportComplete(r)'
    BY <2>1, <2>3, <2>6 DEF ReportComplete, About, RequestId, Accepted
  <2>. QED BY <2>4, <2>5, <2>7
<1>4. ASSUME NEW v \in Hooks, CommitReport(v), hook[v].ref # r
      PROVE  (ScoreReported(r) /\ SourceReports(r) /\ ReportComplete(r))'
  BY <1>1, <1>4, ReportEffect
<1>. QED BY <1>1, <1>2, <1>3, <1>4, SnapshotSteps

\* A decision rests on a report, which stays.
LEMMA NextDecisions ==
  /\ TypeOK /\ RowsAreFresh /\ TasksKnow
  /\ DecisionsHaveCallers /\ DecisionsFollowReports /\ [Next]_vars
  => DecisionsHaveCallers' /\ DecisionsFollowReports'
<1> SUFFICES ASSUME TypeOK, RowsAreFresh, TasksKnow,
                    DecisionsHaveCallers, DecisionsFollowReports, [Next]_vars,
                    NEW t \in decisions'
             PROVE  /\ Accepted(t.hook)'
                    /\ snapshots'[t.snapshot].status = "success"
                    /\ snapshots'[t.snapshot].app = t.app
                    /\ hook'[t.hook].ref = t.snapshot
  BY DEF DecisionsHaveCallers, DecisionsFollowReports, Accepted
<1>1. ASSUME NEW d \in decisions, t.hook = d.hook, t.app = d.app,
             t.snapshot = d.snapshot
      PROVE  /\ Accepted(t.hook)'
             /\ snapshots'[t.snapshot].status = "success"
             /\ snapshots'[t.snapshot].app = t.app
             /\ hook'[t.hook].ref = t.snapshot
  <2>1. /\ t.hook \in Hooks
        /\ t.snapshot \in Requests
        /\ Accepted(t.hook)
        /\ snapshots[t.snapshot].status = "success"
        /\ snapshots[t.snapshot].app = t.app
        /\ hook[t.hook].ref = t.snapshot
    BY <1>1 DEF TypeOK, DecisionTask, DecisionsHaveCallers,
         DecisionsFollowReports, Accepted
  <2>2. /\ snapshots'[t.snapshot].status = "success"
        /\ snapshots'[t.snapshot].app = t.app
    BY <2>1, SnapshotsStay DEF Opened
  <2>3. PICK w \in Hooks : w = t.hook
    BY <2>1
  <2>4. Accepted(w)' /\ hook'[w].ref = t.snapshot
    BY <2>1, <2>3, CallbacksStay DEF Accepted, SameReport
  <2>. QED BY <2>2, <2>3, <2>4 DEF Accepted
<1>2. ASSUME NEW w \in Hooks, TriggerDecision(w),
             t = [hook |-> w, snapshot |-> hook[w].ref,
                  app |-> snapshots[hook[w].ref].app, result |-> "queued"]
      PROVE  /\ Accepted(t.hook)'
             /\ snapshots'[t.snapshot].status = "success"
             /\ snapshots'[t.snapshot].app = t.app
             /\ hook'[t.hook].ref = t.snapshot
  <2>1. snapshots[hook[w].ref].status = "success" /\ snapshots' = snapshots
    BY <1>2 DEF TriggerDecision, TasksKnow, AtWork
  <2>2. Accepted(w)' /\ hook'[w].ref = hook[w].ref
    BY <1>2, CallbacksStay DEF TriggerDecision, Accepted, SameReport
  <2>. QED BY <1>2, <2>1, <2>2 DEF Accepted
<1>3. ASSUME NEW w \in Hooks, TriggerDecision(w)
      PROVE  \/ t \in decisions
             \/ t = [hook |-> w, snapshot |-> hook[w].ref,
                     app |-> snapshots[hook[w].ref].app, result |-> "queued"]
  BY <1>3 DEF TriggerDecision
<1>4. ASSUME NEW d \in decisions, RunDecision(d)
      PROVE  \E e \in decisions : /\ t.hook = e.hook
                                  /\ t.app = e.app
                                  /\ t.snapshot = e.snapshot
  BY <1>4 DEF RunDecision, TypeOK, DecisionTask
<1>. QED BY <1>1, <1>2, <1>3, <1>4, DecisionSteps
-----------------------------------------------------------------------------
(***************************************************************************)
(* The types of the tables and the tasks, and the invariant.               *)
(***************************************************************************)

\* Consents name who granted what for which application.
LEMMA NextConsentsTyped ==
  TypeOK /\ [Next]_vars => consents' \subseteq Consent
<1> SUFFICES ASSUME TypeOK, [Next]_vars
             PROVE  consents' \subseteq Consent
  OBVIOUS
<1>0. consents \subseteq Consent
  BY DEF TypeOK
<1>1. ASSUME NEW r \in Requests, CommitConsent(r)
      PROVE  consents' \subseteq Consent
  <2>1. req[r] \in Request /\ req[r].user \in Users /\ req[r].app \in Apps
    BY <1>1 DEF TypeOK, CommitConsent
  <2>2. req[r].purpose \in Purposes
    BY <2>1 DEF Request
  <2>. QED BY <1>0, <1>1, <2>1, <2>2 DEF CommitConsent, Consent
<1>2. UNCHANGED vars => UNCHANGED consents
  BY DEF vars
<1>. QED BY <1>0, <1>1, <1>2, TaskFrame, RequestFrame DEF Next, Handle

\* The audit trail names requests and what they did.
LEMMA NextAuditTyped ==
  TypeOK /\ [Next]_vars => auditLog' \subseteq AuditRow
BY AuditSteps DEF TypeOK, AuditRow

\* A snapshot is a row of its table.
LEMMA NextSnapshotsTyped ==
  TypeOK /\ TasksKnow /\ [Next]_vars => snapshots' \in [Requests -> Snapshot]
<1> SUFFICES ASSUME TypeOK, TasksKnow, [Next]_vars
             PROVE  snapshots' \in [Requests -> Snapshot]
  OBVIOUS
<1>0. snapshots \in [Requests -> Snapshot]
  BY DEF TypeOK
<1>1. ASSUME NEW r \in Requests, CommitCheck(r)
      PROVE  snapshots' \in [Requests -> Snapshot]
  <2> DEFINE row == [NoSnapshot EXCEPT !.status = "pending",
                                       !.app = req[r].app,
                                       !.consent = req[r].consent]
  <2>1. req[r] \in Request
    BY DEF TypeOK
  <2>2. row \in Snapshot
    BY <2>1 DEF NoSnapshot, Snapshot, Request
  <2>3. snapshots' = [snapshots EXCEPT ![r] = row]
    BY <1>1 DEF CommitCheck
  <2>. QED BY <1>0, <2>2, <2>3
<1>2. ASSUME NEW w \in Hooks, CommitReport(w)
      PROVE  snapshots' \in [Requests -> Snapshot]
  <2> DEFINE r == hook[w].ref
             row == Reported(snapshots[r], w)
  <2>1. r \in Requests
    BY <1>2 DEF CommitReport, TasksKnow, AtWork
  <2>2. /\ snapshots[r] \in Snapshot
        /\ hook[w] \in Hook
        /\ hook[w].loaded \in Snapshot
    BY <2>1 DEF TypeOK, Hook
  <2>3. /\ hook[w].score \in Scores \cup {Null}
        /\ hook[w].loaded.score \in Scores \cup {Null}
        /\ snapshots[r].score \in Scores \cup {Null}
        /\ snapshots[r].source \in Hooks \cup {Null}
        /\ snapshots[r].status \in {"none", "pending", "success"}
    BY <2>2 DEF Hook, Snapshot
  <2>4. row \in Snapshot
    <3> DEFINE loaded == hook[w].loaded
               new == IF hook[w].scored THEN hook[w].score ELSE loaded.score
               status == Written("success", loaded.status, snapshots[r].status)
               source == Written(RequestId(w), loaded.source,
                                 snapshots[r].source)
               score == Written(new, loaded.score, snapshots[r].score)
    <3>1. row = [snapshots[r] EXCEPT !.status = status, !.source = source,
                                     !.score = score]
      BY DEF Reported
    <3>2. /\ status \in {"none", "pending", "success"}
          /\ source \in Hooks \cup {Null}
          /\ score \in Scores \cup {Null}
      BY <2>3 DEF Written, RequestId
    <3>. HIDE DEF row, status, source, score
    <3>. QED BY <2>2, <3>1, <3>2 DEF Snapshot
  <2>5. snapshots' = [snapshots EXCEPT ![r] = row]
    BY <1>2 DEF CommitReport
  <2>. QED BY <1>0, <2>4, <2>5
<1>. QED BY <1>0, <1>1, <1>2, SnapshotSteps

\* A callback and its task are what they are at every point of their way.
LEMMA NextHooksTyped == TypeOK /\ [Next]_vars => hook' \in [Hooks -> Hook]
<1> SUFFICES ASSUME TypeOK, [Next]_vars
             PROVE  hook' \in [Hooks -> Hook]
  OBVIOUS
<1>0. hook \in [Hooks -> Hook]
  BY DEF TypeOK
<1>1. ASSUME NEW w \in Hooks, ReceiveHook(w)
      PROVE  hook' \in [Hooks -> Hook]
  <2>1. PICK ref \in Requests \cup {Null}, named \in BOOLEAN,
             scored \in BOOLEAN, score \in Scores \cup {Null} :
           hook' = [hook EXCEPT ![w] =
                      [pc |-> "queued", ref |-> ref, named |-> named,
                       scored |-> scored, score |-> score,
                       loaded |-> NoSnapshot]]
    BY <1>1 DEF ReceiveHook
  <2>2. NoSnapshot \in Snapshot
    BY DEF NoSnapshot, Snapshot
  <2>3. [pc |-> "queued", ref |-> ref, named |-> named, scored |-> scored,
         score |-> score, loaded |-> NoSnapshot] \in Hook
    BY <2>2 DEF Hook
  <2>. QED BY <1>0, <2>1, <2>3
<1>2. ASSUME NEW w \in Hooks, StartTask(w)
      PROVE  hook' \in [Hooks -> Hook]
  <2>1. hook[w] \in Hook /\ hook[w].ref # Null
    BY <1>0, <1>2 DEF StartTask, Known
  <2>2. snapshots[hook[w].ref] \in Snapshot
    BY <2>1 DEF TypeOK, Hook
  <2>3. [hook[w] EXCEPT !.pc = "running", !.loaded = snapshots[hook[w].ref]]
          \in Hook
    BY <2>1, <2>2 DEF Hook
  <2>4. hook' = [hook EXCEPT ![w] = [hook[w] EXCEPT
                   !.pc = "running", !.loaded = snapshots[hook[w].ref]]]
    BY <1>0, <1>2 DEF StartTask
  <2>. QED BY <1>0, <2>3, <2>4
<1>3. ASSUME NEW w \in Hooks,
             \/ RejectHook(w) \/ IgnoreUnknown(w) \/ CommitReport(w)
             \/ TriggerDecision(w) \/ Acknowledge(w) \/ Redeliver(w) \/ Lose(w)
      PROVE  hook' \in [Hooks -> Hook]
  <2>1. PICK pc \in {"rejected", "queued", "committed", "triggered", "done",
                     "lost"} : hook' = [hook EXCEPT ![w].pc = pc]
    BY <1>3 DEF RejectHook, IgnoreUnknown, CommitReport, TriggerDecision,
         Acknowledge, Redeliver, Lose
  <2>2. [hook[w] EXCEPT !.pc = pc] \in Hook
    BY <1>0 DEF Hook
  <2>3. hook' = [hook EXCEPT ![w] = [hook[w] EXCEPT !.pc = pc]]
    BY <2>1
  <2>. QED BY <1>0, <2>2, <2>3
<1>4. UNCHANGED vars => UNCHANGED hook
  BY DEF vars
<1>. QED BY <1>0, <1>1, <1>2, <1>3, <1>4, TaskFrame, RequestFrame
         DEF Next, Take

\* A decision names an application, since its snapshot does.
LEMMA NextDecisionsTyped ==
  TypeOK /\ TasksKnow /\ ConsentGate /\ [Next]_vars
  => decisions' \subseteq DecisionTask
<1> SUFFICES ASSUME TypeOK, TasksKnow, ConsentGate, [Next]_vars
             PROVE  decisions' \subseteq DecisionTask
  OBVIOUS
<1>1. ASSUME NEW w \in Hooks, TriggerDecision(w)
      PROVE  decisions' \subseteq DecisionTask
  <2>1. hook[w].ref \in Requests /\ Opened(hook[w].ref)
    BY <1>1 DEF TriggerDecision, TasksKnow, AtWork
  <2>2. snapshots[hook[w].ref].app \in Apps
    BY <2>1 DEF ConsentGate, TypeOK, Consent
  <2>. QED BY <1>1, <2>1, <2>2 DEF TriggerDecision, TypeOK, DecisionTask
<1>2. ASSUME NEW t \in decisions, RunDecision(t)
      PROVE  decisions' \subseteq DecisionTask
  <2>1. [t EXCEPT !.result = "error"] \in DecisionTask
    BY DEF TypeOK, DecisionTask
  <2>. QED BY <1>2, <2>1 DEF RunDecision, TypeOK
<1>. QED BY <1>1, <1>2, DecisionSteps DEF TypeOK

\* The invariant holds at first, when the tables are empty.
LEMMA InitIInv == Init => IInv
<1> SUFFICES ASSUME Init
             PROVE  IInv
  OBVIOUS
<1> USE DEF Init
<1>1. \A r \in Requests : /\ req[r] = NotArrived
                          /\ snapshots[r] = NoSnapshot
  OBVIOUS
<1>2. \A w \in Hooks : hook[w] = NotSent
  OBVIOUS
<1>3. ChecksHaveConsent /\ RowsAreFresh /\ GrantsCommitted
  BY <1>1 DEF ChecksHaveConsent, RowsAreFresh, GrantsCommitted, Opened,
     NotArrived, NoSnapshot
<1>4. /\ TasksKnow /\ DecisionsHaveCallers
      /\ RowsReadAreCurrent /\ ScoresHaveAField
  BY <1>2 DEF TasksKnow, DecisionsHaveCallers, RowsReadAreCurrent,
     ScoresHaveAField, NotSent, AtWork
<1>5. ConsentGate /\ SnapshotsAudited /\ ConsentsAudited
  BY <1>1 DEF ConsentGate, SnapshotsAudited, ConsentsAudited, Opened,
     NotArrived, NoSnapshot
<1>6. ReportProvenance /\ DecisionsFollowReports
  BY <1>1 DEF ReportProvenance, DecisionsFollowReports, NoSnapshot
<1>. QED BY <1>3, <1>4, <1>5, <1>6, InitTypeOK DEF IInv

\* Every step keeps the invariant.
LEMMA NextIInv == IInv /\ [Next]_vars => IInv'
<1> SUFFICES ASSUME IInv, [Next]_vars
             PROVE  IInv'
  OBVIOUS
<1> USE DEF IInv
<1>1. TypeOK'
  BY NextRequestsTyped, NextConsentsTyped, NextAuditTyped, NextSnapshotsTyped,
     NextHooksTyped, NextDecisionsTyped
     DEF TypeOK, RequestsTyped
<1>2. ChecksHaveConsent' /\ RowsAreFresh' /\ GrantsCommitted' /\ TasksKnow'
  BY NextChecks, NextFresh, NextGrants, NextTasks
<1>3. ConsentGate' /\ SnapshotsAudited' /\ ConsentsAudited'
  BY NextGate, NextAudited, NextConsents
<1>4. /\ RowsReadAreCurrent'
      /\ ScoresHaveAField'
      /\ ReportProvenance'
      /\ DecisionsHaveCallers'
      /\ DecisionsFollowReports'
  BY NextCurrent, NextScores, NextProvenance, NextDecisions
<1>. QED BY <1>1, <1>2, <1>3, <1>4

\* The invariant holds in every reachable state.
THEOREM Invariance == Spec => []IInv
BY InitIInv, NextIInv, PTL DEF Spec

\* TypeOK holds in every reachable state.
THEOREM TypeCorrect == Spec => []TypeOK
BY Invariance, PTL DEF IInv

\* No credit check without the applicant's recorded consent.
THEOREM GateCorrect == Spec => []ConsentGate
BY Invariance, PTL DEF IInv

\* Snapshot and audit row are committed together.
THEOREM SnapshotsTraced == Spec => []SnapshotsAudited
BY Invariance, PTL DEF IInv

\* Consents that were confirmed are on record and audited.
THEOREM ConsentsTraced == Spec => []ConsentsAudited
BY Invariance, PTL DEF IInv

\* What a snapshot holds was reported about it; by one callback alone if one
\* alone is about it.
THEOREM ReportsTraced == Spec => []ReportProvenance
BY Invariance, PTL DEF IInv

\* Decisions are asked for on committed reports.
THEOREM DecisionsGrounded == Spec => []DecisionsFollowReports
BY Invariance, PTL DEF IInv
=============================================================================
