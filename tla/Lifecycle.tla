------------------------------ MODULE Lifecycle ------------------------------
(***************************************************************************)
(* The application lifecycle as the API writes it: the handlers of         *)
(* applications.py, decisions.py and workflow.py that change a row of the  *)
(* table applications, the rows they append to workflow_events, decisions, *)
(* audit_logs and notification_logs, and the e-mail they send through SES. *)
(*                                                                         *)
(* One HTTP request is one member of Requests. It runs in a database       *)
(* session of its own (db/session.py): SELECT, an await, a commit, and for *)
(* update_status a second transaction for the audit row, the e-mail and    *)
(* its log. PostgreSQL runs READ COMMITTED and nobody takes a row lock     *)
(* before writing, so other requests commit between any two steps of one.  *)
(***************************************************************************)
EXTENDS Integers, FiniteSets

CONSTANTS
  Apps,           \* rows of table applications
  Requests,       \* HTTP requests, each handled once
  Clients,        \* users with role CLIENT
  Workers,        \* users with role WORKER
  Admins,         \* users with role ADMIN
  Null,           \* the value of an empty column or field
  EmailEnabled,   \* settings.EMAIL_ENABLED
  Targets,        \* the statuses that status updates ask for
  Offers          \* the terms that overrides state

Statuses == {"submitted", "under_review", "manual_review", "approved",
             "declined", "completed", "withdrawn"}

Users == Clients \cup Workers \cup Admins
Staff == Workers \cup Admins

Outcomes == {"approve", "decline"}

\* What a decision says of amount and rate, as far as notify_approved can tell:
\* no amount, an amount without a rate, both, both with an amount from 1000 up
Terms == {"missing", "unrated", "below_1000", "from_1000"}

ASSUME RolesDisjoint == /\ Clients \cap Workers = {}
                        /\ Clients \cap Admins = {}
                        /\ Workers \cap Admins = {}
ASSUME NullIsNoValue == Null \notin Users \cup Apps
ASSUME InputsAreLegal == Targets \subseteq Statuses /\ Offers \subseteq Terms
ASSUME EmailEnabledIsFlag == EmailEnabled \in BOOLEAN

VARIABLES
  app,            \* table applications, as committed
  events,         \* table workflow_events
  decisions,      \* table decisions
  auditLog,       \* table audit_logs, the rows about applications
  notifications,  \* table notification_logs
  sesCalls,       \* calls of SES send_email: outside every transaction
  req,            \* the requests and the local state of their handlers
  clock           \* transactions begun: now() in their column defaults

tables == <<app, events, decisions, auditLog, notifications>>
vars ==
  <<app, events, decisions, auditLog, notifications, sesCalls, req, clock>>

Row == [status : Statuses, worker : Workers \cup {Null}, reviewed : BOOLEAN,
        completed : BOOLEAN, escalated : BOOLEAN]

Event == [by : Requests, app : Apps, kind : {"status", "escalation"},
          from : Statuses, to : Statuses, at : Nat]

Decision == [by : Requests, app : Apps, outcome : Outcomes, terms : Terms,
             at : Nat]

AuditRow == [by : Requests, app : Apps, from : Statuses, to : Statuses]

MailKinds == {"approved", "declined", "status_changed"}

Notification == [by : Requests, app : Apps, event : MailKinds,
                 status : {"sent", "failed"}]

SesCall == [by : Requests, app : Apps, event : MailKinds,
            result : {"sent", "failed", "unreachable"}]

Operations == {"none", "update_status", "override", "escalate",
               "create", "assign", "auto_assign", "run_decision"}

Request == [pc : {"idle", "loaded", "committed", "mailed", "answered"},
            result : {"none", "ok", "refused", "error", "dead"},
            op : Operations, user : Users \cup {Null}, app : Apps \cup {Null},
            to : Statuses, outcome : Outcomes, terms : Terms,
            loaded : Statuses, at : Nat, mail : {"sent", "failed"}]

NotArrived == [pc |-> "idle", result |-> "none", op |-> "none",
               user |-> Null, app |-> Null, to |-> "submitted",
               outcome |-> "decline", terms |-> "missing",
               loaded |-> "submitted", at |-> 0, mail |-> "failed"]

InFlight == {"loaded", "committed", "mailed"}
-----------------------------------------------------------------------------
(***************************************************************************)
(* Helpers.                                                                *)
(***************************************************************************)

\* require_roles and _get_and_authorize: a worker reaches the status of its
\* own applications only, but escalates any
Authorized(op, u, assigned) ==
  \/ u \in Admins
  \/ /\ op = "update_status"
     /\ u \in Workers
     /\ assigned = u
  \/ op \in {"escalate", "auto_assign", "run_decision"} /\ u \in Staff
  \/ op = "create"

Closing == {"approved", "declined", "completed"}

\* The ORM writes a column only if its value differs from the one it loaded
Written(r, new, current) == IF new = req[r].loaded THEN current ELSE new

\* A slip: the outcome stored as it came
StatusForRaw(outcome) == outcome

StatusFor(outcome) == IF outcome = "approve" THEN "approved" ELSE "declined"

MailFor(status) == IF status \in {"approved", "declined"} THEN status
                   ELSE "status_changed"

IsLatest(d) ==
  \A e \in decisions : e.app = d.app => e.at <= d.at

\* A slip: the latest decision, of whichever application
CanPriceByAnyDecision(a) ==
  \E d \in decisions : IsLatest(d) /\ d.terms = "below_1000"

\* notify_approved parses the amount and the rate it was handed as text: "TBD",
\* "None" and "1,000.00" are no decimals
CanPriceApproval(a) ==
  \E d \in decisions : d.app = a /\ IsLatest(d) /\ d.terms = "below_1000"

NotificationRaises(r) ==
  req[r].to = "approved" /\ ~CanPriceApproval(req[r].app)

Answer(r, result) ==
  req' = [req EXCEPT ![r].pc = "answered", ![r].result = result]

\* A slip: completed_at cleared when an application is reopened
StampedAnew(row, status) ==
  [row EXCEPT !.completed = status \in Closing,
              !.reviewed = IF status = "under_review" THEN TRUE ELSE @]

\* The row after a status update, its status apart
Stamped(row, status) ==
  [row EXCEPT !.completed = IF status \in Closing THEN TRUE ELSE @,
              !.reviewed = IF status = "under_review" THEN TRUE ELSE @]

\* The rows a handler appends. A slip: from and to swapped
StatusEventSwapped(r) ==
  [by |-> r, app |-> req[r].app, kind |-> "status",
   from |-> req[r].to, to |-> req[r].loaded, at |-> req[r].at]

StatusEvent(r) ==
  [by |-> r, app |-> req[r].app, kind |-> "status",
   from |-> req[r].loaded, to |-> req[r].to, at |-> req[r].at]

EscalationEvent(r) ==
  [by |-> r, app |-> req[r].app, kind |-> "escalation",
   from |-> req[r].loaded, to |-> req[r].loaded, at |-> req[r].at]

OverrideDecision(r) ==
  [by |-> r, app |-> req[r].app, outcome |-> req[r].outcome,
   terms |-> req[r].terms, at |-> req[r].at]

\* A slip: before_state taken from the row after the commit
AuditEntryRefreshed(r) ==
  [by |-> r, app |-> req[r].app, from |-> app[req[r].app].status,
   to |-> req[r].to]

AuditEntry(r) ==
  [by |-> r, app |-> req[r].app, from |-> req[r].loaded, to |-> req[r].to]

\* A slip: every attempt logged as sent
NotificationEntrySent(r) ==
  [by |-> r, app |-> req[r].app, event |-> MailFor(req[r].to),
   status |-> "sent"]

NotificationEntry(r) ==
  [by |-> r, app |-> req[r].app, event |-> MailFor(req[r].to),
   status |-> req[r].mail]

Mail(r, result) ==
  [by |-> r, app |-> req[r].app, event |-> MailFor(req[r].to),
   result |-> result]
-----------------------------------------------------------------------------
(***************************************************************************)
(* Requests arrive.                                                        *)
(***************************************************************************)

\* The handler's SELECT: the row as committed now is what it goes on with
Load(r, op, u, a, to, outcome, terms) ==
  /\ req[r].pc = "idle"
  /\ Authorized(op, u, app[a].worker)
  /\ req' = [req EXCEPT ![r] =
               [pc |-> "loaded", result |-> "none", op |-> op, user |-> u,
                app |-> a, to |-> to, outcome |-> outcome, terms |-> terms,
                loaded |-> app[a].status, at |-> clock, mail |-> "failed"]]
  /\ clock' = clock + 1
  /\ UNCHANGED <<tables, sesCalls>>

LoadStatusUpdate(r) ==
  \E u \in Staff, a \in Apps, to \in Targets :
    Load(r, "update_status", u, a, to, "decline", "missing")

LoadOverride(r) ==
  \E u \in Admins, a \in Apps, outcome \in Outcomes, terms \in Offers :
    Load(r, "override", u, a, "submitted", outcome, terms)

LoadEscalation(r) ==
  \E u \in Staff, a \in Apps :
    Load(r, "escalate", u, a, "submitted", "decline", "missing")

\* 403: nothing is read or written on behalf of the caller
Refuse(r) ==
  /\ req[r].pc = "idle"
  /\ \E op \in Operations \ {"none"}, u \in Users, a \in Apps :
       /\ ~Authorized(op, u, app[a].worker)
       /\ req' = [req EXCEPT ![r] = [NotArrived EXCEPT
                    !.pc = "answered", !.result = "refused", !.op = op]]
  /\ UNCHANGED <<tables, sesCalls, clock>>

\* Handlers that raise on every path, whose writes get_db rolls back: create
\* inserts an event without application_id, assign reads worker.first_name,
\* auto-assign calls a missing method, run-decision a constructor without db
FailingHandler(r) ==
  /\ req[r].pc = "idle"
  /\ \E op \in {"create", "assign", "auto_assign", "run_decision"},
        u \in Users, a \in Apps :
       /\ Authorized(op, u, app[a].worker)
       /\ req' = [req EXCEPT ![r] = [NotArrived EXCEPT
                    !.pc = "answered", !.result = "error", !.op = op]]
  /\ UNCHANGED <<tables, sesCalls, clock>>
-----------------------------------------------------------------------------
(***************************************************************************)
(* update_status.                                                          *)
(***************************************************************************)

\* First transaction: the row and its event
CommitStatusUpdate(r) ==
  LET a == req[r].app
      new == req[r].to
  IN /\ req[r].pc = "loaded"
     /\ req[r].op = "update_status"
     /\ app' = [app EXCEPT ![a] = [Stamped(@, new) EXCEPT
                                     !.status = Written(r, new, app[a].status)]]
     /\ events' = events \cup {StatusEvent(r)}
     /\ req' = [req EXCEPT ![r].pc = "committed"]
     /\ UNCHANGED <<decisions, auditLog, notifications, sesCalls, clock>>

\* Second transaction, up to the e-mail: SES takes the message, or refuses it
\* with a ClientError that send() catches; without e-mail the log says sent
NotifyApplicant(r) ==
  /\ req[r].pc = "committed"
  /\ ~NotificationRaises(r)
  /\ \E mail \in {"sent", "failed"} :
       /\ EmailEnabled \/ mail = "sent"
       /\ sesCalls' = IF EmailEnabled THEN sesCalls \cup {Mail(r, mail)}
                                      ELSE sesCalls
       /\ req' = [req EXCEPT ![r].pc = "mailed", ![r].mail = mail]
  /\ UNCHANGED <<tables, clock>>

\* A slip: the audit row is committed although the notification raised
PricingRaisesAudited(r) ==
  /\ req[r].pc = "committed"
  /\ NotificationRaises(r)
  /\ auditLog' = auditLog \cup {AuditEntry(r)}
  /\ Answer(r, "error")
  /\ UNCHANGED <<app, events, decisions, notifications, sesCalls, clock>>

\* A slip: the notification is tried again and again
PricingRetries(r) ==
  /\ req[r].pc = "committed"
  /\ NotificationRaises(r)
  /\ UNCHANGED vars

\* decimal.InvalidOperation: the audit row flushed before it is rolled back
PricingRaises(r) ==
  /\ req[r].pc = "committed"
  /\ NotificationRaises(r)
  /\ Answer(r, "error")
  /\ UNCHANGED <<tables, sesCalls, clock>>

\* boto3 raises what is no ClientError (no endpoint, no credentials, a timeout)
SesUnreachable(r) ==
  /\ req[r].pc = "committed"
  /\ EmailEnabled
  /\ ~NotificationRaises(r)
  /\ sesCalls' = sesCalls \cup {Mail(r, "unreachable")}
  /\ Answer(r, "error")
  /\ UNCHANGED <<tables, clock>>

\* get_db commits the second transaction
FinishStatusUpdate(r) ==
  /\ req[r].pc = "mailed"
  /\ auditLog' = auditLog \cup {AuditEntry(r)}
  /\ notifications' = notifications \cup {NotificationEntry(r)}
  /\ Answer(r, "ok")
  /\ UNCHANGED <<app, events, decisions, sesCalls, clock>>
-----------------------------------------------------------------------------
(***************************************************************************)
(* The one-transaction handlers. Both call audit.log with UUID objects,    *)
(* which uuid.UUID() rejects; log() swallows that, and no row is written.  *)
(* The UPDATE of an override holds its row lock from flush to commit:      *)
(* writers wait, readers see the old row, so flush and commit are one step.*)
(***************************************************************************)

CommitOverride(r) ==
  /\ req[r].pc = "loaded"
  /\ req[r].op = "override"
  /\ app' = [app EXCEPT ![req[r].app].status =
                          Written(r, StatusFor(req[r].outcome), @)]
  /\ decisions' = decisions \cup {OverrideDecision(r)}
  /\ Answer(r, "ok")
  /\ UNCHANGED <<events, auditLog, notifications, sesCalls, clock>>

\* A slip: the UPDATE writes every column as it was loaded
CommitEscalationWholeRow(r) ==
  /\ req[r].pc = "loaded"
  /\ req[r].op = "escalate"
  /\ app' = [app EXCEPT ![req[r].app].escalated = TRUE,
                        ![req[r].app].status = req[r].loaded]
  /\ events' = events \cup {EscalationEvent(r)}
  /\ Answer(r, "ok")
  /\ UNCHANGED <<decisions, auditLog, notifications, sesCalls, clock>>

CommitEscalation(r) ==
  /\ req[r].pc = "loaded"
  /\ req[r].op = "escalate"
  /\ app' = [app EXCEPT ![req[r].app].escalated = TRUE]
  /\ events' = events \cup {EscalationEvent(r)}
  /\ Answer(r, "ok")
  /\ UNCHANGED <<decisions, auditLog, notifications, sesCalls, clock>>
-----------------------------------------------------------------------------
\* The process, its connection or the pool fails: whatever transaction is open
\* is rolled back, what was committed or mailed stays
Die(r) ==
  /\ req[r].pc \in InFlight
  /\ Answer(r, "dead")
  /\ UNCHANGED <<tables, sesCalls, clock>>

\* Rows reach the table from outside: the API stores none (FailingHandler)
Init ==
  /\ app \in [Apps -> {row \in Row : /\ row.status = "submitted"
                                     /\ row.reviewed = FALSE
                                     /\ row.completed = FALSE
                                     /\ row.escalated = FALSE}]
  /\ events = {}
  /\ decisions = {}
  /\ auditLog = {}
  /\ notifications = {}
  /\ sesCalls = {}
  /\ req = [r \in Requests |-> NotArrived]
  /\ clock = 0

Step(r) ==
  \/ CommitStatusUpdate(r)
  \/ NotifyApplicant(r)
  \/ PricingRaises(r)
  \/ SesUnreachable(r)
  \/ FinishStatusUpdate(r)
  \/ CommitOverride(r)
  \/ CommitEscalation(r)

Arrive(r) ==
  \/ LoadStatusUpdate(r)
  \/ LoadOverride(r)
  \/ LoadEscalation(r)
  \/ Refuse(r)
  \/ FailingHandler(r)

\* Every request has been answered
Quiet ==
  /\ \A r \in Requests : req[r].pc = "answered"
  /\ UNCHANGED vars

Next == (\E r \in Requests : Arrive(r) \/ Step(r) \/ Die(r)) \/ Quiet

\* The event loop resumes every handler whose await has completed
Fairness == \A r \in Requests : WF_vars(Step(r))

Spec == Init /\ [][Next]_vars /\ Fairness
=============================================================================
