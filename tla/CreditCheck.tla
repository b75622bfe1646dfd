----------------------------- MODULE CreditCheck -----------------------------
(***************************************************************************)
(* Credit checks: consent.py records an applicant's consent, the endpoint  *)
(* of credit_bureau.py opens a snapshot on the strength of it, TransUnion  *)
(* calls webhooks.py, and a Celery worker (bureau_tasks.py) writes the     *)
(* report into the snapshot and asks for an automated decision.            *)
(*                                                                         *)
(* One HTTP request is one member of Requests, which also names the row it *)
(* inserts; one callback of TransUnion is one member of Hooks, which also  *)
(* names its task and, if it carries one, its bureau_request_id. Tasks are *)
(* acknowledged late: when a worker dies the broker delivers its task      *)
(* again, when only the process at work dies Celery acknowledges the task  *)
(* and it is lost.                                                         *)
(***************************************************************************)
EXTENDS Integers, FiniteSets

CONSTANTS
  Apps,        \* rows of table applications
  Requests,    \* HTTP requests for a consent or a check
  Hooks,       \* callbacks of TransUnion
  Clients,     \* users with role CLIENT
  Workers,     \* users with role WORKER
  Admins,      \* users with role ADMIN
  Applicant,   \* applications.applicant_id
  Assigned,    \* applications.assigned_worker_id: no handler that completes
               \* writes it
  IdOnFile,    \* users with an ID number on file
  Scores,      \* credit scores
  Null         \* the value of an empty column or field

Users == Clients \cup Workers \cup Admins
Staff == Workers \cup Admins

ASSUME RowsAreLegal == /\ Applicant \in [Apps -> Users]
                       /\ Assigned \in [Apps -> Workers \cup {Null}]
ASSUME NullIsNoValue ==
  Null \notin Users \cup Apps \cup Requests \cup Hooks \cup Scores

VARIABLES
  consents,    \* table consents: rows are only inserted, no endpoint revokes
  snapshots,   \* table credit_snapshots, by the request that inserts the row
  auditLog,    \* table audit_logs, the rows about consents and snapshots
  req,         \* the requests and the local state of their handlers
  hook,        \* the callbacks and the local state of their tasks
  decisions    \* tasks run_automated_decision

vars == <<consents, snapshots, auditLog, req, hook, decisions>>

\* The purpose of a check, and another of the three
Purposes == {"credit_check", "affordability_assessment"}

Consent == [by : Requests, app : Apps, user : Users, purpose : Purposes]

Snapshot == [status : {"none", "pending", "success"}, app : Apps \cup {Null},
             consent : Requests \cup {Null}, score : Scores \cup {Null},
             source : Hooks \cup {Null}]

NoSnapshot == [status |-> "none", app |-> Null, consent |-> Null,
               score |-> Null, source |-> Null]

AuditRow == [by : Requests, action : {"consent_granted", "bureau_request"}]

Request == [pc : {"idle", "loaded", "committed", "answered"},
            result : {"none", "ok", "refused", "error", "dead"},
            op : {"none", "consent", "check"}, user : Users \cup {Null},
            app : Apps \cup {Null}, purpose : Purposes,
            consent : Requests \cup {Null}]

NotArrived == [pc |-> "idle", result |-> "none", op |-> "none", user |-> Null,
               app |-> Null, purpose |-> "credit_check", consent |-> Null]

\* A callback refers to a snapshot, or to none that exists; named: it carries a
\* bureau_request_id; scored: it has a field for the score, if only an empty one
Hook == [pc : {"unsent", "rejected", "queued", "running", "committed",
               "triggered", "done", "lost"},
         ref : Requests \cup {Null}, named : BOOLEAN, scored : BOOLEAN,
         score : Scores \cup {Null}, loaded : Snapshot]

NotSent == [pc |-> "unsent", ref |-> Null, named |-> FALSE, scored |-> FALSE,
            score |-> Null, loaded |-> NoSnapshot]

AtWork == {"running", "committed", "triggered"}

DecisionTask == [hook : Hooks, snapshot : Requests, app : Apps,
                 result : {"queued", "error"}]
-----------------------------------------------------------------------------
(***************************************************************************)
(* Helpers.                                                                *)
(***************************************************************************)

\* The consents a handler's SELECT finds
Active(a, u, purpose) ==
  {c \in consents : c.app = a /\ c.user = u /\ c.purpose = purpose}

\* A slip the runs must notice: a consent for any purpose will do
ValidForCheckAnyPurpose(a) == {c \in consents : c.app = a}

ValidForCheck(a) == Active(a, Applicant[a], "credit_check")

\* require_roles, then: a worker checks its own applications only
MayCheck(u, a) ==
  \/ u \in Admins
  \/ u \in Workers /\ Assigned[a] = u

Answer(r, result) ==
  req' = [req EXCEPT ![r].pc = "answered", ![r].result = result]

\* scalar_one_or_none: a second row is an error
Refusal(found) == IF Cardinality(found) > 1 THEN "error" ELSE "refused"
-----------------------------------------------------------------------------
(***************************************************************************)
(* POST /consent.                                                          *)
(***************************************************************************)

\* No active consent is found: no constraint of the table keeps the answer true
LoadConsent(r) ==
  /\ req[r].pc = "idle"
  /\ \E a \in Apps, purpose \in Purposes :
       /\ Active(a, Applicant[a], purpose) = {}
       /\ req' = [req EXCEPT ![r] =
                    [pc |-> "loaded", result |-> "none", op |-> "consent",
                     user |-> Applicant[a], app |-> a, purpose |-> purpose,
                     consent |-> Null]]
  /\ UNCHANGED <<consents, snapshots, auditLog, hook, decisions>>

\* 422 without a grant, 404 for another applicant's application, 409 with a
\* consent on record, 500 with two
RefuseConsent(r) ==
  /\ req[r].pc = "idle"
  /\ \E u \in Users, a \in Apps, purpose \in Purposes, granted \in BOOLEAN :
       LET found == IF granted /\ Applicant[a] = u THEN Active(a, u, purpose)
                    ELSE {}
       IN /\ ~(granted /\ Applicant[a] = u /\ found = {})
          /\ req' = [req EXCEPT ![r] = [NotArrived EXCEPT
                       !.pc = "answered", !.result = Refusal(found),
                       !.op = "consent"]]
  /\ UNCHANGED <<consents, snapshots, auditLog, hook, decisions>>

CommitConsent(r) ==
  /\ req[r].pc = "loaded"
  /\ req[r].op = "consent"
  /\ consents' = consents \cup {[by |-> r, app |-> req[r].app,
                                 user |-> req[r].user,
                                 purpose |-> req[r].purpose]}
  /\ req' = [req EXCEPT ![r].pc = "committed"]
  /\ UNCHANGED <<snapshots, auditLog, hook, decisions>>

\* A slip: the audit row is left to a transaction nobody commits
AuditConsentNever(r) ==
  /\ req[r].pc = "committed"
  /\ Answer(r, "ok")
  /\ UNCHANGED <<consents, snapshots, auditLog, hook, decisions>>

\* Second transaction
AuditConsent(r) ==
  /\ req[r].pc = "committed"
  /\ auditLog' = auditLog \cup {[by |-> r, action |-> "consent_granted"]}
  /\ Answer(r, "ok")
  /\ UNCHANGED <<consents, snapshots, hook, decisions>>
-----------------------------------------------------------------------------
(***************************************************************************)
(* POST /credit-bureau/check.                                              *)
(***************************************************************************)

\* Exactly one consent is found
LoadCheck(r) ==
  /\ req[r].pc = "idle"
  /\ \E u \in Staff, a \in Apps :
       /\ MayCheck(u, a)
       /\ Applicant[a] \in IdOnFile
       /\ \E c \in ValidForCheck(a) :
            /\ ValidForCheck(a) = {c}
            /\ req' = [req EXCEPT ![r] =
                         [pc |-> "loaded", result |-> "none", op |-> "check",
                          user |-> u, app |-> a, purpose |-> "credit_check",
                          consent |-> c.by]]
  /\ UNCHANGED <<consents, snapshots, auditLog, hook, decisions>>

\* 403 without role, assignment or consent, 422 without ID number, 500 with
\* two consents
RefuseCheck(r) ==
  /\ req[r].pc = "idle"
  /\ \E u \in Users, a \in Apps :
       LET found == IF MayCheck(u, a) THEN ValidForCheck(a) ELSE {}
       IN /\ Cardinality(found) # 1 \/ Applicant[a] \notin IdOnFile
          /\ req' = [req EXCEPT ![r] = [NotArrived EXCEPT
                       !.pc = "answered", !.result = Refusal(found),
                       !.op = "check"]]
  /\ UNCHANGED <<consents, snapshots, auditLog, hook, decisions>>

\* A slip: the audit row is written after the commit and lost with the request
CommitCheckUnaudited(r) ==
  /\ req[r].pc = "loaded"
  /\ req[r].op = "check"
  /\ snapshots' = [snapshots EXCEPT ![r] =
                     [NoSnapshot EXCEPT !.status = "pending",
                                        !.app = req[r].app,
                                        !.consent = req[r].consent]]
  /\ Answer(r, "error")
  /\ UNCHANGED <<consents, auditLog, hook, decisions>>

\* Snapshot and audit row are committed together; then the import of the task
\* to dispatch, a name bureau_tasks does not define, raises
CommitCheck(r) ==
  /\ req[r].pc = "loaded"
  /\ req[r].op = "check"
  /\ snapshots' = [snapshots EXCEPT ![r] =
                     [NoSnapshot EXCEPT !.status = "pending",
                                        !.app = req[r].app,
                                        !.consent = req[r].consent]]
  /\ auditLog' = auditLog \cup {[by |-> r, action |-> "bureau_request"]}
  /\ Answer(r, "error")
  /\ UNCHANGED <<consents, hook, decisions>>

\* Process, connection or pool fails: the open transaction is rolled back
Die(r) ==
  /\ req[r].pc \in {"loaded", "committed"}
  /\ Answer(r, "dead")
  /\ UNCHANGED <<consents, snapshots, auditLog, hook, decisions>>
-----------------------------------------------------------------------------
(***************************************************************************)
(* POST /webhooks/transunion and the task process_bureau_webhook.          *)
(***************************************************************************)

\* A signed callback is enqueued whatever it reports
ReceiveHook(w) ==
  /\ hook[w].pc = "unsent"
  /\ \E ref \in Requests \cup {Null}, named \in BOOLEAN, scored \in BOOLEAN,
        score \in Scores \cup {Null} :
       /\ score # Null => scored
       /\ hook' = [hook EXCEPT ![w] =
                     [pc |-> "queued", ref |-> ref, named |-> named,
                      scored |-> scored, score |-> score,
                      loaded |-> NoSnapshot]]
  /\ UNCHANGED <<consents, snapshots, auditLog, req, decisions>>

\* No signature, a wrong one, no JSON, or a broker that cannot be reached
RejectHook(w) ==
  /\ hook[w].pc = "unsent"
  /\ hook' = [hook EXCEPT ![w].pc = "rejected"]
  /\ UNCHANGED <<consents, snapshots, auditLog, req, decisions>>

Known(ref) == IF ref = Null THEN FALSE ELSE snapshots[ref].status # "none"

\* db.get
StartTask(w) ==
  /\ hook[w].pc = "queued"
  /\ Known(hook[w].ref)
  /\ hook' = [hook EXCEPT ![w].pc = "running",
                          ![w].loaded = snapshots[hook[w].ref]]
  /\ UNCHANGED <<consents, snapshots, auditLog, req, decisions>>

\* A slip: what the task cannot find it returns to the queue
KeepUnknown(w) ==
  /\ hook[w].pc = "queued"
  /\ ~Known(hook[w].ref)
  /\ UNCHANGED vars

\* snapshot_not_found, no_reference_id
IgnoreUnknown(w) ==
  /\ hook[w].pc = "queued"
  /\ ~Known(hook[w].ref)
  /\ hook' = [hook EXCEPT ![w].pc = "done"]
  /\ UNCHANGED <<consents, snapshots, auditLog, req, decisions>>

\* The ORM writes a column only if its value differs from the one it loaded
Written(new, loaded, current) == IF new = loaded THEN current ELSE new

\* payload.get("bureau_request_id")
RequestId(w) == IF hook[w].named THEN w ELSE Null

\* A slip: a callback without a score sets some default
ReportedDefault(row, w) ==
  [row EXCEPT !.status = "success", !.source = RequestId(w),
              !.score = IF hook[w].scored THEN hook[w].score
                        ELSE CHOOSE s \in Scores : TRUE]

\* A slip: a status that no reader of the column knows
ReportedComplete(row, w) ==
  [row EXCEPT !.status = "complete", !.source = RequestId(w),
              !.score = hook[w].score]

\* The row after the task: a callback without the field leaves the score
\* alone, one with an empty field empties it, one without an id empties that
Reported(row, w) ==
  LET loaded == hook[w].loaded
      score == IF hook[w].scored THEN hook[w].score ELSE loaded.score
  IN [row EXCEPT !.status = Written("success", loaded.status, @),
                 !.source = Written(RequestId(w), loaded.source, @),
                 !.score = Written(score, loaded.score, @)]

CommitReport(w) ==
  /\ hook[w].pc = "running"
  /\ snapshots' = [snapshots EXCEPT ![hook[w].ref] = Reported(@, w)]
  /\ hook' = [hook EXCEPT ![w].pc = "committed"]
  /\ UNCHANGED <<consents, auditLog, req, decisions>>

\* A slip: the decision is asked for before the report is committed
TriggerDecisionEarly(w) ==
  /\ hook[w].pc = "running"
  /\ decisions' = decisions \cup
       {[hook |-> w, snapshot |-> hook[w].ref,
         app |-> snapshots[hook[w].ref].app, result |-> "queued"]}
  /\ hook' = [hook EXCEPT ![w].pc = "triggered"]
  /\ UNCHANGED <<consents, snapshots, auditLog, req>>

\* run_automated_decision.delay
TriggerDecision(w) ==
  /\ hook[w].pc = "committed"
  /\ decisions' = decisions \cup
       {[hook |-> w, snapshot |-> hook[w].ref,
         app |-> snapshots[hook[w].ref].app, result |-> "queued"]}
  /\ hook' = [hook EXCEPT ![w].pc = "triggered"]
  /\ UNCHANGED <<consents, snapshots, auditLog, req>>

\* acks_late
Acknowledge(w) ==
  /\ hook[w].pc = "triggered"
  /\ hook' = [hook EXCEPT ![w].pc = "done"]
  /\ UNCHANGED <<consents, snapshots, auditLog, req, decisions>>

\* The worker dies: the broker delivers the task again
Redeliver(w) ==
  /\ hook[w].pc \in AtWork
  /\ hook' = [hook EXCEPT ![w].pc = "queued"]
  /\ UNCHANGED <<consents, snapshots, auditLog, req, decisions>>

\* The process at work dies, or the task raises: acknowledged all the same
Lose(w) ==
  /\ hook[w].pc \in AtWork
  /\ hook' = [hook EXCEPT ![w].pc = "lost"]
  /\ UNCHANGED <<consents, snapshots, auditLog, req, decisions>>

\* ApplicationService calls EmailNotificationService without its session
RunDecision(t) ==
  /\ t.result = "queued"
  /\ decisions' = (decisions \ {t}) \cup {[t EXCEPT !.result = "error"]}
  /\ UNCHANGED <<consents, snapshots, auditLog, req, hook>>
-----------------------------------------------------------------------------
Init ==
  /\ consents = {}
  /\ snapshots = [r \in Requests |-> NoSnapshot]
  /\ auditLog = {}
  /\ req = [r \in Requests |-> NotArrived]
  /\ hook = [w \in Hooks |-> NotSent]
  /\ decisions = {}

Arrive(r) ==
  \/ LoadConsent(r)
  \/ RefuseConsent(r)
  \/ LoadCheck(r)
  \/ RefuseCheck(r)

Handle(r) ==
  \/ CommitConsent(r)
  \/ AuditConsent(r)
  \/ CommitCheck(r)

Take(w) == StartTask(w) \/ IgnoreUnknown(w)

\* Every request and every callback has been dealt with
Quiet ==
  /\ \A r \in Requests : req[r].pc = "answered"
  /\ \A w \in Hooks : hook[w].pc \in {"rejected", "done", "lost"}
  /\ \A t \in decisions : t.result # "queued"
  /\ UNCHANGED vars

Next ==
  \/ \E r \in Requests : Arrive(r) \/ Handle(r) \/ Die(r)
  \/ \E w \in Hooks : \/ ReceiveHook(w) \/ RejectHook(w)
                      \/ Take(w) \/ CommitReport(w)
                      \/ TriggerDecision(w) \/ Acknowledge(w)
                      \/ Redeliver(w) \/ Lose(w)
  \/ \E t \in decisions : RunDecision(t)
  \/ Quiet

\* Handlers are resumed, workers take what is queued, and no task kills its
\* worker every time it is delivered
Fairness ==
  /\ \A r \in Requests : WF_vars(Handle(r))
  /\ \A w \in Hooks : /\ WF_vars(Take(w))
                      /\ SF_vars(CommitReport(w))
                      /\ SF_vars(TriggerDecision(w))
                      /\ SF_vars(Acknowledge(w))

Spec == Init /\ [][Next]_vars /\ Fairness
=============================================================================
