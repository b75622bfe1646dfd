---------------------------- MODULE LifecycleProps ----------------------------
(***************************************************************************)
(* What the lifecycle handlers promise, and what the comments and documents *)
(* of the repository say of them.                                          *)
(***************************************************************************)
EXTENDS Lifecycle

\* Every table, mail and request has the columns and values the code gives it,
\* and a handler at work knows its caller and its application.
TypeOK ==
  /\ app \in [Apps -> Row]
  /\ events \subseteq Event
  /\ decisions \subseteq Decision
  /\ auditLog \subseteq AuditRow
  /\ notifications \subseteq Notification
  /\ sesCalls \subseteq SesCall
  /\ req \in [Requests -> Request]
  /\ \A r \in Requests :
       req[r].pc \in InFlight => req[r].user \in Users /\ req[r].app \in Apps
  /\ clock \in Nat
-----------------------------------------------------------------------------
(***************************************************************************)
(* Safety.                                                                 *)
(***************************************************************************)

\* Some record of a history (evs, decs) put application a into status s, or a
\* is new.
Explained(evs, decs, a, s) ==
  \/ s = "submitted"
  \/ \E e \in evs : e.app = a /\ e.kind = "status" /\ e.to = s
  \/ \E d \in decs : d.app = a /\ StatusFor(d.outcome) = s

\* However handlers interleave, the status of an application, the status any
\* handler works with and the one any history row starts from were each put
\* there by a committed event or decision: no handler writes a value that only
\* a rolled-back transaction ever had.
StatusExplained ==
  /\ \A a \in Apps : Explained(events, decisions, a, app[a].status)
  /\ \A r \in Requests : req[r].pc \in InFlight =>
       Explained(events, decisions, req[r].app, req[r].loaded)
  /\ \A e \in events : Explained(events, decisions, e.app, e.from)

HasStatusEvent(a, targets) ==
  \E e \in events : e.app = a /\ e.kind = "status" /\ e.to \in targets

\* completed_at, reviewed_at and escalated_at are set exactly when the history
\* holds an event that sets them: no later update clears one, and neither an
\* override nor a handler that lost the race for the status column sets one.
StampsMatchHistory ==
  \A a \in Apps :
    /\ app[a].completed <=> HasStatusEvent(a, Closing)
    /\ app[a].reviewed <=> HasStatusEvent(a, {"under_review"})
    /\ app[a].escalated <=>
         \E e \in events : e.app = a /\ e.kind = "escalation"

\* Row x belongs to the status change that event e records.
SameChange(x, e) == e.by = x.by /\ e.app = x.app /\ e.kind = "status"

\* The audit trail, the notification log and the applicant's mail only ever
\* speak of a status change that was committed before: a request whose first
\* transaction failed leaves none of them, whatever fails later.
TrailFollowsCommit ==
  /\ \A x \in auditLog :
       \E e \in events : SameChange(x, e) /\ e.from = x.from /\ e.to = x.to
  /\ \A n \in notifications :
       \E e \in events : SameChange(n, e) /\ n.event = MailFor(e.to)
  /\ \A c \in sesCalls :
       \E e \in events : SameChange(c, e) /\ c.event = MailFor(e.to)

\* The audit row and the notification row of a status update are committed
\* together or not at all, wherever the request dies.
SecondTransactionAtomic ==
  \A r \in Requests :
    (\E x \in auditLog : x.by = r) <=> (\E n \in notifications : n.by = r)

\* A notification logged as sent was accepted by SES, one logged as failed was
\* not, as long as e-mail is enabled.
LogTellsTheMail ==
  EmailEnabled =>
    \A n \in notifications :
      \E c \in sesCalls :
        c.by = n.by /\ c.event = n.event /\ c.result = n.status

\* A caller who was answered without an error finds what was asked for in the
\* tables: the event, the audit row and the notification of a status update,
\* the decision of an override, the event of an escalation.
SuccessIsRecorded ==
  \A r \in Requests : req[r].result = "ok" =>
    /\ req[r].op = "update_status" =>
         /\ \E e \in events : e.by = r /\ e.to = req[r].to
         /\ \E x \in auditLog : x.by = r
         /\ \E n \in notifications : n.by = r
    /\ req[r].op = "override" => \E d \in decisions : d.by = r
    /\ req[r].op = "escalate" =>
         \E e \in events : e.by = r /\ e.kind = "escalation"

\* An applicant is told of an approval only on terms that a decision about
\* that application states, never on the text of missing ones.
ApprovalHasTerms ==
  \A c \in sesCalls : c.event = "approved" =>
    \E d \in decisions : d.app = c.app /\ d.terms = "below_1000"

\* What a handler has already done follows from where it stands: the part of
\* the inductive invariant that is no property of its own.
PastFirstCommit ==
  \A r \in Requests : req[r].pc \in {"committed", "mailed"} =>
    /\ req[r].op = "update_status"
    /\ \E e \in events : /\ e.by = r /\ e.app = req[r].app /\ e.kind = "status"
                        /\ e.from = req[r].loaded /\ e.to = req[r].to

PastMail ==
  EmailEnabled =>
    \A r \in Requests : req[r].pc = "mailed" =>
      \E c \in sesCalls : /\ c.by = r /\ c.event = MailFor(req[r].to)
                           /\ c.result = req[r].mail

OkIsFinal == \A r \in Requests : req[r].result = "ok" => req[r].pc = "answered"

EventsAreCommitted ==
  \A e \in events : req[e.by].pc \notin {"idle", "loaded"}

HandlerPhases ==
  /\ PastFirstCommit
  /\ PastMail
  /\ OkIsFinal
  /\ EventsAreCommitted

-----------------------------------------------------------------------------
(***************************************************************************)
(* Refinement: the handlers implement StatusHistory, the requests being its *)
(* writers and status events and decisions its records.                    *)
(***************************************************************************)
StatusRecords(evs, decs) ==
  {[by |-> e.by, app |-> e.app, to |-> e.to] :
     e \in {x \in evs : x.kind = "status"}}
  \cup {[by |-> d.by, app |-> d.app, to |-> StatusFor(d.outcome)] : d \in decs}

H == INSTANCE StatusHistory WITH
       Writers <- Requests,
       status <- [a \in Apps |-> app[a].status],
       history <- StatusRecords(events, decisions)

\* Whatever the handlers do, and wherever they die, the status column changes
\* only to what the same transaction records, once per request and for good: an
\* escalation never writes back the status it has read.
HistoryImplemented == H!Spec

\* Every request the API has begun to handle is answered in the end.
EveryRequestAnswered ==
  \A r \in Requests : req[r].pc \in InFlight ~> req[r].pc = "answered"
-----------------------------------------------------------------------------
(***************************************************************************)
(* What the repository says and the code does not do.                      *)
(***************************************************************************)

\* Every status event logs a transition that the application made in the same
\* transaction (models.py: "Immutable log of all application state transitions").
EventsAreTransitions ==
  [][\A e \in events' \ events : e.kind = "status" =>
       app[e.app].status = e.from /\ app'[e.app].status = e.to]_vars

\* A committed status change whose request was answered, with or without an
\* error, is in the audit trail (audit_service.py: every user action is).
StatusChangesAudited ==
  \A e \in events : e.kind = "status" /\ req[e.by].result \in {"ok", "error"} =>
    \E x \in auditLog : x.by = e.by

\* With no status update in between, the status is the one the latest decision
\* calls for (decisions.py: "Updates application status accordingly").
LatestOverrideDecides ==
  \A d \in decisions :
    /\ IsLatest(d)
    /\ ~\E e \in events : e.app = d.app /\ e.kind = "status"
    => app[d.app].status = StatusFor(d.outcome)
=============================================================================
