-------------------------- MODULE CreditCheckProps --------------------------
(***************************************************************************)
(* What the credit check promises, and what the comments of the repository *)
(* say of it.                                                              *)
(***************************************************************************)
EXTENDS CreditCheck

\* Every table, request and task has the columns and values the code gives it,
\* and what is at work knows what it works on.
TypeOK ==
  /\ consents \subseteq Consent
  /\ snapshots \in [Requests -> Snapshot]
  /\ auditLog \subseteq AuditRow
  /\ req \in [Requests -> Request]
  /\ \A r \in Requests : req[r].pc \in {"loaded", "committed"} =>
       req[r].user \in Users /\ req[r].app \in Apps
  /\ hook \in [Hooks -> Hook]
  /\ decisions \subseteq DecisionTask
-----------------------------------------------------------------------------
(***************************************************************************)
(* Safety.                                                                 *)
(***************************************************************************)

Opened(r) == snapshots[r].status # "none"

\* No credit check without the recorded consent of the applicant himself, for
\* this application and for this purpose, whatever callbacks later write into
\* the snapshot and however grants and checks interleave.
ConsentGate ==
  \A r \in Requests : Opened(r) =>
    \E c \in consents : /\ c.by = snapshots[r].consent
                        /\ c.app = snapshots[r].app
                        /\ c.user = Applicant[c.app]
                        /\ c.purpose = "credit_check"

\* A snapshot and the audit row of its request are committed together or not
\* at all, although the request that commits them always ends in an error.
SnapshotsAudited ==
  \A r \in Requests :
    Opened(r) <=> [by |-> r, action |-> "bureau_request"] \in auditLog

\* An applicant who was told of a recorded consent finds it on record and in
\* the audit trail, and no consent is audited that is not on record.
ConsentsAudited ==
  /\ \A r \in Requests : req[r].result = "ok" =>
       [by |-> r, action |-> "consent_granted"] \in auditLog
  /\ \A x \in auditLog : x.action = "consent_granted" =>
       \E c \in consents : c.by = x.by

Accepted(w) == hook[w].pc \notin {"unsent", "rejected"}

\* The callbacks about a snapshot
About(r) == {w \in Hooks : Accepted(w) /\ hook[w].ref = r}

\* The score in a snapshot was reported by some callback about it, the request
\* id in it is that of a callback about it too, and a snapshot that is not yet
\* a success holds neither: redelivered and racing tasks mix up no rows. If
\* one callback only is about a snapshot then the row is that callback's report,
\* no more and no less, however often its task was delivered.
ReportProvenance ==
  \A r \in Requests :
    /\ snapshots[r].score # Null =>
         \E w \in About(r) : hook[w].score = snapshots[r].score
    /\ snapshots[r].source # Null =>
         \E w \in About(r) : hook[w].named /\ w = snapshots[r].source
    /\ IF snapshots[r].status = "success"
       THEN /\ About(r) # {}
            /\ \A w \in Hooks : About(r) = {w} =>
                 /\ snapshots[r].score = hook[w].score
                 /\ snapshots[r].source = RequestId(w)
       ELSE snapshots[r].score = Null /\ snapshots[r].source = Null

\* A decision is asked for only on a committed report, for the application of
\* its snapshot and on behalf of a callback about that snapshot.
DecisionsFollowReports ==
  \A t \in decisions :
    /\ snapshots[t.snapshot].status = "success"
    /\ snapshots[t.snapshot].app = t.app
    /\ hook[t.hook].ref = t.snapshot

\* Every request begun is answered, and every callback accepted is processed
\* or, if its process dies with it, lost; it is not delivered for ever.
EverythingSettled ==
  /\ \A r \in Requests :
       req[r].pc \in {"loaded", "committed"} ~> req[r].pc = "answered"
  /\ \A w \in Hooks :
       hook[w].pc = "queued" ~> hook[w].pc \in {"done", "lost"}
-----------------------------------------------------------------------------
(***************************************************************************)
(* What the repository says and the code does not do.                      *)
(***************************************************************************)

\* A consent that has been granted cannot be granted again (consent.py:
\* "Consent for this purpose has already been granted for this application").
ConsentGrantedOnce ==
  \A c, d \in consents : c.app = d.app /\ c.user = d.user
                         /\ c.purpose = d.purpose => c = d
=============================================================================
