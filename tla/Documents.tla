------------------------------- MODULE Documents -------------------------------
(***************************************************************************)
(* Documents: uploads and reviews (documents.py). An upload stores its      *)
(* object in S3 under a key of its own and then inserts the row that refers *)
(* to it; object and row are named by the upload's request.                *)
(*                                                                         *)
(* Neither handler leaves an audit row: AuditService.log cannot turn the   *)
(* UUIDs they pass into UUIDs, and swallows the error.                     *)
(***************************************************************************)
EXTENDS Integers, FiniteSets

CONSTANTS
  Users,         \* who calls
  Staff,         \* workers and admins
  Applications,
  Applicant,     \* the client of each application
  Requests,      \* HTTP requests, each handled once
  Reasons,       \* what a rejection may say
  Null           \* the value of an empty column or field

VARIABLES
  objects,    \* the keys of bucket AWS_S3_BUCKET_DOCUMENTS
  documents,  \* table documents
  req         \* the requests and the local state of their handlers

vars == <<objects, documents, req>>

\* at stands for verified_at, which differs for each review
Row == [application : Applications, uploader : Users, verified : BOOLEAN,
        reason : Reasons \cup {Null}, by : Staff \cup {Null},
        at : Requests \cup {Null}]

\* row is the document as loaded; seen, the requests that had committed when it
\* was; verified and reason, the body of a review
Request ==
  [pc : {"idle", "loaded", "stored", "answered"},
   result : {"none", "ok", "refused", "error", "dead"},
   op : {"none", "upload", "review"}, user : Users \cup {Null},
   application : Applications \cup {Null}, document : Requests \cup {Null},
   verified : BOOLEAN, reason : Reasons \cup {Null},
   row : Row \cup {Null}, seen : SUBSET Requests]

NotArrived ==
  [pc |-> "idle", result |-> "none", op |-> "none", user |-> Null,
   application |-> Null, document |-> Null, verified |-> FALSE,
   reason |-> Null, row |-> Null, seen |-> {}]

InFlight == {"loaded", "stored"}

Succeeded == {r \in Requests : req[r].result = "ok"}
-----------------------------------------------------------------------------
\* _get_application_or_403: a client sees the applications of their own
Authorized(u, a) == u \in Staff \/ Applicant[a] = u

\* The ORM writes a column only if its value differs from the one it loaded
Written(loaded, new, current) == IF new = loaded THEN current ELSE new

\* A slip: a review without a reason leaves the reason of the one before
ReviewedKeepingReason(r, current) ==
  LET loaded == req[r].row
  IN [current EXCEPT
        !.verified = Written(loaded.verified, req[r].verified, @),
        !.reason = IF req[r].reason = Null THEN @ ELSE req[r].reason,
        !.by = Written(loaded.by, req[r].user, @),
        !.at = r]

Reviewed(r, current) ==
  LET loaded == req[r].row
  IN [current EXCEPT
        !.verified = Written(loaded.verified, req[r].verified, @),
        !.reason = Written(loaded.reason, req[r].reason, @),
        !.by = Written(loaded.by, req[r].user, @),
        !.at = r]

NewDocument(r) ==
  [application |-> req[r].application, uploader |-> req[r].user,
   verified |-> FALSE, reason |-> Null, by |-> Null, at |-> Null]

Answer(r, result) ==
  req' = [req EXCEPT ![r].pc = "answered", ![r].result = result]

Begin(r, request) ==
  /\ req[r].pc = "idle"
  /\ req' = [req EXCEPT ![r] = [request EXCEPT !.pc = "loaded",
                                               !.seen = Succeeded]]
  /\ UNCHANGED <<objects, documents>>
-----------------------------------------------------------------------------
LoadUpload(r, u, a) ==
  /\ Authorized(u, a)
  /\ Begin(r, [NotArrived EXCEPT !.op = "upload", !.user = u,
                                 !.application = a])

\* A slip: an error of S3 is logged and forgotten
StoreFailsSilently(r) ==
  /\ req[r].pc = "loaded" /\ req[r].op = "upload"
  /\ req' = [req EXCEPT ![r].pc = "stored"]
  /\ UNCHANGED <<objects, documents>>

\* ClientError becomes DocumentStorageException, the other errors of boto3 pass
\* through; S3 may have stored an object whose answer was lost
StoreFails(r) ==
  /\ req[r].pc = "loaded" /\ req[r].op = "upload"
  /\ objects' \in {objects, objects \cup {r}}
  /\ Answer(r, "error")
  /\ UNCHANGED documents

Store(r) ==
  /\ req[r].pc = "loaded" /\ req[r].op = "upload"
  /\ objects' = objects \cup {r}
  /\ req' = [req EXCEPT ![r].pc = "stored"]
  /\ UNCHANGED documents

\* The commit of get_db
CommitUpload(r) ==
  /\ req[r].pc = "stored"
  /\ documents' = [documents EXCEPT ![r] = NewDocument(r)]
  /\ Answer(r, "ok")
  /\ UNCHANGED objects

LoadReview(r, u, d) ==
  /\ u \in Staff /\ documents[d] /= Null
  /\ \E verified \in BOOLEAN, reason \in Reasons \cup {Null} :
       Begin(r, [NotArrived EXCEPT !.op = "review", !.user = u, !.document = d,
                                   !.verified = verified, !.reason = reason,
                                   !.row = documents[d]])

CommitReview(r) ==
  /\ req[r].pc = "loaded" /\ req[r].op = "review"
  /\ documents' = [documents EXCEPT ![req[r].document] = Reviewed(r, @)]
  /\ Answer(r, "ok")
  /\ UNCHANGED objects

\* 403, 404, or a file that is too large or of a wrong type
Refuse(r) ==
  /\ req[r].pc = "idle"
  /\ Answer(r, "refused")
  /\ UNCHANGED <<objects, documents>>

\* The process or its connection fails, which rolls the transaction back
Die(r) ==
  /\ req[r].pc \in InFlight
  /\ Answer(r, "dead")
  /\ UNCHANGED <<objects, documents>>

Init ==
  /\ objects = {}
  /\ documents = [r \in Requests |-> Null]
  /\ req = [r \in Requests |-> NotArrived]

Next ==
  \E r \in Requests :
    \/ \E u \in Users, a \in Applications : LoadUpload(r, u, a)
    \/ Store(r) \/ StoreFails(r) \/ CommitUpload(r)
    \/ \E u \in Users, d \in Requests : LoadReview(r, u, d)
    \/ CommitReview(r) \/ Refuse(r) \/ Die(r)

Spec == Init /\ [][Next]_vars
-----------------------------------------------------------------------------
(***************************************************************************)
(* Properties.                                                             *)
(***************************************************************************)

\* Rows and requests have the columns and values the code gives them.
TypeOK ==
  /\ objects \subseteq Requests
  /\ documents \in [Requests -> Row \cup {Null}]
  /\ req \in [Requests -> Request]

\* Every row has its object, so that each listed document can be downloaded,
\* and an upload that was confirmed has both; an object without a row is what
\* an upload has left that failed, died or is still at work.
RowsHaveObjects ==
  /\ \A r \in Requests : documents[r] /= Null => r \in objects
  /\ \A r \in Succeeded : req[r].op = "upload" => documents[r] /= Null
  /\ \A r \in objects : \/ documents[r] /= Null
                        \/ req[r].pc = "stored"
                        \/ req[r].result \in {"error", "dead"}

\* The confirmed reviews of document d
ReviewsOf(d) == {r \in Succeeded : req[r].op = "review" /\ req[r].document = d}

\* If the last review of a document had seen all others, the row is its verdict:
\* decision, reason and reviewer. Verdicts mix only where reviews overlap, and
\* even then a document counts as verified only if a reviewer verified it.
LastReviewHolds ==
  \A d \in Requests : documents[d] /= Null =>
    LET r == documents[d].at
    IN /\ ReviewsOf(d) /= {} => r \in ReviewsOf(d)
       /\ r \in ReviewsOf(d) /\ ReviewsOf(d) \ {r} \subseteq req[r].seen
            => /\ documents[d].verified = req[r].verified
               /\ documents[d].reason = req[r].reason
               /\ documents[d].by = req[r].user
       /\ documents[d].verified => \E q \in ReviewsOf(d) : req[q].verified
=============================================================================
