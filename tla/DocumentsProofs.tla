---------------------------- MODULE DocumentsProofs ----------------------------
(***************************************************************************)
(* Proofs about Documents, for any users, applications and requests of      *)
(* which Null is none: every row has its object, and the last review holds *)
(* unless reviews overlap.                                                 *)
(***************************************************************************)
EXTENDS Documents, TLAPS

\* What is asked of the constants: Null is the value of nothing else
NullApart == Null \notin Row /\ Null \notin Requests

\* A row is its upload's; an upload at work has none yet, and a stored one its
\* object. What has an object has stored it, or failed, or died.
UploadPhases ==
  \A r \in Requests :
    /\ documents[r] /= Null => /\ req[r].op = "upload"
                               /\ req[r].result = "ok"
                               /\ r \in objects
    /\ req[r].pc = "stored" => req[r].op = "upload" /\ r \in objects
    /\ req[r].result = "ok" /\ req[r].op = "upload" => documents[r] /= Null
    /\ r \in objects => \/ documents[r] /= Null
                        \/ req[r].pc = "stored"
                        \/ req[r].result \in {"error", "dead"}

\* Where a handler stands and whom it serves
HandlerPhases ==
  \A r \in Requests :
    /\ req[r].pc \in {"idle", "loaded", "stored"} => req[r].result = "none"
    /\ req[r].pc \in InFlight => req[r].op \in {"upload", "review"}
    /\ req[r].pc \in InFlight /\ req[r].op = "upload" =>
         req[r].user \in Users /\ req[r].application \in Applications
    /\ req[r].op = "review" => req[r].user \in Staff
    /\ req[r].pc = "loaded" /\ req[r].op = "review" => req[r].row \in Row
    /\ req[r].seen \subseteq Succeeded

\* A document under review is there, and the row that a handler has loaded is
\* the row of now unless another review has committed in between.
ReviewsAreFresh ==
  \A r \in Requests : req[r].op = "review" =>
    /\ req[r].document \in Requests
    /\ \A d \in Requests : req[r].document = d =>
         /\ documents[d] /= Null
         /\ req[r].pc = "loaded" /\ ReviewsOf(d) \subseteq req[r].seen
              => documents[d] = req[r].row

IInv == /\ TypeOK
        /\ UploadPhases
        /\ HandlerPhases
        /\ ReviewsAreFresh
        /\ LastReviewHolds
-----------------------------------------------------------------------------
\* What a step of one request leaves alone

\* The requests other than r stay as they are
Others(r) ==
  /\ req' = [q \in Requests |-> req'[q]]
  /\ \A q \in Requests : q /= r => req'[q] = req[q]

LEMMA Init_IInv ==
  ASSUME NullApart, Init
  PROVE  IInv
  <1>1. \A r \in Requests : req[r] = NotArrived /\ documents[r] = Null
    BY DEF Init
  <1>2. NotArrived \in Request
    BY DEF NotArrived, Request
  <1>3. TypeOK
    BY <1>1, <1>2 DEF Init, TypeOK
  <1>4. UploadPhases
    BY <1>1 DEF Init, UploadPhases, NotArrived
  <1>5. HandlerPhases
    BY <1>1 DEF HandlerPhases, NotArrived, InFlight
  <1>6. ReviewsAreFresh /\ LastReviewHolds
    BY <1>1 DEF ReviewsAreFresh, LastReviewHolds, NotArrived
  <1> QED
    BY <1>3, <1>4, <1>5, <1>6 DEF IInv

\* A request ends without success: refused, dead, or failed in S3
LEMMA Ended_IInv ==
  ASSUME IInv, NEW r \in Requests, UNCHANGED documents,
         NEW result \in {"refused", "error", "dead"}, Answer(r, result),
         \/ req[r].pc \in {"idle", "loaded", "stored"} /\ objects' = objects
            /\ (req[r].pc = "idle" \/ result = "dead")
         \/ req[r].pc = "loaded" /\ result = "error"
            /\ objects' \in {objects, objects \cup {r}}
  PROVE  IInv'
  <1>1. /\ Others(r)
        /\ req'[r] = [req[r] EXCEPT !.pc = "answered", !.result = result]
    BY DEF IInv, TypeOK, Answer, Others
  <1>2. /\ Others(r)
        /\ req'[r] \in Request /\ req'[r].pc = "answered"
        /\ req'[r].result = result /\ req'[r].op = req[r].op
        /\ req'[r].document = req[r].document /\ req'[r].user = req[r].user
        /\ req'[r].seen = req[r].seen
    BY <1>1 DEF IInv, TypeOK, Request
  <1>3. req[r].result = "none"
    BY DEF IInv, HandlerPhases
  <1>4. Succeeded' = Succeeded
    BY <1>2, <1>3 DEF Succeeded, Others
  <1>5. \A d \in Requests : ReviewsOf(d)' = ReviewsOf(d)
    BY <1>2, <1>3, <1>4 DEF ReviewsOf, Others, Succeeded
  <1>6. TypeOK'
    BY <1>2 DEF IInv, TypeOK, Others
  <1>7. UploadPhases'
    BY <1>2, <1>3 DEF IInv, UploadPhases, Others
  <1>8. HandlerPhases'
    BY <1>2, <1>4 DEF IInv, HandlerPhases, InFlight, Others
  <1>9. ReviewsAreFresh'
    BY <1>2, <1>5 DEF IInv, ReviewsAreFresh, Others
  <1>10. LastReviewHolds'
    BY <1>2, <1>3, <1>5
       DEF IInv, LastReviewHolds, ReviewsOf, Succeeded, Others
  <1> QED
    BY <1>6, <1>7, <1>8, <1>9, <1>10 DEF IInv

LEMMA LoadUpload_IInv ==
  ASSUME IInv, NEW r \in Requests, NEW u \in Users, NEW a \in Applications,
         LoadUpload(r, u, a)
  PROVE  IInv'
  <1>1. /\ Others(r)
        /\ req'[r] = [NotArrived EXCEPT !.op = "upload", !.user = u,
                        !.application = a, !.pc = "loaded", !.seen = Succeeded]
        /\ documents' = documents /\ objects' = objects /\ req[r].pc = "idle"
    BY DEF LoadUpload, Begin, IInv, TypeOK, Others, NotArrived
  <1>2. /\ Others(r)
        /\ documents' = documents /\ objects' = objects
        /\ req'[r] \in Request /\ req'[r].pc = "loaded"
        /\ req'[r].result = "none" /\ req'[r].op = "upload"
        /\ req'[r].user = u /\ req'[r].application = a
        /\ req'[r].seen = Succeeded /\ req[r].pc = "idle"
    BY <1>1 DEF NotArrived, Request, Succeeded
  <1>3. req[r].result = "none"
    BY <1>1 DEF IInv, HandlerPhases
  <1>4. Succeeded' = Succeeded
    BY <1>2, <1>3 DEF Succeeded, Others
  <1>5. \A d \in Requests : ReviewsOf(d)' = ReviewsOf(d)
    BY <1>2, <1>3, <1>4 DEF ReviewsOf, Others, Succeeded
  <1>6. TypeOK'
    BY <1>2 DEF IInv, TypeOK, Others
  <1>7. UploadPhases'
    BY <1>2, <1>3 DEF IInv, UploadPhases, Others
  <1>8. HandlerPhases'
    BY <1>2, <1>4 DEF IInv, HandlerPhases, InFlight, Others
  <1>9. ReviewsAreFresh'
    BY <1>2, <1>5 DEF IInv, ReviewsAreFresh, Others
  <1>10. LastReviewHolds'
    BY <1>2, <1>3, <1>5
       DEF IInv, LastReviewHolds, ReviewsOf, Succeeded, Others
  <1> QED
    BY <1>6, <1>7, <1>8, <1>9, <1>10 DEF IInv

LEMMA LoadReview_IInv ==
  ASSUME IInv, NEW r \in Requests, NEW u \in Users, NEW d \in Requests,
         LoadReview(r, u, d)
  PROVE  IInv'
  <1>1. PICK verified \in BOOLEAN, reason \in Reasons \cup {Null} :
          Begin(r, [NotArrived EXCEPT
                      !.op = "review", !.user = u, !.document = d,
                      !.verified = verified, !.reason = reason,
                      !.row = documents[d]])
    BY DEF LoadReview
  <1>2. /\ Others(r)
        /\ req'[r] = [NotArrived EXCEPT
                        !.op = "review", !.user = u, !.document = d,
                        !.verified = verified, !.reason = reason,
                        !.row = documents[d], !.pc = "loaded",
                        !.seen = Succeeded]
        /\ documents' = documents /\ objects' = objects /\ req[r].pc = "idle"
    BY <1>1 DEF Begin, IInv, TypeOK, Others, NotArrived
  <1>3. u \in Staff /\ documents[d] \in Row /\ documents[d] /= Null
    BY DEF LoadReview, IInv, TypeOK
  <1>4. /\ Others(r)
        /\ documents' = documents /\ objects' = objects
        /\ req'[r] \in Request /\ req'[r].pc = "loaded"
        /\ req'[r].result = "none" /\ req'[r].op = "review"
        /\ req'[r].user = u /\ req'[r].document = d
        /\ req'[r].row = documents[d] /\ req'[r].seen = Succeeded
        /\ req[r].pc = "idle"
    <2>1. req'[r] = [pc |-> "loaded", result |-> "none", op |-> "review",
                     user |-> u, application |-> Null, document |-> d,
                     verified |-> verified, reason |-> reason,
                     row |-> documents[d], seen |-> Succeeded]
      BY <1>2 DEF NotArrived
    <2>2. Succeeded \in SUBSET Requests
      BY DEF Succeeded
    <2>3. req'[r] \in Request
      BY <1>3, <2>1, <2>2 DEF Request
    <2>4. /\ Others(r)
          /\ documents' = documents /\ objects' = objects /\ req[r].pc = "idle"
      BY <1>2
    <2> QED
      BY <2>1, <2>3, <2>4
  <1>5. req[r].result = "none"
    BY <1>2 DEF IInv, HandlerPhases
  <1>6. Succeeded' = Succeeded
    BY <1>4, <1>5 DEF Succeeded, Others
  <1>7. \A e \in Requests : ReviewsOf(e)' = ReviewsOf(e)
    BY <1>4, <1>5, <1>6 DEF ReviewsOf, Others, Succeeded
  <1>8. TypeOK'
    BY <1>4 DEF IInv, TypeOK, Others
  <1>9. UploadPhases'
    BY <1>4, <1>5 DEF IInv, UploadPhases, Others
  <1>10. HandlerPhases'
    BY <1>3, <1>4, <1>6 DEF IInv, HandlerPhases, InFlight, Others
  <1>11. ReviewsAreFresh'
    BY <1>3, <1>4, <1>7 DEF IInv, ReviewsAreFresh, Others
  <1>12. LastReviewHolds'
    BY <1>4, <1>5, <1>7
       DEF IInv, LastReviewHolds, ReviewsOf, Succeeded, Others
  <1> QED
    BY <1>8, <1>9, <1>10, <1>11, <1>12 DEF IInv

LEMMA Store_IInv ==
  ASSUME IInv, NEW r \in Requests, Store(r)
  PROVE  IInv'
  <1>1. /\ Others(r)
        /\ req'[r] = [req[r] EXCEPT !.pc = "stored"]
        /\ documents' = documents /\ objects' = objects \cup {r}
        /\ req[r].pc = "loaded" /\ req[r].op = "upload"
    BY DEF Store, IInv, TypeOK, Others
  <1>2. /\ Others(r)
        /\ documents' = documents /\ objects' = objects \cup {r}
        /\ req[r].pc = "loaded" /\ req[r].op = "upload"
        /\ req'[r] \in Request /\ req'[r].pc = "stored"
        /\ req'[r].result = req[r].result /\ req'[r].op = "upload"
        /\ req'[r].user = req[r].user /\ req'[r].application = req[r].application
        /\ req'[r].seen = req[r].seen
    BY <1>1 DEF IInv, TypeOK, Request
  <1>3. Succeeded' = Succeeded
    BY <1>2 DEF Succeeded, Others
  <1>4. \A d \in Requests : ReviewsOf(d)' = ReviewsOf(d)
    BY <1>2, <1>3 DEF ReviewsOf, Others, Succeeded
  <1>5. TypeOK'
    BY <1>2 DEF IInv, TypeOK, Others
  <1>6. UploadPhases'
    BY <1>2 DEF IInv, UploadPhases, Others
  <1>7. HandlerPhases'
    BY <1>2, <1>3 DEF IInv, HandlerPhases, InFlight, Others
  <1>8. ReviewsAreFresh'
    BY <1>2, <1>4 DEF IInv, ReviewsAreFresh, Others
  <1>9. LastReviewHolds'
    BY <1>2, <1>4
       DEF IInv, LastReviewHolds, ReviewsOf, Succeeded, Others
  <1> QED
    BY <1>5, <1>6, <1>7, <1>8, <1>9 DEF IInv
-----------------------------------------------------------------------------
\* The two commits

LEMMA CommitUpload_IInv ==
  ASSUME IInv, NullApart, NEW r \in Requests, CommitUpload(r)
  PROVE  IInv'
  <1>1. /\ Others(r)
        /\ req'[r] = [req[r] EXCEPT !.pc = "answered", !.result = "ok"]
        /\ documents' = [documents EXCEPT ![r] = NewDocument(r)]
        /\ objects' = objects /\ req[r].pc = "stored"
    BY DEF CommitUpload, Answer, IInv, TypeOK, Others
  <1>2. /\ req[r].op = "upload" /\ r \in objects /\ req[r].result = "none"
        /\ req[r].user \in Users /\ req[r].application \in Applications
    BY <1>1 DEF IInv, UploadPhases, HandlerPhases, InFlight
  <1>3. /\ Others(r) /\ objects' = objects
        /\ req'[r] \in Request /\ req'[r].pc = "answered"
        /\ req'[r].result = "ok" /\ req'[r].op = "upload"
        /\ req'[r].seen = req[r].seen
    BY <1>1, <1>2 DEF IInv, TypeOK, Request
  <1>4. NewDocument(r) \in Row /\ NewDocument(r) /= Null
        /\ ~NewDocument(r).verified /\ NewDocument(r).at = Null
    <2>1. NewDocument(r) \in Row
      BY <1>2 DEF NewDocument, Row
    <2>2. ~NewDocument(r).verified /\ NewDocument(r).at = Null
      BY DEF NewDocument
    <2> QED
      BY <2>1, <2>2 DEF NullApart
  <1>5. /\ documents' \in [Requests -> Row \cup {Null}]
        /\ documents'[r] = NewDocument(r)
        /\ \A d \in Requests : d /= r => documents'[d] = documents[d]
    BY <1>1, <1>4 DEF IInv, TypeOK
  <1> HIDE DEF NewDocument
  <1>6. Succeeded \subseteq Succeeded'
    BY <1>3 DEF Succeeded, Others
  <1>7. \A d \in Requests : ReviewsOf(d)' = ReviewsOf(d)
    BY <1>2, <1>3 DEF ReviewsOf, Others, Succeeded
  <1>8. documents[r] = Null
    BY <1>2 DEF IInv, UploadPhases
  <1>9. ReviewsOf(r) = {}
    BY <1>8 DEF IInv, ReviewsAreFresh, ReviewsOf, Succeeded
  <1>10. TypeOK'
    BY <1>3, <1>5 DEF IInv, TypeOK, Others
  <1>11. UploadPhases'
    BY <1>2, <1>3, <1>4, <1>5 DEF IInv, UploadPhases, Others
  <1>12. HandlerPhases'
    BY <1>3, <1>6 DEF IInv, HandlerPhases, InFlight, Others
  <1>13. ReviewsAreFresh'
    BY <1>3, <1>4, <1>5, <1>7, <1>8 DEF IInv, ReviewsAreFresh, Others
  <1>14. LastReviewHolds'
    <2> SUFFICES ASSUME NEW d \in Requests, documents'[d] /= Null
                 PROVE  (LET q == documents[d].at
                         IN /\ ReviewsOf(d) /= {} => q \in ReviewsOf(d)
                            /\ q \in ReviewsOf(d) /\ ReviewsOf(d) \ {q} \subseteq req[q].seen
                                 => /\ documents[d].verified = req[q].verified
                                    /\ documents[d].reason = req[q].reason
                                    /\ documents[d].by = req[q].user
                            /\ documents[d].verified =>
                                 \E p \in ReviewsOf(d) : req[p].verified)'
      BY DEF LastReviewHolds
    <2>1. CASE d = r
      BY <1>4, <1>5, <1>7, <1>9, <2>1
    <2>2. CASE d /= r
      BY <1>2, <1>3, <1>5, <1>7, <2>2
         DEF IInv, LastReviewHolds, ReviewsOf, Succeeded, Others
    <2> QED
      BY <2>1, <2>2
  <1> QED
    BY <1>10, <1>11, <1>12, <1>13, <1>14 DEF IInv

\* A review writes its verdict wherever nobody has written since its SELECT
LEMMA ReviewedRow ==
  ASSUME NEW r \in Requests, NEW current \in Row, req[r].row \in Row,
         req[r].user \in Staff, req[r].verified \in BOOLEAN,
         req[r].reason \in Reasons \cup {Null}
  PROVE  /\ Reviewed(r, current) \in Row
         /\ Reviewed(r, current).at = r
         /\ Reviewed(r, current).verified => current.verified \/ req[r].verified
         /\ current = req[r].row =>
              /\ Reviewed(r, current).verified = req[r].verified
              /\ Reviewed(r, current).reason = req[r].reason
              /\ Reviewed(r, current).by = req[r].user
  <1> DEFINE loaded == req[r].row
             verified == Written(loaded.verified, req[r].verified, current.verified)
             reason == Written(loaded.reason, req[r].reason, current.reason)
             by == Written(loaded.by, req[r].user, current.by)
  <1>1. Reviewed(r, current) =
          [current EXCEPT !.verified = verified, !.reason = reason, !.by = by,
                          !.at = r]
    BY DEF Reviewed
  <1>2. verified \in BOOLEAN /\ (verified => current.verified \/ req[r].verified)
    BY Zenon DEF Written, Row
  <1>3. reason \in Reasons \cup {Null} /\ by \in Staff \cup {Null}
    BY DEF Written, Row
  <1>4. current = loaded => /\ verified = req[r].verified
                            /\ reason = req[r].reason
                            /\ by = req[r].user
    BY DEF Written
  <1> HIDE DEF verified, reason, by
  <1>5. /\ Reviewed(r, current) \in Row
        /\ Reviewed(r, current).at = r
        /\ Reviewed(r, current).verified = verified
        /\ Reviewed(r, current).reason = reason
        /\ Reviewed(r, current).by = by
    BY <1>1, <1>2, <1>3 DEF Row
  <1> QED
    BY <1>2, <1>4, <1>5

LEMMA CommitReview_IInv ==
  ASSUME IInv, NullApart, NEW r \in Requests, CommitReview(r)
  PROVE  IInv'
  <1>0. PICK d \in Requests : d = req[r].document
    BY DEF CommitReview, IInv, ReviewsAreFresh
  <1> DEFINE new == Reviewed(r, documents[d])
  <1>1. /\ Others(r)
        /\ req'[r] = [req[r] EXCEPT !.pc = "answered", !.result = "ok"]
        /\ documents' = [documents EXCEPT ![d] = new]
        /\ objects' = objects /\ req[r].pc = "loaded" /\ req[r].op = "review"
    BY <1>0 DEF CommitReview, Answer, IInv, TypeOK, Others
  <1>2. /\ documents[d] /= Null /\ documents[d] \in Row
        /\ req[r].result = "none" /\ req[r].user \in Staff
        /\ req[r].row \in Row /\ req[r].seen \subseteq Succeeded
        /\ ReviewsOf(d) \subseteq req[r].seen => documents[d] = req[r].row
    BY <1>0, <1>1 DEF IInv, TypeOK, HandlerPhases, ReviewsAreFresh
  <1>3. /\ req'[r] \in Request /\ req'[r].pc = "answered"
        /\ req'[r].result = "ok" /\ req'[r].op = "review"
        /\ req'[r].document = d /\ req'[r].seen = req[r].seen
        /\ req'[r].user = req[r].user /\ req'[r].verified = req[r].verified
        /\ req'[r].reason = req[r].reason
    BY <1>0, <1>1 DEF IInv, TypeOK, Request
  <1>4. req[r].verified \in BOOLEAN /\ req[r].reason \in Reasons \cup {Null}
    BY DEF IInv, TypeOK, Request
  <1>5. /\ new \in Row /\ new.at = r /\ new /= Null
        /\ new.verified => documents[d].verified \/ req[r].verified
        /\ documents[d] = req[r].row =>
             /\ new.verified = req[r].verified
             /\ new.reason = req[r].reason
             /\ new.by = req[r].user
    BY <1>2, <1>4, ReviewedRow DEF NullApart
  <1>6. /\ documents' \in [Requests -> Row \cup {Null}]
        /\ documents'[d] = new
        /\ \A e \in Requests : e /= d => documents'[e] = documents[e]
    BY <1>1, <1>2, <1>5 DEF IInv, TypeOK
  <1>7. Others(r) /\ objects' = objects /\ req[r].pc = "loaded"
        /\ req[r].op = "review"
    BY <1>1
  <1> HIDE DEF new
  <1>8. Succeeded' = Succeeded \cup {r} /\ r \notin Succeeded
    BY <1>2, <1>3, <1>7 DEF Succeeded, Others
  <1>9. /\ ReviewsOf(d)' = ReviewsOf(d) \cup {r} /\ r \notin ReviewsOf(d)
        /\ \A e \in Requests : e /= d => ReviewsOf(e)' = ReviewsOf(e)
    BY <1>2, <1>3, <1>7, <1>8 DEF ReviewsOf, Others, Succeeded
  <1>10. TypeOK'
    BY <1>3, <1>6, <1>7 DEF IInv, TypeOK, Others
  <1>11. UploadPhases'
    BY <1>2, <1>3, <1>5, <1>6, <1>7 DEF IInv, UploadPhases, Others
  <1>12. HandlerPhases'
    BY <1>2, <1>3, <1>7, <1>8 DEF IInv, HandlerPhases, InFlight, Others
  <1>13. ReviewsAreFresh'
    <2> SUFFICES ASSUME NEW q \in Requests, req'[q].op = "review",
                        NEW e \in Requests
                 PROVE  /\ req'[q].document \in Requests
                        /\ req'[q].document = e =>
                             /\ documents'[e] /= Null
                             /\ req'[q].pc = "loaded"
                                  /\ ReviewsOf(e)' \subseteq req'[q].seen
                                => documents'[e] = req'[q].row
      BY DEF ReviewsAreFresh
    <2>1. CASE q = r
      BY <1>2, <1>3, <1>5, <1>6, <2>1
    <2>2. CASE q /= r
      <3>1. req'[q] = req[q] /\ req[q].seen \subseteq Succeeded
        BY <1>7, <2>2 DEF Others, IInv, HandlerPhases
      <3>2. r \notin req[q].seen
        BY <1>8, <3>1
      <3> QED
        BY <1>5, <1>6, <1>9, <3>1, <3>2 DEF IInv, ReviewsAreFresh
    <2> QED
      BY <2>1, <2>2
  <1>14. LastReviewHolds'
    <2>1. /\ r \in ReviewsOf(d)'
          /\ ReviewsOf(d)' \ {r} \subseteq req'[r].seen =>
               /\ new.verified = req'[r].verified
               /\ new.reason = req'[r].reason
               /\ new.by = req'[r].user
      BY <1>2, <1>3, <1>5, <1>9
    <2>2. new.verified => \E p \in ReviewsOf(d)' : req'[p].verified
      <3>1. CASE req[r].verified
        BY <1>3, <1>9, <3>1
      <3>2. CASE new.verified /\ ~req[r].verified
        <4>1. PICK p \in ReviewsOf(d) : req[p].verified
          BY <1>2, <1>5, <3>2 DEF IInv, LastReviewHolds
        <4>2. p /= r /\ p \in Requests
          BY <1>9, <4>1 DEF ReviewsOf, Succeeded
        <4> QED
          BY <1>7, <1>9, <4>1, <4>2 DEF Others
      <3> QED
        BY <3>1, <3>2
    <2>3. ASSUME NEW e \in Requests, e /= d, documents'[e] /= Null
          PROVE  (LET q == documents[e].at
                  IN /\ ReviewsOf(e) /= {} => q \in ReviewsOf(e)
                     /\ q \in ReviewsOf(e) /\ ReviewsOf(e) \ {q} \subseteq req[q].seen
                          => /\ documents[e].verified = req[q].verified
                             /\ documents[e].reason = req[q].reason
                             /\ documents[e].by = req[q].user
                     /\ documents[e].verified =>
                          \E p \in ReviewsOf(e) : req[p].verified)'
      <3>1. \A q \in ReviewsOf(e) : req'[q] = req[q]
        BY <1>7, <1>8 DEF ReviewsOf, Others, Succeeded
      <3> QED
        BY <1>6, <1>9, <2>3, <3>1 DEF IInv, LastReviewHolds
    <2> QED
      BY <1>5, <1>6, <2>1, <2>2, <2>3 DEF LastReviewHolds
  <1> QED
    BY <1>10, <1>11, <1>12, <1>13, <1>14 DEF IInv
-----------------------------------------------------------------------------
\* The theorems

LEMMA Next_IInv ==
  ASSUME NullApart, IInv, [Next]_vars
  PROVE  IInv'
  <1>1. ASSUME NEW r \in Requests, NEW u \in Users, NEW a \in Applications,
               LoadUpload(r, u, a)
        PROVE  IInv'
    BY <1>1, LoadUpload_IInv
  <1>2. ASSUME NEW r \in Requests, Store(r)
        PROVE  IInv'
    BY <1>2, Store_IInv
  <1>3. ASSUME NEW r \in Requests, StoreFails(r)
        PROVE  IInv'
    BY <1>3, Ended_IInv DEF StoreFails
  <1>4. ASSUME NEW r \in Requests, CommitUpload(r)
        PROVE  IInv'
    BY <1>4, CommitUpload_IInv
  <1>5. ASSUME NEW r \in Requests, NEW u \in Users, NEW d \in Requests,
               LoadReview(r, u, d)
        PROVE  IInv'
    BY <1>5, LoadReview_IInv
  <1>6. ASSUME NEW r \in Requests, CommitReview(r)
        PROVE  IInv'
    BY <1>6, CommitReview_IInv
  <1>7. ASSUME NEW r \in Requests, Refuse(r)
        PROVE  IInv'
    BY <1>7, Ended_IInv DEF Refuse
  <1>8. ASSUME NEW r \in Requests, Die(r)
        PROVE  IInv'
    BY <1>8, Ended_IInv DEF Die, InFlight
  <1>9. CASE UNCHANGED vars
    BY <1>9 DEF vars, IInv, TypeOK, UploadPhases, HandlerPhases,
                ReviewsAreFresh, LastReviewHolds, ReviewsOf, Succeeded
  <1> QED
    BY <1>1, <1>2, <1>3, <1>4, <1>5, <1>6, <1>7, <1>8, <1>9 DEF Next

\* The inductive invariant holds throughout.
THEOREM Invariance ==
  ASSUME NullApart
  PROVE  Spec => []IInv
  BY Init_IInv, Next_IInv, PTL DEF Spec

\* Rows and requests stay of their types.
THEOREM TypeCorrect ==
  ASSUME NullApart
  PROVE  Spec => []TypeOK
  <1>1. IInv => TypeOK
    BY DEF IInv
  <1> QED
    BY <1>1, Invariance, PTL

LEMMA PhasesMean == IInv => RowsHaveObjects
  <1> SUFFICES ASSUME UploadPhases, objects \subseteq Requests
               PROVE  RowsHaveObjects
    BY DEF IInv, TypeOK
  <1>1. \A r \in Requests : documents[r] /= Null => r \in objects
    BY DEF UploadPhases
  <1>2. \A r \in Succeeded : req[r].op = "upload" => documents[r] /= Null
    BY DEF UploadPhases, Succeeded
  <1>3. \A r \in objects : \/ documents[r] /= Null
                           \/ req[r].pc = "stored"
                           \/ req[r].result \in {"error", "dead"}
    BY DEF UploadPhases
  <1> QED
    BY <1>1, <1>2, <1>3 DEF RowsHaveObjects

\* However uploads fail, die and interleave, every row has its object, and every
\* confirmed upload both.
THEOREM ObjectsFirst ==
  ASSUME NullApart
  PROVE  Spec => []RowsHaveObjects
  BY Invariance, PhasesMean, PTL

\* A document holds the verdict of its last review unless reviews overlap, and
\* counts as verified only if somebody verified it.
THEOREM LastVerdictHolds ==
  ASSUME NullApart
  PROVE  Spec => []LastReviewHolds
  <1>1. IInv => LastReviewHolds
    BY DEF IInv
  <1> QED
    BY <1>1, Invariance, PTL
=============================================================================
