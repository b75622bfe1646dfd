------------------------- MODULE WorkflowEngineProofs -------------------------
(***************************************************************************)
(* Proofs about WorkflowEngine for any applications, workers, calls and     *)
(* limits: assignments hold, scans escalate once, and queues keep to their  *)
(* limit unless calls overlap or closed applications are opened again.      *)
(***************************************************************************)
EXTENDS WorkflowEngine, FiniteSetTheorems, TLAPS

\* What is asked of the constants
Sane ==
  /\ Capacity \in Nat /\ MaxTime \in Nat /\ MaxChanges \in Nat
  /\ Targets \subseteq Statuses
  /\ Null \notin Workers /\ Null \notin Row
  /\ IsFiniteSet(Applications)
-----------------------------------------------------------------------------
(***************************************************************************)
(* The inductive invariant.                                                *)
(***************************************************************************)

\* What calls at each point have done and seen
PhaseOf(r) ==
  /\ req[r].pc = "idle" => req[r].op = "none" /\ Loaded(r) = {}
  /\ req[r].pc /= "answered" <=> req[r].result = "none"
  /\ req[r].pc \in {"loaded", "chosen"} => req[r].op /= "none"
  /\ req[r].pc = "chosen" => req[r].op \in {"auto", "manual"}
                             /\ req[r].worker \in Workers
  /\ req[r].op = "manual" => req[r].worker \in Workers
  /\ req[r].op \in {"escalate", "scan"} => req[r].worker = Null
  /\ req[r].op \in {"auto", "manual"} /\ req[r].result = "ok"
       => req[r].worker \in Workers
  /\ req[r].op = "auto" => \A a, b \in Loaded(r) : a = b
  /\ req[r].seen \subseteq Succeeded /\ req[r].counted \subseteq Succeeded

\* An escalation is never taken back, and a scan has loaded no escalated row.
RowsOf(r) ==
  \A a \in Loaded(r) :
    /\ req[r].rows[a].escalated => applications[a].escalated
    /\ req[r].rows[a].priority = 2 => applications[a].priority = 2
    /\ req[r].op = "scan" => ~req[r].rows[a].escalated

\* The calls that have assigned application a
Assigners(a) ==
  {q \in Succeeded : req[q].op \in {"auto", "manual"} /\ a \in Loaded(q)}

\* A call in flight that has seen every assignment has the current worker; one
\* that has committed has set it.
WorkerOf(r) ==
  \A a \in Loaded(r) :
    /\ req[r].pc \in {"loaded", "chosen"} /\ Assigners(a) \subseteq req[r].seen
         => req[r].rows[a].worker = applications[a].worker
    /\ (/\ req[r].result = "ok" /\ req[r].op \in {"auto", "manual"}
        /\ Assigners(a) \ {r} \subseteq req[r].seen)
         => applications[a].worker = req[r].worker

\* A scan leaves its marks, and has seen no other scan of its applications.
ScanOf(r) ==
  req[r].op = "scan" =>
    \A a \in Loaded(r) :
      /\ req[r].result = "ok" =>
           /\ applications[a].escalated /\ applications[a].priority = 2
           /\ AuditOf(r, a) \in audit
      /\ \A q \in Requests :
           q /= r /\ req[q].op = "scan" /\ a \in Loaded(q) => q \notin req[r].seen

\* A call that has chosen a worker and seen every assignment to it, has room.
RoomFor(r) ==
  /\ req[r].pc = "chosen" /\ req[r].op = "auto"
  /\ req[r].worker \notin reopened
  /\ AssignmentsTo(req[r].worker) \subseteq req[r].counted
  => Cardinality(Queue(req[r].worker)) < Capacity

Calls == \A r \in Requests : /\ PhaseOf(r) /\ RowsOf(r) /\ WorkerOf(r)
                             /\ ScanOf(r) /\ RoomFor(r)

IInv == TypeOK /\ Calls /\ CapacityUnlessOverlapped
-----------------------------------------------------------------------------
(***************************************************************************)
(* Rows.                                                                   *)
(***************************************************************************)
Columns == {"status", "worker", "reviewed", "escalated", "priority"}

LEMMA ColumnsOfRow ==
  ASSUME NEW row \in Row
  PROVE  DOMAIN row = Columns
  BY DEF Row, Columns

\* A merged row is a row, with each column new or current.
LEMMA MergedRow ==
  ASSUME NEW loaded \in Row, NEW new \in Row, NEW current \in Row
  PROVE  LET row == Merged(loaded, new, current)
         IN /\ row \in Row
            /\ row.status = IF new.status = loaded.status THEN current.status
                                                          ELSE new.status
            /\ row.worker = IF new.worker = loaded.worker THEN current.worker
                                                          ELSE new.worker
            /\ row.priority = IF new.priority = loaded.priority
                              THEN current.priority ELSE new.priority
            /\ row.escalated = IF new.escalated = loaded.escalated
                               THEN current.escalated ELSE new.escalated
  <1> DEFINE row == Merged(loaded, new, current)
  <1>1. /\ row.status = IF new.status = loaded.status THEN current.status
                                                      ELSE new.status
        /\ row.worker = IF new.worker = loaded.worker THEN current.worker
                                                      ELSE new.worker
        /\ row.reviewed = IF new.reviewed = loaded.reviewed THEN current.reviewed
                                                            ELSE new.reviewed
        /\ row.priority = IF new.priority = loaded.priority
                          THEN current.priority ELSE new.priority
        /\ row.escalated = IF new.escalated = loaded.escalated
                           THEN current.escalated ELSE new.escalated
    BY ColumnsOfRow DEF Merged, Columns
  <1>2. row.escalated \in BOOLEAN
    BY ColumnsOfRow DEF Merged, Columns, Row
  <1>3. row = [status |-> row.status, worker |-> row.worker,
               reviewed |-> row.reviewed, escalated |-> row.escalated,
               priority |-> row.priority]
    BY ColumnsOfRow DEF Merged, Columns
  <1>4. row \in Row
    BY <1>1, <1>2, <1>3 DEF Row
  <1> QED
    BY <1>1, <1>4

\* What an assignment or an escalation makes of a row
LEMMA ChangedRow ==
  ASSUME TypeOK, Calls, NEW r \in Requests, NEW row \in Row,
         req[r].pc = "chosen" \/ (req[r].pc = "loaded" /\ req[r].op \in {"escalate", "scan"})
  PROVE  /\ Changed(r, row) \in Row
         /\ req[r].op = "auto" => /\ Changed(r, row).worker = req[r].worker
                                  /\ Changed(r, row).escalated = row.escalated
                                  /\ Changed(r, row).priority = row.priority
         /\ req[r].op = "manual" => /\ Changed(r, row).worker = req[r].worker
                                    /\ Changed(r, row).escalated = row.escalated
                                    /\ Changed(r, row).priority = row.priority
         /\ req[r].op \in {"escalate", "scan"} =>
              /\ Changed(r, row).worker = row.worker
              /\ Changed(r, row).escalated /\ Changed(r, row).priority = 2
  <1>1. PhaseOf(r)
    BY DEF Calls
  <1>2. CASE req[r].op = "auto"
    <2>1. req[r].worker \in Workers
      BY <1>1, <1>2 DEF PhaseOf
    <2>2. Changed(r, row)
            = [row EXCEPT !.worker = req[r].worker, !.status = "under_review"]
      BY <1>2 DEF Changed
    <2> QED
      BY <1>2, <2>1, <2>2 DEF Row, Statuses, Open
  <1>3. CASE req[r].op = "manual"
    <2>1. req[r].worker \in Workers
      BY <1>1, <1>3 DEF PhaseOf
    <2>2. Changed(r, row)
            = [row EXCEPT !.worker = req[r].worker,
                          !.status = IF @ = "submitted" THEN "under_review" ELSE @]
      BY <1>3 DEF Changed
    <2> QED
      BY <1>3, <2>1, <2>2 DEF Row, Statuses, Open
  <1>4. CASE req[r].op \in {"escalate", "scan"}
    <2>1. Changed(r, row)
            = [row EXCEPT !.status = "manual_review", !.escalated = TRUE,
                          !.priority = 2]
      BY <1>4 DEF Changed
    <2> QED
      BY <1>4, <2>1 DEF Row, Statuses, Open
  <1> QED
    BY <1>1, <1>2, <1>3, <1>4 DEF PhaseOf

\* Loaded rows are rows.
LEMMA LoadedRows ==
  ASSUME TypeOK, NEW r \in Requests, NEW a \in Loaded(r)
  PROVE  a \in Applications /\ req[r].rows[a] \in Row /\ applications[a] \in Row
  BY DEF TypeOK, Loaded, Request

\* Queues are finite.
LEMMA QueueCount ==
  ASSUME Sane, NEW w
  PROVE  IsFiniteSet(Queue(w)) /\ Cardinality(Queue(w)) \in Nat
  <1>1. Queue(w) \subseteq Applications
    BY DEF Queue
  <1> QED
    BY <1>1, FS_Subset, FS_CardinalityType DEF Sane
-----------------------------------------------------------------------------
(***************************************************************************)
(* Steps of one call that commit nothing.                                  *)
(***************************************************************************)

\* What a step of call r leaves alone, if it does not commit
Quiet(r) ==
  /\ req[r].result /= "ok" /\ req'[r].result /= "ok"
  /\ \A q \in Requests \ {r} : req'[q] = req[q]
  /\ UNCHANGED <<applications, audit, reopened>>

LEMMA QuietSets ==
  ASSUME NEW r \in Requests, Quiet(r)
  PROVE  /\ Succeeded' = Succeeded
         /\ \A a : Assigners(a)' = Assigners(a)
         /\ \A w : AssignmentsTo(w)' = AssignmentsTo(w) /\ Queue(w)' = Queue(w)
         /\ \A q \in Requests \ {r} : Loaded(q)' = Loaded(q)
  <1>1. Succeeded' = Succeeded
    BY DEF Quiet, Succeeded
  <1>2. \A q \in Requests \ {r} : Loaded(q)' = Loaded(q)
    BY DEF Quiet, Loaded
  <1>3. \A q \in Succeeded : q \in Requests \ {r}
    BY DEF Quiet, Succeeded
  <1>4. \A a : Assigners(a)' = Assigners(a)
    BY <1>1, <1>2, <1>3 DEF Quiet, Assigners
  <1>5. \A w : AssignmentsTo(w)' = AssignmentsTo(w)
    BY <1>1, <1>3 DEF Quiet, AssignmentsTo
  <1>6. \A w : Queue(w)' = Queue(w)
    BY DEF Quiet, Queue
  <1> QED
    BY <1>1, <1>2, <1>4, <1>5, <1>6

\* The other calls keep what they have.
LEMMA QuietOthers ==
  ASSUME TypeOK, Calls, NEW r \in Requests, Quiet(r), NEW q \in Requests \ {r}
  PROVE  /\ PhaseOf(q)' /\ RowsOf(q)' /\ WorkerOf(q)'
         /\ ScanOf(q)' /\ RoomFor(q)'
  <1>1. /\ req'[q] = req[q] /\ Loaded(q)' = Loaded(q)
        /\ Succeeded' = Succeeded
        /\ applications' = applications /\ audit' = audit /\ reopened' = reopened
    BY QuietSets DEF Quiet
  <1>2. PhaseOf(q) /\ RowsOf(q) /\ WorkerOf(q) /\ ScanOf(q) /\ RoomFor(q)
    BY DEF Calls
  <1>3. PhaseOf(q)'
    BY <1>1, <1>2 DEF PhaseOf
  <1>4. RowsOf(q)'
    BY <1>1, <1>2 DEF RowsOf
  <1>5. WorkerOf(q)'
    BY <1>1, <1>2, QuietSets DEF WorkerOf
  <1>6. ScanOf(q)'
    <2>1. r \notin req[q].seen
      BY <1>2 DEF PhaseOf, Quiet, Succeeded
    <2>2. \A a : AuditOf(q, a)' = AuditOf(q, a)
      BY <1>1 DEF AuditOf
    <2>3. \A p \in Requests \ {r} :
            req'[p].op = req[p].op /\ Loaded(p)' = Loaded(p)
      BY QuietSets DEF Quiet
    <2> SUFFICES ASSUME req[q].op = "scan", NEW a \in Loaded(q)
                 PROVE  /\ req[q].result = "ok" =>
                             /\ applications[a].escalated
                             /\ applications[a].priority = 2
                             /\ AuditOf(q, a) \in audit
                        /\ \A p \in Requests :
                             p /= q /\ req'[p].op = "scan" /\ a \in Loaded(p)'
                               => p \notin req[q].seen
      BY <1>1, <2>2 DEF ScanOf
    <2>4. ASSUME NEW p \in Requests, p /= q, req'[p].op = "scan", a \in Loaded(p)'
          PROVE  p \notin req[q].seen
      BY <1>2, <2>1, <2>3, <2>4 DEF ScanOf
    <2> QED
      BY <1>2, <2>4 DEF ScanOf
  <1>7. RoomFor(q)'
    BY <1>1, <1>2, QuietSets DEF RoomFor
  <1> QED
    BY <1>3, <1>4, <1>5, <1>6, <1>7

\* The queues' limit does not depend on a call that has not committed.
LEMMA QuietCapacity ==
  ASSUME CapacityUnlessOverlapped, NEW r \in Requests, Quiet(r)
  PROVE  CapacityUnlessOverlapped'
  <1> SUFFICES ASSUME NEW w \in Workers, w \notin reopened,
                      \A q \in AssignmentsTo(w)' : req'[q].op = "auto",
                      \A p, q \in AssignmentsTo(w)' : ~Overlap(Counted', p, q)
               PROVE  Cardinality(Queue(w)') <= Capacity
    BY DEF CapacityUnlessOverlapped, Quiet
  <1>1. AssignmentsTo(w)' = AssignmentsTo(w) /\ Queue(w)' = Queue(w)
    BY QuietSets
  <1>2. \A q \in AssignmentsTo(w) : q \in Requests /\ req'[q] = req[q]
    BY DEF AssignmentsTo, Succeeded, Quiet
  <1>3. \A q \in AssignmentsTo(w) : req[q].op = "auto"
    BY <1>1, <1>2
  <1>4. \A p, q \in AssignmentsTo(w) : ~Overlap(Counted, p, q)
    BY <1>1, <1>2 DEF Overlap, Counted
  <1> QED
    BY <1>1, <1>3, <1>4 DEF CapacityUnlessOverlapped
-----------------------------------------------------------------------------
(***************************************************************************)
(* Types.                                                                  *)
(***************************************************************************)

\* A call that is set to a Request, all else kept
LEMMA TypedCall ==
  ASSUME TypeOK, NEW r \in Requests, NEW new \in Request,
         req' = [req EXCEPT ![r] = new],
         UNCHANGED <<applications, active, events, audit, reopened, clock, changes>>
  PROVE  TypeOK'
  BY DEF TypeOK

LEMMA BlankCall == NotArrived \in Request
  BY DEF NotArrived, Request

\* What a call has once it has loaded the applications of a set
LEMMA BeginTyped ==
  ASSUME TypeOK, NEW r \in Requests, NEW op \in {"auto", "manual", "escalate", "scan"},
         NEW set \in SUBSET Applications, NEW worker \in Workers \cup {Null},
         Begin(r, op, set, worker)
  PROVE  TypeOK'
  <1> DEFINE rows == [a \in Applications |-> IF a \in set THEN applications[a] ELSE Null]
             new == [NotArrived EXCEPT !.pc = "loaded", !.op = op,
                                       !.worker = worker, !.rows = rows,
                                       !.seen = Succeeded]
  <1>1. rows \in [Applications -> Row \cup {Null}]
    BY DEF TypeOK
  <1>2. Succeeded \subseteq Requests
    BY DEF Succeeded
  <1> HIDE DEF rows
  <1>3. NotArrived \in Request
    BY BlankCall
  <1>4. new \in Request
    BY <1>1, <1>2, <1>3 DEF Request
  <1>5. req' = [req EXCEPT ![r] = new]
    BY DEF Begin, rows
  <1> HIDE DEF new
  <1> QED
    BY <1>4, <1>5, TypedCall DEF Begin

LEMMA AnswerTyped ==
  ASSUME TypeOK, NEW r \in Requests, NEW result \in {"ok", "nobody", "error", "dead"},
         Answer(r, result)
  PROVE  req' \in [Requests -> Request]
  <1> DEFINE new == [req[r] EXCEPT !.pc = "answered", !.result = result]
  <1>1. new \in Request
    <2>1. req[r] \in Request
      BY DEF TypeOK
    <2> QED
      BY <2>1 DEF Request
  <1>2. req' = [req EXCEPT ![r] = new]
    BY DEF Answer
  <1> HIDE DEF new
  <1> QED
    BY <1>1, <1>2 DEF TypeOK

LEMMA CommitTyped ==
  ASSUME TypeOK, Calls, NEW r \in Requests, Commit(r)
  PROVE  TypeOK'
  <1>1. req[r].pc = "chosen" \/ (req[r].pc = "loaded" /\ req[r].op \in {"escalate", "scan"})
    BY DEF Commit, Calls, PhaseOf, TypeOK, Request
  <1>2. req' \in [Requests -> Request]
    BY AnswerTyped DEF Commit
  <1>3. \A a \in Loaded(r) : /\ Changed(r, req[r].rows[a]) \in Row
                             /\ req[r].rows[a] \in Row
    BY <1>1, ChangedRow, LoadedRows
  <1>4. \A a \in Applications :
          applications'[a] = IF a \in Loaded(r)
            THEN Merged(req[r].rows[a], Changed(r, req[r].rows[a]), applications[a])
            ELSE applications[a]
    BY DEF Commit
  <1>5. \A a \in Applications : applications'[a] \in Row
    BY <1>3, <1>4, MergedRow DEF TypeOK
  <1>6. applications' \in [Applications -> Row]
    <2>1. applications' = [a \in Applications |-> applications'[a]]
      BY DEF Commit
    <2> QED
      BY <1>5, <2>1
  <1>7. events' \subseteq Event
    <2>1. \A a \in Loaded(r) : EventOf(r, a) \in Event
      BY <1>3, LoadedRows DEF EventOf, Event, Row
    <2> QED
      BY <2>1 DEF Commit, TypeOK
  <1>8. audit' \subseteq AuditRow
    <2>1. req[r].worker \in Workers \cup {Null}
      BY DEF TypeOK, Request
    <2>2. \A a \in Loaded(r) : AuditOf(r, a) \in AuditRow
      BY <2>1, LoadedRows DEF AuditOf, AuditRow
    <2> QED
      BY <2>2 DEF Commit, TypeOK
  <1>9. reopened' \subseteq Workers
    <2> DEFINE back == {b \in Loaded(r) : /\ applications[b].status \notin Open
                                          /\ applications'[b].status \in Open}
    <2>1. \A a \in back : applications'[a].worker \in Workers \cup {Null}
      BY <1>5, LoadedRows DEF Row
    <2>2. reopened' = reopened \cup
            ({applications'[a].worker : a \in back} \ {req[r].worker, Null})
      BY DEF Commit
    <2> HIDE DEF back
    <2> QED
      BY <2>1, <2>2 DEF TypeOK
  <1> QED
    BY <1>2, <1>6, <1>7, <1>8, <1>9 DEF TypeOK, Commit

LEMMA NextTyped == TypeOK /\ Calls /\ [Next]_vars /\ Sane => TypeOK'
  <1> SUFFICES ASSUME TypeOK, Calls, [Next]_vars, Sane
               PROVE  TypeOK'
    OBVIOUS
  <1>1. ASSUME NEW r \in Requests, NEW a \in Applications,
               \/ LoadAuto(r, a) \/ LoadEscalation(r, a)
               \/ \E w \in Workers : LoadManual(r, a, w)
        PROVE  TypeOK'
    BY <1>1, BeginTyped DEF LoadAuto, LoadEscalation, LoadManual
  <1>2. ASSUME NEW r \in Requests, LoadScan(r)
        PROVE  TypeOK'
    BY <1>2, BeginTyped DEF LoadScan
  <1>3. ASSUME NEW r \in Requests, ChooseWorker(r)
        PROVE  TypeOK'
    <2>1. PICK w \in Workers :
            req' = [req EXCEPT ![r].pc = "chosen", ![r].worker = w,
                               ![r].counted = Succeeded]
      BY <1>3 DEF ChooseWorker, LeastLoaded, FreeWorkers
    <2> DEFINE new == [req[r] EXCEPT !.pc = "chosen", !.worker = w,
                                     !.counted = Succeeded]
    <2>2. new \in Request
      <3>1. req[r] \in Request /\ Succeeded \subseteq Requests
        BY DEF TypeOK, Succeeded
      <3> QED
        BY <3>1 DEF Request
    <2>3. req' = [req EXCEPT ![r] = new]
      BY <2>1
    <2> HIDE DEF new
    <2> QED
      BY <1>3, <2>2, <2>3, TypedCall DEF ChooseWorker
  <1>4. ASSUME NEW r \in Requests, NobodyFree(r) \/ FindWorker(r) \/ Die(r)
        PROVE  TypeOK'
    <2>1. CASE \E result \in {"nobody", "error", "dead"} : Answer(r, result)
      BY <1>4, <2>1, AnswerTyped DEF NobodyFree, FindWorker, Die, TypeOK
    <2>2. CASE FindWorker(r) /\ req' = [req EXCEPT ![r].pc = "chosen"]
      <3> DEFINE new == [req[r] EXCEPT !.pc = "chosen"]
      <3>1. new \in Request
        <4>1. req[r] \in Request
          BY DEF TypeOK
        <4> QED
          BY <4>1 DEF Request
      <3>2. req' = [req EXCEPT ![r] = new]
        BY <2>2
      <3> HIDE DEF new
      <3> QED
        BY <2>2, <3>1, <3>2, TypedCall DEF FindWorker
    <2> QED
      BY <1>4, <2>1, <2>2 DEF NobodyFree, FindWorker, Die
  <1>5. ASSUME NEW r \in Requests, Commit(r)
        PROVE  TypeOK'
    BY <1>5, CommitTyped
  <1>6. ASSUME NEW a \in Applications, NEW status \in Targets,
               UpdateStatus(a, status)
        PROVE  TypeOK'
    <2> DEFINE new == [applications[a] EXCEPT !.status = status,
                         !.reviewed = IF status = "under_review" THEN clock ELSE @]
    <2>1. applications[a] \in Row /\ status \in Statuses
      BY DEF TypeOK, Sane
    <2>2. new \in Row
      BY <2>1 DEF Row, TypeOK
    <2>3. applications' = [applications EXCEPT ![a] = new]
      BY <1>6 DEF UpdateStatus
    <2> HIDE DEF new
    <2>4. applications' \in [Applications -> Row]
      BY <2>2, <2>3 DEF TypeOK
    <2>5. reopened' \subseteq Workers
      BY <1>6, <2>1 DEF UpdateStatus, TypeOK, Row
    <2>6. changes' \in 0..MaxChanges
      BY <1>6 DEF UpdateStatus, TypeOK, Sane
    <2> QED
      BY <1>6, <2>4, <2>5, <2>6 DEF UpdateStatus, TypeOK
  <1>7. ASSUME NEW w \in Workers, SwitchWorker(w)
        PROVE  TypeOK'
    <2>1. changes' \in 0..MaxChanges
      BY <1>7 DEF SwitchWorker, TypeOK, Sane
    <2> QED
      BY <1>7, <2>1 DEF SwitchWorker, TypeOK
  <1>8. CASE Tick
    BY <1>8 DEF Tick, TypeOK, Sane
  <1>9. CASE UNCHANGED vars
    BY <1>9 DEF vars, TypeOK
  <1> QED
    BY <1>1, <1>2, <1>3, <1>4, <1>5, <1>6, <1>7, <1>8, <1>9 DEF Next
-----------------------------------------------------------------------------
(***************************************************************************)
(* Loading.                                                                *)
(***************************************************************************)

LEMMA BeginFields ==
  ASSUME TypeOK, Calls, NEW r \in Requests, NEW op, NEW set, NEW worker,
         Begin(r, op, set, worker)
  PROVE  /\ Quiet(r)
         /\ req'[r].pc = "loaded" /\ req'[r].result = "none" /\ req'[r].op = op
         /\ req'[r].worker = worker /\ req'[r].counted = {}
         /\ req'[r].seen = Succeeded
         /\ \A a \in Applications :
              req'[r].rows[a] = IF a \in set THEN applications[a] ELSE Null
  <1> DEFINE rows == [a \in Applications |-> IF a \in set THEN applications[a] ELSE Null]
             new == [NotArrived EXCEPT !.pc = "loaded", !.op = op,
                                       !.worker = worker, !.rows = rows,
                                       !.seen = Succeeded]
  <1>1. \A a \in Applications :
          rows[a] = IF a \in set THEN applications[a] ELSE Null
    OBVIOUS
  <1>2. req'[r] = new /\ \A q \in Requests \ {r} : req'[q] = req[q]
    BY DEF Begin, TypeOK
  <1> HIDE DEF rows
  <1>3. /\ new.pc = "loaded" /\ new.result = "none" /\ new.op = op
        /\ new.worker = worker /\ new.counted = {} /\ new.seen = Succeeded
        /\ new.rows = rows
    BY DEF NotArrived
  <1>4. req[r].result /= "ok"
    BY DEF Begin, Calls, PhaseOf
  <1> HIDE DEF new
  <1> QED
    BY <1>1, <1>2, <1>3, <1>4 DEF Begin, Quiet

LEMMA CurrentWorkers ==
  ASSUME NEW r \in Requests, req'[r].result /= "ok",
         \A a \in Loaded(r)' : req'[r].rows[a].worker = applications'[a].worker
  PROVE  WorkerOf(r)'
  BY DEF WorkerOf

\* A call that begins: an automatic one loads one application, a scan those that
\* are not escalated.
LEMMA BeginHolds ==
  ASSUME Sane, TypeOK, Calls, CapacityUnlessOverlapped, NEW r \in Requests,
         NEW op \in {"auto", "manual", "escalate", "scan"},
         NEW set \in SUBSET Applications, NEW worker \in Workers \cup {Null},
         Begin(r, op, set, worker),
         op = "manual" => worker \in Workers,
         op \in {"escalate", "scan"} => worker = Null,
         op = "auto" => \A a, b \in set : a = b,
         op = "scan" => \A a \in set : ~applications[a].escalated
  PROVE  Calls' /\ CapacityUnlessOverlapped'
  <1>1. /\ Quiet(r)
        /\ req'[r].pc = "loaded" /\ req'[r].result = "none" /\ req'[r].op = op
        /\ req'[r].worker = worker /\ req'[r].counted = {}
        /\ req'[r].seen = Succeeded
        /\ \A a \in Applications :
             req'[r].rows[a] = IF a \in set THEN applications[a] ELSE Null
    BY BeginFields
  <1>2. Loaded(r)' = set
    <2>1. \A a \in set : applications[a] /= Null
      BY DEF TypeOK, Sane
    <2> QED
      BY <1>1, <2>1 DEF Loaded
  <1>3. \A a \in set : a \in Applications /\ req'[r].rows[a] = applications[a]
    BY <1>1
  <1>4. Succeeded' = Succeeded /\ applications' = applications
    BY <1>1, QuietSets DEF Quiet
  <1>5. \A a : Assigners(a)' = Assigners(a)
    BY <1>1, QuietSets
  <1>6. PhaseOf(r)'
    BY <1>1, <1>2, <1>4 DEF PhaseOf
  <1>7. RowsOf(r)'
    BY <1>1, <1>2, <1>3, <1>4 DEF RowsOf
  <1>8. WorkerOf(r)'
    <2>1. \A a \in set : req'[r].rows[a].worker = applications'[a].worker
      BY <1>3, <1>4
    <2>2. req'[r].result /= "ok"
      BY <1>1
    <2>3. \A a \in Loaded(r)' : req'[r].rows[a].worker = applications'[a].worker
      BY <1>2, <2>1, Zenon
    <2> QED
      BY <2>2, <2>3, CurrentWorkers
  <1>9. ScanOf(r)'
    <2> SUFFICES ASSUME op = "scan", NEW a \in set, NEW q \in Requests, q /= r,
                        req'[q].op = "scan", a \in Loaded(q)', q \in Succeeded
                 PROVE  FALSE
      BY <1>1, <1>2 DEF ScanOf
    <2>1. req'[q] = req[q] /\ a \in Loaded(q)
      BY <1>1, QuietSets DEF Quiet
    <2>2. applications[a].escalated
      BY <2>1 DEF Calls, ScanOf, Succeeded
    <2> QED
      BY <2>2
  <1>10. RoomFor(r)'
    BY <1>1 DEF RoomFor
  <1>11. \A q \in Requests \ {r} : /\ PhaseOf(q)' /\ RowsOf(q)' /\ WorkerOf(q)'
                                   /\ ScanOf(q)' /\ RoomFor(q)'
    BY <1>1, QuietOthers
  <1>12. CapacityUnlessOverlapped'
    BY <1>1, QuietCapacity
  <1> QED
    BY <1>6, <1>7, <1>8, <1>9, <1>10, <1>11, <1>12 DEF Calls

\* The calls that load
LEMMA LoadsHold ==
  ASSUME Sane, IInv, NEW r \in Requests,
         \/ \E a \in Applications :
              \/ LoadAuto(r, a) \/ LoadEscalation(r, a)
              \/ \E w \in Workers : LoadManual(r, a, w)
         \/ LoadScan(r)
  PROVE  Calls' /\ CapacityUnlessOverlapped'
  <1> USE DEF IInv
  <1>1. ASSUME NEW a \in Applications, LoadAuto(r, a)
        PROVE  Calls' /\ CapacityUnlessOverlapped'
    BY <1>1, BeginHolds DEF LoadAuto
  <1>2. ASSUME NEW a \in Applications, LoadEscalation(r, a)
        PROVE  Calls' /\ CapacityUnlessOverlapped'
    BY <1>2, BeginHolds DEF LoadEscalation
  <1>3. ASSUME NEW a \in Applications, NEW w \in Workers, LoadManual(r, a, w)
        PROVE  Calls' /\ CapacityUnlessOverlapped'
    BY <1>3, BeginHolds DEF LoadManual
  <1>4. CASE LoadScan(r)
    <2> DEFINE found == {a \in Applications : Breached(a)}
    <2>1. /\ found \in SUBSET Applications
          /\ \A a \in found : ~applications[a].escalated
      BY DEF Breached
    <2>2. Begin(r, "scan", found, Null)
      BY <1>4 DEF LoadScan
    <2> HIDE DEF found
    <2> QED
      BY <2>1, <2>2, BeginHolds
  <1> QED
    BY <1>1, <1>2, <1>3, <1>4
-----------------------------------------------------------------------------
(***************************************************************************)
(* Choosing a worker, and giving up.                                       *)
(***************************************************************************)

LEMMA MoveHolds ==
  ASSUME TypeOK, Calls, CapacityUnlessOverlapped, NEW r \in Requests, Quiet(r),
         req[r].pc \in {"loaded", "chosen"},
         req'[r].op = req[r].op, req'[r].rows = req[r].rows,
         req'[r].seen = req[r].seen, PhaseOf(r)', RoomFor(r)'
  PROVE  Calls' /\ CapacityUnlessOverlapped'
  <1>1. PhaseOf(r) /\ RowsOf(r) /\ WorkerOf(r) /\ ScanOf(r)
    BY DEF Calls
  <1>2. /\ Loaded(r)' = Loaded(r) /\ Succeeded' = Succeeded
        /\ applications' = applications
    BY QuietSets DEF Loaded, Quiet
  <1>3. \A a : Assigners(a)' = Assigners(a)
    BY QuietSets
  <1>4. RowsOf(r)'
    BY <1>1, <1>2 DEF RowsOf
  <1>5. WorkerOf(r)'
    <2>1. req'[r].result /= "ok"
      BY DEF Quiet
    <2> QED
      BY <1>1, <1>2, <1>3, <2>1 DEF WorkerOf
  <1>6. ScanOf(r)'
    <2>1. req'[r].result /= "ok"
      BY DEF Quiet
    <2>2. \A q \in Requests \ {r} : req'[q].op = req[q].op /\ Loaded(q)' = Loaded(q)
      BY QuietSets DEF Quiet
    <2>3. \A a \in Loaded(r) : \A q \in Requests :
            req[r].op = "scan" /\ q /= r /\ req[q].op = "scan" /\ a \in Loaded(q)
              => q \notin req[r].seen
      BY <1>1 DEF ScanOf
    <2> QED
      BY <1>2, <2>1, <2>2, <2>3 DEF ScanOf
  <1>7. \A q \in Requests \ {r} : /\ PhaseOf(q)' /\ RowsOf(q)' /\ WorkerOf(q)'
                                  /\ ScanOf(q)' /\ RoomFor(q)'
    BY QuietOthers
  <1>8. CapacityUnlessOverlapped'
    BY QuietCapacity
  <1> QED
    BY <1>4, <1>5, <1>6, <1>7, <1>8 DEF Calls

\* The worker chosen has room when it is chosen.
LEMMA ChooseHolds ==
  ASSUME IInv, NEW r \in Requests, ChooseWorker(r)
  PROVE  Calls' /\ CapacityUnlessOverlapped'
  <1>0. TypeOK /\ Calls /\ CapacityUnlessOverlapped /\ PhaseOf(r)
    BY DEF IInv, Calls
  <1>1. PICK w \in LeastLoaded :
          req' = [req EXCEPT ![r].pc = "chosen", ![r].worker = w,
                             ![r].counted = Succeeded]
    BY DEF ChooseWorker
  <1>2. w \in Workers /\ Cardinality(Queue(w)) < Capacity
    BY DEF LeastLoaded, FreeWorkers
  <1>3. /\ req'[r].pc = "chosen" /\ req'[r].worker = w
        /\ req'[r].counted = Succeeded /\ req'[r].op = req[r].op
        /\ req'[r].rows = req[r].rows /\ req'[r].seen = req[r].seen
        /\ req'[r].result = req[r].result
        /\ \A q \in Requests \ {r} : req'[q] = req[q]
    BY <1>0, <1>1 DEF TypeOK, Request
  <1>4. req[r].pc = "loaded" /\ req[r].op = "auto" /\ req[r].result = "none"
    BY <1>0 DEF ChooseWorker, PhaseOf
  <1>5. Quiet(r)
    BY <1>3, <1>4 DEF Quiet, ChooseWorker
  <1>6. Loaded(r)' = Loaded(r) /\ Succeeded' = Succeeded
    BY <1>3, <1>5, QuietSets DEF Loaded
  <1>7. PhaseOf(r)'
    BY <1>0, <1>2, <1>3, <1>4, <1>6 DEF PhaseOf
  <1>8. RoomFor(r)'
    <2>1. Queue(w)' = Queue(w)
      BY <1>5, QuietSets
    <2> QED
      BY <1>2, <1>3, <2>1 DEF RoomFor
  <1> QED
    BY <1>0, <1>3, <1>4, <1>5, <1>7, <1>8, MoveHolds

\* A call that ends without a commit, or a manual one that finds its worker
LEMMA EndsHold ==
  ASSUME IInv, NEW r \in Requests, NobodyFree(r) \/ FindWorker(r) \/ Die(r)
  PROVE  Calls' /\ CapacityUnlessOverlapped'
  <1>0. TypeOK /\ Calls /\ CapacityUnlessOverlapped /\ PhaseOf(r)
    BY DEF IInv, Calls
  <1>1. req[r].pc \in {"loaded", "chosen"} /\ req[r].result = "none"
    BY <1>0 DEF NobodyFree, FindWorker, Die, PhaseOf
  <1>2. UNCHANGED <<applications, audit, reopened>>
    BY DEF NobodyFree, FindWorker, Die
  <1>3. CASE \E result \in {"nobody", "error", "dead"} : Answer(r, result)
    <2>1. /\ req'[r].pc = "answered" /\ req'[r].result \in {"nobody", "error", "dead"}
          /\ req'[r].worker = req[r].worker
          /\ req'[r].counted = req[r].counted /\ req'[r].op = req[r].op
          /\ req'[r].rows = req[r].rows /\ req'[r].seen = req[r].seen
          /\ \A q \in Requests \ {r} : req'[q] = req[q]
      BY <1>0, <1>3 DEF Answer, TypeOK, Request
    <2>2. Quiet(r)
      BY <1>1, <1>2, <2>1 DEF Quiet
    <2>3. Loaded(r)' = Loaded(r) /\ Succeeded' = Succeeded
      BY <2>1, <2>2, QuietSets DEF Loaded
    <2>4. PhaseOf(r)'
      BY <1>0, <1>1, <2>1, <2>3 DEF PhaseOf
    <2>5. RoomFor(r)'
      BY <2>1 DEF RoomFor
    <2> QED
      BY <1>0, <1>1, <2>1, <2>2, <2>4, <2>5, MoveHolds
  <1>4. CASE FindWorker(r) /\ req' = [req EXCEPT ![r].pc = "chosen"]
    <2>1. /\ req'[r].pc = "chosen" /\ req'[r].result = req[r].result
          /\ req'[r].worker = req[r].worker
          /\ req'[r].counted = req[r].counted /\ req'[r].op = req[r].op
          /\ req'[r].rows = req[r].rows /\ req'[r].seen = req[r].seen
          /\ \A q \in Requests \ {r} : req'[q] = req[q]
      BY <1>0, <1>4 DEF TypeOK, Request
    <2>2. Quiet(r)
      BY <1>1, <1>2, <2>1 DEF Quiet
    <2>3. Loaded(r)' = Loaded(r) /\ Succeeded' = Succeeded
      BY <2>1, <2>2, QuietSets DEF Loaded
    <2>4. PhaseOf(r)'
      BY <1>0, <1>1, <1>4, <2>1, <2>3 DEF PhaseOf, FindWorker
    <2>5. RoomFor(r)'
      BY <1>4, <2>1 DEF RoomFor, FindWorker
    <2> QED
      BY <1>0, <1>1, <2>1, <2>2, <2>4, <2>5, MoveHolds
  <1> QED
    BY <1>3, <1>4 DEF NobodyFree, FindWorker, Die
-----------------------------------------------------------------------------
(***************************************************************************)
(* Steps of others: endpoints, administrators, the clock.                  *)
(***************************************************************************)

LEMMA SmallerQueue ==
  ASSUME Sane, NEW w, Queue(w)' \subseteq Queue(w)
  PROVE  /\ Cardinality(Queue(w)') \in Nat
         /\ Cardinality(Queue(w)') <= Cardinality(Queue(w))
  BY QueueCount, FS_Subset, FS_CardinalityType

LEMMA OthersHold ==
  ASSUME Sane, TypeOK, Calls, CapacityUnlessOverlapped,
         UNCHANGED <<req, audit>>, reopened \subseteq reopened',
         \A a \in Applications :
           /\ applications'[a].worker = applications[a].worker
           /\ applications'[a].escalated = applications[a].escalated
           /\ applications'[a].priority = applications[a].priority,
         \A w \in Workers \ reopened' : Queue(w)' \subseteq Queue(w)
  PROVE  Calls' /\ CapacityUnlessOverlapped'
  <1>1. /\ Succeeded' = Succeeded /\ \A r : Loaded(r)' = Loaded(r)
        /\ \A r \in Requests : Loaded(r) \subseteq Applications
    BY DEF Succeeded, Loaded
  <1>2. \A a : Assigners(a)' = Assigners(a)
    BY <1>1 DEF Assigners
  <1>3. \A w : AssignmentsTo(w)' = AssignmentsTo(w)
    BY <1>1 DEF AssignmentsTo
  <1>4. ASSUME NEW r \in Requests
        PROVE  /\ PhaseOf(r)' /\ RowsOf(r)' /\ WorkerOf(r)'
               /\ ScanOf(r)' /\ RoomFor(r)'
    <2>1. PhaseOf(r) /\ RowsOf(r) /\ WorkerOf(r) /\ ScanOf(r) /\ RoomFor(r)
      BY DEF Calls
    <2>2. PhaseOf(r)'
      BY <1>1, <2>1 DEF PhaseOf
    <2>3. RowsOf(r)'
      BY <1>1, <2>1 DEF RowsOf
    <2>4. WorkerOf(r)'
      BY <1>1, <1>2, <2>1 DEF WorkerOf
    <2>5. ScanOf(r)'
      <3>1. \A a : AuditOf(r, a)' = AuditOf(r, a)
        BY DEF AuditOf
      <3> QED
        BY <1>1, <2>1, <3>1 DEF ScanOf
    <2>6. RoomFor(r)'
      <3> SUFFICES ASSUME req[r].pc = "chosen", req[r].op = "auto",
                          req[r].worker \notin reopened',
                          AssignmentsTo(req[r].worker) \subseteq req[r].counted
                   PROVE  Cardinality(Queue(req[r].worker)') < Capacity
        BY <1>3 DEF RoomFor
      <3>1. PICK w : w = req[r].worker
        OBVIOUS
      <3>2. w \in Workers /\ w \notin reopened
        BY <2>1, <3>1 DEF PhaseOf
      <3>3. Cardinality(Queue(w)) < Capacity
        BY <2>1, <3>1, <3>2 DEF RoomFor
      <3>4. Queue(w)' \subseteq Queue(w)
        BY <3>1, <3>2
      <3>5. Cardinality(Queue(w)') < Capacity
        BY <3>3, <3>4, SmallerQueue, QueueCount DEF Sane
      <3> QED
        BY <3>1, <3>5
    <2> QED
      BY <2>2, <2>3, <2>4, <2>5, <2>6
  <1>5. CapacityUnlessOverlapped'
    <2> SUFFICES ASSUME NEW w \in Workers, w \notin reopened',
                        \A q \in AssignmentsTo(w) : req[q].op = "auto",
                        \A p, q \in AssignmentsTo(w) : ~Overlap(Counted, p, q)
                 PROVE  Cardinality(Queue(w)') <= Capacity
      BY <1>3 DEF CapacityUnlessOverlapped, Counted, Overlap
    <2>1. w \notin reopened /\ Queue(w)' \subseteq Queue(w)
      OBVIOUS
    <2>2. Cardinality(Queue(w)) <= Capacity
      BY <2>1 DEF CapacityUnlessOverlapped
    <2> QED
      BY <2>1, <2>2, SmallerQueue, QueueCount DEF Sane
  <1> QED
    BY <1>4, <1>5 DEF Calls

\* An endpoint that opens a closed application again, marks its worker.
LEMMA UpdateHolds ==
  ASSUME Sane, IInv, NEW a \in Applications, NEW status, UpdateStatus(a, status)
  PROVE  Calls' /\ CapacityUnlessOverlapped'
  <1>0. TypeOK /\ Calls /\ CapacityUnlessOverlapped
    BY DEF IInv
  <1>1. \A b \in Applications :
          /\ applications'[b].worker = applications[b].worker
          /\ applications'[b].escalated = applications[b].escalated
          /\ applications'[b].priority = applications[b].priority
          /\ b /= a => applications'[b].status = applications[b].status
    BY <1>0 DEF UpdateStatus, TypeOK, Row
  <1>2. reopened \subseteq reopened' /\ UNCHANGED <<req, audit>>
    BY DEF UpdateStatus
  <1>3. ASSUME NEW w \in Workers \ reopened'
        PROVE  Queue(w)' \subseteq Queue(w)
    <2> SUFFICES ASSUME NEW b \in Applications, applications'[b].worker = w,
                        applications'[b].status \in Open
                 PROVE  applications[b].worker = w /\ applications[b].status \in Open
      BY DEF Queue
    <2>1. CASE b /= a
      BY <1>1, <2>1
    <2>2. CASE b = a
      <3>1. applications[a].worker = w
        BY <1>1, <2>2
      <3>2. applications[a].status \notin Open => w \in reopened' \cup {Null}
        BY <3>1 DEF UpdateStatus
      <3> QED
        BY <1>3, <2>2, <3>1, <3>2 DEF Sane
    <2> QED
      BY <2>1, <2>2
  <1> QED
    BY <1>0, <1>1, <1>2, <1>3, OthersHold

LEMMA IdleHolds ==
  ASSUME Sane, IInv, UNCHANGED <<applications, req, audit, reopened>>
  PROVE  Calls' /\ CapacityUnlessOverlapped'
  <1>1. \A w : Queue(w)' = Queue(w)
    BY DEF Queue
  <1> QED
    BY <1>1, OthersHold DEF IInv
-----------------------------------------------------------------------------
(***************************************************************************)
(* Commits.                                                                *)
(***************************************************************************)
Assigns(r) == req[r].op \in {"auto", "manual"}

\* What a commit does to the call
LEMMA CommitCall ==
  ASSUME TypeOK, Calls, NEW r \in Requests, Commit(r)
  PROVE  /\ req[r].pc = "chosen" \/ (req[r].pc = "loaded" /\ req[r].op \in {"escalate", "scan"})
         /\ req[r].pc \in {"loaded", "chosen"}
         /\ req[r].result = "none" /\ r \notin Succeeded
         /\ req'[r].pc = "answered" /\ req'[r].result = "ok"
         /\ \A q \in Requests : /\ req'[q].op = req[q].op
                                /\ req'[q].worker = req[q].worker
                                /\ req'[q].seen = req[q].seen
                                /\ req'[q].counted = req[q].counted
                                /\ req'[q].rows = req[q].rows
                                /\ q /= r => req'[q] = req[q]
         /\ Succeeded' = Succeeded \cup {r}
         /\ \A q \in Requests : Loaded(q)' = Loaded(q)
  <1>1. PhaseOf(r)
    BY DEF Calls
  <1>2. /\ req[r].pc = "chosen" \/ (req[r].pc = "loaded" /\ req[r].op \in {"escalate", "scan"})
        /\ req[r].pc \in {"loaded", "chosen"}
    BY <1>1 DEF Commit, PhaseOf, TypeOK, Request
  <1>3. req[r].result = "none" /\ r \notin Succeeded
    BY <1>1, <1>2 DEF PhaseOf, Succeeded
  <1>4. req' = [req EXCEPT ![r].pc = "answered", ![r].result = "ok"]
    BY DEF Commit, Answer
  <1>5. req'[r].pc = "answered" /\ req'[r].result = "ok"
    BY <1>4 DEF TypeOK, Request
  <1>6. \A q \in Requests : /\ req'[q].op = req[q].op
                            /\ req'[q].worker = req[q].worker
                            /\ req'[q].seen = req[q].seen
                            /\ req'[q].counted = req[q].counted
                            /\ req'[q].rows = req[q].rows
                            /\ q /= r => req'[q] = req[q]
    BY <1>4 DEF TypeOK, Request
  <1>7. Succeeded' = Succeeded \cup {r}
    BY <1>5, <1>6 DEF Succeeded
  <1>8. \A q \in Requests : Loaded(q)' = Loaded(q)
    BY <1>6 DEF Loaded
  <1> QED
    BY <1>2, <1>3, <1>5, <1>6, <1>7, <1>8

\* What a commit does to the rows: an assignment changes the worker, an
\* escalation the marks, and neither takes back what the other wrote.
LEMMA CommitRows ==
  ASSUME TypeOK, Calls, NEW r \in Requests, Commit(r), NEW a \in Applications
  PROVE  /\ a \notin Loaded(r) => applications'[a] = applications[a]
         /\ a \in Loaded(r) /\ Assigns(r) =>
              /\ applications'[a].worker = IF req[r].worker = req[r].rows[a].worker
                                           THEN applications[a].worker
                                           ELSE req[r].worker
              /\ applications'[a].escalated = applications[a].escalated
              /\ applications'[a].priority = applications[a].priority
         /\ a \in Loaded(r) /\ ~Assigns(r) =>
              /\ applications'[a].worker = applications[a].worker
              /\ applications'[a].escalated
              /\ applications'[a].priority = 2
  <1>1. a \notin Loaded(r) => applications'[a] = applications[a]
    BY DEF Commit
  <1>2. ASSUME a \in Loaded(r)
        PROVE  /\ Assigns(r) =>
                    /\ applications'[a].worker = IF req[r].worker = req[r].rows[a].worker
                                                 THEN applications[a].worker
                                                 ELSE req[r].worker
                    /\ applications'[a].escalated = applications[a].escalated
                    /\ applications'[a].priority = applications[a].priority
               /\ ~Assigns(r) =>
                    /\ applications'[a].worker = applications[a].worker
                    /\ applications'[a].escalated
                    /\ applications'[a].priority = 2
    <2> DEFINE row == req[r].rows[a]
               new == Changed(r, row)
               current == applications[a]
               merged == Merged(row, new, current)
    <2>1. row \in Row /\ current \in Row
      BY <1>2, LoadedRows
    <2>2. req[r].pc = "chosen" \/ (req[r].pc = "loaded" /\ req[r].op \in {"escalate", "scan"})
      BY CommitCall
    <2>3. /\ new \in Row
          /\ Assigns(r) => /\ new.worker = req[r].worker
                           /\ new.escalated = row.escalated
                           /\ new.priority = row.priority
          /\ req[r].op \in {"escalate", "scan"} =>
               new.worker = row.worker /\ new.escalated /\ new.priority = 2
      BY <2>1, <2>2, ChangedRow DEF Assigns
    <2>4. Assigns(r) \/ req[r].op \in {"escalate", "scan"}
      BY <2>2 DEF Assigns, Calls, PhaseOf
    <2>5. applications'[a] = merged
      BY <1>2 DEF Commit
    <2>6. /\ merged.worker = IF new.worker = row.worker THEN current.worker
                                                        ELSE new.worker
          /\ merged.priority = IF new.priority = row.priority THEN current.priority
                                                              ELSE new.priority
          /\ merged.escalated = IF new.escalated = row.escalated
                                THEN current.escalated ELSE new.escalated
      BY <2>1, <2>3, MergedRow
    <2>7. (row.escalated => current.escalated) /\ (row.priority = 2 => current.priority = 2)
      BY <1>2 DEF Calls, RowsOf
    <2>8. row.escalated \in BOOLEAN /\ new.escalated \in BOOLEAN
      BY <2>1, <2>3 DEF Row
    <2> HIDE DEF row, new, current, merged
    <2>9. Assigns(r) => /\ merged.worker = IF req[r].worker = row.worker
                                           THEN current.worker ELSE req[r].worker
                        /\ merged.escalated = current.escalated
                        /\ merged.priority = current.priority
      BY <2>3, <2>6
    <2>10. ~Assigns(r) => /\ merged.worker = current.worker
                          /\ merged.escalated /\ merged.priority = 2
      <3> SUFFICES ASSUME ~Assigns(r)
                   PROVE  /\ merged.worker = current.worker
                          /\ merged.escalated /\ merged.priority = 2
        OBVIOUS
      <3>1. new.worker = row.worker /\ new.escalated /\ new.priority = 2
        BY <2>3, <2>4
      <3>2. merged.worker = current.worker /\ merged.priority = 2
        BY <2>6, <2>7, <3>1
      <3>3. merged.escalated
        BY <2>6, <2>7, <2>8, <3>1
      <3> QED
        BY <3>2, <3>3
    <2> USE DEF row, new, current, merged
    <2> QED
      BY <2>5, <2>9, <2>10
  <1> QED
    BY <1>1, <1>2

\* Rows keep their marks, and the rows that call r assigns have its worker or
\* the one another assignment gave them.
LEMMA CommitMarks ==
  ASSUME TypeOK, Calls, NEW r \in Requests, Commit(r)
  PROVE  /\ \A a \in Applications :
              /\ applications[a].escalated => applications'[a].escalated
              /\ applications[a].priority = 2 => applications'[a].priority = 2
              /\ a \notin Loaded(r) \/ ~Assigns(r) =>
                   applications'[a].worker = applications[a].worker
         /\ audit \subseteq audit'
         /\ \A a \in Loaded(r) : AuditOf(r, a) \in audit'
         /\ \A q \in Requests : \A a : AuditOf(q, a)' = AuditOf(q, a)
  <1>1. \A a \in Applications :
          /\ applications[a].escalated => applications'[a].escalated
          /\ applications[a].priority = 2 => applications'[a].priority = 2
          /\ a \notin Loaded(r) \/ ~Assigns(r) =>
               applications'[a].worker = applications[a].worker
    BY CommitRows
  <1>2. audit \subseteq audit' /\ \A a \in Loaded(r) : AuditOf(r, a) \in audit'
    BY DEF Commit
  <1>3. \A q \in Requests : \A a : AuditOf(q, a)' = AuditOf(q, a)
    BY CommitCall DEF AuditOf
  <1> QED
    BY <1>1, <1>2, <1>3

\* The calls that have assigned an application or a worker
LEMMA CommitAssigners ==
  ASSUME TypeOK, Calls, NEW r \in Requests, Commit(r)
  PROVE  /\ \A a \in Applications :
              Assigners(a)' = Assigners(a) \cup
                IF Assigns(r) /\ a \in Loaded(r) THEN {r} ELSE {}
         /\ \A w : AssignmentsTo(w)' = AssignmentsTo(w) \cup
                     IF Assigns(r) /\ req[r].worker = w THEN {r} ELSE {}
  <1>1. /\ Succeeded' = Succeeded \cup {r} /\ Succeeded \subseteq Requests
        /\ \A q \in Requests : /\ Loaded(q)' = Loaded(q)
                               /\ req'[q].op = req[q].op
                               /\ req'[q].worker = req[q].worker
    BY CommitCall DEF Succeeded
  <1>2. \A a \in Applications :
          Assigners(a)' = Assigners(a) \cup
            IF Assigns(r) /\ a \in Loaded(r) THEN {r} ELSE {}
    BY <1>1 DEF Assigners, Assigns
  <1>3. \A w : AssignmentsTo(w)' = AssignmentsTo(w) \cup
                 IF Assigns(r) /\ req[r].worker = w THEN {r} ELSE {}
    BY <1>1 DEF AssignmentsTo, Assigns
  <1> QED
    BY <1>2, <1>3

\* A queue grows only by the assignments to its worker, unless an application of
\* the worker is opened again.
LEMMA CommitQueue ==
  ASSUME Sane, TypeOK, Calls, NEW r \in Requests, Commit(r),
         NEW w \in Workers, w \notin reopened'
  PROVE  /\ w \notin reopened
         /\ Queue(w)' \subseteq Queue(w) \cup Loaded(r)
         /\ ~(Assigns(r) /\ req[r].worker = w) => Queue(w)' \subseteq Queue(w)
  <1> DEFINE back == {b \in Loaded(r) : /\ applications[b].status \notin Open
                                        /\ applications'[b].status \in Open}
  <1>1. reopened' = reopened \cup
          ({applications'[b].worker : b \in back} \ {req[r].worker, Null})
    BY DEF Commit
  <1>2. w \notin reopened
    BY <1>1
  <1>3. Queue(w)' \subseteq Queue(w) \cup Loaded(r)
    BY CommitRows DEF Queue
  <1>4. ASSUME ~(Assigns(r) /\ req[r].worker = w)
        PROVE  Queue(w)' \subseteq Queue(w)
    <2> SUFFICES ASSUME NEW a \in Applications, applications'[a].worker = w,
                        applications'[a].status \in Open
                 PROVE  applications[a].worker = w /\ applications[a].status \in Open
      BY DEF Queue
    <2>1. applications[a].worker = w
      BY <1>4, CommitRows
    <2>2. req[r].worker /= w
      <3>1. req[r].op /= "none" /\ req[r].op \in {"none", "auto", "manual", "escalate", "scan"}
        BY CommitCall DEF Calls, PhaseOf, TypeOK, Request
      <3> QED
        BY <1>4, <3>1 DEF Calls, PhaseOf, Assigns, Sane
    <2>3. CASE a \notin Loaded(r)
      BY <2>1, <2>3, CommitRows
    <2>4. CASE a \in Loaded(r)
      <3>1. a \notin back
        <4> SUFFICES ASSUME a \in back
                     PROVE  FALSE
          OBVIOUS
        <4>1. w \in {applications'[b].worker : b \in back}
          OBVIOUS
        <4> QED
          BY <1>1, <2>2, <4>1 DEF Sane
      <3> QED
        BY <2>1, <2>4, <3>1
    <2> QED
      BY <2>3, <2>4
  <1> QED
    BY <1>2, <1>3, <1>4

\* The other calls, when call r commits
LEMMA CommitOthers ==
  ASSUME Sane, TypeOK, Calls, NEW r \in Requests, Commit(r),
         NEW q \in Requests \ {r}
  PROVE  PhaseOf(q)' /\ RowsOf(q)' /\ WorkerOf(q)' /\ ScanOf(q)' /\ RoomFor(q)'
  <1>1. PhaseOf(q) /\ RowsOf(q) /\ WorkerOf(q) /\ ScanOf(q) /\ RoomFor(q)
    BY DEF Calls
  <1>2. /\ req'[q] = req[q] /\ Loaded(q)' = Loaded(q)
        /\ Succeeded' = Succeeded \cup {r} /\ r \notin Succeeded
        /\ Loaded(q) \subseteq Applications
    BY CommitCall DEF Loaded
  <1>3. r \notin req[q].seen /\ r \notin req[q].counted
    BY <1>1, <1>2 DEF PhaseOf
  <1>4. PhaseOf(q)'
    BY <1>1, <1>2 DEF PhaseOf
  <1>5. RowsOf(q)'
    BY <1>1, <1>2, CommitMarks DEF RowsOf
  <1>6. WorkerOf(q)'
    <2>1. ASSUME NEW a \in Loaded(q)
          PROVE  /\ Assigners(a)' \subseteq req[q].seen \/ Assigners(a)' \ {q} \subseteq req[q].seen
                      => applications'[a].worker = applications[a].worker
                 /\ Assigners(a) \subseteq Assigners(a)'
      <3>1. CASE Assigns(r) /\ a \in Loaded(r)
        BY <1>2, <1>3, <3>1, CommitAssigners
      <3>2. CASE a \notin Loaded(r) \/ ~Assigns(r)
        BY <1>2, <3>2, CommitMarks, CommitAssigners
      <3> QED
        BY <3>1, <3>2
    <2>2. ASSUME NEW a \in Loaded(q), req[q].pc \in {"loaded", "chosen"},
                 Assigners(a)' \subseteq req[q].seen
          PROVE  req[q].rows[a].worker = applications'[a].worker
      BY <1>1, <2>1, <2>2 DEF WorkerOf
    <2>3. ASSUME NEW a \in Loaded(q), req[q].result = "ok", req[q].op \in {"auto", "manual"},
                 Assigners(a)' \ {q} \subseteq req[q].seen
          PROVE  applications'[a].worker = req[q].worker
      BY <1>1, <2>1, <2>3 DEF WorkerOf
    <2> QED
      BY <1>2, <2>2, <2>3 DEF WorkerOf
  <1>7. ScanOf(q)'
    <2>1. \A p \in Requests : req'[p].op = req[p].op /\ Loaded(p)' = Loaded(p)
      BY CommitCall
    <2>2. ASSUME req[q].op = "scan", NEW a \in Loaded(q), req[q].result = "ok"
          PROVE  /\ applications'[a].escalated /\ applications'[a].priority = 2
                 /\ AuditOf(q, a) \in audit'
      BY <1>1, <1>2, <2>2, CommitMarks DEF ScanOf
    <2>3. \A a : AuditOf(q, a)' = AuditOf(q, a)
      BY CommitMarks
    <2>4. req[q].op = "scan" => \A a \in Loaded(q) : \A p \in Requests :
            p /= q /\ req[p].op = "scan" /\ a \in Loaded(p) => p \notin req[q].seen
      BY <1>1 DEF ScanOf
    <2> QED
      BY <1>2, <2>1, <2>2, <2>3, <2>4 DEF ScanOf
  <1>8. RoomFor(q)'
    <2> SUFFICES ASSUME req[q].pc = "chosen", req[q].op = "auto",
                        req[q].worker \notin reopened',
                        AssignmentsTo(req[q].worker)' \subseteq req[q].counted
                 PROVE  Cardinality(Queue(req[q].worker)') < Capacity
      BY <1>2 DEF RoomFor
    <2>1. PICK w : w = req[q].worker
      OBVIOUS
    <2>2. w \in Workers
      BY <1>1, <2>1 DEF PhaseOf
    <2>3. ~(Assigns(r) /\ req[r].worker = w)
      BY <1>2, <1>3, <2>1, CommitAssigners
    <2>4. Queue(w)' \subseteq Queue(w) /\ w \notin reopened
      BY <2>1, <2>2, <2>3, CommitQueue
    <2>5. AssignmentsTo(w) \subseteq req[q].counted
      BY <1>2, <2>1, CommitAssigners
    <2>6. Cardinality(Queue(w)) < Capacity
      BY <1>1, <2>1, <2>4, <2>5 DEF RoomFor
    <2>7. Cardinality(Queue(w)') < Capacity
      BY <2>4, <2>6, SmallerQueue, QueueCount DEF Sane
    <2> QED
      BY <1>2, <2>1, <2>7
  <1> QED
    BY <1>4, <1>5, <1>6, <1>7, <1>8

\* The call that commits
LEMMA CommitSelf ==
  ASSUME Sane, TypeOK, Calls, NEW r \in Requests, Commit(r)
  PROVE  PhaseOf(r)' /\ RowsOf(r)' /\ WorkerOf(r)' /\ ScanOf(r)' /\ RoomFor(r)'
  <1>1. PhaseOf(r) /\ RowsOf(r) /\ WorkerOf(r) /\ ScanOf(r)
    BY DEF Calls
  <1>2. /\ req'[r].pc = "answered" /\ req'[r].result = "ok"
        /\ req'[r].op = req[r].op /\ req'[r].worker = req[r].worker
        /\ req'[r].seen = req[r].seen /\ req'[r].counted = req[r].counted
        /\ req'[r].rows = req[r].rows /\ Loaded(r)' = Loaded(r)
        /\ Succeeded' = Succeeded \cup {r} /\ r \notin Succeeded
        /\ req[r].pc \in {"loaded", "chosen"}
        /\ Loaded(r) \subseteq Applications
    BY CommitCall DEF Loaded
  <1>3. PhaseOf(r)'
    <2>1. Assigns(r) => req[r].worker \in Workers
      BY <1>1, CommitCall DEF PhaseOf, Assigns
    <2> QED
      BY <1>1, <1>2, <2>1 DEF PhaseOf, Assigns
  <1>4. RowsOf(r)'
    BY <1>1, <1>2, CommitMarks DEF RowsOf
  <1>5. WorkerOf(r)'
    <2>1. ASSUME NEW a \in Loaded(r), Assigns(r), Assigners(a)' \ {r} \subseteq req[r].seen
          PROVE  applications'[a].worker = req[r].worker
      <3>1. a \in Applications /\ Assigners(a) \subseteq Assigners(a)'
        BY <1>2, CommitAssigners
      <3>2. r \notin Assigners(a)
        BY <1>2 DEF Assigners
      <3>3. req[r].rows[a].worker = applications[a].worker
        BY <1>1, <1>2, <2>1, <3>1, <3>2 DEF WorkerOf
      <3> QED
        BY <2>1, <3>1, <3>3, CommitRows
    <2> QED
      BY <1>2, <2>1 DEF WorkerOf, Assigns
  <1>6. ScanOf(r)'
    <2>1. \A p \in Requests : req'[p].op = req[p].op /\ Loaded(p)' = Loaded(p)
      BY CommitCall
    <2>2. ASSUME req[r].op = "scan", NEW a \in Loaded(r)
          PROVE  /\ applications'[a].escalated /\ applications'[a].priority = 2
                 /\ AuditOf(r, a) \in audit'
      BY <1>2, <2>2, CommitRows, CommitMarks DEF Assigns
    <2>3. \A a : AuditOf(r, a)' = AuditOf(r, a)
      BY CommitMarks
    <2>4. req[r].op = "scan" => \A a \in Loaded(r) : \A p \in Requests :
            p /= r /\ req[p].op = "scan" /\ a \in Loaded(p) => p \notin req[r].seen
      BY <1>1 DEF ScanOf
    <2> QED
      BY <1>2, <2>1, <2>2, <2>3, <2>4 DEF ScanOf
  <1>7. RoomFor(r)'
    BY <1>2 DEF RoomFor
  <1> QED
    BY <1>3, <1>4, <1>5, <1>6, <1>7

\* An automatic assignment that overlaps no other to its worker, has counted them.
LEMMA CommitCapacity ==
  ASSUME Sane, IInv, NEW r \in Requests, Commit(r)
  PROVE  CapacityUnlessOverlapped'
  <1>0. TypeOK /\ Calls /\ CapacityUnlessOverlapped
    BY DEF IInv
  <1> SUFFICES ASSUME NEW w \in Workers, w \notin reopened',
                      \A q \in AssignmentsTo(w)' : req'[q].op = "auto",
                      \A p, q \in AssignmentsTo(w)' : ~Overlap(Counted', p, q)
               PROVE  Cardinality(Queue(w)') <= Capacity
    BY DEF CapacityUnlessOverlapped
  <1>1. \A q \in Requests : req'[q].op = req[q].op /\ req'[q].counted = req[q].counted
    BY <1>0, CommitCall
  <1>2. \A q \in AssignmentsTo(w) : q \in Succeeded /\ q \in Requests
    BY DEF AssignmentsTo, Succeeded
  <1>3. AssignmentsTo(w) \subseteq AssignmentsTo(w)'
    BY <1>0, CommitAssigners
  <1>4. \A p, q \in AssignmentsTo(w)' :
          p \in Requests /\ q \in Requests => ~Overlap(Counted, p, q)
    BY <1>1 DEF Counted, Overlap
  <1>5. w \notin reopened
    BY <1>0, CommitQueue
  <1>6. CASE ~(Assigns(r) /\ req[r].worker = w)
    <2>1. Queue(w)' \subseteq Queue(w)
      BY <1>0, <1>6, CommitQueue
    <2>2. \A q \in AssignmentsTo(w) : req[q].op = "auto"
      BY <1>1, <1>2, <1>3
    <2>3. \A p, q \in AssignmentsTo(w) : ~Overlap(Counted, p, q)
      BY <1>2, <1>3, <1>4
    <2>4. Cardinality(Queue(w)) <= Capacity
      BY <1>0, <1>5, <2>2, <2>3 DEF CapacityUnlessOverlapped
    <2> QED
      BY <2>1, <2>4, SmallerQueue, QueueCount DEF Sane
  <1>7. CASE Assigns(r) /\ req[r].worker = w
    <2>1. r \in AssignmentsTo(w)' /\ req[r].op = "auto"
      BY <1>0, <1>1, <1>7, CommitAssigners
    <2>2. req[r].pc = "chosen" /\ r \notin Succeeded
      BY <1>0, <2>1, CommitCall
    <2>3. ASSUME NEW q \in AssignmentsTo(w)
          PROVE  q \in req[r].counted
      <3>1. q \in Requests /\ q /= r /\ r \notin req[q].counted
        BY <1>0, <1>2, <2>2 DEF Calls, PhaseOf
      <3>2. ~Overlap(Counted, r, q)
        BY <1>3, <1>4, <2>1, <3>1
      <3> QED
        BY <3>1, <3>2 DEF Overlap, Counted
    <2>4. Cardinality(Queue(w)) < Capacity
      BY <1>0, <1>5, <1>7, <2>1, <2>2, <2>3 DEF Calls, RoomFor
    <2>5. CASE Loaded(r) = {}
      <3>1. Queue(w)' \subseteq Queue(w)
        BY <1>0, <2>5, CommitQueue
      <3> QED
        BY <2>4, <3>1, SmallerQueue, QueueCount DEF Sane
    <2>6. ASSUME NEW b \in Loaded(r)
          PROVE  Cardinality(Queue(w)') <= Capacity
      <3>1. Loaded(r) = {b}
        BY <1>0, <2>1, <2>6 DEF Calls, PhaseOf
      <3>2. Queue(w)' \subseteq Queue(w) \cup {b}
        BY <1>0, <3>1, CommitQueue
      <3>3. IsFiniteSet(Queue(w)) /\ Cardinality(Queue(w)) \in Nat
        BY QueueCount
      <3>4. /\ IsFiniteSet(Queue(w) \cup {b})
            /\ Cardinality(Queue(w) \cup {b}) <= Cardinality(Queue(w)) + 1
            /\ Cardinality(Queue(w) \cup {b}) \in Nat
        <4> DEFINE Q == Queue(w)
        <4> HIDE DEF Q
        <4>1. IsFiniteSet(Q) /\ Cardinality(Q) \in Nat
          BY <3>3 DEF Q
        <4>2. /\ IsFiniteSet(Q \cup {b})
              /\ Cardinality(Q \cup {b}) = IF b \in Q THEN Cardinality(Q)
                                                      ELSE Cardinality(Q) + 1
          BY <4>1, FS_AddElement
        <4>3. /\ Cardinality(Q \cup {b}) <= Cardinality(Q) + 1
              /\ Cardinality(Q \cup {b}) \in Nat
          BY <4>1, <4>2
        <4> QED
          BY <4>2, <4>3 DEF Q
      <3>5. /\ Cardinality(Queue(w)') \in Nat
            /\ Cardinality(Queue(w)') <= Cardinality(Queue(w) \cup {b})
        BY <3>2, <3>4, FS_Subset, FS_CardinalityType
      <3> QED
        BY <2>4, <3>3, <3>4, <3>5 DEF Sane
    <2> QED
      BY <2>5, <2>6
  <1> QED
    BY <1>6, <1>7
-----------------------------------------------------------------------------
(***************************************************************************)
(* The theorems.                                                           *)
(***************************************************************************)

LEMMA InitHolds == Sane /\ Init => IInv
  <1> SUFFICES ASSUME Sane, Init
               PROVE  IInv
    OBVIOUS
  <1>1. TypeOK
    <2> DEFINE row == [status |-> "submitted", worker |-> Null, reviewed |-> Null,
                       escalated |-> FALSE, priority |-> 1]
    <2>1. row \in Row
      BY DEF Row, Statuses, Open
    <2> HIDE DEF row
    <2>2. applications \in [Applications -> Row]
      BY <2>1 DEF Init, row
    <2>3. req \in [Requests -> Request]
      BY BlankCall DEF Init
    <2>4. active \in [Workers -> BOOLEAN]
      BY DEF Init
    <2>5. /\ events = {} /\ audit = {} /\ reopened = {}
          /\ clock \in 0..MaxTime /\ changes \in 0..MaxChanges
      BY DEF Init, Sane
    <2> QED
      BY <2>2, <2>3, <2>4, <2>5 DEF TypeOK
  <1>2. \A r \in Requests : /\ req[r].pc = "idle" /\ req[r].result = "none"
                            /\ req[r].op = "none" /\ req[r].seen = {}
                            /\ req[r].counted = {} /\ Loaded(r) = {}
    BY DEF Init, NotArrived, Loaded
  <1>3. Calls
    BY <1>2 DEF Calls, PhaseOf, RowsOf, WorkerOf, ScanOf, RoomFor
  <1>4. CapacityUnlessOverlapped
    <2>1. \A w \in Workers : Queue(w) = {}
      BY DEF Init, Queue, Sane
    <2>2. \A w \in Workers : Cardinality(Queue(w)) = 0
      BY <2>1, FS_EmptySet
    <2> QED
      BY <2>2 DEF CapacityUnlessOverlapped, Sane
  <1> QED
    BY <1>1, <1>3, <1>4 DEF IInv

LEMMA NextHolds == Sane /\ IInv /\ [Next]_vars => IInv'
  <1> SUFFICES ASSUME Sane, IInv, [Next]_vars
               PROVE  IInv'
    OBVIOUS
  <1>1. TypeOK'
    BY NextTyped DEF IInv
  <1>2. ASSUME NEW r \in Requests,
               \/ \E a \in Applications :
                    \/ LoadAuto(r, a) \/ LoadEscalation(r, a)
                    \/ \E w \in Workers : LoadManual(r, a, w)
               \/ LoadScan(r)
        PROVE  Calls' /\ CapacityUnlessOverlapped'
    BY <1>2, LoadsHold
  <1>3. ASSUME NEW r \in Requests, ChooseWorker(r)
        PROVE  Calls' /\ CapacityUnlessOverlapped'
    BY <1>3, ChooseHolds
  <1>4. ASSUME NEW r \in Requests, NobodyFree(r) \/ FindWorker(r) \/ Die(r)
        PROVE  Calls' /\ CapacityUnlessOverlapped'
    BY <1>4, EndsHold
  <1>5. ASSUME NEW r \in Requests, Commit(r)
        PROVE  Calls' /\ CapacityUnlessOverlapped'
    BY <1>5, CommitOthers, CommitSelf, CommitCapacity DEF IInv, Calls
  <1>6. ASSUME NEW a \in Applications, NEW status \in Targets,
               UpdateStatus(a, status)
        PROVE  Calls' /\ CapacityUnlessOverlapped'
    BY <1>6, UpdateHolds
  <1>7. ASSUME NEW w \in Workers, SwitchWorker(w)
        PROVE  Calls' /\ CapacityUnlessOverlapped'
    <2>1. UNCHANGED <<applications, req, audit, reopened>>
      BY <1>7 DEF SwitchWorker
    <2> QED
      BY <2>1, IdleHolds
  <1>8. ASSUME Tick
        PROVE  Calls' /\ CapacityUnlessOverlapped'
    <2>1. UNCHANGED <<applications, req, audit, reopened>>
      BY <1>8 DEF Tick
    <2> QED
      BY <2>1, IdleHolds
  <1>9. ASSUME UNCHANGED vars
        PROVE  Calls' /\ CapacityUnlessOverlapped'
    <2>1. UNCHANGED <<applications, req, audit, reopened>>
      BY <1>9 DEF vars
    <2> QED
      BY <2>1, IdleHolds
  <1>10. Calls' /\ CapacityUnlessOverlapped'
    BY <1>2, <1>3, <1>4, <1>5, <1>6, <1>7, <1>8, <1>9 DEF Next
  <1> QED
    BY <1>1, <1>10 DEF IInv

LEMMA Inductive == ASSUME Sane PROVE Spec => []IInv
  <1>1. Init => IInv
    BY InitHolds
  <1>2. IInv /\ [Next]_vars => IInv'
    BY NextHolds
  <1> QED
    BY <1>1, <1>2, PTL DEF Spec

\* Rows and calls have the columns and values the code gives them.
THEOREM TypeCorrect ==
  ASSUME Sane
  PROVE  Spec => []TypeOK
  <1>1. IInv => TypeOK
    BY DEF IInv
  <1> QED
    BY <1>1, Inductive, PTL

\* What the calls' phases mean for the rows they have written
LEMMA AssignersMean == IInv => AssignmentsHold
  <1> SUFFICES ASSUME IInv, NEW r \in Succeeded, NEW a \in Loaded(r),
                      req[r].op \in {"auto", "manual"},
                      \A q \in Succeeded \ {r} :
                        a \in Loaded(q) /\ req[q].op \in {"auto", "manual"}
                          => q \in req[r].seen
               PROVE  applications[a].worker = req[r].worker
    BY DEF AssignmentsHold
  <1>1. r \in Requests /\ req[r].result = "ok" /\ WorkerOf(r)
    BY DEF IInv, Calls, Succeeded
  <1>2. Assigners(a) \ {r} \subseteq req[r].seen
    BY DEF Assigners
  <1> QED
    BY <1>1, <1>2 DEF WorkerOf

LEMMA MarksMean == IInv => ScansEscalateOnce
  <1> SUFFICES ASSUME IInv, NEW r \in Scans, NEW a \in Loaded(r)
               PROVE  /\ applications[a].escalated /\ applications[a].priority = 2
                      /\ AuditOf(r, a) \in audit
                      /\ \A q \in Scans : a \in Loaded(q) /\ q /= r => Overlap(Seen, r, q)
    BY DEF ScansEscalateOnce
  <1>1. \A q \in Scans : /\ q \in Requests /\ req[q].op = "scan"
                         /\ req[q].result = "ok" /\ ScanOf(q)
    BY DEF IInv, Calls, Scans, Succeeded
  <1>2. ASSUME NEW q \in Scans, a \in Loaded(q), q /= r
        PROVE  Overlap(Seen, r, q)
    BY <1>1, <1>2 DEF ScanOf, Overlap, Seen
  <1> QED
    BY <1>1, <1>2 DEF ScanOf

\* Whatever escalations, scans and endpoints do in between, an application keeps
\* the worker of its last assignment: the ORM leaves out the columns that a
\* session has not changed.
THEOREM AssignmentsStay ==
  ASSUME Sane
  PROVE  Spec => []AssignmentsHold
  BY AssignersMean, Inductive, PTL

\* An application is escalated by one scan of those that do not overlap, and
\* keeps its marks and its audit row.
THEOREM ScansApart ==
  ASSUME Sane
  PROVE  Spec => []ScansEscalateOnce
  BY MarksMean, Inductive, PTL

\* A queue exceeds the limit only by manual or overlapping assignments, or by
\* applications that are opened again.
THEOREM QueuesKeepToTheLimit ==
  ASSUME Sane
  PROVE  Spec => []CapacityUnlessOverlapped
  <1>1. IInv => CapacityUnlessOverlapped
    BY DEF IInv
  <1> QED
    BY <1>1, Inductive, PTL
=============================================================================
