---------------------------- MODULE WorkflowEngine ----------------------------
(***************************************************************************)
(* WorkflowEngine: automatic and manual assignment, escalation and the scan *)
(* for breaches of the SLA (workflow/engine.py). Each call has a session of *)
(* its own: the caller loads the application, the engine reads what it      *)
(* needs, and row, event and audit row are committed together. Meanwhile    *)
(* the endpoints change statuses, and admins disable workers.              *)
(***************************************************************************)
EXTENDS Integers, FiniteSets

CONSTANTS
  Applications,
  Workers,
  Requests,   \* calls of the engine
  Capacity,   \* WORKFLOW_MAX_WORKER_QUEUE
  Sla,        \* WORKFLOW_ESCALATION_HOURS, in units of the clock
  MaxTime,    \* bound: the clock stops here
  Targets,    \* bound: the statuses the endpoints set
  MaxChanges, \* bound: changes made by the endpoints
  Null        \* the value of an empty column or field

VARIABLES
  applications,  \* table applications
  active,        \* is_active of the workers
  events,        \* table workflow_events, the engine's rows
  audit,         \* table audit_logs, the engine's rows
  req,           \* the calls and their local state
  reopened,      \* history: workers whose closed applications were opened again
                 \* by anything but an assignment to them
  clock,         \* the clock of the processes
  changes        \* how many changes the endpoints have made

vars ==
  <<applications, active, events, audit, req, reopened, clock, changes>>

Open == {"submitted", "under_review", "manual_review"}

\* closed stands for the statuses that auto_assign does not count
Statuses == Open \cup {"closed"}

Row == [status : Statuses, worker : Workers \cup {Null},
        reviewed : 0..MaxTime \cup {Null}, escalated : BOOLEAN,
        priority : {1, 2}]

Event == [by : Requests, application : Applications, from : Statuses,
          to : Statuses]

AuditRow == [by : Requests, application : Applications,
             action : {"assigned", "escalated"}, worker : Workers \cup {Null}]

\* rows has the applications that were loaded, as loaded; seen and counted, the
\* calls that had committed when they were loaded and when the workers' queues
\* were counted
Request ==
  [pc : {"idle", "loaded", "chosen", "answered"},
   result : {"none", "ok", "nobody", "error", "dead"},
   op : {"none", "auto", "manual", "escalate", "scan"},
   rows : [Applications -> Row \cup {Null}],
   worker : Workers \cup {Null}, seen : SUBSET Requests,
   counted : SUBSET Requests]

NotArrived ==
  [pc |-> "idle", result |-> "none", op |-> "none",
   rows |-> [a \in Applications |-> Null], worker |-> Null, seen |-> {},
   counted |-> {}]

\* The applications call r has loaded
Loaded(r) == {a \in Applications : req[r].rows[a] /= Null}

Succeeded == {r \in Requests : req[r].result = "ok"}
-----------------------------------------------------------------------------
\* A slip: the UPDATE writes every column as the session has it
MergedWholeRow(loaded, new, current) == new

\* The ORM writes a column only if its value differs from the one it loaded
Merged(loaded, new, current) ==
  [column \in DOMAIN current |->
     IF new[column] = loaded[column] THEN current[column] ELSE new[column]]

Queue(w) == {a \in Applications : /\ applications[a].worker = w
                                  /\ applications[a].status \in Open}

\* A slip: a queue may grow beyond its limit by one
FreeWorkersInclusive ==
  {w \in Workers : active[w] /\ Cardinality(Queue(w)) <= Capacity}

FreeWorkers == {w \in Workers : active[w] /\ Cardinality(Queue(w)) < Capacity}

\* ORDER BY count LIMIT 1
LeastLoaded ==
  {w \in FreeWorkers : \A v \in FreeWorkers :
     Cardinality(Queue(w)) <= Cardinality(Queue(v))}

\* A slip: the scan does not look at escalated_at
BreachedAgain(a) ==
  /\ applications[a].status = "under_review"
  /\ applications[a].reviewed /= Null
  /\ applications[a].reviewed < clock - Sla

\* In a comparison NULL is not true: who was never stamped is never found
Breached(a) ==
  /\ applications[a].status = "under_review"
  /\ applications[a].reviewed /= Null
  /\ applications[a].reviewed < clock - Sla
  /\ ~applications[a].escalated

\* The row after the assignment or escalation; reviewed_at is left alone
Changed(r, row) ==
  CASE req[r].op = "auto" ->
         [row EXCEPT !.worker = req[r].worker, !.status = "under_review"]
    [] req[r].op = "manual" ->
         [row EXCEPT !.worker = req[r].worker,
                     !.status = IF @ = "submitted" THEN "under_review" ELSE @]
    [] OTHER ->
         [row EXCEPT !.status = "manual_review", !.escalated = TRUE,
                     !.priority = 2]

EventOf(r, a) ==
  [by |-> r, application |-> a, from |-> req[r].rows[a].status,
   to |-> Changed(r, req[r].rows[a]).status]

AuditOf(r, a) ==
  [by |-> r, application |-> a, worker |-> req[r].worker,
   action |-> IF req[r].worker = Null THEN "escalated" ELSE "assigned"]

Answer(r, result) ==
  req' = [req EXCEPT ![r].pc = "answered", ![r].result = result]

Begin(r, op, set, worker) ==
  /\ req[r].pc = "idle"
  /\ req' = [req EXCEPT ![r] =
       [NotArrived EXCEPT !.pc = "loaded", !.op = op, !.worker = worker,
                          !.rows = [a \in Applications |->
                                     IF a \in set THEN applications[a] ELSE Null],
                          !.seen = Succeeded]]
  /\ UNCHANGED <<applications, active, events, audit, reopened, clock, changes>>
-----------------------------------------------------------------------------
LoadAuto(r, a) == Begin(r, "auto", {a}, Null)

LoadManual(r, a, w) == Begin(r, "manual", {a}, w)

LoadEscalation(r, a) == Begin(r, "escalate", {a}, Null)

\* The SELECT of check_sla_breaches
LoadScan(r) == Begin(r, "scan", {a \in Applications : Breached(a)}, Null)

ChooseWorker(r) ==
  /\ req[r].pc = "loaded" /\ req[r].op = "auto"
  /\ \E w \in LeastLoaded :
       req' = [req EXCEPT ![r].pc = "chosen", ![r].worker = w,
                          ![r].counted = Succeeded]
  /\ UNCHANGED <<applications, active, events, audit, reopened, clock, changes>>

\* Every queue is full, or no worker is active
NobodyFree(r) ==
  /\ req[r].pc = "loaded" /\ req[r].op = "auto" /\ FreeWorkers = {}
  /\ Answer(r, "nobody")
  /\ UNCHANGED <<applications, active, events, audit, reopened, clock, changes>>

FindWorker(r) ==
  /\ req[r].pc = "loaded" /\ req[r].op = "manual"
  /\ IF active[req[r].worker] THEN req' = [req EXCEPT ![r].pc = "chosen"]
                              ELSE Answer(r, "error")
  /\ UNCHANGED <<applications, active, events, audit, reopened, clock, changes>>

\* One transaction: rows, events, audit rows; a scan that finds none commits none
Commit(r) ==
  LET rows == req[r].rows
      changed == [a \in Applications |->
                    IF a \in Loaded(r)
                    THEN Merged(rows[a], Changed(r, rows[a]), applications[a])
                    ELSE applications[a]]
  IN /\ req[r].pc = IF req[r].op \in {"auto", "manual"} THEN "chosen"
                                                        ELSE "loaded"
     /\ applications' = changed
     /\ events' = events \cup {EventOf(r, a) : a \in Loaded(r)}
     /\ audit' = audit \cup {AuditOf(r, a) : a \in Loaded(r)}
     /\ reopened' = reopened \cup
          ({changed[a].worker : a \in {b \in Loaded(r) :
              applications[b].status \notin Open /\ changed[b].status \in Open}}
           \ {req[r].worker, Null})
     /\ Answer(r, "ok")
     /\ UNCHANGED <<active, clock, changes>>

\* The process or its connection fails, which rolls the transaction back
Die(r) ==
  /\ req[r].pc \in {"loaded", "chosen"}
  /\ Answer(r, "dead")
  /\ UNCHANGED <<applications, active, events, audit, reopened, clock, changes>>

\* update_status: under_review is stamped
UpdateStatus(a, status) ==
  /\ changes < MaxChanges
  /\ changes' = changes + 1
  /\ applications' = [applications EXCEPT
       ![a].status = status,
       ![a].reviewed = IF status = "under_review" THEN clock ELSE @]
  /\ reopened' = reopened \cup
       IF applications[a].status \in Open THEN {}
       ELSE {applications[a].worker} \ {Null}
  /\ UNCHANGED <<active, events, audit, req, clock>>

\* update_user_status
SwitchWorker(w) ==
  /\ changes < MaxChanges
  /\ changes' = changes + 1
  /\ active' = [active EXCEPT ![w] = ~@]
  /\ UNCHANGED <<applications, events, audit, req, reopened, clock>>

Tick ==
  /\ clock < MaxTime
  /\ clock' = clock + 1
  /\ UNCHANGED <<applications, active, events, audit, req, reopened, changes>>

Init ==
  /\ applications = [a \in Applications |->
       [status |-> "submitted", worker |-> Null, reviewed |-> Null,
        escalated |-> FALSE, priority |-> 1]]
  /\ active = [w \in Workers |-> TRUE]
  /\ events = {}
  /\ audit = {}
  /\ req = [r \in Requests |-> NotArrived]
  /\ reopened = {}
  /\ clock = 0
  /\ changes = 0

Next ==
  \/ \E r \in Requests :
       \/ \E a \in Applications :
            \/ LoadAuto(r, a) \/ LoadEscalation(r, a)
            \/ \E w \in Workers : LoadManual(r, a, w)
       \/ LoadScan(r) \/ ChooseWorker(r) \/ NobodyFree(r) \/ FindWorker(r)
       \/ Commit(r) \/ Die(r)
  \/ \E a \in Applications, status \in Targets : UpdateStatus(a, status)
  \/ (\E w \in Workers : SwitchWorker(w)) \/ Tick

Spec == Init /\ [][Next]_vars
-----------------------------------------------------------------------------
(***************************************************************************)
(* Properties.                                                             *)
(***************************************************************************)

\* Rows and calls have the columns and values the code gives them.
TypeOK ==
  /\ applications \in [Applications -> Row]
  /\ active \in [Workers -> BOOLEAN]
  /\ events \subseteq Event
  /\ audit \subseteq AuditRow
  /\ req \in [Requests -> Request]
  /\ reopened \subseteq Workers
  /\ clock \in 0..MaxTime
  /\ changes \in 0..MaxChanges

\* Neither of the two could see the other's effect
Overlap(before, r, q) == r /= q /\ r \notin before[q] /\ q \notin before[r]

Counted == [r \in Requests |-> req[r].counted]

AssignmentsTo(w) ==
  {r \in Succeeded : req[r].op \in {"auto", "manual"} /\ req[r].worker = w}

\* A worker's queue exceeds the limit only by manual assignments, by automatic
\* ones that overlap, or by applications that come back after they were closed.
CapacityUnlessOverlapped ==
  \A w \in Workers :
    /\ w \notin reopened
    /\ \A r \in AssignmentsTo(w) : req[r].op = "auto"
    /\ \A r, q \in AssignmentsTo(w) : ~Overlap(Counted, r, q)
    => Cardinality(Queue(w)) <= Capacity

Scans == {r \in Succeeded : req[r].op = "scan"}

Seen == [r \in Requests |-> req[r].seen]

\* A scan that has committed has escalated every application it found, with its
\* priority raised and an audit row; no other scan escalates it again, unless
\* the two overlap.
ScansEscalateOnce ==
  \A r \in Scans : \A a \in Loaded(r) :
    /\ applications[a].escalated /\ applications[a].priority = 2
    /\ AuditOf(r, a) \in audit
    /\ \A q \in Scans : a \in Loaded(q) /\ q /= r => Overlap(Seen, r, q)

\* An assignment holds until another one: no escalation or scan in flight writes
\* back the worker it has read.
AssignmentsHold ==
  \A r \in Succeeded : \A a \in Loaded(r) :
    /\ req[r].op \in {"auto", "manual"}
    /\ \A q \in Succeeded \ {r} :
         a \in Loaded(q) /\ req[q].op \in {"auto", "manual"}
           => q \in req[r].seen
    => applications[a].worker = req[r].worker
=============================================================================
