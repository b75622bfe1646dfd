----------------------------- MODULE AuditArchiver -----------------------------
(***************************************************************************)
(* AuditArchiver: archive_old_logs (audit_service.py). A run takes at most *)
(* Limit of the rows that are old, in no order, and puts them into S3 as    *)
(* one object; neither row nor bucket tells it what is archived already.   *)
(***************************************************************************)
EXTENDS Integers, FiniteSets

CONSTANTS
  Rows,     \* rows of audit_logs, those there are and those to come
  Limit,    \* LIMIT 1000
  Age,      \* AUDIT_S3_ARCHIVE_AFTER_DAYS, in units of the clock
  LastDay   \* bound: the clock stops here

VARIABLES
  created,   \* created_at of each row that is there
  archived,  \* the rows in some object of AWS_S3_BUCKET_AUDIT_LOGS
  run,       \* the run at work, and how the last one ended
  today      \* the clock

vars == <<created, archived, run, today>>

Run == [pc : {"idle", "selected"}, result : {"none", "ok", "error", "dead"},
        old : SUBSET Rows, batch : SUBSET Rows]
-----------------------------------------------------------------------------
Old(x) == created[x] < today - Age

OldRows == {x \in DOMAIN created : Old(x)}

\* What SELECT ... LIMIT may return
Batches == {batch \in SUBSET OldRows :
              \/ batch = OldRows /\ Cardinality(OldRows) <= Limit
              \/ Cardinality(batch) = Limit}

LogRow(x) ==
  /\ x \notin DOMAIN created
  /\ created' = [y \in DOMAIN created \cup {x} |->
                   IF y = x THEN today ELSE created[y]]
  /\ UNCHANGED <<archived, run, today>>

Select ==
  /\ run.pc = "idle"
  /\ \E batch \in Batches :
       run' = [pc |-> IF batch = {} THEN "idle" ELSE "selected",
               result |-> IF batch = {} THEN "ok" ELSE "none",
               old |-> OldRows, batch |-> batch]
  /\ UNCHANGED <<created, archived, today>>

\* A slip: an error of S3 is logged and forgotten
PutUnconfirmed ==
  /\ run.pc = "selected"
  /\ archived' \in {archived, archived \cup run.batch}
  /\ run' = [run EXCEPT !.pc = "idle", !.result = "ok"]
  /\ UNCHANGED <<created, today>>

Put ==
  /\ run.pc = "selected"
  /\ archived' = archived \cup run.batch
  /\ run' = [run EXCEPT !.pc = "idle", !.result = "ok"]
  /\ UNCHANGED <<created, today>>

\* S3 may have stored an object whose answer was lost
PutFails ==
  /\ run.pc = "selected"
  /\ archived' \in {archived, archived \cup run.batch}
  /\ run' = [run EXCEPT !.pc = "idle", !.result = "error"]
  /\ UNCHANGED <<created, today>>

Die ==
  /\ run.pc = "selected"
  /\ run' = [run EXCEPT !.pc = "idle", !.result = "dead"]
  /\ UNCHANGED <<created, archived, today>>

NextDay ==
  /\ today < LastDay
  /\ today' = today + 1
  /\ UNCHANGED <<created, archived, run>>

Init ==
  /\ created = [x \in {} |-> 0]
  /\ archived = {}
  /\ run = [pc |-> "idle", result |-> "none", old |-> {}, batch |-> {}]
  /\ today = 0

Next == \/ \E x \in Rows : LogRow(x)
        \/ Select \/ Put \/ PutFails \/ Die \/ NextDay

Spec == Init /\ [][Next]_vars

\* The daily schedule of the class's comment, at its best: nothing ever fails
Healthy == \/ \E x \in Rows : LogRow(x)
           \/ Select \/ Put \/ NextDay

DailySpec == Init /\ [][Healthy]_vars /\ WF_vars(Select) /\ WF_vars(Put)
-----------------------------------------------------------------------------
(***************************************************************************)
(* Properties.                                                             *)
(***************************************************************************)

\* Rows and run are of their types.
TypeOK ==
  /\ DOMAIN created \subseteq Rows
  /\ \A x \in DOMAIN created : created[x] \in 0..today
  /\ archived \subseteq Rows
  /\ run \in Run
  /\ run.pc = "selected" => run.batch \subseteq run.old
  /\ today \in 0..LastDay

\* A run that succeeded and took less than Limit rows leaves no row behind that
\* was old at its SELECT; nothing is archived before its time.
ShortRunsComplete ==
  /\ run.result = "ok" /\ Cardinality(run.batch) < Limit
       => run.old \subseteq archived
  /\ archived \subseteq OldRows
=============================================================================
