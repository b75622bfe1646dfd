--------------------------- MODULE MCServicesProofs ---------------------------
(***************************************************************************)
(* Proofs about AuditArchiver, and about the four components of MCServices  *)
(* side by side: for any values of their constants, what is proved of each  *)
(* alone holds of it there. Docs and DocsP, Flow and FlowP are the same     *)
(* definitions, once without and once with the proofs about them.          *)
(***************************************************************************)
EXTENDS MCServices, TransUnionProofs

DocsP == INSTANCE DocumentsProofs WITH req <- uploads, Applications <- Loans,
                                       Requests <- Submissions
FlowP == INSTANCE WorkflowEngineProofs WITH req <- calls, clock <- hour,
                                            MaxTime <- LastHour

\* What is asked of the constants
ArchiverSettings == Limit \in Nat /\ Age \in Nat /\ LastDay \in Nat

Sound == ArchiverSettings /\ DocsP!NullApart /\ FlowP!Sane
-----------------------------------------------------------------------------
(***************************************************************************)
(* AuditArchiver: what a run that is not cut short by its limit leaves      *)
(* behind, however often runs fail, and that nothing is archived before     *)
(* its time.                                                               *)
(***************************************************************************)

\* A run at work has rows that are old, and all of them below its limit.
RunIsHonest ==
  run.pc = "selected" =>
    /\ run.batch \subseteq run.old /\ run.old \subseteq Arch!OldRows
    /\ Arch!Cardinality(run.batch) < Limit => run.batch = run.old

Archived == Arch!TypeOK /\ RunIsHonest /\ Arch!ShortRunsComplete

\* An old row stays one.
LEMMA OldRowsStay ==
  ASSUME Arch!TypeOK, ArchiverSettings,
         \/ UNCHANGED <<created, today>>
         \/ \E x \in Rows : Arch!LogRow(x)
         \/ Arch!NextDay
  PROVE  Arch!OldRows \subseteq Arch!OldRows'
  <1>1. \A x \in DOMAIN created : created[x] \in Int
    BY DEF Arch!TypeOK
  <1>2. today \in Int /\ Age \in Int
    BY DEF Arch!TypeOK, ArchiverSettings
  <1>3. CASE UNCHANGED <<created, today>>
    BY <1>3 DEF Arch!OldRows, Arch!Old
  <1>4. ASSUME NEW x \in Rows, Arch!LogRow(x)
        PROVE  Arch!OldRows \subseteq Arch!OldRows'
    <2>1. \A y \in DOMAIN created : y \in DOMAIN created' /\ created'[y] = created[y]
      BY <1>4 DEF Arch!LogRow
    <2>2. today' = today
      BY <1>4 DEF Arch!LogRow
    <2> QED
      BY <2>1, <2>2 DEF Arch!OldRows, Arch!Old
  <1>5. CASE Arch!NextDay
    <2>1. created' = created /\ today' = today + 1
      BY <1>5 DEF Arch!NextDay
    <2> QED
      BY <1>1, <1>2, <2>1 DEF Arch!OldRows, Arch!Old
  <1> QED
    BY <1>3, <1>4, <1>5

LEMMA Archiver_Init == ArchiverSettings /\ Arch!Init => Archived
  <1> SUFFICES ASSUME ArchiverSettings, Arch!Init PROVE Archived
    OBVIOUS
  <1>1. Arch!TypeOK
    BY DEF Arch!Init, Arch!TypeOK, Arch!Run, ArchiverSettings
  <1>2. RunIsHonest /\ Arch!ShortRunsComplete
    BY DEF Arch!Init, RunIsHonest, Arch!ShortRunsComplete
  <1> QED
    BY <1>1, <1>2 DEF Archived

\* A run that ends has archived its batch, or is no success.
LEMMA Archiver_Ends ==
  ASSUME Archived, ArchiverSettings, Arch!Put \/ Arch!PutFails \/ Arch!Die
  PROVE  Archived'
  <1>1. /\ run.pc = "selected" /\ UNCHANGED <<created, today>>
        /\ archived' \in {archived, archived \cup run.batch}
    BY DEF Arch!Put, Arch!PutFails, Arch!Die
  <1>2. PICK result \in {"ok", "error", "dead"} :
          /\ run' = [run EXCEPT !.pc = "idle", !.result = result]
          /\ result = "ok" => archived' = archived \cup run.batch
    BY DEF Arch!Put, Arch!PutFails, Arch!Die
  <1>3. /\ run' \in Arch!Run /\ run'.pc = "idle" /\ run'.result = result
        /\ run'.old = run.old /\ run'.batch = run.batch
    BY <1>2 DEF Archived, Arch!TypeOK, Arch!Run
  <1>4. /\ run.batch \subseteq Arch!OldRows /\ run.batch \subseteq Rows
        /\ archived \subseteq Arch!OldRows /\ Arch!OldRows' = Arch!OldRows
    BY <1>1 DEF Archived, Arch!TypeOK, RunIsHonest, Arch!ShortRunsComplete, Arch!Run, Arch!OldRows, Arch!Old
  <1>5. Arch!TypeOK'
    BY <1>1, <1>3, <1>4 DEF Archived, Arch!TypeOK
  <1>6. RunIsHonest'
    BY <1>3 DEF RunIsHonest
  <1>7. Arch!ShortRunsComplete'
    <2>1. archived' \subseteq Arch!OldRows'
      BY <1>1, <1>4
    <2>2. run'.result = "ok" /\ Arch!Cardinality(run'.batch) < Limit => run'.old \subseteq archived'
      BY <1>1, <1>2, <1>3 DEF Archived, RunIsHonest
    <2> QED
      BY <2>1, <2>2 DEF Arch!ShortRunsComplete
  <1> QED
    BY <1>5, <1>6, <1>7 DEF Archived

LEMMA Archiver_Select ==
  ASSUME Archived, ArchiverSettings, Arch!Select
  PROVE  Archived'
  <1>1. PICK batch \in Arch!Batches :
          run' = [pc |-> IF batch = {} THEN "idle" ELSE "selected",
                  result |-> IF batch = {} THEN "ok" ELSE "none",
                  old |-> Arch!OldRows, batch |-> batch]
    BY DEF Arch!Select
  <1>2. UNCHANGED <<created, archived, today>> /\ Arch!OldRows' = Arch!OldRows
    BY DEF Arch!Select, Arch!OldRows, Arch!Old
  <1>3. batch \subseteq Arch!OldRows /\ (batch = Arch!OldRows \/ Arch!Cardinality(batch) = Limit)
    BY <1>1 DEF Arch!Batches
  <1>4. Arch!OldRows \subseteq Rows
    BY DEF Arch!OldRows, Archived, Arch!TypeOK
  <1>5. Arch!Cardinality(batch) < Limit => batch = Arch!OldRows
    BY <1>3 DEF ArchiverSettings
  <1>6. /\ run'.old = Arch!OldRows /\ run'.batch = batch
        /\ run'.result = "ok" => batch = {}
    BY <1>1
  <1>7. Arch!TypeOK'
    BY <1>1, <1>2, <1>3, <1>4 DEF Archived, Arch!TypeOK, Arch!Run
  <1>8. RunIsHonest'
    BY <1>2, <1>3, <1>5, <1>6 DEF RunIsHonest
  <1>9. Arch!ShortRunsComplete'
    BY <1>2, <1>5, <1>6 DEF Archived, Arch!ShortRunsComplete
  <1> QED
    BY <1>7, <1>8, <1>9 DEF Archived

LEMMA Archiver_Next == ArchiverSettings /\ Archived /\ [Arch!Next]_(Arch!vars) => Archived'
  <1> SUFFICES ASSUME ArchiverSettings, Archived, [Arch!Next]_(Arch!vars) PROVE Archived'
    OBVIOUS
  <1>1. ASSUME UNCHANGED <<archived, run>>,
               \/ UNCHANGED <<created, today>>
               \/ \E x \in Rows : Arch!LogRow(x)
               \/ Arch!NextDay
        PROVE  Archived'
    <2>1. Arch!OldRows \subseteq Arch!OldRows'
      BY <1>1, OldRowsStay DEF Archived
    <2>2. Arch!TypeOK'
      <3>1. CASE UNCHANGED <<created, today>>
        BY <1>1, <3>1 DEF Archived, Arch!TypeOK
      <3>2. CASE \E x \in Rows : Arch!LogRow(x)
        BY <1>1, <3>2 DEF Archived, Arch!TypeOK, Arch!LogRow
      <3>3. CASE Arch!NextDay
        BY <1>1, <3>3 DEF Archived, Arch!TypeOK, Arch!NextDay, ArchiverSettings
      <3> QED
        BY <1>1, <3>1, <3>2, <3>3
    <2>3. RunIsHonest' /\ Arch!ShortRunsComplete'
      BY <1>1, <2>1 DEF Archived, RunIsHonest, Arch!ShortRunsComplete
    <2> QED
      BY <2>2, <2>3 DEF Archived
  <1>2. CASE UNCHANGED Arch!vars
    BY <1>1, <1>2 DEF Arch!vars
  <1>3. CASE \E x \in Rows : Arch!LogRow(x)
    BY <1>1, <1>3 DEF Arch!LogRow
  <1>4. CASE Arch!NextDay
    BY <1>1, <1>4 DEF Arch!NextDay
  <1> QED
    BY <1>2, <1>3, <1>4, Archiver_Ends, Archiver_Select DEF Arch!Next

\* Rows and run stay of their types, for any rows, limit and age.
THEOREM ArchiverTypeCorrect ==
  ASSUME ArchiverSettings
  PROVE  Arch!Spec => []Arch!TypeOK
  <1>1. Archived => Arch!TypeOK
    BY DEF Archived
  <1> QED
    BY <1>1, Archiver_Init, Archiver_Next, PTL DEF Arch!Spec

\* A run that succeeded and took less than Limit rows leaves no row behind that
\* was old at its SELECT; nothing is archived before its time.
THEOREM ShortRunsAreComplete ==
  ASSUME ArchiverSettings
  PROVE  Arch!Spec => []Arch!ShortRunsComplete
  <1>1. Archived => Arch!ShortRunsComplete
    BY DEF Archived
  <1> QED
    BY <1>1, Archiver_Init, Archiver_Next, PTL DEF Arch!Spec
-----------------------------------------------------------------------------
(***************************************************************************)
(* Docs and DocsP, Flow and FlowP say the same.                            *)
(***************************************************************************)

LEMMA DocumentsStart == Docs!Init => DocsP!Init
  BY DEF Docs!Init, DocsP!Init, Docs!NotArrived, DocsP!NotArrived

LEMMA DocumentsStep == Docs!Next => DocsP!Next
  BY DEF Docs!Next, Docs!LoadUpload, Docs!Store, Docs!StoreFails,
         Docs!CommitUpload, Docs!LoadReview, Docs!CommitReview, Docs!Refuse,
         Docs!Die, Docs!Begin, Docs!Answer, Docs!Reviewed, Docs!NewDocument,
         Docs!Written, Docs!Authorized, Docs!NotArrived, Docs!Succeeded,
         Docs!InFlight,
         DocsP!Next, DocsP!LoadUpload, DocsP!Store, DocsP!StoreFails,
         DocsP!CommitUpload, DocsP!LoadReview, DocsP!CommitReview, DocsP!Refuse,
         DocsP!Die, DocsP!Begin, DocsP!Answer, DocsP!Reviewed, DocsP!NewDocument,
         DocsP!Written, DocsP!Authorized, DocsP!NotArrived, DocsP!Succeeded,
         DocsP!InFlight

LEMMA DocumentsTyped == DocsP!TypeOK => Docs!TypeOK
  BY DEF Docs!TypeOK, Docs!Row, Docs!Request, DocsP!TypeOK, DocsP!Row, DocsP!Request

LEMMA DocumentsStored == DocsP!RowsHaveObjects => Docs!RowsHaveObjects
  BY DEF Docs!RowsHaveObjects, Docs!Succeeded,
         DocsP!RowsHaveObjects, DocsP!Succeeded

LEMMA DocumentsReviewed == DocsP!LastReviewHolds => Docs!LastReviewHolds
  BY DEF Docs!LastReviewHolds, Docs!ReviewsOf, Docs!Succeeded,
         DocsP!LastReviewHolds, DocsP!ReviewsOf, DocsP!Succeeded

LEMMA WorkflowStart == Flow!Init => FlowP!Init
  BY DEF Flow!Init, FlowP!Init, Flow!NotArrived, FlowP!NotArrived

LEMMA WorkflowStep == Flow!Next => FlowP!Next
  BY Zenon
     DEF Flow!Next, Flow!LoadAuto, Flow!LoadManual, Flow!LoadEscalation,
         Flow!LoadScan, Flow!ChooseWorker, Flow!NobodyFree, Flow!FindWorker,
         Flow!Commit, Flow!Die, Flow!UpdateStatus, Flow!SwitchWorker, Flow!Tick,
         Flow!Begin, Flow!Answer, Flow!AuditOf, Flow!EventOf, Flow!Changed,
         Flow!Breached, Flow!LeastLoaded, Flow!FreeWorkers, Flow!Queue,
         Flow!Merged, Flow!Succeeded, Flow!Loaded, Flow!NotArrived, Flow!Open,
         Flow!Cardinality,
         FlowP!Next, FlowP!LoadAuto, FlowP!LoadManual, FlowP!LoadEscalation,
         FlowP!LoadScan, FlowP!ChooseWorker, FlowP!NobodyFree, FlowP!FindWorker,
         FlowP!Commit, FlowP!Die, FlowP!UpdateStatus, FlowP!SwitchWorker, FlowP!Tick,
         FlowP!Begin, FlowP!Answer, FlowP!AuditOf, FlowP!EventOf, FlowP!Changed,
         FlowP!Breached, FlowP!LeastLoaded, FlowP!FreeWorkers, FlowP!Queue,
         FlowP!Merged, FlowP!Succeeded, FlowP!Loaded, FlowP!NotArrived, FlowP!Open,
         FlowP!Cardinality

LEMMA WorkflowTyped == FlowP!TypeOK => Flow!TypeOK
  BY DEF Flow!TypeOK, Flow!Row, Flow!Event, Flow!AuditRow, Flow!Request,
         Flow!Statuses, Flow!Open,
         FlowP!TypeOK, FlowP!Row, FlowP!Event, FlowP!AuditRow, FlowP!Request,
         FlowP!Statuses, FlowP!Open

LEMMA WorkflowLimited == FlowP!CapacityUnlessOverlapped => Flow!CapacityUnlessOverlapped
  BY Zenon
     DEF Flow!CapacityUnlessOverlapped, Flow!AssignmentsTo, Flow!Overlap,
         Flow!Counted, Flow!Queue, Flow!Open, Flow!Succeeded, Flow!Cardinality,
         FlowP!CapacityUnlessOverlapped, FlowP!AssignmentsTo, FlowP!Overlap,
         FlowP!Counted, FlowP!Queue, FlowP!Open, FlowP!Succeeded, FlowP!Cardinality

LEMMA WorkflowScanned == FlowP!ScansEscalateOnce => Flow!ScansEscalateOnce
  BY DEF Flow!ScansEscalateOnce, Flow!Scans, Flow!Seen, Flow!Overlap,
         Flow!AuditOf, Flow!Loaded, Flow!Succeeded,
         FlowP!ScansEscalateOnce, FlowP!Scans, FlowP!Seen, FlowP!Overlap,
         FlowP!AuditOf, FlowP!Loaded, FlowP!Succeeded

LEMMA WorkflowAssigned == FlowP!AssignmentsHold => Flow!AssignmentsHold
  BY DEF Flow!AssignmentsHold, Flow!Loaded, Flow!Succeeded,
         FlowP!AssignmentsHold, FlowP!Loaded, FlowP!Succeeded
-----------------------------------------------------------------------------
(***************************************************************************)
(* The four side by side. A step of one leaves the others' variables alone, *)
(* so that each keeps its own inductive invariant, whichever is at work.    *)
(***************************************************************************)

Each == IInv /\ DocsP!IInv /\ Archived /\ FlowP!IInv

LEMMA Each_Init == Sound /\ MCInit => Each
  <1> SUFFICES ASSUME Sound, MCInit PROVE Each
    OBVIOUS
  <1>1. Init /\ Docs!Init /\ Arch!Init /\ Flow!Init
    BY DEF MCInit
  <1>2. IInv
    BY <1>1, TypeOK_Init, TokenSound_Init, Loop_Init DEF IInv
  <1>3. DocsP!IInv
    BY <1>1, DocumentsStart, DocsP!Init_IInv DEF Sound
  <1>4. Archived
    BY <1>1, Archiver_Init DEF Sound
  <1>5. FlowP!IInv
    BY <1>1, WorkflowStart, FlowP!InitHolds DEF Sound
  <1> QED
    BY <1>2, <1>3, <1>4, <1>5 DEF Each

\* Whatever the four do, each takes a step of its own or none
LEMMA Apart ==
  ASSUME [MCNext]_allVars
  PROVE  /\ [Next]_vars
         /\ [DocsP!Next]_(DocsP!vars)
         /\ [Arch!Next]_(Arch!vars)
         /\ [FlowP!Next]_(FlowP!vars)
  <1>1. UNCHANGED docsVars => UNCHANGED DocsP!vars
    BY DEF docsVars, DocsP!vars
  <1>2. UNCHANGED archVars => UNCHANGED Arch!vars
    BY DEF archVars, Arch!vars
  <1>3. UNCHANGED flowVars => UNCHANGED FlowP!vars
    BY DEF flowVars, FlowP!vars
  <1>4. CASE MCNext
    BY <1>1, <1>2, <1>3, <1>4, DocumentsStep, WorkflowStep DEF MCNext
  <1>5. CASE UNCHANGED allVars
    BY <1>1, <1>2, <1>3, <1>5 DEF allVars
  <1> QED
    BY <1>4, <1>5

LEMMA Each_Next == Sound /\ Each /\ [MCNext]_allVars => Each'
  <1> SUFFICES ASSUME Sound, Each, [MCNext]_allVars PROVE Each'
    OBVIOUS
  <1>1. IInv'
    BY Apart, TypeOK_Next, TokenSound_Next, Loop_Next DEF Each, IInv
  <1>2. DocsP!IInv'
    BY Apart, DocsP!Next_IInv DEF Each, Sound
  <1>3. Archived'
    BY Apart, Archiver_Next DEF Each, Sound
  <1>4. FlowP!IInv'
    BY Apart, FlowP!NextHolds DEF Each, Sound
  <1> QED
    BY <1>1, <1>2, <1>3, <1>4 DEF Each

LEMMA EachHolds ==
  ASSUME Sound
  PROVE  MCSpec => []Each
  BY Each_Init, Each_Next, PTL DEF MCSpec

\* Each of the four keeps to its types.
THEOREM ServicesTypeCorrect ==
  ASSUME Sound
  PROVE  MCSpec => []TypesOK
  <1>1. Each => TypesOK
    BY DocumentsTyped, WorkflowTyped
       DEF Each, IInv, DocsP!IInv, Archived, FlowP!IInv, TypesOK, Of
  <1> QED
    BY <1>1, EachHolds, PTL

\* However uploads fail, die and interleave, every row has its object, and every
\* confirmed upload both.
THEOREM RowsAlwaysHaveObjects ==
  ASSUME Sound
  PROVE  MCSpec => []RowsHaveObjects
  <1>1. Each => RowsHaveObjects
    BY DocsP!PhasesMean, DocumentsStored DEF Each, RowsHaveObjects, Of
  <1> QED
    BY <1>1, EachHolds, PTL

\* A document holds the verdict of its last review unless reviews overlap.
THEOREM LastReviewsHold ==
  ASSUME Sound
  PROVE  MCSpec => []LastReviewHolds
  <1>1. Each => LastReviewHolds
    BY DocumentsReviewed DEF Each, DocsP!IInv, LastReviewHolds, Of
  <1> QED
    BY <1>1, EachHolds, PTL

\* A run of the archiver that its limit does not cut short leaves no old row
\* behind, and none archives a row before its time.
THEOREM ShortRunsStayComplete ==
  ASSUME Sound
  PROVE  MCSpec => []ShortRunsComplete
  <1>1. Each => ShortRunsComplete
    BY DEF Each, Archived, ShortRunsComplete, Of
  <1> QED
    BY <1>1, EachHolds, PTL

\* A queue exceeds the limit only by manual or overlapping assignments, or by
\* applications that are opened again.
THEOREM QueuesKeepToCapacity ==
  ASSUME Sound
  PROVE  MCSpec => []CapacityUnlessOverlapped
  <1>1. Each => CapacityUnlessOverlapped
    BY WorkflowLimited DEF Each, FlowP!IInv, CapacityUnlessOverlapped, Of
  <1> QED
    BY <1>1, EachHolds, PTL

\* An application is escalated by one scan of those that do not overlap, and
\* keeps its marks and its audit row.
THEOREM ScansEscalateApart ==
  ASSUME Sound
  PROVE  MCSpec => []ScansEscalateOnce
  <1>1. Each => ScansEscalateOnce
    BY FlowP!MarksMean, WorkflowScanned DEF Each, ScansEscalateOnce, Of
  <1> QED
    BY <1>1, EachHolds, PTL

\* An application keeps the worker of its last assignment, whatever escalations
\* and scans write back.
THEOREM AssignmentsAlwaysHold ==
  ASSUME Sound
  PROVE  MCSpec => []AssignmentsHold
  <1>1. Each => AssignmentsHold
    BY FlowP!AssignersMean, WorkflowAssigned DEF Each, AssignmentsHold, Of
  <1> QED
    BY <1>1, EachHolds, PTL
=============================================================================
