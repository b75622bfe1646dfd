------------------------------ MODULE MCServices ------------------------------
(***************************************************************************)
(* An instance for TLC of four components that share neither state nor     *)
(* calls: TransUnion, Documents, AuditArchiver and WorkflowEngine. What     *)
(* they do is independent, so each behavior is one of one of them, chosen   *)
(* at its start; the others stay in their initial states.                  *)
(***************************************************************************)
EXTENDS TransUnion, FiniteSets

CONSTANTS
  Users, Staff, Loans, Submissions, Reasons,  \* Documents
  Rows, Limit, Age, LastDay,                 \* AuditArchiver
  Applications, Workers, Requests, Capacity, Sla, LastHour, Targets,
  MaxChanges,                                             \* WorkflowEngine
  Null

VARIABLES
  objects, documents, uploads,  \* Documents
  created, archived, run, today,  \* AuditArchiver
  applications, active, events, audit, calls, reopened, hour, changes,
                                                \* WorkflowEngine
  part  \* the component at work

\* Every application is the one client's
Applicant == [a \in Loans |-> CHOOSE u \in Users : u \notin Staff]

Docs == INSTANCE Documents WITH req <- uploads, Applications <- Loans,
                                Requests <- Submissions
Arch == INSTANCE AuditArchiver
Flow == INSTANCE WorkflowEngine WITH req <- calls, clock <- hour,
                                     MaxTime <- LastHour

docsVars == <<objects, documents, uploads>>
archVars == <<created, archived, run, today>>
flowVars == <<applications, active, events, audit, calls, reopened, hour, changes>>

allVars == <<vars, docsVars, archVars, flowVars, part>>

MCInit ==
  /\ Init /\ Docs!Init /\ Arch!Init /\ Flow!Init
  /\ part \in {"TransUnion", "Documents", "AuditArchiver", "WorkflowEngine"}

MCNext ==
  /\ UNCHANGED part
  /\ \/ /\ part = "TransUnion" /\ Next
        /\ UNCHANGED <<docsVars, archVars, flowVars>>
     \/ /\ part = "Documents" /\ Docs!Next
        /\ UNCHANGED <<vars, archVars, flowVars>>
     \/ /\ part = "AuditArchiver" /\ Arch!Next
        /\ UNCHANGED <<vars, docsVars, flowVars>>
     \/ /\ part = "WorkflowEngine" /\ Flow!Next
        /\ UNCHANGED <<vars, docsVars, archVars>>

MCSpec == MCInit /\ [][MCNext]_allVars /\ WF_vars(Advance)

\* Bound: workers are switched off in the first hour only, and in the last none
\* of their applications is closed. Escalation alone looks at the clock; it does
\* not look at active, and it meets what is closed an hour before.
CalmLater ==
  /\ hour > 0 => \A w \in Workers : active[w]
  /\ hour = LastHour => \A a \in Applications : applications[a].status /= "closed"

\* What holds of a component at work; of one at rest it holds from the start
Of(component, property) == part = component => property

\* The type invariants of the four
TypesOK == /\ Of("TransUnion", TypeOK)
           /\ Of("Documents", Docs!TypeOK)
           /\ Of("AuditArchiver", Arch!TypeOK)
           /\ Of("WorkflowEngine", Flow!TypeOK)

RowsHaveObjects == Of("Documents", Docs!RowsHaveObjects)
LastReviewHolds == Of("Documents", Docs!LastReviewHolds)
ShortRunsComplete == Of("AuditArchiver", Arch!ShortRunsComplete)
CapacityUnlessOverlapped == Of("WorkflowEngine", Flow!CapacityUnlessOverlapped)
ScansEscalateOnce == Of("WorkflowEngine", Flow!ScansEscalateOnce)
AssignmentsHold == Of("WorkflowEngine", Flow!AssignmentsHold)
=============================================================================
