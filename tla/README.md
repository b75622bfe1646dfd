# Verification of the Ramus lending backend

TLA+ models of the FastAPI/Celery backend under `src/backend/app` (paths below
are relative to that directory), the TLC runs that check them on small
instances, and TLAPS proofs of their safety for instances of any size.

## 1. The system

The backend takes loan applications from clients, lets workers and admins move
them through a lifecycle, records consents, obtains credit reports from
TransUnion, decides by configurable rules and mails applicants through SES.
State is in PostgreSQL; handlers are coroutines of several processes, each with
a session of its own (`db/session.py`), at READ COMMITTED and without row locks
on reads. Celery tasks over Redis do the bureau's background work.

| Component | State | Operations | Interacts with |
|---|---|---|---|
| Application endpoints (`applications.py`) | `applications`, `workflow_events` | create, list, get, update status | session, audit log, notifications |
| Decision endpoints (`decisions.py`) | `decisions`, `applications` | run decision, list, override | decision engine, audit log |
| Workflow endpoints (`workflow.py`) | `applications`, `workflow_events` | assign, auto-assign, escalate, queues | workflow engine, audit log |
| Consent endpoints (`consent.py`) | `consents` | grant, list | audit log |
| Credit bureau endpoints (`credit_bureau.py`) | `credit_snapshots` | check, list | consents, audit log, Celery |
| Webhooks (`webhooks.py`) | none | receive a callback | Celery |
| Bureau tasks (`bureau_tasks.py`) | `credit_snapshots`, the broker's queue | fetch report, process webhook, run decision | TransUnion, application service |
| Application service | none of its own | run decision, assign | both engines, notifications |
| Workflow engine (`workflow/engine.py`) | `applications`, `workflow_events` | auto-assign, reassign, escalate, SLA scan | audit log |
| Decision engine (`decision_engine/engine.py`) | `decision_rules` (read) | evaluate rules, classify risk, rate, repayment plans | none |
| TransUnion integration | token cache, `bureau_api_logs` | token, fetch with retries, normalize | HTTP |
| Authentication (`auth.py`, `core/security.py`) | `users`, `refresh_tokens` | register, login with lockout, refresh, logout; role checks | audit log, notifications |
| Administration (`admin.py`) | `decision_rules`, `users` | rules with versions, users, statistics | audit log |
| Documents (`documents.py`) | `documents`, S3 | upload, list, verify | S3, audit log |
| Audit log (`audit_service.py`) | `audit_logs`, S3 | log, archive | every endpoint |
| Notifications (`email_service.py`) | `notification_logs` | send and log | SES |

Frontends and static pages are mock-ups that call no endpoint; infrastructure,
migrations, configuration, logging and schemas keep no state. `PROJECT.json`
lists them all, with what is modelled and why the rest is not.

What makes each component correct, and what is hard about it:

- **Lifecycle** (applications, decisions, workflow): status, stamps, history,
  decisions, audit trail and mail must tell one story. A status update is two
  transactions with a mail in the second; overlapping requests read a status
  that is stale when they write; a failure after the first commit leaves half
  of the records.
- **Credit check** (consent, bureau, webhooks, tasks): no check without the
  applicant's consent; every snapshot audited; a report only from callbacks
  about that snapshot; decisions only on reports. Check and insert are not
  atomic, tasks are delivered more than once or lost, callbacks overlap.
- **Workflow engine**: a worker's capacity, and escalation of every application
  beyond the SLA. Counting and assigning are two steps.
- **Decision engine**: first match by priority decides, unknown conditions never
  approve, repayment plans add up. Ties of priority and rounding.
- **TransUnion**: at most the configured attempts, a token that is valid when
  used, a normalization that is total.
- **Authentication**: lockout after five failures, one successor per refresh
  token, one account per address. Lost updates of a counter, two uses of one
  token, a login in flight while an administrator changes the account.
- **Administration, documents, archiver**: versions that count changes, no row
  without its object, no audit row left out of the archive.

The hazards, each at its line, are in `PROJECT.json`.

## 2. Modules

| Module | Models |
|---|---|
| `StatusHistory` | what the tables promise about a status: the abstract specification of `Lifecycle` |
| `Lifecycle`, `LifecycleProps` | update status, override, escalate, and the handlers that fail on every path; its properties |
| `CreditCheck`, `CreditCheckProps` | consent, check, callback, task, redelivery; its properties |
| `Accounts` | registration, login with lockout, refresh, logout, changes of role and status |
| `Repayment` | the calculator's plans, in cents |
| `DecisionEngine` | conditions, first match, risk, terms, the seeded rules, as functions |
| `DecisionRules` | editing the rules while the engine decides by them; extends the two above |
| `WorkflowEngine` | automatic and manual assignment, escalation, SLA scan |
| `TransUnion` | token cache, fetch with retries and log, health check |
| `Documents` | upload through S3 and table, review |
| `AuditArchiver` | the run that copies old audit rows to S3 |
| `MCLifecycle`, `MCCreditCheck`, `MCAccounts` | symmetry for TLC |
| `MCDecisionRules` | tables, edits and applications for TLC |
| `MCServices` | the last four components side by side for TLC |
| `MCAuditArchiver` | the archiver's daily schedule and what its comment promises |
| `LifecycleProofs`, `CreditCheckProofs`, `AccountsProofs`, `DecisionRulesProofs`, `WorkflowEngineProofs`, `TransUnionProofs`, `DocumentsProofs` | inductive invariants and theorems |
| `MCServicesProofs` | the archiver's, and those of the four components of `MCServices` side by side |

`DecisionRules` composes the administration of the rules with the engine that
reads them, and the engine with the calculator. `Lifecycle` and `CreditCheck`
compose their handlers with audit log, mail and queue. `MCServices` composes
nothing: `TransUnion`, `Documents`, `AuditArchiver` and `WorkflowEngine` have no
caller in common that completes, share neither table nor bucket, and are checked
in one run, each behavior being one of one of them.

Definitions named as "a slip" in a comment are no part of a specification:
each is the faulty variant of the definition after it that the properties must
be able to tell from the real one. `PROJECT.json` pairs them under `mutants`.

### 2.1 Lifecycle

`Requests` are HTTP requests, each handled once; `req[r]` holds the handler's
local variables and where it stands:

| `pc` | The handler of `update_status` |
|---|---|
| `idle` | has not arrived |
| `loaded` | has read the row (`_get_and_authorize`), `loaded` is `old_status` |
| `committed` | has committed row and event (`applications.py:241`) |
| `mailed` | has called SES, audit and notification rows are flushed |
| `answered` | `get_db` has committed or rolled back |

| Action | Code |
|---|---|
| `LoadStatusUpdate`, `CommitStatusUpdate`, `NotifyApplicant`, `FinishStatusUpdate` | `applications.py:211-298`, `email_service.py:188-258` |
| `PricingRaises` | `notify_approved` cannot parse amount or rate (`email_service.py:313`) |
| `SesUnreachable` | boto3 raises what `send` does not catch (`email_service.py:236`) |
| `LoadOverride`, `CommitOverride` | `decisions.py:131-186` |
| `LoadEscalation`, `CommitEscalation` | `workflow.py:166-201` |
| `Refuse` | `require_roles`, `_get_and_authorize` |
| `FailingHandler` | create, assign, auto-assign and run-decision, which raise on every path |
| `Die` | a process, a connection or the pool fails; the open transaction is rolled back |

Three points are easily overlooked. The ORM writes only columns whose value
differs from the one loaded: `Written` leaves the current status in place when
a handler assigns the one it has read. `created_at` of a row is the start of
its transaction: `at` is drawn from `clock` when a handler loads. And a status
update's audit row and notification row are flushed early but committed only by
`FinishStatusUpdate`; the tables hold committed rows only.

Terms of a decision are abstracted to what `notify_approved` can tell apart: no
amount, an amount without a rate, both, both with an amount that is formatted
with a comma. E-mail wording, references and amounts are left out.

### 2.2 CreditCheck

`Requests` are HTTP requests for a consent or a check, and name the row each
inserts. `Hooks` are TransUnion's callbacks, and name their task and, if they
carry one (`named`), their `bureau_request_id`; a report without one stores
NULL there and is a success all the same (`RequestId`, `bureau_tasks.py:179`).

| Action | Code |
|---|---|
| `LoadConsent`, `RefuseConsent`, `CommitConsent`, `AuditConsent` | `consent.py:70-148` |
| `LoadCheck`, `RefuseCheck`, `CommitCheck` | `credit_bureau.py:46-147` |
| `ReceiveHook`, `RejectHook` | `webhooks.py:46-86` |
| `StartTask`, `IgnoreUnknown`, `CommitReport`, `TriggerDecision` | `bureau_tasks.py:160-188` |
| `Acknowledge`, `Redeliver`, `Lose` | `task_acks_late` (`bureau_tasks.py:32`) |
| `RunDecision` | `bureau_tasks.py:134-157`, `application_service.py:36` |

`CommitCheck` ends in an error on every path: the name it imports after its
commit is not defined in `bureau_tasks.py`. For the same reason no task
`fetch_credit_report` is ever queued, and callbacks are the only writers of a
snapshot. `Redeliver` is the death of a worker, whose tasks the broker delivers
again; `Lose` is the death of the process at work, or an exception in the task,
both of which Celery acknowledges (`task_reject_on_worker_lost` is off). The
broker's visibility timeout, an hour, is taken to be longer than any task.
Callbacks with a valid signature come from TransUnion and refer to a snapshot,
to none, or to one that does not exist. `scored` tells a callback without the
field `credit_score` from one whose field is empty.

Purposes are two of the three: a check tells its own from any other. Consents
are never revoked by an endpoint. Snapshots keep status, application, consent,
score and the request id of the callback; the other columns are written by
nobody. Assignments and ID numbers are constants, since no handler that
completes changes them.

### 2.3 Accounts

`Requests` are HTTP requests; a token is named by the request that issued it.

| Action | Code |
|---|---|
| `LoadRegister`, `RefuseRegister`, `Insert`, `InsertRaced`, `FinishRegister`, `WelcomeRaises` | `auth.py:89-144` |
| `LoadLogin`, `RefuseLogin`, `RejectLogin`, `AcceptLogin`, `FinishAudited` | `auth.py:147-213` |
| `LoadToken`, `RefuseToken`, `LoadOwner`, `Rotate` | `auth.py:216-257` |
| `LoadLogout`, `Revoke` | `auth.py:260-275` |
| `LoadRoleChange`, `CommitRoleChange`, `LoadStatusChange`, `CommitStatusChange`, `RefuseAdmin` | `admin.py:350-393` |
| `Die`, `Tick` | as above; the clock of locks and tokens |

A refresh is two reads, of the token and of its owner, with an await between
them, and the rotation writes the old token back from what it has read. A
registration finds the address free, then inserts; the unique constraint turns
the second of two away (`InsertRaced`). A lock that has expired leaves the
counter of failures where it was, so the next wrong password locks again. A
change of a user's status is not audited, one of a role is.

### 2.4 Decision rules and engine

| Definition or action | Code |
|---|---|
| `FieldMap`, `DtiRatio`, `Evaluate`, `Classify`, `Loop`, `Decide`, `DEFAULT_RULES` | `engine.py:44-152`, `249-362`, `367-435` |
| `Plan`, `Rounded` | `engine.py:174-214`, of which no run has a property: it is a function, and `EveryPlanAddsUp` is about every amount |
| `Create`, `LoadUpdate`, `LoadDeactivation`, `RefuseEdit`, `CommitEdit`, `FinishEdit` | `admin.py:212-317` |
| `Active`, `Precedes`, `Position`, `InOrder` | `engine.py:243-249`: the SELECT of the active rules by priority |
| `RunEngine` | `engine.py:232-264`: the SELECT and the decision |

Numbers that Python keeps as floats are ratios of integers here, compared by
cross-multiplication. Where the ratio of debt to income equals its threshold,
two divisions and a sum in doubles may come out on either side of it:
1576.89 over 3504.20 is 45% and computes above 0.45. An application's `rounding`
says on which side, and `Rounding` applies it; at any other amounts the columns
can hold, the distance to the threshold exceeds the error of three roundings. The
rate of a decision (30%) ends with the decision: the mails state the rates that
overrides store (`decisions.py:34`), which `Lifecycle` abstracts to whether they can be
parsed. The snapshot of a decision keeps of each rule its id, its condition,
whether it matched and its action if it did (`RuleResult`, `engine.py:261-268`);
names and types of rules are left out. Rules of one priority come in
one of two orders, by id and reversed, since the query names no other key: a
rule's `Position` counts the active rules that precede it, and `InOrder` puts it
there. `Loop` is what the loop of `decide` knows after each rule. An
update writes the columns it was given, on a row read before, and the version
that follows the one read. A condition that lacks a key passes the admin
endpoint and raises in each decision (`Raises`) as long as its rule is active.

### 2.5 Workflow engine

| Action | Code |
|---|---|
| `LoadAuto`, `ChooseWorker`, `NobodyFree` | `engine.py:38-86` |
| `LoadManual`, `FindWorker` | `engine.py:112-127` |
| `LoadEscalation`, `LoadScan` | `engine.py:161-168`, `199-215` |
| `Commit` | `engine.py:88-108`, `129-157`, `170-193`, `215-231` |
| `UpdateStatus`, `SwitchWorker` | `applications.py:224`, `admin.py:391`, the steps of others that the engine's properties depend on |

(lines of `workflow/engine.py`.) The endpoints call this engine with arguments
it does not have, and nothing schedules the scan; the module states what the
engine does for a caller that passes it what it asks for, in a session of its
own. `Merged` is the unit of work: a column is written if it differs from what
was loaded. `reopened` is a history variable: the workers whose closed
applications came back by something other than an assignment to them.

### 2.6 TransUnion

One provider, one call at a time; `Advance` is the disjunction of everything a
call does next (`UseCached`, `AskToken`, `TokenGranted`, `TokenFails`, `Respond`,
`HealthAnswer`, `WakeUp`, `Settle`: `transunion.py:105-396`), `Start` a new call,
`Tick` the time a request takes to travel, `Transit` at most. `Respond` takes any
answer of the bureau: a report, a body that cannot be normalized, 429 or 503,
another status, a timeout, or an exception of `httpx` that the loop does not
catch. `LogApiCall` may fail to flush its row, and swallows the error; from
then on the session refuses rows until it is rolled back. The fields of a
normalized report are left out, as is `handle_webhook`, which has no caller.

### 2.7 Documents

`LoadUpload`, `Store`, `StoreFails`, `CommitUpload`: `documents.py:47-114`, with the
object in S3 before the row; S3 may have stored an object whose answer was lost.
`LoadReview`, `CommitReview`: `documents.py:174-210`. `Refuse`: the checks of
`_get_application_or_403` and of roles. Both handlers pass a UUID where the audit
service wants text, so their audit rows are never written; the module has none.

### 2.8 AuditArchiver

`Select` takes any `Limit` of the old rows, `Put` and `PutFails` store them as one
object, `Die` ends a run, `LogRow` and `NextDay` are the rest of the world
(`audit_service.py:171-222`).

### 2.9 StatusHistory

A status and an append-only set of records, each writer recording at most once,
the status following the record or staying. `LifecycleProps` instantiates it
with the committed events and overrides of `Lifecycle` as history:
`HistoryImplemented` is the refinement.

## 3. Runs

| Run | Checks | Instance | Distinct states |
|---|---|---|---|
| `lifecycle_safety` | eight invariants | 3 requests, 2 applications, symmetric | 2.0 million |
| `lifecycle_answers` | `EveryRequestAnswered`, `HistoryImplemented` | 2 requests, 1 application, all statuses, all terms | 156 thousand |
| `lifecycle_transitions` | `EventsAreTransitions`, violated | 2 requests, 1 application | |
| `lifecycle_audited` | `StatusChangesAudited`, violated | 2 requests, 1 application | |
| `lifecycle_latest` | `LatestOverrideDecides`, violated | 2 requests, 1 application | |
| `credit_consents` | consent gate, audit trail, `EverythingSettled` | 3 requests, 1 application, 1 callback that has an id and a field for the score (`CompleteCallbacks`) | 65 thousand |
| `credit_reports` | types, provenance, decisions | 2 requests, 2 applications, 2 callbacks, 2 scores, symmetric | 1.9 million |
| `credit_granted_once` | `ConsentGrantedOnce`, violated | 2 requests, 1 application | |
| `accounts` | locks, tokens, registrations, administrators' changes | 3 requests, a client and an administrator, lock after 2 failures, symmetric | 669 thousand |
| `decisions` | edits, first match, seeded rules | 3 requests, 2 tables, 3 payloads, 13 applications, symmetric | 233 thousand |
| `services` | ten invariants and `FetchEnds` of four components | see below | 898 thousand |
| `archive_daily` | `OldRowsArchived`, violated | 2 rows, limit 1 | |

**What they show.** Whatever interleaves or dies, every status in use was put
there by a committed record (`StatusExplained`), stamps agree with the history
(`StampsMatchHistory`), audit rows, notifications and mails speak of committed
changes only (`TrailFollowsCommit`) and come in pairs
(`SecondTransactionAtomic`), the notification log agrees with SES
(`LogTellsTheMail`), a 200 means that the records are there
(`SuccessIsRecorded`), and approvals are mailed on a decision's terms
(`ApprovalHasTerms`). For the credit check: no snapshot without consent
(`ConsentGate`), snapshots and consents agree with the audit trail
(`SnapshotsAudited`, `ConsentsAudited`), what a snapshot holds was reported
about it and, when one callback only is about it, is exactly what that callback
reported, however often its task ran (`ReportProvenance`), decisions follow reports
(`DecisionsFollowReports`), and nothing stays undone (`EverythingSettled`).

An account is locked by no fewer failures than the limit, and failures that do
not overlap are all counted (`FailuresCount`); tokens have one successor unless
refreshes overlap (`TokensSucceedOnce`); one registration creates the account,
and each answer is true of it (`RegistrationOutcome`); what an administrator has
changed, no login in flight takes back (`AdminChangesHold`). A decision is that
of its first matching rule, whose id, condition and action its own snapshot names
(`FirstMatchDecides`); on the seeded rules a decline is one the repository's README
gives a cause for, but for debts of exactly 45% of the income, and a clean record
from a score of 700 is approved (`SeededRulesUnderwrite`); edits that do not race are versioned without a gap
(`EditsChain`), and no update revives a rule unasked (`StaysInactive`). Queues keep
to their limit, scans escalate once and assignments hold, each except for the
overlaps its definition names (`CapacityUnlessOverlapped`, `ScansEscalateOnce`,
`AssignmentsHold`). A cached token is alive on arrival (`CachedTokenAlive`),
retries are justified and bounded (`RetriesJustified`), the log tells the answers
and the timeouts of report requests (`LogTellsAnswers`), and every call ends (`FetchEnds`). Documents have their objects
(`RowsHaveObjects`) and the verdict of their last review (`LastReviewHolds`);
archiver runs below the limit are complete (`ShortRunsComplete`).

Several of these say "unless they overlap", and the code needs the exception:
it takes no locks. Two failed logins that read one count are counted once; two
refreshes of one token both succeed; two automatic assignments may take one
worker's last place; two reviews mix their columns. Each property says exactly
how far the damage goes, and no further.

**What they refute.** Five statements of the repository's comments fail:

1. `workflow_events` is no log of transitions: of two updates that read the same
   status, the second logs one that never took place.
2. Not every action is audited: a status update is committed, then an error of
   SES that `send` does not catch rolls its audit row back. (An approval whose
   terms do not parse, `email_service.py:313`, would lose its audit row likewise.)
3. An override does not always update the status accordingly: of two that
   overlap, the later decision's status may be overwritten by the earlier one.
4. A consent may be granted twice when two grants overlap; every check of that
   application then fails on `scalar_one_or_none`.
5. Audit rows are not all archived: once more rows are old than one run takes,
   daily runs may take the same ones for ever, although none of them fails.

Divergences that need no model, because a handler takes the same path every
time, are part of the actions without a property of their own: submissions
fail at their commit (`applications.py:117`), overrides and escalations leave no
audit row (`decisions.py:178`, `audit_service.py:70`), an override writes no
workflow event, escalation leaves the priority alone (`workflow.py:179`), a
status update may leave the README's lifecycle, a send attempt that raises no
`ClientError` is not logged, checks dispatch nothing (`credit_bureau.py:130`),
callbacks are processed whatever event they announce (`bureau_tasks.py:177`) and
may change the score of a successful snapshot (`bureau_tasks.py:176`), and
decisions fail in a constructor (`application_service.py:36`). `auto_assign`
leaves `reviewed_at` empty, so the applications it puts under review never
escalate (`engine.py:210` of the workflow engine). The decision engine reads
neither `effective_from` nor `effective_until`; the description of the seeded
approval asks for "700+ with clean record" (`engine.py:413`), its condition for a
score only, so that `SeededRulesUnderwrite` promises an approval to clean records
and asks a score of 700 of every approval, and says nothing more of the others.
`transunion.py` says that all calls are logged (lines 7, 102 and 378); requests
for a token are not, nor are report requests lost to an exception of `httpx` other
than a timeout. `LogTellsAnswers` is about the rest, and would hold as well if
these were logged. Further, `PATCH` with
`is_active` revives a rule that `DELETE` has deactivated. An override accepts
terms of 1 to 84 months (`decisions.py:33`), plans exist for 0 to 6. The log rows
of a fetch that raises are flushed and go down with the caller's rollback.

**Why the bounds are enough.** The lifecycle races need two writers of one row;
the third request lets a decision price an approval, or an escalation fall
between, and the second application lets one row's records be mistaken for
another's. `lifecycle_safety` restricts targets to one that mails terms and one
that stamps `reviewed_at`, and terms to those that parse; `lifecycle_answers`
takes every target and every kind of terms. A duplicate consent followed by a
check needs three requests about one application (`credit_consents`); racing
tasks need two callbacks about one snapshot, and two scores to tell whose was
written (`credit_reports`). `EmailEnabled` is TRUE in the runs, the harder case;
the proofs cover both. Symmetry is over requests, applications and callbacks
and is used for invariants only; in `MCCreditCheck` applications differ and
take no part in it. The clock is bounded by the number of requests.

`accounts` needs two actors that race and a third before or after them: two
wrong passwords lock (`MaxFailed` 2), a third overlaps them or comes when the lock
has expired; a token is refreshed twice, or refreshed and revoked. One tick of
the clock is enough for a lock to expire (`Lockout` 1) and for a token to
(`TokenLife` 0 outlives its own instant only). `decisions` needs an edit that
decides and two that race; its inputs lie on both sides of each threshold of
the seeded rules, and at the one of 45% with either rounding; its second table has a tie, a malformed condition, an
unknown field and a threshold that is no number. In `services`:

| Component | Bounds | Why |
|---|---|---|
| TransUnion | `MaxRetries` 3, `Transit` = `Margin` = 1, `Lifetimes` {1, 3}, `MaxTime` 3, `MaxCalls` 2 | a token that outlives the margin and one that does not, asked for by one call and reused by the next; an attempt before and after one in the middle |
| Documents | 3 requests, 1 application, 2 reviewers | an upload and two reviews of it that race |
| AuditArchiver | 3 rows, `Limit` 2, `Age` 1, `LastDay` 3 | a run that is full and one that is not, on days that differ in what is old |
| WorkflowEngine | 2 calls, 2 applications, 2 workers, `Capacity` 1, `Sla` 0, `LastHour` 2, `MaxChanges` 2, targets `under_review` and `closed`; after the first hour nobody is switched off, and in the last nothing is closed (`CalmLater`) | a queue that one assignment fills, a call that races another, and an endpoint that closes and reopens in between |

The two constraints cut no behavior off that a liveness property of their run is
about: `CalmLater` is about WorkflowEngine and `FetchEnds` about TransUnion, and
`CompleteCallbacks` about what TransUnion sends, which no fairness asks for.

Larger instances of the workflow engine (three and four calls, up to 12.6 million
states) were checked once and are too long for every day; its theorems cover
them.

**Deadlock** is checked in the runs of the lifecycle and of the credit check:
`Quiet` is the only step of a system whose requests and callbacks have all been
dealt with. The other configurations say `CHECK_DEADLOCK FALSE`, because a bounded
number of requests, calls, rows and ticks runs out, and then the system stops.

**Fairness.** Weak fairness of each handler's next step: the event loop resumes
a coroutine whose await has completed, and awaits complete or raise. Requests
need not arrive and need not die. Weak fairness of `Take`: workers consume
their queue. Strong fairness of a task's steps: a task that is delivered again
and again is not killed at the same point each time. Without the latter no
system with late acknowledgement settles anything. `FetchEnds` has weak fairness
of `Advance`: each await of the provider has a timeout and returns or raises.
`OldRowsArchived` is refuted under the best of schedules, `DailySpec`: no run
fails, and weak fairness of `Select` and `Put` lets runs follow each other for
ever.

## 4. Proofs

The eight `...Proofs` modules prove safety properties of the passing runs as
`Spec => []P`, for any sets of applications, users, requests, callbacks, rules and
values, and any limits and durations, under named assumptions: roles are
disjoint (`Lifecycle`), `Null` is no value, inputs are of their types, limits are
natural numbers. Where a module is only instantiated by the model TLC checks,
these are not ASSUMEs of the module but the hypothesis of its theorems
(`NullApart` of `DocumentsProofs`, `Sane` of `WorkflowEngineProofs`,
`ArchiverSettings` and the conjunction of the three, `Sound`, of
`MCServicesProofs`); `Sound` is true of the constants of `MCServices.cfg`. Each
module defines an inductive invariant and proves `Init => IInv`,
`IInv /\ [Next]_vars => IInv'` and `IInv => P`.

All the invariants and the action property of the passing runs are proved, and
so is the refinement of `StatusHistory`.

| Module | Theorems |
|---|---|
| `LifecycleProofs` | the eight invariants of `lifecycle_safety`, and `HistoryRefined`: `Lifecycle` implements `StatusHistory` |
| `CreditCheckProofs` | the six invariants of the credit check |
| `AccountsProofs` | types, `FailuresCount`, `TokensSucceedOnce`, `RegistrationOutcome`, `AdminChangesHold` |
| `DecisionRulesProofs` | types, `EditsChain`, `StaysInactive`, `FirstMatchDecides`, `SeededRulesUnderwrite`; `EveryPlanAddsUp`: plans add up for every amount and term |
| `WorkflowEngineProofs` | types, `CapacityUnlessOverlapped`, `ScansEscalateOnce`, `AssignmentsHold` |
| `TransUnionProofs` | types, `CachedTokenAlive`, `RetriesJustified`, `LogTellsAnswers` |
| `DocumentsProofs` | types, `RowsHaveObjects`, `LastReviewHolds` |
| `MCServicesProofs` | types and `ShortRunsComplete` of the archiver; the seven invariants of `services` that are about Documents, AuditArchiver and WorkflowEngine, or about all four |

The properties are not inductive alone. For the lifecycle, `HandlerPhases` ties
where a handler stands to what it has done: past its first commit the event is
there, past its mail SES has the call, and nobody's event exists before its request commits. `StatusExplained` already
speaks of what handlers have loaded, which makes it inductive: a stale status is
an explained one, since records are never removed.

For the credit check, `ChecksHaveConsent` carries the consent from SELECT to
commit (consents only grow), `RowsAreFresh` says that a check opens a new row and
so undoes no report, and `TasksKnow` says that a report which a task has read or
written is still there, which is why the columns `Written` leaves alone hold a
report too. `RowsReadAreCurrent` is for a snapshot that one callback is about:
the row a task has read is then either still pending or that callback's report
already, so a redelivered task writes what is there. From these follow `SnapshotsStay` and `ReportEffect`, the two lemmas
on which provenance and decisions rest.

For the accounts, the steps are reduced first to what they do to the request
that takes them (`StepMoves`) and to the tables (`StepWrites`). On these rest four
invariants, one per property: `Held` says that a change in flight that has seen
all others has read the row of now; `Succession`, that a token in use is there
and belongs to the user of its request; `Registrations`, that whoever has inserted
an account is the only one; `Counting`, that each count which the table holds or
a login has read was reached from 0 in steps of one, every lower count being the
one that some rejected login has read. If those counts are distinct, as they are
for logins that do not overlap, there are as many rejected logins as the counter
says.

For the workflow engine, `WorkerOf` carries the worker of the row from the load to
the commit for calls that have seen every assignment; `ScanOf` says that no scan
has seen another scan of its applications, because what it found was not
escalated; `RoomFor`, that a chosen worker still has room if every assignment to
him was counted. That `RoomFor` survives the commit of another call is where
`reopened` comes from: an assignment of another worker, based on a stale row, may
leave the worker column alone and open a closed application again, and so fill
the queue of a worker it does not name. That takes four calls, more than the run
has; the attempt at a proof pointed to it.

For the decision rules, `EditsChain` rests on `Chain`: as long as the edits of a
rule have read distinct versions, each has left the row of today or the one that
another edit has read, and an edit at work has the row of today, or a version that
an edit has had before it, and then the premise fails with its commit.
`FirstMatchDecides` and `SeededRulesUnderwrite` are about a loop. The
prover has no induction over an operator, but it has the least number of a set:
if the loop did not know what it should after some rule (`Known`: what matched so
far, and the action of the first match), there would be a least such rule, and
the one before it refutes that. That the loop sees the rules by priority, and each
of them once, is that `Position` is a bijection of the active rules with
`1..Cardinality`, for either order of ties. `DecidedInOrder`, the inductive
invariant, says that a decision is the engine's on the rows its request holds;
`LeadersDecide` reads the outcome off any matching rule that no other precedes,
and `SeededConditions` says when the eight seeded ones match.

For TransUnion, `TokenSound` bounds the recorded expiry by the real one, and the
time since the look at it by `Transit`; the proof uses `Transit <= Margin` (30 and
60 seconds in the code). `LogTellsAnswers` says which request each row of the log is
about, and is inductive on top of the loop's phases. For the documents,
`ReviewsAreFresh` says that a review which has seen all others has loaded the row
of now. For the archiver, old rows stay old, since `created_at` never changes and
the clock never goes back. `MCServicesProofs` conjoins the four inductive
invariants (`Each`): a step of one component leaves the variables of the others
alone (`Apart`), so each invariant is kept by its own module's lemma.

Only model-checked: `EveryRequestAnswered`, `EverythingSettled` and `FetchEnds`,
since liveness under fairness needs ENABLED, which the prover does not handle.
Modules with proofs use no RECURSIVE operators; what `Repayment` and the loop
compute is a function or a quantified formula.

## 5. Not modelled

Encryption, configuration, logging, schemas, routers, migrations, frontends,
static pages and infrastructure: no state of their own. Read-only endpoints:
they change nothing. Concurrent duplicates of one task, which the broker's
visibility timeout could cause for tasks longer than an hour. The content of
mails, except whether their terms can be priced; the
mails that no handler sends. The fields of a normalized credit report and of
TransUnion's answers; passwords, hashes and access tokens. `fetch_credit_report`
of the tasks and the methods of the application service beyond its constructor,
which no execution reaches: their imports and constructors fail. Worker notes and
document requests, tables that nobody writes. The methods that only read:
queue statistics, audit queries, listings, dashboard.

## 6. Plan

| | Module | Question | Status |
|---|---|---|---|
| 1 | `Lifecycle` | do status, history, audit trail and mail tell one story? | proved |
| 2 | `CreditCheck` | consent before check, report before decision? | proved |
| 3 | `WorkflowEngine` | capacity under concurrent assignments, the SLA scan | proved |
| 4 | `DecisionEngine`, `Repayment` | first match and safe default, plans that add up, against reference definitions | proved |
| 5 | `TransUnion` | token cache and retries | proved |
| 6 | `Accounts` | lockout, rotation, registration under concurrent requests | proved |
| 7 | `DecisionRules` | versions under concurrent updates; composed with `DecisionEngine` | proved |
| 8 | `Documents`, `AuditArchiver` | S3 and table, nothing left behind | proved |
| 9 | `StatusHistory` | an abstract history of each application that `Lifecycle` implements | proved |

What is left: the statements of section 3 that need no model are part of the
actions without a property, and the three liveness properties have no proof.
