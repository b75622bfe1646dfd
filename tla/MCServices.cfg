\* Three requests of which two may race, two rejections' reasons; three retries,
\* tokens that outlive the margin and tokens that do not; one row more
\* than the archiver's limit; queues that are full after one assignment
SPECIFICATION MCSpec
CONSTANTS
  MaxRetries = 3
  Transit = 1
  Margin = 1
  Lifetimes = {1, 3}
  MaxTime = 3
  MaxCalls = 2
  c1 = c1
  w1 = w1
  w2 = w2
  Users = {c1, w1, w2}
  Staff = {w1, w2}
  Loans = {l1}
  Submissions = {s1, s2, s3}
  Reasons = {unreadable}
  Rows = {x1, x2, x3}
  Limit = 2
  Age = 1
  LastDay = 3
  Workers = {w1, w2}
  Capacity = 1
  Sla = 0
  LastHour = 2
  Targets = {"under_review", "closed"}
  MaxChanges = 2
  Applications = {a1, a2}
  Requests = {r1, r2}
  Null = Null
CONSTRAINT CalmLater
CHECK_DEADLOCK FALSE
INVARIANTS
  TypesOK
  CachedTokenAlive
  RetriesJustified
  LogTellsAnswers
  RowsHaveObjects
  LastReviewHolds
  ShortRunsComplete
  CapacityUnlessOverlapped
  ScansEscalateOnce
  AssignmentsHold
PROPERTIES
  FetchEnds
