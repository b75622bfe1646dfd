\* Three requests and a callback: grants that race, and checks before, between
\* and after them, each of which may die anywhere
SPECIFICATION Spec
CONSTANTS
  a1 = a1
  a2 = a2
  c1 = c1
  w1 = w1
  Apps = {a1}
  Requests = {r1, r2, r3}
  Hooks = {h1}
  Clients = {c1}
  Workers = {w1}
  Admins = {d1}
  Applicant <- MCApplicant
  Assigned <- MCAssigned
  IdOnFile = {c1}
  Scores = {}
  Null = Null
CONSTRAINT CompleteCallbacks
INVARIANTS
  ConsentGate
  SnapshotsAudited
  ConsentsAudited
PROPERTY
  EverythingSettled
