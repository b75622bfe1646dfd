\* A grant, a check and two callbacks: redelivered, lost, out of order, with
\* different scores, an empty one or none
SPECIFICATION Spec
CONSTANTS
  a1 = a1
  a2 = a2
  c1 = c1
  w1 = w1
  Apps = {a1, a2}
  Requests = {r1, r2}
  Hooks = {h1, h2}
  Clients = {c1}
  Workers = {w1}
  Admins = {d1}
  Applicant <- MCApplicant
  Assigned <- MCAssigned
  IdOnFile = {c1}
  Scores = {300, 700}
  Null = Null
SYMMETRY Symmetry
INVARIANTS
  TypeOK
  ReportProvenance
  DecisionsFollowReports
