\* Two grants that both find no consent
SPECIFICATION Spec
CONSTANTS
  a1 = a1
  a2 = a2
  c1 = c1
  w1 = w1
  Apps = {a1}
  Requests = {r1, r2}
  Hooks = {h1}
  Clients = {c1}
  Workers = {w1}
  Admins = {d1}
  Applicant <- MCApplicant
  Assigned <- MCAssigned
  IdOnFile = {c1}
  Scores = {300}
  Null = Null
INVARIANT
  ConsentGrantedOnce
