\* Three requests about two applications: every interleaving of updates,
\* overrides and escalations, each of which may die anywhere
SPECIFICATION Spec
CONSTANTS
  Apps = {a1, a2}
  Requests = {r1, r2, r3}
  Clients = {c1}
  Workers = {w1}
  Admins = {d1}
  Null = Null
  EmailEnabled = TRUE
  Targets = {"under_review", "approved"}
  Offers = {"below_1000"}
SYMMETRY Symmetry
INVARIANTS
  TypeOK
  StatusExplained
  StampsMatchHistory
  TrailFollowsCommit
  SecondTransactionAtomic
  LogTellsTheMail
  SuccessIsRecorded
  ApprovalHasTerms
