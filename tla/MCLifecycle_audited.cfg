\* An approval without a decision, or with terms notify_approved cannot parse
SPECIFICATION Spec
CONSTANTS
  Apps = {a1}
  Requests = {r1, r2}
  Clients = {c1}
  Workers = {w1}
  Admins = {d1}
  Null = Null
  EmailEnabled = TRUE
  Targets = {"under_review", "approved", "withdrawn"}
  Offers = {"below_1000", "from_1000"}
INVARIANT
  StatusChangesAudited
