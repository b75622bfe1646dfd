\* Two updates that read the same status before either commits
SPECIFICATION Spec
CONSTANTS
  Apps = {a1}
  Requests = {r1, r2}
  Clients = {c1}
  Workers = {w1}
  Admins = {d1}
  Null = Null
  EmailEnabled = TRUE
  Targets = {"under_review", "approved", "withdrawn"}
  Offers = {}
PROPERTY
  EventsAreTransitions
