\* Two overrides that commit in the opposite order of their beginning
SPECIFICATION Spec
CONSTANTS
  Apps = {a1}
  Requests = {r1, r2}
  Clients = {c1}
  Workers = {w1}
  Admins = {d1}
  Null = Null
  EmailEnabled = TRUE
  Targets = {}
  Offers = {"below_1000", "from_1000"}
INVARIANT
  LatestOverrideDecides
