\* Two requests about one application, every status asked for, every kind of
\* terms offered, with and without a death
SPECIFICATION Spec
CONSTANTS
  Apps = {a1}
  Requests = {r1, r2}
  Clients = {c1}
  Workers = {w1}
  Admins = {d1}
  Null = Null
  EmailEnabled = TRUE
  Targets = {"submitted", "under_review", "manual_review", "approved",
             "declined", "completed", "withdrawn"}
  Offers = {"missing", "unrated", "below_1000", "from_1000"}
PROPERTIES
  EveryRequestAnswered
  HistoryImplemented
