\* Three requests about a client, who may yet have to register, and an
\* administrator: two wrong passwords lock, a lock and a token outlive one tick
SPECIFICATION Spec
CONSTANTS
  c1 = c1
  d1 = d1
  Users = {c1, d1}
  Staff = {d1}
  Requests = {r1, r2, r3}
  MaxFailed = 2
  Lockout = 1
  TokenLife = 0
  MaxTime = 1
  Null = Null
SYMMETRY Symmetry
CHECK_DEADLOCK FALSE
INVARIANTS
  TypeOK
  FailuresCount
  TokensSucceedOnce
  RegistrationOutcome
  AdminChangesHold
