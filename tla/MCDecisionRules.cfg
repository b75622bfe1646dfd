\* Three edits or decisions: on the seeded rules, and on a table with a tie and
\* a condition that lacks a key
SPECIFICATION Spec
CONSTANTS
  MaxRules = 9
  Tables <- MCTables
  Editable = {3, 6}
  NewRules <- MCNewRules
  Payloads <- MCPayloads
  Inputs <- MCInputs
  Requests = {r1, r2, r3}
  Null = Null
SYMMETRY Symmetry
CHECK_DEADLOCK FALSE
INVARIANTS
  TypeOK
  EditsChain
  FirstMatchDecides
  SeededRulesUnderwrite
PROPERTY
  StaysInactive
