---------------------------- MODULE DecisionRules ----------------------------
(***************************************************************************)
(* The decision rules as administrators edit them (admin.py) and as the    *)
(* engine reads them. One HTTP request, or one use of the engine, is one   *)
(* member of Requests. An edit is a SELECT, a commit, and a second commit  *)
(* for its audit row; the rules are read without locks.                    *)
(***************************************************************************)
EXTENDS DecisionEngine, Repayment, FiniteSets

CONSTANTS
  MaxRules,   \* bound: rows of table decision_rules
  Tables,     \* the contents the table may start with
  Editable,   \* bound: the rules that requests edit
  NewRules,   \* the rules that requests create
  Payloads,   \* the fields that updates give, with their values
  Inputs,     \* the applications that the engine decides
  Requests,   \* HTTP requests and uses of the engine
  Null        \* no row, no value

Ids == 1..MaxRules

ASSUME BoundsAreIds == MaxRules \in Nat /\ Editable \subseteq Ids

\* What the database and the schemas guarantee of rules, updates, applications
Columns == {"id", "condition", "action", "priority", "active", "version"}

WellFormed(rule) ==
  /\ DOMAIN rule = Columns
  /\ rule = [f \in Columns |-> rule[f]]
  /\ rule.action \in Outcomes
  /\ rule.priority \in Int
  /\ rule.active \in BOOLEAN
  /\ rule.version \in Nat \ {0}

ASSUME RulesWellFormed ==
  /\ \A table \in Tables :
       /\ table = [i \in Ids |-> table[i]]
       /\ \A i \in Ids : \/ table[i] = Null
                         \/ WellFormed(table[i]) /\ table[i].id = i
  /\ \A rule \in NewRules : WellFormed(rule)
ASSUME UpdatesValidated ==
  \A payload \in Payloads :
    /\ "id" \notin DOMAIN payload
    /\ "action" \in DOMAIN payload => payload.action \in Outcomes
    /\ "active" \in DOMAIN payload => payload.active \in BOOLEAN
    /\ "priority" \in DOMAIN payload => payload.priority \in Int
ASSUME ApplicationsValidated ==
  \A di \in Inputs :
    /\ di.amount \in Nat \ {0} /\ di.term \in 0..6
    /\ di.income \in Nat /\ di.obligations \in Int
    /\ di.score.n \in Int /\ di.score.d \in {0, 1}
    /\ di.negatives \in Int /\ di.judgements \in Int /\ di.defaults \in Int
    /\ di.enquiries \in Int
    /\ di.rounding \in -1..1 /\ (di.income = 0 => di.rounding = 0)

VARIABLES
  rules,   \* table decision_rules
  audit,   \* table audit_logs, the rows about rules
  req      \* the requests and the local state of their handlers

vars == <<rules, audit, req>>

NotArrived == [pc |-> "idle", result |-> "none", op |-> "none", id |-> 0,
               row |-> Null, payload |-> Null, input |-> Null,
               decision |-> Null]

InFlight == {"loaded", "committed"}
-----------------------------------------------------------------------------
Answer(r, result) ==
  req' = [req EXCEPT ![r].pc = "answered", ![r].result = result]

\* A slip: exclude_none is forgotten, and the fields not given are set to None
GivenWithNone(payload, row) ==
  [f \in DOMAIN row |-> IF f \in DOMAIN payload THEN payload[f] ELSE Null]

Given(payload, row) ==
  [f \in DOMAIN row |-> IF f \in DOMAIN payload THEN payload[f] ELSE row[f]]

\* A slip: the version is left as it is
EditedUnversioned(row, payload) == Given(payload, row)

\* The object after setattr for each given field, and after version += 1
Edited(row, payload) ==
  [Given(payload, row) EXCEPT !.version = row.version + 1]

\* A slip: the UPDATE writes every column as the handler has it
MergedWholeRow(loaded, new, current) == new

\* The ORM writes a column only if its value differs from the one it loaded
Merged(loaded, new, current) ==
  [f \in DOMAIN current |-> IF new[f] = loaded[f] THEN current[f] ELSE new[f]]

Active(table) == {i \in Ids : table[i] /= Null /\ table[i].active}

\* ORDER BY priority; the database may return ties in either order
Precedes(table, ascending, i, j) ==
  \/ table[i].priority < table[j].priority
  \/ /\ table[i].priority = table[j].priority
     /\ IF ascending THEN i < j ELSE i > j

Position(table, ascending, i) ==
  1 + Cardinality({j \in Active(table) : Precedes(table, ascending, j, i)})

InOrder(table, ascending) ==
  [k \in 1..Cardinality(Active(table)) |->
     table[CHOOSE i \in Active(table) : Position(table, ascending, i) = k]]
-----------------------------------------------------------------------------
(***************************************************************************)
(* Edits.                                                                  *)
(***************************************************************************)

\* create_rule: the row and its first commit
Create(r) ==
  /\ req[r].pc = "idle"
  /\ \E i \in Ids, rule \in NewRules :
       /\ rules[i] = Null
       /\ \A j \in Ids : rules[j] = Null => i <= j
       /\ rules' = [rules EXCEPT ![i] = [rule EXCEPT !.id = i]]
       /\ req' = [req EXCEPT ![r] = [NotArrived EXCEPT
                    !.pc = "committed", !.op = "create", !.id = i]]
  /\ UNCHANGED audit

Load(r, op, i, payload) ==
  /\ req[r].pc = "idle"
  /\ rules[i] /= Null
  /\ req' = [req EXCEPT ![r] = [NotArrived EXCEPT
               !.pc = "loaded", !.op = op, !.id = i, !.row = rules[i],
               !.payload = payload]]
  /\ UNCHANGED <<rules, audit>>

LoadUpdate(r) ==
  \E i \in Editable, payload \in Payloads : Load(r, "update", i, payload)

\* DELETE of a rule is an update of one column
LoadDeactivation(r) ==
  \E i \in Editable : Load(r, "deactivate", i, [active |-> FALSE])

\* 403 or 404
RefuseEdit(r) ==
  /\ req[r].pc = "idle"
  /\ req' = [req EXCEPT ![r] = [NotArrived EXCEPT !.pc = "answered",
                                                  !.result = "refused"]]
  /\ UNCHANGED <<rules, audit>>

CommitEdit(r) ==
  LET i == req[r].id
      row == req[r].row
  IN /\ req[r].pc = "loaded"
     /\ rules' = [rules EXCEPT
                    ![i] = Merged(row, Edited(row, req[r].payload), @)]
     /\ req' = [req EXCEPT ![r].pc = "committed"]
     /\ UNCHANGED audit

\* refresh re-reads the row; the audit row is the second transaction. The row
\* of a deactivation states neither
FinishEdit(r) ==
  LET row == IF req[r].op = "deactivate" THEN Null ELSE rules[req[r].id]
  IN /\ req[r].pc = "committed"
     /\ audit' = audit \cup {[by |-> r, op |-> req[r].op, id |-> req[r].id,
                              before |-> req[r].row, after |-> row]}
     /\ Answer(r, "ok")
     /\ UNCHANGED rules

Die(r) ==
  /\ req[r].pc \in InFlight
  /\ Answer(r, "dead")
  /\ UNCHANGED <<rules, audit>>
-----------------------------------------------------------------------------
\* DecisionEngine.decide: one SELECT, then no more of the database. A malformed
\* condition of any active rule raises
RunEngine(r) ==
  /\ req[r].pc = "idle"
  /\ \E di \in Inputs, ascending \in BOOLEAN :
       LET order == InOrder(rules, ascending)
       IN req' = [req EXCEPT ![r] =
            IF Raises(order)
            THEN [NotArrived EXCEPT !.pc = "answered", !.result = "error",
                                    !.op = "decide", !.input = di]
            ELSE [NotArrived EXCEPT !.pc = "answered", !.result = "ok",
                                    !.op = "decide", !.input = di,
                                    !.row = rules,
                                    !.decision = Decide(order, di)]]
  /\ UNCHANGED <<rules, audit>>

Init ==
  /\ rules \in Tables
  /\ audit = {}
  /\ req = [r \in Requests |-> NotArrived]

Step(r) == CommitEdit(r) \/ FinishEdit(r)

Arrive(r) ==
  Create(r) \/ LoadUpdate(r) \/ LoadDeactivation(r) \/ RefuseEdit(r) \/ RunEngine(r)

Next == \E r \in Requests : Arrive(r) \/ Step(r) \/ Die(r)

Spec == Init /\ [][Next]_vars
-----------------------------------------------------------------------------
(***************************************************************************)
(* Properties.                                                             *)
(***************************************************************************)

\* Rules, audit rows and requests have the columns the code gives them, and
\* versions count from 1.
TypeOK ==
  /\ \A i \in Ids : rules[i] /= Null => WellFormed(rules[i]) /\ rules[i].id = i
  /\ \A x \in audit : /\ x.by \in Requests /\ x.id \in Ids
                      /\ x.op \in {"create", "update", "deactivate"}
  /\ \A r \in Requests :
       /\ req[r].pc \in InFlight \cup {"idle", "answered"}
       /\ req[r].pc = "loaded" => /\ req[r].id \in Ids
                                  /\ WellFormed(rules[req[r].id])
                                  /\ WellFormed(req[r].row)

\* The edits of rule i that were committed, and were not lost with their process
Edits(i) == {r \in Requests : /\ req[r].op \in {"update", "deactivate"}
                              /\ req[r].id = i
                              /\ \/ req[r].pc = "committed"
                                 \/ req[r].result = "ok"}

\* Somebody died on rule i: an edit of its may be committed or not
Uncertain(i) == \E r \in Requests : req[r].id = i /\ req[r].result = "dead"

NoRaceOn(i) ==
  /\ ~Uncertain(i)
  /\ \A r, q \in Edits(i) : r /= q => req[r].row.version /= req[q].row.version

\* What followed edit r: the row that the edit of the next version has read, or
\* the row of today
After(r) ==
  LET next == {q \in Edits(req[r].id) :
                 req[q].row.version = req[r].row.version + 1}
  IN IF next = {} THEN rules[req[r].id]
     ELSE req[CHOOSE q \in next : TRUE].row

\* As long as no two edits of a rule have read the same version, the versions
\* tell the whole story: each edit starts from the row that the one before it
\* left, nothing is lost or mixed, the last leaves the row of today, and the
\* audit trail shows each update with the row it started from and a later one.
EditsChain ==
  \A i \in Ids : NoRaceOn(i) =>
    /\ \A r \in Edits(i) : After(r) = Edited(req[r].row, req[r].payload)
    /\ \A r \in Edits(i) : rules[i].version > req[r].row.version
    /\ \A x \in audit : x.id = i /\ x.op = "update" =>
         /\ x.before = req[x.by].row
         /\ x.after.version > x.before.version

\* The update that is committed asks for an active rule
Asked ==
  \E r \in Requests : /\ req[r].pc = "loaded" /\ req'[r].pc = "committed"
                      /\ "active" \in DOMAIN req[r].payload
                      /\ req[r].payload.active

ActiveIfAsked ==
  \A i \in Ids :
    rules[i] /= Null /\ ~rules[i].active /\ rules'[i].active => Asked

\* An inactive rule decides again only when somebody asks for just that: an
\* update in flight never takes a deactivation back.
StaysInactive == [][ActiveIfAsked]_vars

Decided == {r \in Requests : req[r].decision /= Null}

\* The outcome is that of a matching rule that no other precedes in the table
\* that was read, and the decision's own snapshot names that rule, its condition
\* and its action, whatever becomes of the rules; no active rule is missing there
\* and none is there twice. Terms are stated with approvals only.
FirstMatchDecides ==
  \A r \in Decided :
    LET d == req[r].decision
        table == req[r].row
        entry == DOMAIN d.applied
        priority(k) == table[d.applied[k].id].priority
        matching == {k \in entry : d.applied[k].matched}
        first == {k \in matching : \A l \in matching : priority(k) <= priority(l)}
    IN /\ {d.applied[k].id : k \in entry} = Active(table)
       /\ \A k, l \in entry : d.applied[k].id = d.applied[l].id => k = l
       /\ \A k \in entry :
            d.applied[k].condition = table[d.applied[k].id].condition
       /\ IF matching = {} THEN d.outcome = "manual_review"
          ELSE \E k \in first : /\ d.outcome = d.applied[k].action
                                /\ d.outcome = table[d.applied[k].id].action
                                /\ \A l \in first : k <= l
       /\ d.outcome = "approve" <=> d.amount > 0

\* The rules are those of the deployment
Seeded(table) ==
  /\ DOMAIN DEFAULT_RULES \subseteq Ids
  /\ \A i \in Ids : table[i] = IF i \in DOMAIN DEFAULT_RULES
                              THEN DEFAULT_RULES[i] ELSE Null

\* Over the term of an application, 100 times its debt less 45 times its income
Excess(di) ==
  LET months == IF di.term = 0 THEN 1 ELSE di.term
  IN 100 * (di.obligations * months + di.amount) - 45 * di.income * months

\* Why the README has an application declined
Causes(di) ==
  \/ di.judgements > 0
  \/ di.defaults > 1
  \/ di.score.d /= 0 /\ di.score.n < 400
  \/ di.income < 350000
  \/ Excess(di) > 0

\* What the rule for automatic approvals is described with
ExcellentAndClean(di) ==
  /\ di.score.d /= 0 /\ di.score.n >= 700
  /\ di.negatives = 0 /\ di.judgements = 0 /\ di.defaults = 0

\* On the seeded rules, an application that gives one of the causes is declined
\* and no other, but for one whose debt is exactly 45% of its income, which the
\* doubles may have declined; nobody is approved with a cause, below 700 or at
\* very high risk; and a clean record with 700 is approved or at the 45%.
SeededRulesUnderwrite ==
  \A r \in Decided :
    LET d == req[r].decision
        di == req[r].input
    IN Seeded(req[r].row) =>
       /\ Causes(di) => d.outcome = "decline"
       /\ d.outcome = "decline" => Causes(di) \/ Excess(di) = 0
       /\ d.outcome = "approve" => /\ ~Causes(di)
                                   /\ di.score.d /= 0 /\ di.score.n >= 700
                                   /\ d.risk /= "very_high"
       /\ ExcellentAndClean(di) /\ ~Causes(di) =>
            d.outcome = "approve" \/ Excess(di) = 0
=============================================================================
