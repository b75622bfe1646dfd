-------------------------- MODULE DecisionRulesProofs --------------------------
(***************************************************************************)
(* Proofs about DecisionRules, for any table, payloads, applications and    *)
(* requests: plans add up; rows keep their types; no update in flight takes *)
(* a deactivation back; edits that do not race follow one another; and the  *)
(* loop of the engine, an induction over the rules, gives the outcome of    *)
(* the first match, on the seeded rules as the README says.                *)
(***************************************************************************)
EXTENDS DecisionRules, FiniteSetTheorems, SequenceTheorems, TLAPS

\* Rounding misses by half a unit at most
Near(n, d, q) == 2 * Abs(d * q - n) <= d
-----------------------------------------------------------------------------
\* Arithmetic of repayment plans.

\* Rounding to hundredths of a percent
LEMMA RoundedPercent ==
  ASSUME NEW n \in Nat
  PROVE  Rounded(n, 10000) \in Nat /\ Near(n, 10000, Rounded(n, 10000))
  BY SMT DEF Rounded, Near, Abs

\* Rounding an instalment
LEMMA RoundedMonths ==
  ASSUME NEW n \in Nat, NEW d \in Months
  PROVE  Rounded(n, d) \in Nat /\ Near(n, d, Rounded(n, d))
  <1>1. d \in {1, 2, 3, 4, 5, 6}
    BY DEF Months
  <1>2. CASE d = 1
    BY <1>2, SMT DEF Rounded, Near, Abs
  <1>3. CASE d = 2
    BY <1>3, SMT DEF Rounded, Near, Abs
  <1>4. CASE d = 3
    BY <1>4, SMT DEF Rounded, Near, Abs
  <1>5. CASE d = 4
    BY <1>5, SMT DEF Rounded, Near, Abs
  <1>6. CASE d = 5
    BY <1>6, SMT DEF Rounded, Near, Abs
  <1>7. CASE d = 6
    BY <1>7, SMT DEF Rounded, Near, Abs
  <1> QED
    BY <1>1, <1>2, <1>3, <1>4, <1>5, <1>6, <1>7

\* The total misses 30 percent more than the principal by half a cent at most.
LEMMA TotalIsNear ==
  ASSUME NEW principal \in Nat
  PROVE  /\ TotalRepayable(principal) \in Nat
         /\ 2 * Abs(10 * TotalRepayable(principal) - 13 * principal) <= 10
  <1>1. principal * (10000 + CostOfCredit) = 13000 * principal
    BY DEF CostOfCredit
  <1>2. 13000 * principal \in Nat
    OBVIOUS
  <1>3. /\ TotalRepayable(principal) \in Nat
        /\ Near(13000 * principal, 10000, TotalRepayable(principal))
    BY <1>1, <1>2, RoundedPercent DEF TotalRepayable
  <1> QED
    BY <1>3 DEF Near, Abs

\* Whatever the principal and the term, what the instalments of a plan come to
\* misses the total by half a cent each at most.
THEOREM EveryPlanAddsUp ==
  ASSUME NEW principal \in Nat, NEW months \in 0..6
  PROVE  PlanAddsUp(principal, months)
  <1> DEFINE total == TotalRepayable(principal)
  <1>1. total \in Nat /\ 2 * Abs(10 * total - 13 * principal) <= 10
    BY TotalIsNear
  <1>2. CASE months = 0
    <2>1. /\ Plan(principal, months).total = total
          /\ Plan(principal, months).instalments = 1
          /\ Plan(principal, months).instalment = total
      BY <1>2 DEF Plan, SinglePaymentPlan
    <2> HIDE DEF total
    <2> QED
      BY <1>1, <2>1 DEF PlanAddsUp, Abs
  <1>3. CASE months \in Months
    <2>1. /\ Plan(principal, months).total = total
          /\ Plan(principal, months).instalments = months
          /\ Plan(principal, months).instalment = Rounded(total, months)
      BY <1>3 DEF Plan, InstalmentPlan, Months
    <2> HIDE DEF total
    <2>2. Near(total, months, Rounded(total, months))
      BY <1>1, <1>3, RoundedMonths
    <2> QED
      BY <1>1, <2>1, <2>2 DEF PlanAddsUp, Near
  <1> QED
    BY <1>2, <1>3 DEF Months
-----------------------------------------------------------------------------
\* Types.

Fields == {"pc", "result", "op", "id", "row", "payload", "input", "decision"}

\* The table is a function of its ids; where a handler stands, and on which rule
Shapes ==
  /\ rules = [i \in Ids |-> rules[i]]
  /\ req = [r \in Requests |-> req[r]]
  /\ \A r \in Requests :
       /\ DOMAIN req[r] = Fields
       /\ req[r].pc \in InFlight => /\ req[r].id \in Ids
                                    /\ req[r].op \in {"create", "update", "deactivate"}
       /\ req[r].pc = "loaded" => /\ "id" \notin DOMAIN req[r].payload
                                  /\ rules[req[r].id].id = req[r].id
       /\ req[r].pc = "loaded" /\ "active" \in DOMAIN req[r].payload =>
            req[r].payload.active \in BOOLEAN
       /\ req[r].pc = "loaded" /\ "action" \in DOMAIN req[r].payload =>
            req[r].payload.action \in Outcomes
       /\ req[r].pc = "loaded" /\ "priority" \in DOMAIN req[r].payload =>
            req[r].payload.priority \in Int

\* An update keeps a rule well-formed, whatever the row was loaded, and its id
LEMMA EditWellFormed ==
  ASSUME NEW row, NEW current, NEW payload,
         WellFormed(row), WellFormed(current), "id" \notin DOMAIN payload,
         "active" \in DOMAIN payload => payload.active \in BOOLEAN,
         "action" \in DOMAIN payload => payload.action \in Outcomes,
         "priority" \in DOMAIN payload => payload.priority \in Int
  PROVE  /\ WellFormed(Merged(row, Edited(row, payload), current))
         /\ Merged(row, Edited(row, payload), current).id = current.id
  <1> DEFINE new == Edited(row, payload)
             merged == Merged(row, new, current)
  <1>1. /\ new.active \in BOOLEAN
        /\ new.action \in Outcomes
        /\ new.priority \in Int
        /\ new.version \in Nat \ {0}
        /\ new.id = row.id
    BY DEF Edited, Given, WellFormed, Columns
  <1>2. /\ DOMAIN merged = Columns
        /\ merged = [f \in Columns |-> merged[f]]
        /\ \A f \in Columns :
             merged[f] = IF new[f] = row[f] THEN current[f] ELSE new[f]
    BY DEF Merged, WellFormed
  <1> HIDE DEF new, merged
  <1>3. /\ merged.action \in {current.action, new.action}
        /\ merged.active \in {current.active, new.active}
        /\ merged.priority \in {current.priority, new.priority}
        /\ merged.version \in {current.version, new.version}
        /\ merged.id = current.id
    BY <1>1, <1>2 DEF Columns
  <1>4. WellFormed(merged)
    BY <1>1, <1>2, <1>3 DEF WellFormed
  <1> QED
    BY <1>3, <1>4 DEF merged, new

\* What is left of a request to the engine
EngineError(di) ==
  [NotArrived EXCEPT !.pc = "answered", !.result = "error", !.op = "decide",
                     !.input = di]

EngineAnswer(di, d) ==
  [NotArrived EXCEPT !.pc = "answered", !.result = "ok", !.op = "decide",
                     !.input = di, !.row = rules, !.decision = d]

LEMMA EngineAnswers ==
  ASSUME NEW r \in Requests, RunEngine(r)
  PROVE  \E di \in Inputs, ascending \in BOOLEAN :
           \/ req' = [req EXCEPT ![r] = EngineError(di)]
           \/ req' = [req EXCEPT
                       ![r] = EngineAnswer(di, Decide(InOrder(rules, ascending), di))]
  BY DEF RunEngine, EngineError, EngineAnswer

LEMMA Typed_Init == Init => TypeOK /\ Shapes
  BY RulesWellFormed DEF Init, TypeOK, Shapes, NotArrived, InFlight, Fields

LEMMA Typed_Create ==
  ASSUME TypeOK, Shapes, NEW r \in Requests, Create(r)
  PROVE  (TypeOK /\ Shapes)'
  <1>1. PICK i \in Ids, rule \in NewRules :
          /\ rules' = [rules EXCEPT ![i] = [rule EXCEPT !.id = i]]
          /\ req' = [req EXCEPT ![r] = [NotArrived EXCEPT
                       !.pc = "committed", !.op = "create", !.id = i]]
    BY DEF Create
  <1> DEFINE new == [rule EXCEPT !.id = i]
  <1>2. WellFormed(new) /\ new.id = i
    <2>1. WellFormed(rule)
      BY RulesWellFormed
    <2> QED
      BY <2>1 DEF WellFormed, Columns
  <1>3. /\ rules' = [k \in Ids |-> rules'[k]]
        /\ \A k \in Ids : rules'[k] = IF k = i THEN new ELSE rules[k]
    BY <1>1 DEF Shapes
  <1>4. /\ req' = [q \in Requests |-> req'[q]]
        /\ \A q \in Requests : q /= r => req'[q] = req[q]
        /\ req'[r].pc = "committed" /\ req'[r].op = "create" /\ req'[r].id = i
        /\ DOMAIN req'[r] = Fields
    BY <1>1 DEF Shapes, NotArrived, Fields
  <1>5. audit' = audit
    BY DEF Create
  <1> HIDE DEF new
  <1> QED
    BY <1>2, <1>3, <1>4, <1>5 DEF TypeOK, Shapes, InFlight

LEMMA Typed_Load ==
  ASSUME TypeOK, Shapes, NEW r \in Requests, NEW i \in Editable, NEW payload,
         NEW op \in {"update", "deactivate"}, Load(r, op, i, payload),
         "id" \notin DOMAIN payload,
         "active" \in DOMAIN payload => payload.active \in BOOLEAN,
         "action" \in DOMAIN payload => payload.action \in Outcomes,
         "priority" \in DOMAIN payload => payload.priority \in Int
  PROVE  (TypeOK /\ Shapes)'
  <1>1. i \in Ids /\ WellFormed(rules[i]) /\ rules[i].id = i
    BY BoundsAreIds DEF Load, TypeOK
  <1>2. /\ req' = [q \in Requests |-> req'[q]]
        /\ \A q \in Requests : q /= r => req'[q] = req[q]
        /\ req'[r].pc = "loaded" /\ req'[r].op = op /\ req'[r].id = i
        /\ req'[r].row = rules[i] /\ req'[r].payload = payload
        /\ DOMAIN req'[r] = Fields
    BY DEF Load, Shapes, NotArrived, Fields
  <1>3. rules' = rules /\ audit' = audit
    BY DEF Load
  <1> QED
    BY <1>1, <1>2, <1>3 DEF TypeOK, Shapes, InFlight

LEMMA Typed_CommitEdit ==
  ASSUME TypeOK, Shapes, NEW r \in Requests, CommitEdit(r)
  PROVE  (TypeOK /\ Shapes)'
  <1> DEFINE i == req[r].id
             new == Merged(req[r].row, Edited(req[r].row, req[r].payload),
                           rules[i])
  <1>1. /\ i \in Ids /\ WellFormed(rules[i]) /\ WellFormed(req[r].row)
        /\ rules[i].id = i
    BY DEF CommitEdit, TypeOK, Shapes
  <1>2. WellFormed(new) /\ new.id = i
    BY <1>1, EditWellFormed DEF CommitEdit, Shapes
  <1>3. /\ rules' = [k \in Ids |-> rules'[k]]
        /\ \A k \in Ids : rules'[k] = IF k = i THEN new ELSE rules[k]
    BY <1>1 DEF CommitEdit, Shapes
  <1>4. /\ req' = [q \in Requests |-> req'[q]]
        /\ \A q \in Requests : q /= r => req'[q] = req[q]
        /\ req'[r].pc = "committed" /\ req'[r].op = req[r].op
        /\ req'[r].id = req[r].id /\ DOMAIN req'[r] = Fields
    BY DEF CommitEdit, Shapes, Fields
  <1>5. audit' = audit /\ req[r].pc = "loaded"
    BY DEF CommitEdit
  <1> HIDE DEF new
  <1> QED
    BY <1>1, <1>2, <1>3, <1>4, <1>5 DEF TypeOK, Shapes, InFlight

LEMMA Typed_FinishEdit ==
  ASSUME TypeOK, Shapes, NEW r \in Requests, FinishEdit(r)
  PROVE  (TypeOK /\ Shapes)'
  <1>1. /\ req' = [q \in Requests |-> req'[q]]
        /\ \A q \in Requests : q /= r => req'[q] = req[q]
        /\ req'[r].pc = "answered" /\ DOMAIN req'[r] = Fields
    BY DEF FinishEdit, Answer, Shapes, Fields
  <1>2. /\ rules' = rules
        /\ req[r].id \in Ids /\ req[r].op \in {"create", "update", "deactivate"}
    BY DEF FinishEdit, Shapes, InFlight
  <1>3. PICK after : audit' = audit \cup
          {[by |-> r, op |-> req[r].op, id |-> req[r].id,
            before |-> req[r].row, after |-> after]}
    BY DEF FinishEdit
  <1>4. \A x \in audit' : /\ x.by \in Requests /\ x.id \in Ids
                          /\ x.op \in {"create", "update", "deactivate"}
    BY <1>2, <1>3 DEF TypeOK
  <1> QED
    BY <1>1, <1>2, <1>4 DEF TypeOK, Shapes, InFlight

\* A request that is answered, and changes nothing else
LEMMA Typed_Answered ==
  ASSUME TypeOK, Shapes, NEW r \in Requests, UNCHANGED <<rules, audit>>,
         req' = [q \in Requests |-> req'[q]],
         \A q \in Requests : q /= r => req'[q] = req[q],
         req'[r].pc = "answered", DOMAIN req'[r] = Fields
  PROVE  (TypeOK /\ Shapes)'
  BY DEF TypeOK, Shapes, InFlight

LEMMA Typed_Next ==
  ASSUME TypeOK, Shapes, [Next]_vars
  PROVE  (TypeOK /\ Shapes)'
  <1>1. ASSUME NEW r \in Requests, Create(r)
        PROVE  (TypeOK /\ Shapes)'
    BY <1>1, Typed_Create
  <1>2. ASSUME NEW r \in Requests, LoadUpdate(r)
        PROVE  (TypeOK /\ Shapes)'
    <2>1. PICK i \in Editable, payload \in Payloads :
            Load(r, "update", i, payload)
      BY <1>2 DEF LoadUpdate
    <2> QED
      BY <2>1, Typed_Load, UpdatesValidated
  <1>3. ASSUME NEW r \in Requests, LoadDeactivation(r)
        PROVE  (TypeOK /\ Shapes)'
    <2>1. PICK i \in Editable : Load(r, "deactivate", i, [active |-> FALSE])
      BY <1>3 DEF LoadDeactivation
    <2>2. PICK payload : payload = [active |-> FALSE]
      OBVIOUS
    <2>3. Load(r, "deactivate", i, payload)
      BY <2>1, <2>2
    <2>4. /\ "id" \notin DOMAIN payload
          /\ "action" \notin DOMAIN payload /\ "priority" \notin DOMAIN payload
          /\ payload.active \in BOOLEAN
      BY <2>2
    <2> QED
      BY <2>3, <2>4, Typed_Load
  <1>4. ASSUME NEW r \in Requests, RefuseEdit(r)
        PROVE  (TypeOK /\ Shapes)'
    <2>1. /\ req' = [q \in Requests |-> req'[q]]
          /\ \A q \in Requests : q /= r => req'[q] = req[q]
          /\ req'[r].pc = "answered" /\ DOMAIN req'[r] = Fields
          /\ UNCHANGED <<rules, audit>>
      BY <1>4 DEF RefuseEdit, NotArrived, Shapes, Fields
    <2> QED
      BY <2>1, Typed_Answered
  <1>5. ASSUME NEW r \in Requests, RunEngine(r)
        PROVE  (TypeOK /\ Shapes)'
    <2>1. PICK answer : /\ req' = [req EXCEPT ![r] = answer]
                        /\ answer.pc = "answered" /\ DOMAIN answer = Fields
      <3>1. PICK di \in Inputs, ascending \in BOOLEAN :
              \/ req' = [req EXCEPT ![r] = EngineError(di)]
              \/ req' = [req EXCEPT
                          ![r] = EngineAnswer(di, Decide(InOrder(rules, ascending), di))]
        BY <1>5, EngineAnswers
      <3>2. \A d : /\ EngineAnswer(di, d).pc = "answered"
                   /\ DOMAIN EngineAnswer(di, d) = Fields
        BY DEF EngineAnswer, NotArrived, Fields
      <3>3. EngineError(di).pc = "answered" /\ DOMAIN EngineError(di) = Fields
        BY DEF EngineError, NotArrived, Fields
      <3> QED
        BY <3>1, <3>2, <3>3
    <2>2. /\ req' = [q \in Requests |-> req'[q]]
          /\ \A q \in Requests : q /= r => req'[q] = req[q]
          /\ req'[r].pc = "answered" /\ DOMAIN req'[r] = Fields
          /\ UNCHANGED <<rules, audit>>
      BY <1>5, <2>1 DEF RunEngine, Shapes
    <2> QED
      BY <2>2, Typed_Answered
  <1>6. ASSUME NEW r \in Requests, CommitEdit(r)
        PROVE  (TypeOK /\ Shapes)'
    BY <1>6, Typed_CommitEdit
  <1>7. ASSUME NEW r \in Requests, FinishEdit(r)
        PROVE  (TypeOK /\ Shapes)'
    BY <1>7, Typed_FinishEdit
  <1>8. ASSUME NEW r \in Requests, Die(r)
        PROVE  (TypeOK /\ Shapes)'
    <2>1. /\ req' = [q \in Requests |-> req'[q]]
          /\ \A q \in Requests : q /= r => req'[q] = req[q]
          /\ req'[r].pc = "answered" /\ DOMAIN req'[r] = Fields
          /\ UNCHANGED <<rules, audit>>
      BY <1>8 DEF Die, Answer, Shapes, Fields
    <2> QED
      BY <2>1, Typed_Answered
  <1>9. CASE UNCHANGED vars
    BY <1>9 DEF TypeOK, Shapes, vars
  <1> QED
    BY <1>1, <1>2, <1>3, <1>4, <1>5, <1>6, <1>7, <1>8, <1>9
       DEF Next, Arrive, Step

\* Rules stay well-formed, and audit rows and requests of their types.
THEOREM TypeCorrect == Spec => []TypeOK
  <1>1. Init => TypeOK /\ Shapes
    BY Typed_Init
  <1>2. TypeOK /\ Shapes /\ [Next]_vars => (TypeOK /\ Shapes)'
    BY Typed_Next
  <1> QED
    BY <1>1, <1>2, PTL DEF Spec
-----------------------------------------------------------------------------
\* Deactivation.

\* Only an update that asks for it makes an inactive rule active.
LEMMA ReactivationAsked ==
  ASSUME TypeOK, Shapes, Next, NEW i \in Ids,
         rules[i] /= Null, ~rules[i].active, rules'[i].active
  PROVE  Asked
  <1>1. rules'[i] /= rules[i]
    OBVIOUS
  <1>2. ASSUME NEW r \in Requests, Create(r)
        PROVE  FALSE
    BY <1>1, <1>2 DEF Create, Shapes
  <1>3. PICK r \in Requests : CommitEdit(r)
    BY <1>1, <1>2 DEF Next, Arrive, Step, LoadUpdate, LoadDeactivation, Load,
                      RefuseEdit, RunEngine, FinishEdit, Die
  <1> DEFINE row == req[r].row
             payload == req[r].payload
             new == Edited(row, payload)
  <1>4. /\ req[r].pc = "loaded" /\ req'[r].pc = "committed"
        /\ req[r].id = i /\ rules'[i] = Merged(row, new, rules[i])
    BY <1>1, <1>3 DEF CommitEdit, Shapes, Fields
  <1>5. /\ WellFormed(row) /\ WellFormed(rules[i])
        /\ "active" \in DOMAIN payload => payload.active \in BOOLEAN
    BY <1>4 DEF TypeOK, Shapes
  <1>6. new.active = IF "active" \in DOMAIN payload THEN payload.active
                                                    ELSE row.active
    BY <1>5 DEF Edited, Given, WellFormed, Columns
  <1>7. rules'[i].active = IF new.active = row.active THEN rules[i].active
                                                      ELSE new.active
    <2> HIDE DEF new
    <2> QED
      BY <1>4, <1>5 DEF Merged, WellFormed, Columns
  <1>8. new.active /= row.active /\ new.active
    BY <1>7
  <1>9. "active" \in DOMAIN payload /\ payload.active
    BY <1>6, <1>8
  <1> QED
    BY <1>4, <1>9 DEF Asked

\* No update in flight takes a deactivation back, for any table and updates.
THEOREM DeactivationHolds == Spec => StaysInactive
  <1>1. Init => TypeOK /\ Shapes
    BY Typed_Init
  <1>2. TypeOK /\ Shapes /\ [Next]_vars => (TypeOK /\ Shapes)'
    BY Typed_Next
  <1>3. TypeOK /\ Shapes /\ [Next]_vars => [ActiveIfAsked]_vars
    BY ReactivationAsked DEF ActiveIfAsked
  <1> QED
    BY <1>1, <1>2, <1>3, PTL DEF Spec, StaysInactive
-----------------------------------------------------------------------------
\* Edits follow one another.

NullApart == ~WellFormed(Null)

IsEdit(r) == req[r].op \in {"update", "deactivate"}

\* An edit at work or done is of a rule that is there
EditsLoaded ==
  \A r \in Requests :
    /\ req[r].pc = "loaded" => IsEdit(r)
    /\ req[r].pc = "idle" => req[r].op = "none"
    /\ req[r].pc /= "answered" => req[r].result = "none"
    /\ IsEdit(r) => /\ req[r].id \in Ids
                    /\ rules[req[r].id] /= Null
                    /\ WellFormed(rules[req[r].id])
                    /\ WellFormed(req[r].row)

\* The edits of rule i follow one another, and an edit at work has either the
\* row of today or a version that an edit before it has had as well
Chain(i) ==
  NoRaceOn(i) =>
    /\ \A r \in Edits(i) :
         /\ req[r].row.version < rules[i].version
         /\ \/ rules[i] = Edited(req[r].row, req[r].payload)
            \/ \E q \in Edits(i) :
                 req[q].row = Edited(req[r].row, req[r].payload)
    /\ \A r \in Requests : req[r].pc = "loaded" /\ req[r].id = i =>
         \/ req[r].row = rules[i]
         \/ \E q \in Edits(i) : req[q].row.version = req[r].row.version

\* An audit row of an update is written by the request that it names
AuditTellsEdits ==
  \A x \in audit : x.op = "update" =>
    /\ req[x.by].pc = "answered" /\ req[x.by].op = "update"
    /\ req[x.by].result = "ok" /\ req[x.by].id = x.id
    /\ x.before = req[x.by].row
    /\ NoRaceOn(x.id) => x.after.version > x.before.version

IInv == /\ TypeOK /\ Shapes /\ EditsLoaded /\ AuditTellsEdits
        /\ \A i \in Ids : Chain(i)

\* An edit starts the next version, and leaves all of the row it was computed
\* from if that is the row of today
LEMMA EditedRow ==
  ASSUME NEW row, NEW payload, WellFormed(row)
  PROVE  /\ Edited(row, payload).version = row.version + 1
         /\ Merged(row, Edited(row, payload), row) = Edited(row, payload)
  <1> DEFINE new == Edited(row, payload)
  <1>1. /\ DOMAIN new = Columns /\ new = [f \in Columns |-> new[f]]
        /\ new.version = row.version + 1
    BY DEF Edited, Given, WellFormed, Columns
  <1>2. DOMAIN row = Columns
    BY DEF WellFormed
  <1> HIDE DEF new
  <1>3. Merged(row, new, row) = [f \in Columns |-> new[f]]
    BY <1>2 DEF Merged
  <1> QED
    BY <1>1, <1>3 DEF new

\* What a request does when it arrives: an edit loads the row of a rule, no
\* other request is one, and a rule that is there stays as it is
LEMMA Arrives ==
  ASSUME Shapes, NEW r \in Requests, Arrive(r)
  PROVE  /\ req[r].pc = "idle" /\ audit' = audit
         /\ \A q \in Requests : q /= r => req'[q] = req[q]
         /\ \A i \in Ids : rules[i] /= Null => rules'[i] = rules[i]
         /\ req'[r].result /= "dead" /\ req'[r].pc /= "idle"
         /\ req'[r].pc /= "answered" => req'[r].result = "none"
         /\ \/ req'[r].op \in {"create", "none", "decide"} /\ req'[r].pc /= "loaded"
            \/ /\ req'[r].op \in {"update", "deactivate"}
               /\ req'[r].pc = "loaded" /\ req'[r].result = "none"
               /\ req'[r].id \in Ids /\ rules[req'[r].id] /= Null
               /\ req'[r].row = rules[req'[r].id] /\ rules' = rules
  <1>1. CASE Create(r)
    <2>1. PICK i \in Ids, rule \in NewRules :
            /\ rules[i] = Null
            /\ rules' = [rules EXCEPT ![i] = [rule EXCEPT !.id = i]]
            /\ req' = [req EXCEPT ![r] = [NotArrived EXCEPT
                         !.pc = "committed", !.op = "create", !.id = i]]
      BY <1>1 DEF Create
    <2>2. \A j \in Ids : rules[j] /= Null => rules'[j] = rules[j]
      BY <2>1 DEF Shapes
    <2>3. req[r].pc = "idle" /\ audit' = audit
      BY <1>1 DEF Create
    <2>4. /\ \A q \in Requests : q /= r => req'[q] = req[q]
          /\ req'[r].pc = "committed" /\ req'[r].op = "create"
          /\ req'[r].result = "none"
      BY <2>1 DEF Shapes, NotArrived
    <2> QED
      BY <2>2, <2>3, <2>4
  <1>2. ASSUME NEW i \in Editable, NEW op \in {"update", "deactivate"},
               NEW payload, Load(r, op, i, payload)
        PROVE  /\ req[r].pc = "idle" /\ audit' = audit /\ rules' = rules
               /\ \A q \in Requests : q /= r => req'[q] = req[q]
               /\ req'[r].op = op /\ req'[r].pc = "loaded"
               /\ req'[r].result = "none"
               /\ req'[r].id = i /\ i \in Ids /\ rules[i] /= Null
               /\ req'[r].row = rules[i]
    BY <1>2, BoundsAreIds DEF Load, Shapes, NotArrived
  <1>3. CASE LoadUpdate(r) \/ LoadDeactivation(r)
    <2>1. PICK i, op, payload :
            /\ i \in Editable /\ op \in {"update", "deactivate"}
            /\ Load(r, op, i, payload)
      BY <1>3 DEF LoadUpdate, LoadDeactivation
    <2> QED
      BY <1>2, <2>1
  <1>4. CASE RefuseEdit(r)
    BY <1>4 DEF RefuseEdit, Shapes, NotArrived
  <1>5. CASE RunEngine(r)
    <2>1. PICK di \in Inputs, ascending \in BOOLEAN :
            \/ req' = [req EXCEPT ![r] = EngineError(di)]
            \/ req' = [req EXCEPT
                        ![r] = EngineAnswer(di, Decide(InOrder(rules, ascending), di))]
      BY <1>5, EngineAnswers
    <2>2. req[r].pc = "idle" /\ UNCHANGED <<rules, audit>>
      BY <1>5 DEF RunEngine
    <2>3. /\ \A d : /\ EngineAnswer(di, d).pc = "answered"
                    /\ EngineAnswer(di, d).op = "decide"
                    /\ EngineAnswer(di, d).result = "ok"
          /\ EngineError(di).pc = "answered"
          /\ EngineError(di).op = "decide"
          /\ EngineError(di).result = "error"
      BY DEF EngineAnswer, EngineError, NotArrived
    <2>4. /\ \A q \in Requests : q /= r => req'[q] = req[q]
          /\ req'[r].pc = "answered" /\ req'[r].op = "decide"
          /\ req'[r].result \in {"ok", "error"}
      BY <2>1, <2>3 DEF Shapes
    <2> QED
      BY <2>2, <2>4
  <1> QED
    BY <1>1, <1>3, <1>4, <1>5 DEF Arrive

\* What a request does after that: it keeps what it has loaded
Proceeds(r) ==
  /\ req[r].pc \in InFlight /\ req[r].id \in Ids
  /\ \A q \in Requests : q /= r => req'[q] = req[q]
  /\ req'[r].op = req[r].op /\ req'[r].id = req[r].id
  /\ req'[r].row = req[r].row /\ req'[r].payload = req[r].payload

LEMMA Commits ==
  ASSUME Shapes, NEW r \in Requests, CommitEdit(r)
  PROVE  /\ Proceeds(r) /\ audit' = audit
         /\ req[r].pc = "loaded" /\ req'[r].pc = "committed"
         /\ req'[r].result = req[r].result
  BY DEF CommitEdit, Proceeds, Shapes, Fields, InFlight

LEMMA Finishes ==
  ASSUME Shapes, NEW r \in Requests, FinishEdit(r)
  PROVE  /\ Proceeds(r) /\ rules' = rules /\ req[r].pc = "committed"
         /\ req'[r].pc = "answered" /\ req'[r].result = "ok"
  BY DEF FinishEdit, Answer, Proceeds, Shapes, Fields, InFlight

LEMMA Dies ==
  ASSUME Shapes, NEW r \in Requests, Die(r)
  PROVE  /\ Proceeds(r) /\ rules' = rules /\ audit' = audit
         /\ req'[r].pc = "answered" /\ req'[r].result = "dead"
  BY DEF Die, Answer, Proceeds, Shapes, Fields, InFlight

\* A rule that is there stays there
LEMMA RulesStay ==
  ASSUME NullApart, TypeOK, Shapes, NEW r \in Requests,
         Arrive(r) \/ Step(r) \/ Die(r), NEW i \in Ids, rules[i] /= Null
  PROVE  rules'[i] /= Null /\ WellFormed(rules'[i])
  <1>1. WellFormed(rules[i])
    BY DEF TypeOK
  <1>2. CASE CommitEdit(r)
    <2>1. CASE req[r].id = i
      <3>1. WellFormed(req[r].row)
        BY <1>2 DEF CommitEdit, TypeOK
      <3>2. rules'[i] = Merged(req[r].row, Edited(req[r].row, req[r].payload),
                               rules[i])
        BY <1>2, <2>1 DEF CommitEdit, Shapes
      <3>3. WellFormed(Merged(req[r].row, Edited(req[r].row, req[r].payload),
                              rules[i]))
        BY <1>1, <1>2, <3>1, EditWellFormed DEF CommitEdit, Shapes
      <3> QED
        BY <3>2, <3>3 DEF NullApart
    <2>2. CASE req[r].id /= i
      <3>1. rules'[i] = rules[i]
        BY <1>2, <2>2 DEF CommitEdit, Shapes
      <3> QED
        BY <1>1, <3>1
    <2> QED
      BY <2>1, <2>2
  <1>3. CASE ~CommitEdit(r)
    <2>1. rules'[i] = rules[i]
      BY <1>3, Arrives, Finishes, Dies DEF Step
    <2> QED
      BY <1>1, <2>1
  <1> QED
    BY <1>2, <1>3

LEMMA EditsLoaded_Step ==
  ASSUME NullApart, TypeOK, Shapes, EditsLoaded, NEW r \in Requests,
         Arrive(r) \/ Step(r) \/ Die(r)
  PROVE  EditsLoaded'
  <1>1. \A q \in Requests : q /= r => req'[q] = req[q]
    BY Arrives, Commits, Finishes, Dies DEF Step, Proceeds
  <1>2. /\ req'[r].pc = "loaded" => IsEdit(r)'
        /\ req'[r].pc /= "idle"
        /\ req'[r].pc /= "answered" => req'[r].result = "none"
        /\ IsEdit(r)' => /\ req'[r].id \in Ids
                         /\ rules[req'[r].id] /= Null
                         /\ WellFormed(req'[r].row)
    <2>1. CASE Arrive(r)
      BY <2>1, Arrives DEF IsEdit, TypeOK
    <2>2. CASE CommitEdit(r)
      BY <2>2, Commits DEF Proceeds, EditsLoaded, IsEdit
    <2>3. CASE FinishEdit(r)
      BY <2>3, Finishes DEF Proceeds, EditsLoaded, IsEdit
    <2>4. CASE Die(r)
      BY <2>4, Dies DEF Proceeds, EditsLoaded, IsEdit
    <2> QED
      BY <2>1, <2>2, <2>3, <2>4 DEF Step
  <1>3. ASSUME NEW q \in Requests
        PROVE  /\ req'[q].pc = "loaded" => IsEdit(q)'
               /\ req'[q].pc = "idle" => req'[q].op = "none"
               /\ req'[q].pc /= "answered" => req'[q].result = "none"
               /\ IsEdit(q)' => /\ req'[q].id \in Ids
                                /\ rules[req'[q].id] /= Null
                                /\ WellFormed(req'[q].row)
    BY <1>1, <1>2 DEF EditsLoaded, IsEdit
  <1>4. \A i \in Ids : rules[i] /= Null => rules'[i] /= Null /\ WellFormed(rules'[i])
    BY RulesStay
  <1> QED
    BY <1>3, <1>4 DEF EditsLoaded, IsEdit
\* A race, once there is one, or a doubt, stays
LEMMA RacesStay ==
  ASSUME Shapes, EditsLoaded, NEW r \in Requests,
         Arrive(r) \/ Step(r) \/ Die(r), NEW i \in Ids, NoRaceOn(i)'
  PROVE  /\ NoRaceOn(i)
         /\ ~(Die(r) /\ req[r].id = i)
         /\ \A q \in Edits(i) : /\ q \in Edits(i)'
                                /\ req'[q].row = req[q].row
                                /\ req'[q].payload = req[q].payload
         /\ \A q \in Edits(i)' : q \in Edits(i) \/ (q = r /\ CommitEdit(r))
  <1>1. \A q \in Requests : q /= r => req'[q] = req[q]
    BY Arrives, Commits, Finishes, Dies DEF Step, Proceeds
  <1>2. ~Uncertain(i)' /\ \A q \in Requests :
          ~(req'[q].id = i /\ req'[q].result = "dead")
    BY DEF NoRaceOn, Uncertain
  <1>3. ~(Die(r) /\ req[r].id = i)
    BY <1>2, Dies DEF Proceeds
  <1>4. req[r].pc /= "answered" /\ req[r].result = "none"
    BY Arrives, Commits, Finishes, Dies
       DEF Step, Proceeds, InFlight, EditsLoaded
  <1>5. r \in Edits(i) => /\ r \in Edits(i)'
                          /\ req'[r].row = req[r].row
                          /\ req'[r].payload = req[r].payload
    <2> SUFFICES ASSUME r \in Edits(i)
                 PROVE  /\ r \in Edits(i)'
                        /\ req'[r].row = req[r].row
                        /\ req'[r].payload = req[r].payload
      OBVIOUS
    <2>1. /\ req[r].op \in {"update", "deactivate"} /\ req[r].id = i
          /\ req[r].pc = "committed"
      BY <1>4 DEF Edits
    <2>2. FinishEdit(r)
      BY <1>3, <2>1, Arrives, Commits DEF Step
    <2> QED
      BY <2>1, <2>2, Finishes DEF Proceeds, Edits
  <1>6. r \in Edits(i)' => r \in Edits(i) \/ CommitEdit(r)
    <2> SUFFICES ASSUME r \in Edits(i)', ~CommitEdit(r)
                 PROVE  r \in Edits(i)
      OBVIOUS
    <2>1. /\ req'[r].op \in {"update", "deactivate"} /\ req'[r].id = i
          /\ req'[r].pc = "committed" \/ req'[r].result = "ok"
      BY DEF Edits
    <2>2. ~Arrive(r)
      BY <2>1, Arrives
    <2>3. ~Die(r)
      BY <2>1, <1>3, Dies DEF Proceeds
    <2> QED
      BY <2>1, <2>2, <2>3, Finishes DEF Step, Proceeds, Edits
  <1>7. \A q \in Requests : q /= r => (q \in Edits(i)' <=> q \in Edits(i))
    BY <1>1 DEF Edits
  <1>8. ~Uncertain(i)
    BY <1>1, <1>2, <1>4 DEF Uncertain
  <1>9. \A q \in Edits(i) : /\ q \in Edits(i)'
                            /\ req'[q].row = req[q].row
                            /\ req'[q].payload = req[q].payload
    BY <1>1, <1>5, <1>7 DEF Edits
  <1>10. NoRaceOn(i)
    BY <1>8, <1>9 DEF NoRaceOn
  <1>11. \A q \in Edits(i)' : q \in Requests
    BY DEF Edits
  <1> QED
    BY <1>3, <1>6, <1>7, <1>9, <1>10, <1>11

\* The version that an edit has read is overtaken only by an edit
LEMMA Chain_Step ==
  ASSUME NullApart, TypeOK, Shapes, EditsLoaded, NEW r \in Requests,
         Arrive(r) \/ FinishEdit(r) \/ Die(r), NEW i \in Ids, Chain(i)
  PROVE  Chain(i)'
  <1> SUFFICES ASSUME NoRaceOn(i)' PROVE Chain(i)'
    BY DEF Chain
  <1>1. ~CommitEdit(r)
    BY Arrives, Commits, Finishes, Dies
  <1>2. /\ NoRaceOn(i)
        /\ \A q \in Edits(i)' : q \in Edits(i)
        /\ \A q \in Edits(i) : /\ q \in Edits(i)'
                               /\ req'[q].row = req[q].row
                               /\ req'[q].payload = req[q].payload
    BY <1>1, RacesStay DEF Step
  <1>3. \A q \in Requests : q /= r => req'[q] = req[q]
    BY Arrives, Finishes, Dies DEF Proceeds
  <1>4. rules[i] /= Null => rules'[i] = rules[i]
    BY Arrives, Finishes, Dies
  <1>5. \A q \in Edits(i) : rules[i] /= Null
    BY DEF EditsLoaded, Edits, IsEdit
  <1>6. ASSUME NEW q \in Edits(i)'
        PROVE  /\ req'[q].row.version < rules'[i].version
               /\ \/ rules'[i] = Edited(req'[q].row, req'[q].payload)
                  \/ \E p \in Edits(i)' :
                       req'[p].row = Edited(req'[q].row, req'[q].payload)
    BY <1>2, <1>4, <1>5, <1>6 DEF Chain
  <1>7. ASSUME NEW q \in Requests, req'[q].pc = "loaded", req'[q].id = i
        PROVE  \/ req'[q].row = rules'[i]
               \/ \E p \in Edits(i)' : req'[p].row.version = req'[q].row.version
    <2>1. CASE q = r
      <3>1. Arrive(r)
        BY <1>7, <2>1, Finishes, Dies
      <3> QED
        BY <1>7, <2>1, <3>1, Arrives
    <2>2. CASE q /= r
      <3>1. req'[q] = req[q] /\ rules[i] /= Null
        BY <1>3, <1>7, <2>2 DEF EditsLoaded, IsEdit
      <3>2. \/ req[q].row = rules[i]
            \/ \E p \in Edits(i) : req[p].row.version = req[q].row.version
        BY <1>2, <1>7, <3>1 DEF Chain
      <3> QED
        BY <1>2, <1>4, <3>1, <3>2
    <2> QED
      BY <2>1, <2>2
  <1> QED
    BY <1>6, <1>7 DEF Chain

\* Whoever commits without a race has the row of today
LEMMA Chain_CommitEdit ==
  ASSUME NullApart, TypeOK, Shapes, EditsLoaded, NEW r \in Requests,
         CommitEdit(r), NEW i \in Ids, Chain(i)
  PROVE  Chain(i)'
  <1> SUFFICES ASSUME NoRaceOn(i)' PROVE Chain(i)'
    BY DEF Chain
  <1> DEFINE row == req[r].row
             new == Edited(row, req[r].payload)
  <1>1. /\ NoRaceOn(i)
        /\ \A q \in Edits(i)' : q \in Edits(i) \/ q = r
        /\ \A q \in Edits(i) : /\ q \in Edits(i)'
                               /\ req'[q].row = req[q].row
                               /\ req'[q].payload = req[q].payload
    BY RacesStay DEF Step
  <1>2. /\ Proceeds(r) /\ req[r].pc = "loaded" /\ req'[r].pc = "committed"
    BY Commits
  <1>3. CASE req[r].id /= i
    <2>1. rules'[i] = rules[i] /\ r \notin Edits(i)'
      BY <1>2, <1>3 DEF CommitEdit, Shapes, Proceeds, Edits
    <2>2. \A q \in Requests : req'[q].pc = "loaded" =>
            q /= r /\ req'[q] = req[q]
      BY <1>2 DEF Proceeds
    <2>3. ASSUME NEW q \in Edits(i)'
          PROVE  /\ req'[q].row.version < rules'[i].version
                 /\ \/ rules'[i] = Edited(req'[q].row, req'[q].payload)
                    \/ \E p \in Edits(i)' :
                         req'[p].row = Edited(req'[q].row, req'[q].payload)
      BY <1>1, <2>1, <2>3 DEF Chain
    <2>4. ASSUME NEW q \in Requests, req'[q].pc = "loaded", req'[q].id = i
          PROVE  \/ req'[q].row = rules'[i]
                 \/ \E p \in Edits(i)' :
                      req'[p].row.version = req'[q].row.version
      BY <1>1, <2>1, <2>2, <2>4 DEF Chain
    <2> QED
      BY <2>3, <2>4 DEF Chain
  <1>4. CASE req[r].id = i
    <2>1. /\ r \in Edits(i)' /\ r \notin Edits(i)
          /\ req'[r].row = row /\ req'[r].payload = req[r].payload
      BY <1>2, <1>4 DEF Proceeds, Edits, EditsLoaded, IsEdit
    <2>2. \A q \in Edits(i) : req[q].row.version /= row.version
      BY <1>1, <2>1 DEF NoRaceOn
    <2>3. row = rules[i]
      BY <1>1, <1>2, <1>4, <2>2 DEF Chain
    <2>4. WellFormed(row) /\ row.version \in Nat
      BY <1>2 DEF TypeOK, WellFormed
    <2>5. rules'[i] = new /\ new.version = row.version + 1
      <3>1. rules'[i] = Merged(row, new, rules[i])
        BY <1>4 DEF CommitEdit, Shapes
      <3> QED
        BY <2>3, <2>4, <3>1, EditedRow
    <2> HIDE DEF new
    <2>6. ASSUME NEW q \in Edits(i)'
          PROVE  /\ req'[q].row.version < rules'[i].version
                 /\ \/ rules'[i] = Edited(req'[q].row, req'[q].payload)
                    \/ \E p \in Edits(i)' :
                         req'[p].row = Edited(req'[q].row, req'[q].payload)
      <3>1. CASE q = r
        BY <2>1, <2>4, <2>5, <3>1 DEF new
      <3>2. CASE q /= r
        <4>1. q \in Edits(i)
          BY <1>1, <2>6, <3>2
        <4>2. /\ req[q].row.version < row.version
              /\ \/ row = Edited(req[q].row, req[q].payload)
                 \/ \E p \in Edits(i) :
                      req[p].row = Edited(req[q].row, req[q].payload)
          BY <1>1, <2>3, <4>1 DEF Chain
        <4>3. req[q].row.version \in Nat
          BY <4>1 DEF EditsLoaded, Edits, IsEdit, WellFormed
        <4> QED
          BY <1>1, <2>1, <2>4, <2>5, <4>1, <4>2, <4>3
      <3> QED
        BY <3>1, <3>2
    <2>7. ASSUME NEW q \in Requests, req'[q].pc = "loaded", req'[q].id = i
          PROVE  \E p \in Edits(i)' :
                   req'[p].row.version = req'[q].row.version
      <3>1. q /= r /\ req'[q] = req[q]
        BY <1>2, <2>7 DEF Proceeds
      <3>2. \/ req[q].row = rules[i]
            \/ \E p \in Edits(i) : req[p].row.version = req[q].row.version
        BY <1>1, <2>7, <3>1 DEF Chain
      <3> QED
        BY <1>1, <2>1, <2>3, <3>1, <3>2
    <2> QED
      BY <2>6, <2>7 DEF Chain
  <1> QED
    BY <1>3, <1>4

LEMMA AuditTellsEdits_Step ==
  ASSUME TypeOK, Shapes, EditsLoaded, AuditTellsEdits, \A i \in Ids : Chain(i),
         NEW r \in Requests, Arrive(r) \/ Step(r) \/ Die(r)
  PROVE  AuditTellsEdits'
  <1>1. \A q \in Requests : q /= r => req'[q] = req[q]
    BY Arrives, Commits, Finishes, Dies DEF Step, Proceeds
  <1>2. req[r].pc /= "answered"
    BY Arrives, Commits, Finishes, Dies DEF Step, Proceeds, InFlight
  <1>3. \A i \in Ids : NoRaceOn(i)' => NoRaceOn(i)
    BY RacesStay
  <1>4. ASSUME NEW x \in audit, x.op = "update"
        PROVE  /\ req'[x.by].pc = "answered" /\ req'[x.by].op = "update"
               /\ req'[x.by].result = "ok" /\ req'[x.by].id = x.id
               /\ x.before = req'[x.by].row
               /\ NoRaceOn(x.id)' => x.after.version > x.before.version
    <2>1. x.by \in Requests /\ x.id \in Ids
      BY DEF TypeOK
    <2>2. /\ req[x.by].pc = "answered" /\ req[x.by].op = "update"
          /\ req[x.by].result = "ok" /\ req[x.by].id = x.id
          /\ x.before = req[x.by].row
          /\ NoRaceOn(x.id) => x.after.version > x.before.version
      BY <1>4 DEF AuditTellsEdits
    <2>3. req'[x.by] = req[x.by]
      BY <1>1, <1>2, <2>1, <2>2
    <2> QED
      BY <1>3, <2>1, <2>2, <2>3
  <1>5. CASE ~FinishEdit(r)
    <2>1. audit' = audit
      BY <1>5, Arrives, Commits, Dies DEF Step
    <2> QED
      BY <1>4, <2>1 DEF AuditTellsEdits
  <1>6. CASE FinishEdit(r)
    <2>1. PICK new, id, after :
            /\ audit' = audit \cup {new}
            /\ id = req[r].id
            /\ after = IF req[r].op = "deactivate" THEN Null ELSE rules[id]
            /\ new.by = r /\ new.op = req[r].op /\ new.id = id
            /\ new.before = req[r].row /\ new.after = after
      <3> DEFINE id == req[r].id
                 after == IF req[r].op = "deactivate" THEN Null ELSE rules[id]
                 new == [by |-> r, op |-> req[r].op, id |-> id,
                         before |-> req[r].row, after |-> after]
      <3>1. audit' = audit \cup {new}
        BY <1>6 DEF FinishEdit
      <3>2. /\ new.by = r /\ new.op = req[r].op /\ new.id = id
            /\ new.before = req[r].row /\ new.after = after
        OBVIOUS
      <3> HIDE DEF new
      <3> QED
        BY <3>1, <3>2
    <2>2. /\ Proceeds(r) /\ req[r].pc = "committed"
          /\ req'[r].pc = "answered" /\ req'[r].result = "ok"
      BY <1>6, Finishes
    <2>4. ASSUME req[r].op = "update", NoRaceOn(id)'
          PROVE  after.version > req[r].row.version
      <3>1. id \in Ids /\ r \in Edits(id) /\ NoRaceOn(id)
        BY <1>3, <2>1, <2>2, <2>4 DEF Proceeds, Edits
      <3>2. req[r].row.version < rules[id].version
        BY <3>1 DEF Chain
      <3>3. req[r].row.version \in Nat /\ rules[id].version \in Nat
        BY <3>1 DEF EditsLoaded, Edits, IsEdit, WellFormed
      <3>4. after = rules[id]
        BY <2>1, <2>4
      <3> QED
        BY <3>2, <3>3, <3>4
    <2>5. new.op = "update" =>
            /\ req'[new.by].pc = "answered" /\ req'[new.by].op = "update"
            /\ req'[new.by].result = "ok" /\ req'[new.by].id = new.id
            /\ new.before = req'[new.by].row
            /\ NoRaceOn(new.id)' => new.after.version > new.before.version
      BY <2>1, <2>2, <2>4 DEF Proceeds
    <2> QED
      BY <1>4, <2>1, <2>5 DEF AuditTellsEdits
  <1> QED
    BY <1>5, <1>6

LEMMA Chains_Init == Init => IInv
  <1> SUFFICES ASSUME Init PROVE IInv
    OBVIOUS
  <1>1. \A r \in Requests : req[r] = NotArrived
    BY DEF Init
  <1>2. EditsLoaded /\ AuditTellsEdits
    BY <1>1 DEF Init, EditsLoaded, AuditTellsEdits, IsEdit, NotArrived
  <1>3. \A i \in Ids : Chain(i)
    BY <1>1 DEF Chain, Edits, NotArrived
  <1> QED
    BY <1>2, <1>3, Typed_Init DEF IInv

LEMMA Chains_Next ==
  ASSUME NullApart, IInv, [Next]_vars
  PROVE  IInv'
  <1>1. (TypeOK /\ Shapes)'
    BY Typed_Next DEF IInv
  <1>2. ASSUME NEW r \in Requests, Arrive(r) \/ Step(r) \/ Die(r)
        PROVE  EditsLoaded' /\ AuditTellsEdits' /\ \A i \in Ids : Chain(i)'
    <2>1. EditsLoaded' /\ AuditTellsEdits'
      BY <1>2, EditsLoaded_Step, AuditTellsEdits_Step DEF IInv
    <2>2. ASSUME NEW i \in Ids
          PROVE  Chain(i)'
      BY <1>2, Chain_Step, Chain_CommitEdit DEF IInv, Step
    <2> QED
      BY <2>1, <2>2
  <1>3. CASE UNCHANGED vars
    <2>1. UNCHANGED rules /\ UNCHANGED audit /\ UNCHANGED req
      BY <1>3 DEF vars
    <2>2. \A i \in Ids : /\ Edits(i)' = Edits(i)
                         /\ Uncertain(i)' <=> Uncertain(i)
      BY <2>1 DEF Edits, Uncertain
    <2>3. \A i \in Ids : NoRaceOn(i)' <=> NoRaceOn(i)
      BY <2>1, <2>2 DEF NoRaceOn
    <2>4. EditsLoaded'
      BY <2>1 DEF IInv, EditsLoaded, IsEdit
    <2>5. AuditTellsEdits'
      BY <2>1, <2>3 DEF IInv, AuditTellsEdits, TypeOK
    <2>6. ASSUME NEW i \in Ids
          PROVE  Chain(i)'
      <3>1. Chain(i)
        BY DEF IInv
      <3> QED
        BY <2>1, <2>2, <2>3, <3>1 DEF Chain
    <2> QED
      BY <1>1, <2>4, <2>5, <2>6 DEF IInv
  <1> QED
    BY <1>1, <1>2, <1>3 DEF IInv, Next

\* Where edits follow one another, After finds the one that follows
LEMMA AfterEdit ==
  ASSUME IInv, NEW i \in Ids, NoRaceOn(i), NEW r \in Edits(i)
  PROVE  After(r) = Edited(req[r].row, req[r].payload)
  <1> DEFINE new == Edited(req[r].row, req[r].payload)
             following == {q \in Edits(i) :
                             req[q].row.version = req[r].row.version + 1}
  <1>1. /\ req[r].id = i
        /\ \A q \in Edits(i) : /\ WellFormed(req[q].row)
                               /\ req[q].row.version \in Nat
                               /\ req[q].row.version < rules[i].version
    BY DEF IInv, Chain, EditsLoaded, Edits, IsEdit, WellFormed
  <1>2. new.version = req[r].row.version + 1
    BY <1>1, EditedRow
  <1>3. After(r) = IF following = {} THEN rules[i]
                   ELSE req[CHOOSE q \in following : TRUE].row
    BY <1>1 DEF After
  <1>4. rules[i] = new \/ \E q \in Edits(i) : req[q].row = new
    BY DEF IInv, Chain
  <1> HIDE DEF new
  <1>5. CASE \E q \in Edits(i) : req[q].row = new
    <2>1. PICK q \in Edits(i) : req[q].row = new
      BY <1>5
    <2>2. q \in following
      BY <1>2, <2>1
    <2>3. \A p \in following : p = q
      BY <2>2 DEF NoRaceOn
    <2>4. (CHOOSE p \in following : TRUE) = q
      BY <2>2, <2>3
    <2> QED
      BY <1>3, <2>1, <2>2, <2>4 DEF new
  <1>6. CASE rules[i] = new
    <2>1. \A q \in Edits(i) : req[q].row.version < req[r].row.version + 1
      BY <1>1, <1>2, <1>6
    <2>2. following = {}
      BY <1>1, <2>1
    <2> QED
      BY <1>3, <1>6, <2>2 DEF new
  <1> QED
    BY <1>4, <1>5, <1>6

\* As long as no two edits of a rule have read the same version, and nobody has
\* died on it, each edit starts from the row that the one before it left, and
\* the audit trail shows it so: for any number of rules, edits and requests.
THEOREM EditsFollowOneAnother ==
  ASSUME NullApart
  PROVE  Spec => []EditsChain
  <1>1. IInv => EditsChain
    <2> SUFFICES ASSUME IInv, NEW i \in Ids, NoRaceOn(i)
                 PROVE  /\ \A r \in Edits(i) :
                             After(r) = Edited(req[r].row, req[r].payload)
                        /\ \A r \in Edits(i) :
                             rules[i].version > req[r].row.version
                        /\ \A x \in audit : x.id = i /\ x.op = "update" =>
                             /\ x.before = req[x.by].row
                             /\ x.after.version > x.before.version
      BY DEF EditsChain
    <2>1. \A r \in Edits(i) : rules[i].version > req[r].row.version
      <3>1. \A r \in Edits(i) : /\ req[r].row.version < rules[i].version
                                /\ req[r].row.version \in Nat
                                /\ rules[i].version \in Nat
        BY DEF IInv, Chain, EditsLoaded, Edits, IsEdit, WellFormed
      <3> QED
        BY <3>1
    <2>2. \A x \in audit : x.id = i /\ x.op = "update" =>
            /\ x.before = req[x.by].row
            /\ x.after.version > x.before.version
      BY DEF IInv, AuditTellsEdits
    <2> QED
      BY <2>1, <2>2, AfterEdit
  <1> QED
    BY <1>1, Chains_Init, Chains_Next, PTL DEF Spec
-----------------------------------------------------------------------------
\* The loop of the engine.

\* A non-empty set of naturals has a least one
LEMMA LeastNatural ==
  ASSUME NEW T \in SUBSET Nat, T /= {}
  PROVE  \E n \in T : \A m \in T : n <= m
  <1> DEFINE R == OpToRel(<, Nat)
  <1>1. IsWellFoundedOn(R, Nat)
    BY NatLessThanWellFounded, Zenon
  <1> HIDE DEF R
  <1>2. PICK n \in T : \A m \in T : <<m, n>> \notin R
    BY <1>1, WFMin
  <1>3. \A m \in T : ~(m < n)
    BY <1>2 DEF R, OpToRel
  <1> QED
    BY <1>3

\* The rules of a list that match, among the first k
Matching(list, di, k) == {j \in 1..k : Evaluate(list[j].condition, di)}

FirstOf(numbers) == CHOOSE j \in numbers : \A i \in numbers : j <= i

OutcomeOf(list, matching) ==
  IF matching = {} THEN "manual_review" ELSE list[FirstOf(matching)].action

\* What the loop notes of the rules of a list
Note(list, di, j) == RuleResult(list[j], Evaluate(list[j].condition, di))

Notes(list, di, k) == [j \in 1..k |-> Note(list, di, j)]

\* What the loop knows after the first k rules
Known(list, di, k) ==
  [applied |-> Notes(list, di, k),
   triggered |-> Matching(list, di, k) /= {},
   outcome |-> OutcomeOf(list, Matching(list, di, k))]

LEMMA FirstOfLeast ==
  ASSUME NEW numbers \in SUBSET Nat, numbers /= {}
  PROVE  /\ FirstOf(numbers) \in numbers
         /\ \A i \in numbers : FirstOf(numbers) <= i
  <1>1. \E j \in numbers : \A i \in numbers : j <= i
    BY LeastNatural
  <1> QED
    BY <1>1, Zenon DEF FirstOf

\* A later number leaves the first the first
LEMMA LaterIsNoFirst ==
  ASSUME NEW numbers \in SUBSET Nat, numbers /= {},
         NEW n \in Nat, \A i \in numbers : i < n
  PROVE  FirstOf(numbers \cup {n}) = FirstOf(numbers)
  <1> DEFINE all == numbers \cup {n}
  <1>1. all \in SUBSET Nat /\ all /= {}
    OBVIOUS
  <1> HIDE DEF all
  <1>2. PICK i : /\ i = FirstOf(numbers)
                 /\ i \in numbers
                 /\ \A m \in numbers : i <= m
    BY FirstOfLeast
  <1>3. PICK l : /\ l = FirstOf(all)
                 /\ l \in all
                 /\ \A m \in all : l <= m
    BY <1>1, FirstOfLeast
  <1>4. l <= i /\ i < n /\ i \in Nat
    BY <1>2, <1>3 DEF all
  <1>5. l \in numbers /\ l \in Nat
    BY <1>3, <1>4 DEF all
  <1>6. l = i
    BY <1>2, <1>4, <1>5
  <1> QED
    BY <1>2, <1>3, <1>6 DEF all

\* One rule more: the first match stays the first
LEMMA FirstMatchStays ==
  ASSUME NEW list, NEW di, NEW k \in Nat
  PROVE  OutcomeOf(list, Matching(list, di, k + 1))
           = IF Evaluate(list[k + 1].condition, di) /\ Matching(list, di, k) = {}
             THEN list[k + 1].action
             ELSE OutcomeOf(list, Matching(list, di, k))
  <1> DEFINE before == Matching(list, di, k)
             after == Matching(list, di, k + 1)
  <1>1. after = IF Evaluate(list[k + 1].condition, di) THEN before \cup {k + 1}
                                                       ELSE before
    BY DEF Matching
  <1>2. before \in SUBSET 1..k
    BY DEF Matching
  <1> HIDE DEF before, after
  <1>3. CASE ~Evaluate(list[k + 1].condition, di)
    BY <1>1, <1>3 DEF before, after
  <1>4. CASE Evaluate(list[k + 1].condition, di) /\ before = {}
    <2>1. after = {k + 1}
      BY <1>1, <1>4
    <2>2. FirstOf(after) = k + 1
      <3>1. after \in SUBSET Nat /\ after /= {}
        BY <2>1
      <3>2. FirstOf(after) \in after
        BY <3>1, FirstOfLeast
      <3> QED
        BY <2>1, <3>2
    <2> QED
      BY <1>4, <2>1, <2>2 DEF OutcomeOf, before, after
  <1>5. CASE Evaluate(list[k + 1].condition, di) /\ before /= {}
    <2>1. after = before \cup {k + 1}
      BY <1>1, <1>5
    <2>2. before \in SUBSET Nat /\ after \in SUBSET Nat /\ after /= {}
      BY <1>2, <2>1
    <2>5. FirstOf(after) = FirstOf(before)
      <3>1. \A i \in before : i < k + 1
        BY <1>2
      <3> QED
        BY <1>5, <2>1, <2>2, <3>1, LaterIsNoFirst
    <2> QED
      BY <1>5, <2>1, <2>5 DEF OutcomeOf, before, after
  <1> QED
    BY <1>3, <1>4, <1>5 DEF before

\* The snapshot grows by one note a turn
LEMMA NotesGrow ==
  ASSUME NEW list, NEW di, NEW k \in Nat
  PROVE  Notes(list, di, k + 1)
           = Append(Notes(list, di, k), Note(list, di, k + 1))
  <1> DEFINE Values == {Note(list, di, j) : j \in 1..(k + 1)}
             old == Notes(list, di, k)
             new == Notes(list, di, k + 1)
             grown == Append(old, Note(list, di, k + 1))
  <1>1. old \in [1..k -> Values] /\ new \in [1..(k + 1) -> Values]
    BY DEF Notes
  <1>2. Note(list, di, k + 1) \in Values
    OBVIOUS
  <1>3. /\ \A j \in 1..k : old[j] = new[j]
        /\ new[k + 1] = Note(list, di, k + 1)
    BY DEF Notes
  <1> HIDE DEF Values, old, new
  <1>4. old \in Seq(Values) /\ new \in Seq(Values)
    BY <1>1, SeqDef
  <1>5. Len(old) = k /\ Len(new) = k + 1
    BY <1>1, <1>4, LenProperties
  <1>6. /\ grown \in Seq(Values)
        /\ Len(grown) = k + 1
        /\ \A j \in 1..k : grown[j] = old[j]
        /\ grown[k + 1] = Note(list, di, k + 1)
    BY <1>2, <1>4, <1>5, AppendProperties
  <1>7. \A j \in 1..(k + 1) : new[j] = grown[j]
    BY <1>3, <1>6
  <1> HIDE DEF grown
  <1>8. new = grown
    BY <1>4, <1>5, <1>6, <1>7, SeqEqual
  <1> QED
    BY <1>8 DEF grown, old, new

LEMMA NothingKnown ==
  ASSUME NEW list, NEW di
  PROVE  Known(list, di, 0) = Start
  <1>1. 1..0 = {}
    OBVIOUS
  <1>2. Matching(list, di, 0) = {}
    BY <1>1 DEF Matching
  <1>3. Notes(list, di, 0) = <<>>
    <2> DEFINE none == Notes(list, di, 0)
    <2>1. none \in [1..0 -> {}]
      BY <1>1 DEF Notes
    <2> HIDE DEF none
    <2>2. none \in Seq({})
      BY <2>1, SeqDef
    <2>3. Len(none) = 0
      BY <2>1, <2>2, LenProperties
    <2>4. none = <<>>
      BY <2>2, <2>3, EmptySeq
    <2> QED
      BY <2>4 DEF none
  <1> QED
    BY <1>2, <1>3, Zenon DEF Known, Start, OutcomeOf

\* A turn of the loop adds what the list says of one more rule
LEMMA OneTurn ==
  ASSUME NEW list, NEW di, NEW k \in Nat
  PROVE  NextRule(di, Known(list, di, k), list[k + 1])
           = Known(list, di, k + 1)
  <1> DEFINE matched == Evaluate(list[k + 1].condition, di)
             before == Matching(list, di, k)
             after == Matching(list, di, k + 1)
  <1>1. Append(Notes(list, di, k), RuleResult(list[k + 1], matched))
          = Notes(list, di, k + 1)
    BY NotesGrow, Zenon DEF Note
  <1>2. (before /= {} \/ matched) <=> after /= {}
    <2>1. after = IF matched THEN before \cup {k + 1} ELSE before
      BY DEF Matching
    <2> HIDE DEF matched, before, after
    <2> QED
      BY <2>1
  <1>3. OutcomeOf(list, after)
          = IF matched /\ ~(before /= {})
            THEN list[k + 1].action ELSE OutcomeOf(list, before)
    BY FirstMatchStays
  <1> HIDE DEF before, after
  <1>4. Known(list, di, k) = [applied |-> Notes(list, di, k),
                              triggered |-> before /= {},
                              outcome |-> OutcomeOf(list, before)]
    BY Zenon DEF Known, before
  <1> QED
    BY <1>1, <1>2, <1>3, Zenon DEF Known, NextRule, before, after

LEMMA LoopKnows ==
  ASSUME NEW list, NEW di, NEW n \in Nat, DOMAIN list = 1..n
  PROVE  \A k \in 1..n : Loop(list, di)[k] = Known(list, di, k)
  <1> DEFINE Turn(f) ==
        [k \in DOMAIN list |->
           NextRule(di, IF k = 1 THEN Start ELSE f[k - 1], list[k])]
             known == [k \in 1..n |-> Known(list, di, k)]
             loop == Loop(list, di)
  <1>1. \A k \in 1..n :
          Known(list, di, k)
            = NextRule(di, IF k = 1 THEN Start ELSE Known(list, di, k - 1),
                       list[k])
    <2> SUFFICES ASSUME NEW k \in 1..n
                 PROVE  Known(list, di, k)
                          = NextRule(di, IF k = 1 THEN Start
                                         ELSE Known(list, di, k - 1), list[k])
      OBVIOUS
    <2>1. k - 1 \in Nat /\ (k - 1) + 1 = k
      OBVIOUS
    <2>2. Known(list, di, k)
            = NextRule(di, Known(list, di, k - 1), list[k])
      BY <2>1, OneTurn
    <2>3. k = 1 => Known(list, di, k - 1) = Start
      BY NothingKnown
    <2> QED
      BY <2>2, <2>3
  <1>2. \A k \in 1..n : k /= 1 => k - 1 \in 1..n
    OBVIOUS
  <1>3. known = Turn(known)
    BY <1>1, <1>2
  <1>4. loop = Turn(loop)
    BY <1>3, Zenon DEF Loop
  <1>5. \A k \in 1..n : loop[k] = NextRule(di, IF k = 1 THEN Start
                                                ELSE loop[k - 1], list[k])
    BY <1>4
  <1> HIDE DEF loop, known, Turn
  <1> SUFFICES ASSUME NEW k \in 1..n, loop[k] /= Known(list, di, k)
               PROVE  FALSE
    BY DEF loop
  <1>6. PICK m \in 1..n : /\ loop[m] /= Known(list, di, m)
                          /\ \A j \in 1..n :
                               loop[j] /= Known(list, di, j) => m <= j
    <2> DEFINE Wrong == {j \in 1..n : loop[j] /= Known(list, di, j)}
    <2>1. Wrong \in SUBSET Nat /\ Wrong /= {}
      OBVIOUS
    <2> HIDE DEF Wrong
    <2>2. PICK m \in Wrong : \A j \in Wrong : m <= j
      BY <2>1, LeastNatural
    <2> QED
      BY <2>2 DEF Wrong
  <1>7. CASE m = 1
    BY <1>1, <1>5, <1>6, <1>7
  <1>8. CASE m /= 1
    <2>1. m - 1 \in 1..n /\ ~(m <= m - 1)
      BY <1>8
    <2>2. loop[m - 1] = Known(list, di, m - 1)
      BY <1>6, <2>1
    <2> QED
      BY <1>1, <1>5, <1>6, <1>8, <2>2
  <1> QED
    BY <1>7, <1>8
-----------------------------------------------------------------------------
\* The order of the rules.

IsTable(table) ==
  \A i \in Ids : table[i] /= Null => WellFormed(table[i]) /\ table[i].id = i

LEMMA ActiveFinite ==
  ASSUME NEW table, NEW S \in SUBSET Active(table)
  PROVE  /\ IsFiniteSet(S)
         /\ Cardinality(S) \in Nat
         /\ Cardinality(S) <= Cardinality(Active(table))
         /\ Cardinality(Active(table)) \in Nat
         /\ Cardinality(S) = Cardinality(Active(table)) => S = Active(table)
  <1>1. IsFiniteSet(Ids)
    <2>1. IsFiniteSet(1..MaxRules)
      BY BoundsAreIds, FS_Interval
    <2> QED
      BY <2>1 DEF Ids
  <1>2. Active(table) \in SUBSET Ids
    BY DEF Active
  <1>3. IsFiniteSet(Active(table))
    BY <1>1, <1>2, FS_Subset
  <1> QED
    BY <1>3, FS_Subset, FS_CardinalityType

\* A set with a member more has more members
LEMMA Grows ==
  ASSUME NEW table, NEW S \in SUBSET Active(table), NEW T \in SUBSET S,
         NEW i \in S, i \notin T
  PROVE  /\ Cardinality(T) \in Nat /\ Cardinality(S) \in Nat
         /\ Cardinality(T) < Cardinality(S)
  <1>1. IsFiniteSet(S) /\ Cardinality(S) \in Nat
    BY ActiveFinite
  <1>2. T \in SUBSET Active(table)
    OBVIOUS
  <1>3. Cardinality(T) \in Nat
    BY <1>2, ActiveFinite
  <1>4. /\ Cardinality(T) <= Cardinality(S)
        /\ Cardinality(S) = Cardinality(T) => S = T
    BY <1>1, FS_Subset
  <1> QED
    BY <1>1, <1>3, <1>4

LEMMA ActiveTyped ==
  ASSUME NEW table, IsTable(table), NEW i \in Active(table)
  PROVE  /\ i \in Int /\ table[i].id = i
         /\ WellFormed(table[i]) /\ table[i].priority \in Int
  <1>1. i \in Int
    BY BoundsAreIds DEF Active, Ids
  <1>2. WellFormed(table[i]) /\ table[i].id = i
    BY DEF Active, IsTable
  <1>3. table[i].priority \in Int
    BY <1>2, Zenon DEF WellFormed
  <1> QED
    BY <1>1, <1>2, <1>3

\* ORDER BY is a strict total order of the active rules
LEMMA OrderIsTotal ==
  ASSUME NEW table, IsTable(table), NEW ascending,
         NEW i \in Active(table), NEW j \in Active(table), NEW k \in Active(table)
  PROVE  /\ ~Precedes(table, ascending, i, i)
         /\ i /= j => \/ Precedes(table, ascending, i, j)
                      \/ Precedes(table, ascending, j, i)
         /\ Precedes(table, ascending, i, j) /\ Precedes(table, ascending, j, k)
              => Precedes(table, ascending, i, k)
  <1>1. /\ table[i].priority \in Int /\ table[j].priority \in Int
        /\ table[k].priority \in Int
        /\ i \in Int /\ j \in Int /\ k \in Int
    BY ActiveTyped
  <1>2. ~Precedes(table, ascending, i, i)
    BY <1>1 DEF Precedes
  <1>3. i /= j => \/ Precedes(table, ascending, i, j)
                  \/ Precedes(table, ascending, j, i)
    BY <1>1 DEF Precedes
  <1>4. Precedes(table, ascending, i, j) /\ Precedes(table, ascending, j, k)
          => Precedes(table, ascending, i, k)
    <2>1. CASE ascending
      BY <1>1, <2>1 DEF Precedes
    <2>2. CASE ~ascending
      BY <1>1, <2>2 DEF Precedes
    <2> QED
      BY <2>1, <2>2
  <1> QED
    BY <1>2, <1>3, <1>4

LEMMA PositionsInOrder ==
  ASSUME NEW table, IsTable(table), NEW ascending,
         NEW i \in Active(table), NEW j \in Active(table)
  PROVE  /\ Position(table, ascending, i) \in 1..Cardinality(Active(table))
         /\ Precedes(table, ascending, i, j) =>
              Position(table, ascending, i) < Position(table, ascending, j)
         /\ Position(table, ascending, i) = Position(table, ascending, j) => i = j
  <1> DEFINE Before(l) == {m \in Active(table) : Precedes(table, ascending, m, l)}
  <1>1. \A l : /\ Position(table, ascending, l) = 1 + Cardinality(Before(l))
               /\ Before(l) \in SUBSET Active(table)
    BY DEF Position
  <1>2. \A l, m \in Active(table) :
          /\ l \notin Before(l)
          /\ Precedes(table, ascending, l, m) =>
               l \in Before(m) /\ Before(l) \in SUBSET Before(m)
    BY OrderIsTotal
  <1> HIDE DEF Before
  <1>3. /\ Cardinality(Before(i)) \in Nat /\ Cardinality(Active(table)) \in Nat
        /\ Cardinality(Before(i)) < Cardinality(Active(table))
    <2>1. Active(table) \in SUBSET Active(table)
      OBVIOUS
    <2>2. Before(i) \in SUBSET Active(table) /\ i \notin Before(i)
      BY <1>1, <1>2
    <2> QED
      BY <2>1, <2>2, Grows
  <1>4. ASSUME NEW l \in Active(table), NEW m \in Active(table),
               Precedes(table, ascending, l, m)
        PROVE  Position(table, ascending, l) < Position(table, ascending, m)
    <2>1. /\ Cardinality(Before(l)) \in Nat /\ Cardinality(Before(m)) \in Nat
          /\ Cardinality(Before(l)) < Cardinality(Before(m))
      <3>1. /\ Before(m) \in SUBSET Active(table) /\ l \in Before(m)
            /\ Before(l) \in SUBSET Before(m) /\ l \notin Before(l)
        BY <1>1, <1>2, <1>4
      <3> QED
        BY <3>1, Grows
    <2> QED
      BY <1>1, <2>1
  <1>5. Position(table, ascending, i) \in 1..Cardinality(Active(table))
    BY <1>1, <1>3
  <1>6. Position(table, ascending, j) \in Nat
    <2>1. Cardinality(Before(j)) \in Nat
      BY <1>1, ActiveFinite
    <2> QED
      BY <1>1, <2>1
  <1>7. ASSUME Position(table, ascending, i) = Position(table, ascending, j),
               i /= j
        PROVE  FALSE
    <2>1. \/ Position(table, ascending, i) < Position(table, ascending, j)
          \/ Position(table, ascending, j) < Position(table, ascending, i)
      BY <1>4, <1>7, OrderIsTotal
    <2> QED
      BY <1>6, <1>7, <2>1
  <1> QED
    BY <1>4, <1>5, <1>7

\* The list has each active rule, once, and its priorities never fall
ListsActive(list, n, place, table) ==
  /\ list = [k \in 1..n |-> table[place[k]]]
  /\ \A k \in 1..n : place[k] \in Active(table)
  /\ \A i \in Active(table) : \E k \in 1..n : place[k] = i
  /\ \A j, k \in 1..n : place[j] = place[k] => j = k
  /\ \A j, k \in 1..n :
       j <= k => table[place[j]].priority <= table[place[k]].priority

LEMMA ActiveInOrder ==
  ASSUME NEW table, IsTable(table), NEW ascending
  PROVE  \E n \in Nat : \E place :
           ListsActive(InOrder(table, ascending), n, place, table)
  <1> DEFINE A == Active(table)
             n == Cardinality(A)
             P(i) == Position(table, ascending, i)
             at == [k \in 1..n |-> CHOOSE i \in A : P(i) = k]
             pos == [i \in A |-> P(i)]
  <1>1. n \in Nat /\ IsFiniteSet(A)
    BY ActiveFinite
  <1>2. \A i, j \in A : /\ P(i) \in 1..n
                        /\ Precedes(table, ascending, i, j) => P(i) < P(j)
                        /\ P(i) = P(j) => i = j
    BY PositionsInOrder
  <1>3. \A i \in A : table[i].priority \in Int
    BY ActiveTyped
  <1> HIDE DEF A, P, n
  <1>4. pos \in Injection(A, 1..n)
    BY <1>2 DEF Injection, IsInjective
  <1>5. pos \in Surjection(A, 1..n)
    <2>1. IsFiniteSet(1..n) /\ Cardinality(1..n) = n
      BY <1>1, FS_Interval
    <2> HIDE DEF pos
    <2> QED
      BY <1>1, <1>4, <2>1, FS_Injection DEF n
  <1>6. \A k \in 1..n : \E i \in A : P(i) = k
    BY <1>5 DEF Surjection
  <1>7. \A k \in 1..n : at[k] \in A /\ P(at[k]) = k
    <2> SUFFICES ASSUME NEW k \in 1..n
                 PROVE  at[k] \in A /\ P(at[k]) = k
      OBVIOUS
    <2>1. \E i \in A : P(i) = k
      BY <1>6
    <2>2. at[k] = CHOOSE i \in A : P(i) = k
      OBVIOUS
    <2> HIDE DEF at
    <2> QED
      BY <2>1, <2>2, Zenon
  <1>8. \A i \in A : \E k \in 1..n : at[k] = i
    BY <1>2, <1>7
  <1>12. \A j, k \in 1..n : at[j] = at[k] => j = k
    <2> HIDE DEF at
    <2> QED
      BY <1>7
  <1>9. \A j, k \in 1..n :
          j <= k => table[at[j]].priority <= table[at[k]].priority
    <2> SUFFICES ASSUME NEW j \in 1..n, NEW k \in 1..n, j <= k,
                        ~(table[at[j]].priority <= table[at[k]].priority)
                 PROVE  FALSE
      OBVIOUS
    <2>1. at[j] \in A /\ at[k] \in A /\ P(at[j]) = j /\ P(at[k]) = k
      BY <1>7
    <2> HIDE DEF at
    <2>2. Precedes(table, ascending, at[k], at[j])
      BY <1>3, <2>1 DEF Precedes
    <2>3. k < j
      BY <1>2, <2>1, <2>2
    <2> QED
      BY <1>1, <2>3
  <1>10. InOrder(table, ascending) = [k \in 1..n |-> table[at[k]]]
    BY DEF InOrder, A, n, P
  <1> HIDE DEF at
  <1>11. ListsActive(InOrder(table, ascending), n, at, table)
    BY <1>7, <1>8, <1>9, <1>10, <1>12 DEF ListsActive, A
  <1> QED
    BY <1>1, <1>11
-----------------------------------------------------------------------------
\* What the engine decides.

\* An active rule decides if it matches and no matching rule has a lower
\* priority number
Leads(table, di, i) ==
  /\ i \in Active(table) /\ Evaluate(table[i].condition, di)
  /\ \A j \in Active(table) :
       Evaluate(table[j].condition, di) =>
         table[i].priority <= table[j].priority

LEMMA EvaluationKnows ==
  ASSUME NEW S, NEW list \in Seq(S), NEW di
  PROVE  Evaluation(list, di) = Known(list, di, Len(list))
  <1> DEFINE n == Len(list)
  <1>1. n \in Nat /\ DOMAIN list = 1..n
    BY LenProperties
  <1>2. CASE list = <<>>
    <2>1. n = 0
      BY <1>2, EmptySeq
    <2>2. Evaluation(list, di) = Start
      BY <1>2, Zenon DEF Evaluation
    <2> HIDE DEF n
    <2>3. Known(list, di, n) = Start
      BY <2>1, NothingKnown
    <2> QED
      BY <2>2, <2>3 DEF n
  <1>3. CASE list /= <<>>
    <2>1. Evaluation(list, di) = Loop(list, di)[n]
      BY <1>3, Zenon DEF Evaluation
    <2>2. n \in Nat \ {0}
      BY <1>3, EmptySeq
    <2> HIDE DEF n
    <2>3. n \in 1..n
      BY <2>2
    <2>4. Loop(list, di)[n] = Known(list, di, n)
      BY <1>1, <2>3, LoopKnows
    <2> QED
      BY <2>1, <2>4 DEF n
  <1> QED
    BY <1>2, <1>3

\* A list of n entries
LEMMA ListOf ==
  ASSUME NEW list, NEW n \in Nat, NEW table, NEW place,
         ListsActive(list, n, place, table)
  PROVE  /\ \E S : list \in Seq(S)
         /\ Len(list) = n
         /\ \A k \in 1..n : list[k] = table[place[k]]
  <1> DEFINE S == {table[place[k]] : k \in 1..n}
  <1>1. list \in [1..n -> S] /\ \A k \in 1..n : list[k] = table[place[k]]
    BY DEF ListsActive
  <1> HIDE DEF S
  <1>2. list \in Seq(S)
    BY <1>1, SeqDef
  <1>3. Len(list) = n
    BY <1>1, <1>2, LenProperties
  <1> QED
    BY <1>1, <1>2, <1>3

\* What a decision is, for a list that has the active rules in their order
LEMMA DecidesByFirstMatch ==
  ASSUME NEW table, IsTable(table), NEW di, NEW n \in Nat, NEW place, NEW list,
         ListsActive(list, n, place, table)
  PROVE  /\ Evaluation(list, di).applied = Notes(list, di, n)
         /\ Evaluation(list, di).outcome = OutcomeOf(list, Matching(list, di, n))
         /\ \A k \in 1..n : list[k] = table[place[k]]
  <1>1. /\ \E S : list \in Seq(S)
        /\ Len(list) = n
        /\ \A k \in 1..n : list[k] = table[place[k]]
    BY ListOf
  <1>2. PICK S : list \in Seq(S)
    BY <1>1
  <1>3. Evaluation(list, di) = Known(list, di, Len(list))
    BY <1>2, EvaluationKnows
  <1>4. Evaluation(list, di) = Known(list, di, n)
    BY <1>1, <1>3, Zenon
  <1>5. /\ Known(list, di, n).applied = Notes(list, di, n)
        /\ Known(list, di, n).outcome = OutcomeOf(list, Matching(list, di, n))
    BY DEF Known
  <1> QED
    BY <1>1, <1>4, <1>5, Zenon

\* The first that matches has the lowest number of all that do
LEMMA FirstMatch ==
  ASSUME NEW table, IsTable(table), NEW di, NEW n \in Nat, NEW place, NEW list,
         ListsActive(list, n, place, table), Matching(list, di, n) /= {}
  PROVE  LET k == FirstOf(Matching(list, di, n))
         IN /\ k \in Matching(list, di, n) /\ k \in 1..n
            /\ \A l \in Matching(list, di, n) :
                 k <= l /\ list[k].priority <= list[l].priority
  <1> DEFINE matching == Matching(list, di, n)
             k == FirstOf(matching)
  <1>1. matching \in SUBSET 1..n
    BY DEF Matching
  <1>2. matching \in SUBSET Nat
    BY <1>1
  <1>3. k \in matching /\ \A l \in matching : k <= l
    BY <1>2, FirstOfLeast
  <1>4. \A l \in 1..n : list[l] = table[place[l]]
    BY DecidesByFirstMatch
  <1>5. \A l \in 1..n : k \in 1..n /\ k <= l =>
          table[place[k]].priority <= table[place[l]].priority
    BY DEF ListsActive
  <1> HIDE DEF matching, k
  <1>6. \A l \in matching : list[k].priority <= list[l].priority
    BY <1>1, <1>3, <1>4, <1>5
  <1> QED
    BY <1>1, <1>3, <1>6 DEF matching, k

\* The outcome is that of an active rule that leads, if any matches
LEMMA LeadersDecide ==
  ASSUME NEW table, IsTable(table), NEW di, NEW n \in Nat, NEW place, NEW list,
         ListsActive(list, n, place, table)
  PROVE  \/ /\ \A i \in Active(table) : ~Evaluate(table[i].condition, di)
            /\ Evaluation(list, di).outcome = "manual_review"
         \/ \E i : /\ Leads(table, di, i)
                   /\ Evaluation(list, di).outcome = table[i].action
  <1> DEFINE matching == Matching(list, di, n)
             k == FirstOf(matching)
  <1>1. /\ Evaluation(list, di).outcome = OutcomeOf(list, matching)
        /\ \A l \in 1..n : list[l] = table[place[l]]
    BY DecidesByFirstMatch
  <1>2. /\ \A l \in 1..n : place[l] \in Active(table)
        /\ \A i \in Active(table) : \E l \in 1..n : place[l] = i
    BY DEF ListsActive
  <1>3. \A l \in 1..n : l \in matching <=> Evaluate(table[place[l]].condition, di)
    BY <1>1 DEF Matching
  <1>4. CASE matching = {}
    <2>1. \A i \in Active(table) : ~Evaluate(table[i].condition, di)
      BY <1>2, <1>3, <1>4
    <2>2. OutcomeOf(list, matching) = "manual_review"
      BY <1>4, Zenon DEF OutcomeOf
    <2> QED
      BY <1>1, <2>1, <2>2
  <1>5. CASE matching /= {}
    <2>1. /\ k \in matching /\ k \in 1..n
          /\ \A l \in matching : list[k].priority <= list[l].priority
      BY <1>5, FirstMatch
    <2>2. matching \in SUBSET 1..n
      BY DEF Matching
    <2>3. OutcomeOf(list, matching) = list[k].action
      BY <1>5, Zenon DEF OutcomeOf
    <2> HIDE DEF k, matching
    <2>4. place[k] \in Active(table) /\ Evaluate(table[place[k]].condition, di)
      BY <1>2, <1>3, <2>1
    <2>5. ASSUME NEW j \in Active(table), Evaluate(table[j].condition, di)
          PROVE  table[place[k]].priority <= table[j].priority
      <3>1. PICK l \in 1..n : place[l] = j
        BY <1>2
      <3>2. l \in matching
        BY <1>3, <2>5, <3>1
      <3> QED
        BY <1>1, <2>1, <3>1, <3>2
    <2>6. Leads(table, di, place[k])
      BY <2>4, <2>5 DEF Leads
    <2>7. Evaluation(list, di).outcome = table[place[k]].action
      BY <1>1, <2>1, <2>3 DEF matching
    <2> QED
      BY <2>6, <2>7
  <1> QED
    BY <1>4, <1>5

\* A decision is what the engine makes of the rules as they were, in their order
DecidedInOrder ==
  \A r \in Requests : req[r].decision /= Null =>
    /\ req[r].input \in Inputs
    /\ IsTable(req[r].row)
    /\ \E ascending \in BOOLEAN :
         req[r].decision = Decide(InOrder(req[r].row, ascending), req[r].input)

LEMMA Decided_Init == Init => DecidedInOrder
  BY DEF Init, DecidedInOrder, NotArrived

LEMMA Decided_RunEngine ==
  ASSUME TypeOK, Shapes, DecidedInOrder, NEW r \in Requests, RunEngine(r)
  PROVE  DecidedInOrder'
  <1>1. PICK di \in Inputs, ascending \in BOOLEAN :
          \/ req' = [req EXCEPT ![r] = EngineError(di)]
          \/ req' = [req EXCEPT
                      ![r] = EngineAnswer(di, Decide(InOrder(rules, ascending), di))]
    BY EngineAnswers
  <1>2. PICK d : d = Decide(InOrder(rules, ascending), di)
    OBVIOUS
  <1>3. PICK table : table = rules
    OBVIOUS
  <1>4. /\ \A q \in Requests : q /= r => req'[q] = req[q]
        /\ \/ req'[r].decision = Null
           \/ /\ req'[r].decision = d /\ req'[r].input = di
              /\ req'[r].row = table
    <2>1. req = [q \in Requests |-> req[q]]
      BY DEF Shapes
    <2>2. /\ EngineError(di).decision = Null
          /\ EngineAnswer(di, d).decision = d
          /\ EngineAnswer(di, d).input = di
          /\ EngineAnswer(di, d).row = table
      BY <1>3 DEF EngineError, EngineAnswer, NotArrived
    <2>3. \/ req' = [req EXCEPT ![r] = EngineError(di)]
          \/ req' = [req EXCEPT ![r] = EngineAnswer(di, d)]
      BY <1>1, <1>2
    <2>4. PICK answer : /\ req' = [req EXCEPT ![r] = answer]
                        /\ answer \in {EngineError(di), EngineAnswer(di, d)}
      BY <2>3
    <2>5. req'[r] = answer /\ \A q \in Requests : q /= r => req'[q] = req[q]
      BY <2>1, <2>4
    <2> QED
      BY <2>2, <2>4, <2>5
  <1>5. IsTable(table)
    BY <1>3 DEF TypeOK, IsTable
  <1>6. d = Decide(InOrder(table, ascending), di)
    BY <1>2, <1>3
  <1> QED
    BY <1>1, <1>4, <1>5, <1>6 DEF DecidedInOrder

\* No other step touches a decision
LEMMA Decided_Next ==
  ASSUME TypeOK, Shapes, DecidedInOrder, [Next]_vars
  PROVE  DecidedInOrder'
  <1>1. ASSUME NEW r \in Requests, RunEngine(r)
        PROVE  DecidedInOrder'
    BY <1>1, Decided_RunEngine
  <1>2. ASSUME NEW r \in Requests,
               Create(r) \/ LoadUpdate(r) \/ LoadDeactivation(r) \/ RefuseEdit(r)
        PROVE  DecidedInOrder'
    <2>1. /\ \A q \in Requests : q /= r => req'[q] = req[q]
          /\ req'[r].decision = Null
      <3>1. CASE Create(r)
        <4>1. PICK i : req' = [req EXCEPT ![r] = [NotArrived EXCEPT
                         !.pc = "committed", !.op = "create", !.id = i]]
          BY <3>1 DEF Create
        <4> QED
          BY <4>1 DEF Shapes, NotArrived, Fields
      <3>2. CASE LoadUpdate(r) \/ LoadDeactivation(r)
        <4>1. PICK op, i, payload : Load(r, op, i, payload)
          BY <3>2 DEF LoadUpdate, LoadDeactivation
        <4> QED
          BY <4>1 DEF Load, Shapes, NotArrived, Fields
      <3>3. CASE RefuseEdit(r)
        BY <3>3 DEF RefuseEdit, Shapes, NotArrived, Fields
      <3> QED
        BY <1>2, <3>1, <3>2, <3>3
    <2> QED
      BY <2>1 DEF DecidedInOrder
  <1>3. ASSUME NEW r \in Requests, CommitEdit(r) \/ FinishEdit(r) \/ Die(r)
        PROVE  DecidedInOrder'
    <2>1. /\ \A q \in Requests : q /= r => req'[q] = req[q]
          /\ req'[r].decision = req[r].decision
          /\ req'[r].input = req[r].input /\ req'[r].row = req[r].row
      BY <1>3 DEF CommitEdit, FinishEdit, Die, Answer, Shapes, Fields
    <2> QED
      BY <2>1 DEF DecidedInOrder
  <1>4. CASE UNCHANGED vars
    BY <1>4 DEF DecidedInOrder, vars
  <1> QED
    BY <1>1, <1>2, <1>3, <1>4 DEF Next, Arrive, Step

\* The list that a decision went by
LEMMA ListOfDecision ==
  ASSUME DecidedInOrder, NEW r \in Decided
  PROVE  /\ req[r].input \in Inputs /\ IsTable(req[r].row)
         /\ \E n \in Nat : \E place, list :
              /\ ListsActive(list, n, place, req[r].row)
              /\ req[r].decision = Decide(list, req[r].input)
  <1>1. PICK ascending \in BOOLEAN :
          req[r].decision = Decide(InOrder(req[r].row, ascending), req[r].input)
    BY DEF DecidedInOrder, Decided
  <1>2. req[r].input \in Inputs /\ IsTable(req[r].row)
    BY DEF DecidedInOrder, Decided
  <1>3. PICK n \in Nat : \E place :
          ListsActive(InOrder(req[r].row, ascending), n, place, req[r].row)
    BY <1>2, ActiveInOrder
  <1> QED
    BY <1>1, <1>2, <1>3

\* FirstMatchDecides, of one decision
ByFirstMatch(d, table) ==
  LET entry == DOMAIN d.applied
      priority(k) == table[d.applied[k].id].priority
      matching == {k \in entry : d.applied[k].matched}
      first == {k \in matching : \A l \in matching : priority(k) <= priority(l)}
  IN /\ {d.applied[k].id : k \in entry} = Active(table)
     /\ \A k, l \in entry : d.applied[k].id = d.applied[l].id => k = l
     /\ \A k \in entry :
          d.applied[k].condition = table[d.applied[k].id].condition
     /\ IF matching = {} THEN d.outcome = "manual_review"
        ELSE \E k \in first : /\ d.outcome = d.applied[k].action
                              /\ d.outcome = table[d.applied[k].id].action
                              /\ \A l \in first : k <= l
     /\ d.outcome = "approve" <=> d.amount > 0

\* A snapshot that notes, of n rules in their places, what the loop looked at
Mirrors(applied, list, n, place, table, di) ==
  /\ DOMAIN applied = 1..n
  /\ \A k \in 1..n :
       /\ place[k] \in Active(table) /\ list[k] = table[place[k]]
       /\ applied[k].id = place[k]
       /\ applied[k].condition = list[k].condition
       /\ applied[k].matched <=> Evaluate(list[k].condition, di)
       /\ applied[k].matched => applied[k].action = list[k].action

LEMMA SnapshotMirrors ==
  ASSUME NEW table, IsTable(table), NEW di, NEW n \in Nat, NEW place, NEW list,
         ListsActive(list, n, place, table)
  PROVE  Mirrors(Decide(list, di).applied, list, n, place, table, di)
  <1> DEFINE applied == Decide(list, di).applied
  <1>1. /\ Evaluation(list, di).applied = Notes(list, di, n)
        /\ \A k \in 1..n : list[k] = table[place[k]]
    BY DecidesByFirstMatch
  <1>2. applied = Notes(list, di, n)
    BY <1>1 DEF Decide
  <1> HIDE DEF applied
  <1>3. DOMAIN applied = 1..n /\ \A k \in 1..n : applied[k] = Note(list, di, k)
    BY <1>2 DEF Notes
  <1>4. \A k \in 1..n : place[k] \in Active(table)
    BY DEF ListsActive
  <1>5. \A k \in 1..n : list[k].id = place[k]
    BY <1>1, <1>4, ActiveTyped
  <1>6. ASSUME NEW k \in 1..n
        PROVE  /\ applied[k].id = list[k].id
               /\ applied[k].condition = list[k].condition
               /\ applied[k].matched <=> Evaluate(list[k].condition, di)
               /\ applied[k].matched => applied[k].action = list[k].action
    <2>1. applied[k] = RuleResult(list[k], Evaluate(list[k].condition, di))
      BY <1>3, Zenon DEF Note
    <2>2. applied[k].id = list[k].id /\ applied[k].condition = list[k].condition
      BY <2>1 DEF RuleResult
    <2>3. applied[k].matched <=> Evaluate(list[k].condition, di)
      BY <2>1 DEF RuleResult
    <2>4. applied[k].action = IF Evaluate(list[k].condition, di)
                              THEN list[k].action ELSE "none"
      BY <2>1 DEF RuleResult
    <2> QED
      BY <2>2, <2>3, <2>4, Zenon
  <1> QED
    BY <1>1, <1>3, <1>4, <1>5, <1>6 DEF Mirrors, applied

LEMMA EachByFirstMatch ==
  ASSUME NEW table, IsTable(table), NEW di \in Inputs, NEW n \in Nat, NEW place,
         NEW list, ListsActive(list, n, place, table)
  PROVE  ByFirstMatch(Decide(list, di), table)
  <1> DEFINE d == Decide(list, di)
             entry == DOMAIN d.applied
             priority(m) == table[d.applied[m].id].priority
             matching == {m \in entry : d.applied[m].matched}
             first == {m \in matching :
                         \A l \in matching : priority(m) <= priority(l)}
             k == FirstOf(matching)
  <1>1. d.outcome = OutcomeOf(list, Matching(list, di, n))
    <2>1. Evaluation(list, di).outcome = OutcomeOf(list, Matching(list, di, n))
      BY DecidesByFirstMatch
    <2>2. d.outcome = Evaluation(list, di).outcome
      BY DEF Decide
    <2> QED
      BY <2>1, <2>2, Zenon
  <1>2. d.outcome = "approve" <=> d.amount > 0
    <2>1. di.amount \in Nat \ {0}
      BY ApplicationsValidated
    <2>2. d.amount = IF d.outcome = "approve" THEN di.amount ELSE 0
      BY DEF Decide
    <2> HIDE DEF d
    <2> QED
      BY <2>1, <2>2
  <1>9. Mirrors(d.applied, list, n, place, table, di)
    BY SnapshotMirrors
  <1> HIDE DEF d
  <1>3. /\ DOMAIN d.applied = 1..n
        /\ \A m \in 1..n :
             /\ place[m] \in Active(table) /\ list[m] = table[place[m]]
             /\ d.applied[m].id = place[m]
             /\ d.applied[m].condition = list[m].condition
             /\ d.applied[m].matched <=> Evaluate(list[m].condition, di)
             /\ d.applied[m].matched => d.applied[m].action = list[m].action
    BY <1>9 DEF Mirrors
  <1>4. matching = Matching(list, di, n)
    BY <1>3 DEF Matching
  <1>5. /\ {d.applied[m].id : m \in entry} = Active(table)
        /\ \A m, l \in entry : d.applied[m].id = d.applied[l].id => m = l
    BY <1>3 DEF ListsActive
  <1>6. \A m \in entry :
          d.applied[m].condition = table[d.applied[m].id].condition
    BY <1>3
  <1>7. CASE matching = {}
    <2>1. d.outcome = "manual_review"
      BY <1>1, <1>4, <1>7, Zenon DEF OutcomeOf
    <2> QED
      BY <1>2, <1>5, <1>6, <1>7, <2>1 DEF ByFirstMatch, d
  <1>8. CASE matching /= {}
    <2>1. /\ k \in matching /\ k \in 1..n
          /\ \A l \in matching :
               k <= l /\ list[k].priority <= list[l].priority
      BY <1>4, <1>8, FirstMatch
    <2>2. d.outcome = list[k].action
      BY <1>1, <1>4, <1>8, Zenon DEF OutcomeOf
    <2> HIDE DEF k
    <2>3. \A l \in matching : /\ l \in 1..n /\ d.applied[l].matched
                              /\ priority(l) = list[l].priority
      BY <1>3
    <2>4. /\ d.outcome = d.applied[k].action
          /\ d.outcome = table[d.applied[k].id].action
      BY <1>3, <2>1, <2>2, <2>3
    <2> HIDE DEF matching, priority
    <2>5. k \in first /\ \A l \in first : k <= l
      BY <2>1, <2>3
    <2>6. \E l \in first : /\ d.outcome = d.applied[l].action
                           /\ d.outcome = table[d.applied[l].id].action
                           /\ \A m \in first : l <= m
      BY <2>4, <2>5
    <2> QED
      BY <1>2, <1>5, <1>6, <1>8, <2>6, Zenon
         DEF ByFirstMatch, d, matching, priority
  <1> QED
    BY <1>7, <1>8

\* The outcome of every decision is that of a matching rule that no other
\* precedes, and its snapshot shows that, with no active rule missing or twice:
\* for any table of any size, any ties and any edits in between.
THEOREM FirstMatchAlwaysDecides == Spec => []FirstMatchDecides
  <1>1. DecidedInOrder => FirstMatchDecides
    <2>1. ASSUME DecidedInOrder, NEW r \in Decided
          PROVE  ByFirstMatch(req[r].decision, req[r].row)
      BY <2>1, ListOfDecision, EachByFirstMatch
    <2> QED
      BY <2>1, Zenon DEF FirstMatchDecides, ByFirstMatch
  <1> QED
    BY <1>1, Typed_Init, Typed_Next, Decided_Init, Decided_Next, PTL DEF Spec
-----------------------------------------------------------------------------
\* What the seeded rules decide.

LEMMA RuleWellFormed ==
  ASSUME NEW id, NEW field, NEW operator, NEW value, NEW action \in Outcomes,
         NEW priority \in Int
  PROVE  /\ WellFormed(Rule(id, field, operator, value, action, priority))
         /\ Rule(id, field, operator, value, action, priority).active
  BY DEF WellFormed, Rule, Columns

\* The eight rules, by their numbers
LEMMA DefaultRules ==
  /\ DOMAIN DEFAULT_RULES = 1..8
  /\ DEFAULT_RULES[1] = Rule(1, "judgements_count", ">", Whole(0), "decline", 1)
  /\ DEFAULT_RULES[2] = Rule(2, "defaults_count", ">", Whole(1), "decline", 2)
  /\ DEFAULT_RULES[3] = Rule(3, "credit_score", "<", Whole(400), "decline", 3)
  /\ DEFAULT_RULES[4] = Rule(4, "monthly_income", "<", Whole(3500), "decline", 4)
  /\ DEFAULT_RULES[5]
       = Rule(5, "dti_ratio", ">", [n |-> 45, d |-> 100], "decline", 5)
  /\ DEFAULT_RULES[6] = Rule(6, "credit_score", ">=", Whole(700), "approve", 20)
  /\ DEFAULT_RULES[7]
       = Rule(7, "credit_score", ">=", Whole(450), "manual_review", 50)
  /\ DEFAULT_RULES[8]
       = Rule(8, "enquiries_last_90_days", ">", Whole(5), "manual_review", 51)
  BY DEF DEFAULT_RULES

\* The fields that the seeded rules look at
LEMMA FieldValues ==
  ASSUME NEW di
  PROVE  /\ FieldValue("credit_score", di) = di.score
         /\ FieldValue("dti_ratio", di) = DtiRatio(di)
         /\ FieldValue("monthly_income", di) = Cents(di.income)
         /\ FieldValue("judgements_count", di) = Whole(di.judgements)
         /\ FieldValue("defaults_count", di) = Whole(di.defaults)
         /\ FieldValue("enquiries_last_90_days", di) = Whole(di.enquiries)
  BY DEF FieldValue, FieldMap

\* More than 45%, or 45% that the doubles round up
Indebted(di) ==
  \/ di.income = 0
  \/ Excess(di) > 0
  \/ Excess(di) = 0 /\ di.rounding > 0

\* What the fifth rule asks
LEMMA TooMuchDebt ==
  ASSUME NEW di \in Inputs
  PROVE  Evaluate([field |-> "dti_ratio", operator |-> ">",
                   value |-> [n |-> 45, d |-> 100]], di) <=> Indebted(di)
  <1> DEFINE months == IF di.term = 0 THEN 1 ELSE di.term
             condition == [field |-> "dti_ratio", operator |-> ">",
                           value |-> [n |-> 45, d |-> 100]]
             value == DtiRatio(di)
             v == value.n * 100
             t == 45 * value.d
  <1>1. /\ di.term \in 0..6 /\ di.income \in Nat /\ di.obligations \in Int
        /\ di.amount \in Nat /\ di.rounding \in Int
    BY ApplicationsValidated
  <1>2. months \in {1, 2, 3, 4, 5, 6}
    BY <1>1
  <1>3. months = IF di.term > 0 THEN di.term ELSE 1
    BY <1>1
  <1>4. Evaluate(condition, di) <=>
          value.d /= 0 /\ (IF v = t THEN v + di.rounding ELSE v) > t
    BY FieldValues DEF Evaluate, Compare, Rounding
  <1>5. Excess(di) = 100 * (di.obligations * months + di.amount)
                       - 45 * di.income * months
    BY DEF Excess
  <1> HIDE DEF months, condition
  <1>6. CASE di.income = 0
    <2>1. value.n = 1 /\ value.d = 1
      BY <1>6 DEF DtiRatio, Whole
    <2> HIDE DEF value
    <2>2. Evaluate(condition, di)
      BY <1>4, <2>1
    <2> QED
      BY <1>6, <2>2 DEF Indebted, condition
  <1>7. CASE di.income /= 0
    <2>1. /\ value.n = di.obligations * months + di.amount
          /\ value.d = di.income * months
      BY <1>3, <1>7 DEF DtiRatio
    <2> HIDE DEF value
    <2>2. value.d /= 0
      BY <1>1, <1>2, <1>7, <2>1
    <2>3. v \in Int /\ t \in Int /\ Excess(di) = v - t
      BY <1>1, <1>2, <1>5, <2>1
    <2> HIDE DEF v, t
    <2>4. Evaluate(condition, di) <=>
            Excess(di) > 0 \/ (Excess(di) = 0 /\ di.rounding > 0)
      BY <1>1, <1>4, <2>2, <2>3
    <2> QED
      BY <1>7, <2>4 DEF Indebted, condition
  <1> QED
    BY <1>6, <1>7

LEMMA SeededActive ==
  ASSUME NullApart, NEW table, Seeded(table)
  PROVE  /\ Active(table) = 1..8
         /\ \A i \in 1..8 : table[i] = DEFAULT_RULES[i]
  <1>1. 1..8 \subseteq Ids /\ \A i \in 1..8 : table[i] = DEFAULT_RULES[i]
    BY DefaultRules DEF Seeded
  <1>2. \A i \in Ids : i \notin 1..8 => table[i] = Null
    BY DefaultRules DEF Seeded
  <1>3. ASSUME NEW i \in 1..8
        PROVE  WellFormed(DEFAULT_RULES[i]) /\ DEFAULT_RULES[i].active
    <2>1. i \in {1, 2, 3, 4, 5, 6, 7, 8}
      OBVIOUS
    <2>2. \E id, field, operator, value : \E action \in Outcomes, priority \in Int :
            DEFAULT_RULES[i] = Rule(id, field, operator, value, action, priority)
      <3>1. "decline" \in Outcomes /\ "approve" \in Outcomes
            /\ "manual_review" \in Outcomes
        BY DEF Outcomes
      <3> QED
        BY <2>1, <3>1, DefaultRules
    <2> QED
      BY <2>2, RuleWellFormed
  <1>4. \A i \in 1..8 : table[i] /= Null /\ table[i].active
    BY <1>1, <1>3 DEF NullApart
  <1> QED
    BY <1>1, <1>2, <1>4 DEF Active

\* A condition with a whole number for its threshold
Asks(field, operator, m) ==
  [field |-> field, operator |-> operator, value |-> Whole(m)]

LEMMA WholeCondition ==
  ASSUME NEW field, field /= "dti_ratio", NEW operator, NEW m \in Int, NEW di,
         FieldValue(field, di).n \in Int, FieldValue(field, di).d \in Nat
  PROVE  Evaluate(Asks(field, operator, m), di) <=>
           /\ FieldValue(field, di).d /= 0
           /\ Compare(operator, FieldValue(field, di).n,
                      m * FieldValue(field, di).d)
  <1> DEFINE condition == Asks(field, operator, m)
             v == FieldValue(field, di)
  <1>1. /\ condition.field = field /\ condition.operator = operator
        /\ condition.value = Whole(m)
    BY DEF Asks
  <1>2. Whole(m).n = m /\ Whole(m).d = 1
    BY DEF Whole
  <1>3. v.n * 1 = v.n /\ v.n + Rounding(field, di) = v.n
    BY DEF Rounding
  <1> HIDE DEF condition
  <1>4. Evaluate(condition, di) <=>
          /\ v.d /= 0 /\ Whole(m).d /= 0
          /\ Compare(operator,
                     IF v.n * Whole(m).d = Whole(m).n * v.d
                     THEN v.n * Whole(m).d + Rounding(field, di)
                     ELSE v.n * Whole(m).d,
                     Whole(m).n * v.d)
    BY <1>1, Zenon DEF Evaluate, v
  <1> HIDE DEF v
  <1>5. Evaluate(condition, di) <=> v.d /= 0 /\ Compare(operator, v.n, m * v.d)
    BY <1>2, <1>3, <1>4
  <1> QED
    BY <1>5, Zenon DEF condition, v

\* The conditions of the seeded rules, in the terms of an application
LEMMA SeededConditions ==
  ASSUME NEW di \in Inputs
  PROVE  LET Matches(i) == Evaluate(DEFAULT_RULES[i].condition, di)
         IN /\ Matches(1) <=> di.judgements > 0
            /\ Matches(2) <=> di.defaults > 1
            /\ Matches(3) <=> di.score.d /= 0 /\ di.score.n < 400
            /\ Matches(4) <=> di.income < 350000
            /\ Matches(5) <=> Indebted(di)
            /\ Matches(6) <=> di.score.d /= 0 /\ di.score.n >= 700
  <1>1. /\ di.income \in Nat /\ di.score.n \in Int /\ di.score.d \in {0, 1}
        /\ di.judgements \in Int /\ di.defaults \in Int
    BY ApplicationsValidated
  <1>2. \A n : /\ Whole(n).n = n /\ Whole(n).d = 1
               /\ Cents(n).n = n /\ Cents(n).d = 100
    BY DEF Whole, Cents
  <1>3. Evaluate(DEFAULT_RULES[1].condition, di) <=> di.judgements > 0
    <2>1. DEFAULT_RULES[1].condition = Asks("judgements_count", ">", 0)
      BY DefaultRules DEF Rule, Asks
    <2>2. /\ FieldValue("judgements_count", di).n = di.judgements
          /\ FieldValue("judgements_count", di).d = 1
      <3>1. FieldValue("judgements_count", di) = Whole(di.judgements)
        BY FieldValues
      <3> QED
        BY <3>1 DEF Whole
    <2>3. Evaluate(DEFAULT_RULES[1].condition, di) <=>
            1 /= 0 /\ Compare(">", di.judgements, 0 * 1)
      <3>1. Evaluate(Asks("judgements_count", ">", 0), di) <=>
              /\ FieldValue("judgements_count", di).d /= 0
              /\ Compare(">", FieldValue("judgements_count", di).n,
                         0 * FieldValue("judgements_count", di).d)
        BY <1>1, <2>2, WholeCondition
      <3> QED
        BY <2>1, <2>2, <3>1
    <2> QED
      BY <1>1, <2>3, SMT DEF Compare
  <1>4. Evaluate(DEFAULT_RULES[2].condition, di) <=> di.defaults > 1
    <2>1. DEFAULT_RULES[2].condition = Asks("defaults_count", ">", 1)
      BY DefaultRules DEF Rule, Asks
    <2>2. /\ FieldValue("defaults_count", di).n = di.defaults
          /\ FieldValue("defaults_count", di).d = 1
      <3>1. FieldValue("defaults_count", di) = Whole(di.defaults)
        BY FieldValues
      <3> QED
        BY <3>1 DEF Whole
    <2>3. Evaluate(DEFAULT_RULES[2].condition, di) <=>
            1 /= 0 /\ Compare(">", di.defaults, 1 * 1)
      <3>1. Evaluate(Asks("defaults_count", ">", 1), di) <=>
              /\ FieldValue("defaults_count", di).d /= 0
              /\ Compare(">", FieldValue("defaults_count", di).n,
                         1 * FieldValue("defaults_count", di).d)
        BY <1>1, <2>2, WholeCondition
      <3> QED
        BY <2>1, <2>2, <3>1
    <2> QED
      BY <1>1, <2>3, SMT DEF Compare
  <1>5. Evaluate(DEFAULT_RULES[3].condition, di) <=>
          di.score.d /= 0 /\ di.score.n < 400
    <2>1. DEFAULT_RULES[3].condition = Asks("credit_score", "<", 400)
      BY DefaultRules DEF Rule, Asks
    <2>2. /\ FieldValue("credit_score", di).n = di.score.n
          /\ FieldValue("credit_score", di).d = di.score.d
      BY <1>2, FieldValues
    <2>3. Evaluate(DEFAULT_RULES[3].condition, di) <=>
            di.score.d /= 0 /\ Compare("<", di.score.n, 400 * di.score.d)
      <3>1. Evaluate(Asks("credit_score", "<", 400), di) <=>
              /\ FieldValue("credit_score", di).d /= 0
              /\ Compare("<", FieldValue("credit_score", di).n,
                         400 * FieldValue("credit_score", di).d)
        BY <1>1, <2>2, WholeCondition
      <3> QED
        BY <2>1, <2>2, <3>1
    <2> QED
      BY <1>1, <2>3, SMT DEF Compare
  <1>6. Evaluate(DEFAULT_RULES[4].condition, di) <=> di.income < 350000
    <2>1. DEFAULT_RULES[4].condition = Asks("monthly_income", "<", 3500)
      BY DefaultRules DEF Rule, Asks
    <2>2. /\ FieldValue("monthly_income", di).n = di.income
          /\ FieldValue("monthly_income", di).d = 100
      <3>1. FieldValue("monthly_income", di) = Cents(di.income)
        BY FieldValues
      <3> QED
        BY <3>1 DEF Cents
    <2>3. Evaluate(DEFAULT_RULES[4].condition, di) <=>
            100 /= 0 /\ Compare("<", di.income, 3500 * 100)
      <3>1. Evaluate(Asks("monthly_income", "<", 3500), di) <=>
              /\ FieldValue("monthly_income", di).d /= 0
              /\ Compare("<", FieldValue("monthly_income", di).n,
                         3500 * FieldValue("monthly_income", di).d)
        BY <1>1, <2>2, WholeCondition
      <3> QED
        BY <2>1, <2>2, <3>1
    <2> QED
      BY <1>1, <2>3, SMT DEF Compare
  <1>7. Evaluate(DEFAULT_RULES[5].condition, di) <=> Indebted(di)
    <2>1. DEFAULT_RULES[5].condition
            = [field |-> "dti_ratio", operator |-> ">",
               value |-> [n |-> 45, d |-> 100]]
      BY DefaultRules DEF Rule
    <2> QED
      BY <2>1, TooMuchDebt
  <1>8. Evaluate(DEFAULT_RULES[6].condition, di) <=>
          di.score.d /= 0 /\ di.score.n >= 700
    <2>1. DEFAULT_RULES[6].condition = Asks("credit_score", ">=", 700)
      BY DefaultRules DEF Rule, Asks
    <2>2. /\ FieldValue("credit_score", di).n = di.score.n
          /\ FieldValue("credit_score", di).d = di.score.d
      BY <1>2, FieldValues
    <2>3. Evaluate(DEFAULT_RULES[6].condition, di) <=>
            di.score.d /= 0 /\ Compare(">=", di.score.n, 700 * di.score.d)
      <3>1. Evaluate(Asks("credit_score", ">=", 700), di) <=>
              /\ FieldValue("credit_score", di).d /= 0
              /\ Compare(">=", FieldValue("credit_score", di).n,
                         700 * FieldValue("credit_score", di).d)
        BY <1>1, <2>2, WholeCondition
      <3> QED
        BY <2>1, <2>2, <3>1
    <2> QED
      BY <1>1, <2>3, SMT DEF Compare
  <1> QED
    BY <1>3, <1>4, <1>5, <1>6, <1>7, <1>8

LEMMA SeededPriorities ==
  /\ DEFAULT_RULES[1].priority = 1 /\ DEFAULT_RULES[1].action = "decline"
  /\ DEFAULT_RULES[2].priority = 2 /\ DEFAULT_RULES[2].action = "decline"
  /\ DEFAULT_RULES[3].priority = 3 /\ DEFAULT_RULES[3].action = "decline"
  /\ DEFAULT_RULES[4].priority = 4 /\ DEFAULT_RULES[4].action = "decline"
  /\ DEFAULT_RULES[5].priority = 5 /\ DEFAULT_RULES[5].action = "decline"
  /\ DEFAULT_RULES[6].priority = 20 /\ DEFAULT_RULES[6].action = "approve"
  /\ DEFAULT_RULES[7].priority = 50 /\ DEFAULT_RULES[7].action = "manual_review"
  /\ DEFAULT_RULES[8].priority = 51 /\ DEFAULT_RULES[8].action = "manual_review"
  BY DefaultRules DEF Rule

\* Of an approval, the risk: no judgements, no second default, and a score of 700
LEMMA ApprovedRisk ==
  ASSUME NEW di \in Inputs, ~Causes(di), di.score.d /= 0, di.score.n >= 700
  PROVE  Classify(di) /= "very_high"
  <1>1. /\ di.score.n \in Int /\ di.score.d \in {0, 1}
        /\ di.judgements \in Int /\ di.defaults \in Int /\ di.negatives \in Int
    BY ApplicationsValidated
  <1>2. ~(di.judgements > 0) /\ ~(di.defaults > 1)
    BY DEF Causes
  <1> QED
    BY <1>1, <1>2 DEF Classify

\* SeededRulesUnderwrite, of one decision
Underwritten(d, di) ==
  /\ Causes(di) => d.outcome = "decline"
  /\ d.outcome = "decline" => Causes(di) \/ Excess(di) = 0
  /\ d.outcome = "approve" => /\ ~Causes(di)
                              /\ di.score.d /= 0 /\ di.score.n >= 700
                              /\ d.risk /= "very_high"
  /\ ExcellentAndClean(di) /\ ~Causes(di) =>
       d.outcome = "approve" \/ Excess(di) = 0

LEMMA EachUnderwritten ==
  ASSUME NullApart, NEW table, IsTable(table), Seeded(table),
         NEW di \in Inputs, NEW n \in Nat, NEW place, NEW list,
         ListsActive(list, n, place, table)
  PROVE  Underwritten(Decide(list, di), di)
  <1> DEFINE Matches(i) == Evaluate(DEFAULT_RULES[i].condition, di)
             outcome == Evaluation(list, di).outcome
  <1>1. Active(table) = 1..8 /\ \A i \in 1..8 : table[i] = DEFAULT_RULES[i]
    BY SeededActive
  <1> DEFINE Declining == \/ Matches(1) \/ Matches(2) \/ Matches(3)
                          \/ Matches(4) \/ Matches(5)
  <1>2. /\ Causes(di) => Declining
        /\ Declining => Causes(di) \/ Excess(di) = 0
    <2>1. di.income \in Nat
      BY ApplicationsValidated
    <2> QED
      BY <2>1, SeededConditions DEF Causes, Indebted
  <1>3. Matches(6) <=> di.score.d /= 0 /\ di.score.n >= 700
    BY SeededConditions
  <1>4. \/ /\ \A i \in 1..8 : ~Matches(i)
           /\ outcome = "manual_review"
        \/ \E i \in 1..8 :
             /\ Matches(i) /\ outcome = DEFAULT_RULES[i].action
             /\ \A j \in 1..8 :
                  Matches(j) => DEFAULT_RULES[i].priority <= DEFAULT_RULES[j].priority
    <2>1. \A i \in Active(table) :
            Evaluate(table[i].condition, di) <=> Matches(i)
      BY <1>1
    <2>2. \/ /\ \A i \in Active(table) : ~Evaluate(table[i].condition, di)
             /\ outcome = "manual_review"
          \/ \E i : Leads(table, di, i) /\ outcome = table[i].action
      BY LeadersDecide
    <2> HIDE DEF Matches, outcome
    <2>3. CASE \E i : Leads(table, di, i) /\ outcome = table[i].action
      <3>1. PICK i : Leads(table, di, i) /\ outcome = table[i].action
        BY <2>3
      <3>2. /\ i \in Active(table) /\ Matches(i)
            /\ \A j \in Active(table) :
                 Matches(j) => table[i].priority <= table[j].priority
        BY <2>1, <3>1 DEF Leads
      <3> QED
        BY <1>1, <3>1, <3>2
    <2> QED
      BY <1>1, <2>1, <2>2, <2>3
  <1> HIDE DEF Matches, outcome
  <1>5. /\ outcome = "decline" <=> Declining
        /\ outcome = "approve" <=> ~Declining /\ Matches(6)
    <2>1. CASE \A i \in 1..8 : ~Matches(i)
      <3>1. outcome = "manual_review"
        BY <1>4, <2>1
      <3>2. 1 \in 1..8 /\ 2 \in 1..8 /\ 3 \in 1..8 /\ 4 \in 1..8 /\ 5 \in 1..8
            /\ 6 \in 1..8
        OBVIOUS
      <3> QED
        BY <2>1, <3>1, <3>2
    <2>2. CASE \E i \in 1..8 : Matches(i)
      <3>1. PICK i \in 1..8 :
              /\ Matches(i) /\ outcome = DEFAULT_RULES[i].action
              /\ \A j \in 1..8 :
                   Matches(j) => DEFAULT_RULES[i].priority <= DEFAULT_RULES[j].priority
        BY <1>4, <2>2
      <3>2. CASE i \in 1..5
        <4>1. i \in {1, 2, 3, 4, 5}
          BY <3>2
        <4> QED
          BY <3>1, <4>1, SeededPriorities
      <3>3. CASE i \in 6..8
        <4>1. i \in {6, 7, 8}
          BY <3>3
        <4>2. ~Matches(1) /\ ~Matches(2) /\ ~Matches(3) /\ ~Matches(4)
              /\ ~Matches(5)
          BY <3>1, <4>1, SeededPriorities
        <4>3. Matches(6) => i = 6
          BY <3>1, <4>1, SeededPriorities
        <4> QED
          BY <3>1, <4>1, <4>2, <4>3, SeededPriorities
      <3> QED
        BY <3>2, <3>3
    <2> QED
      BY <2>1, <2>2
  <1>6. /\ Decide(list, di).outcome = outcome
        /\ Decide(list, di).risk \in {"high", Classify(di)}
    BY DEF Decide, outcome
  <1>7. outcome = "approve" => Decide(list, di).risk /= "very_high"
    BY <1>2, <1>3, <1>5, <1>6, ApprovedRisk
  <1>8. ExcellentAndClean(di) => Matches(6)
    BY <1>3 DEF ExcellentAndClean
  <1> HIDE DEF Declining
  <1> QED
    BY <1>2, <1>3, <1>5, <1>6, <1>7, <1>8 DEF Underwritten

\* On the seeded rules, a cause that the README gives always declines, nothing
\* else does but an exact 45% that the doubles may round up, nobody is approved
\* with a cause, below 700 or at very high risk, and a clean record with 700 is
\* approved but at that 45%: for every application, whatever its doubles do.
THEOREM SeededRulesAlwaysUnderwrite ==
  ASSUME NullApart
  PROVE  Spec => []SeededRulesUnderwrite
  <1>1. DecidedInOrder => SeededRulesUnderwrite
    <2>1. ASSUME DecidedInOrder, NEW r \in Decided, Seeded(req[r].row)
          PROVE  Underwritten(req[r].decision, req[r].input)
      BY <2>1, ListOfDecision, EachUnderwritten
    <2> QED
      BY <2>1, Zenon DEF SeededRulesUnderwrite, Underwritten
  <1> QED
    BY <1>1, Typed_Init, Typed_Next, Decided_Init, Decided_Next, PTL DEF Spec
=============================================================================
