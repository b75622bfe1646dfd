---------------------------- MODULE DecisionEngine ----------------------------
(***************************************************************************)
(* The decision engine (engine.py) as functions of an application's data   *)
(* and of the active rules in the order the database returns them. Numbers *)
(* are ratios [n, d] of integers where Python has doubles; d = 0 stands    *)
(* for None, for an unknown field and for a threshold that is no number.   *)
(* Money is in cents.                                                      *)
(*                                                                         *)
(* A double and the ratio it stands for compare alike with a threshold,    *)
(* with one exception: the debt-to-income ratio is itself the result of    *)
(* two divisions and a sum, and where it equals the threshold its double   *)
(* may lie on either side. An application's rounding says on which, -1, 0  *)
(* or 1. (Other ratios of amounts that the columns can hold are further    *)
(* from a threshold in hundredths than what three roundings come to.)      *)
(***************************************************************************)
EXTENDS Integers, Sequences

NoNumber == [n |-> 0, d |-> 0]
Whole(n) == [n |-> n, d |-> 1]
Cents(n) == [n |-> n, d |-> 100]

Outcomes == {"approve", "decline", "manual_review"}

\* debt over income, exactly. A slip: the single payment divides by a term of 0 months as if it were 30
DtiRatioOverDays(di) ==
  LET months == IF di.term > 0 THEN di.term ELSE 30
  IN IF di.income = 0 THEN Whole(1)
     ELSE [n |-> di.obligations * months + di.amount, d |-> di.income * months]

DtiRatio(di) ==
  LET months == IF di.term > 0 THEN di.term ELSE 1
  IN IF di.income = 0 THEN Whole(1)
     ELSE [n |-> di.obligations * months + di.amount, d |-> di.income * months]

FieldMap(di) ==
  [credit_score |-> di.score,
   dti_ratio |-> DtiRatio(di),
   monthly_income |-> Cents(di.income),
   disposable_income |-> Cents(di.income - di.expenses - di.obligations),
   negative_listings_count |-> Whole(di.negatives),
   judgements_count |-> Whole(di.judgements),
   defaults_count |-> Whole(di.defaults),
   enquiries_last_90_days |-> Whole(di.enquiries),
   employment_duration_months |-> Whole(di.employment),
   requested_amount |-> Cents(di.amount),
   monthly_obligations |-> Cents(di.obligations)]

FieldValue(field, di) ==
  IF field \in DOMAIN FieldMap(di) THEN FieldMap(di)[field] ELSE NoNumber

\* OPERATORS, on numerators over a common denominator
Compare(operator, v, t) ==
  \/ operator = ">=" /\ v >= t
  \/ operator = "<=" /\ v <= t
  \/ operator = ">" /\ v > t
  \/ operator = "<" /\ v < t
  \/ operator = "==" /\ v = t
  \/ operator = "!=" /\ v /= t

\* A condition that lacks a key raises KeyError, and with it the decision
Malformed(condition) == ~({"field", "operator", "value"} \subseteq DOMAIN condition)

\* What is added to a value that equals its threshold
Rounding(field, di) == IF field = "dti_ratio" THEN di.rounding ELSE 0

Evaluate(condition, di) ==
  LET value == FieldValue(condition.field, di)
      threshold == condition.value
      v == value.n * threshold.d
      t == threshold.n * value.d
  IN /\ value.d /= 0
     /\ threshold.d /= 0
     /\ Compare(condition.operator,
                IF v = t THEN v + Rounding(condition.field, di) ELSE v, t)

Classify(di) ==
  IF di.score.d = 0 THEN "high"
  ELSE IF di.judgements > 0 \/ di.defaults > 1 THEN "very_high"
  ELSE IF di.score.n >= 700 /\ di.negatives = 0 THEN "low"
  ELSE IF di.score.n >= 600 /\ di.negatives <= 1 THEN "medium"
  ELSE IF di.score.n >= 500 THEN "high"
  ELSE "very_high"

\* rule_result, an entry of the snapshot: what was looked at, and what it asked
\* for if it matched
RuleResult(rule, matched) ==
  [id |-> rule.id, condition |-> rule.condition, matched |-> matched,
   action |-> IF matched THEN rule.action ELSE "none"]

\* One turn of the loop: the outcome is locked by the first match, the snapshot
\* goes on. A slip: the last match wins
NextRuleUnlocked(di, sofar, rule) ==
  LET matched == Evaluate(rule.condition, di)
  IN [applied |-> Append(sofar.applied, RuleResult(rule, matched)),
      triggered |-> sofar.triggered \/ matched,
      outcome |-> IF matched THEN rule.action ELSE sofar.outcome]

NextRule(di, sofar, rule) ==
  LET matched == Evaluate(rule.condition, di)
  IN [applied |-> Append(sofar.applied, RuleResult(rule, matched)),
      triggered |-> sofar.triggered \/ matched,
      outcome |-> IF matched /\ ~sofar.triggered THEN rule.action
                                                 ELSE sofar.outcome]

Start == [applied |-> <<>>, triggered |-> FALSE, outcome |-> "manual_review"]

\* What the loop knows after each rule
Loop(rules, di) ==
  LET sofar[k \in DOMAIN rules] ==
        NextRule(di, IF k = 1 THEN Start ELSE sofar[k - 1], rules[k])
  IN sofar

Evaluation(rules, di) ==
  IF rules = <<>> THEN Start ELSE Loop(rules, di)[Len(rules)]

Raises(rules) == \E i \in DOMAIN rules : Malformed(rules[i].condition)

\* amount 0 where there are no terms; the rate is fixed
Decide(rules, di) ==
  LET result == Evaluation(rules, di)
      approved == result.outcome = "approve"
  IN [outcome |-> result.outcome,
      risk |-> IF rules = <<>> THEN "high" ELSE Classify(di),
      applied |-> result.applied,
      triggered |-> result.triggered,
      amount |-> IF approved THEN di.amount ELSE 0,
      term |-> IF approved THEN di.term ELSE 0,
      rate |-> IF approved THEN 3000 ELSE 0]
-----------------------------------------------------------------------------
\* A row of table decision_rules
Rule(id, field, operator, value, action, priority) ==
  [id |-> id,
   condition |-> [field |-> field, operator |-> operator, value |-> value],
   action |-> action, priority |-> priority, active |-> TRUE, version |-> 1]

\* The rules seeded on deployment
DEFAULT_RULES ==
  <<Rule(1, "judgements_count", ">", Whole(0), "decline", 1),
    Rule(2, "defaults_count", ">", Whole(1), "decline", 2),
    Rule(3, "credit_score", "<", Whole(400), "decline", 3),
    Rule(4, "monthly_income", "<", Whole(3500), "decline", 4),
    Rule(5, "dti_ratio", ">", [n |-> 45, d |-> 100], "decline", 5),
    Rule(6, "credit_score", ">=", Whole(700), "approve", 20),
    Rule(7, "credit_score", ">=", Whole(450), "manual_review", 50),
    Rule(8, "enquiries_last_90_days", ">", Whole(5), "manual_review", 51)>>
=============================================================================
