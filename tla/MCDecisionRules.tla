--------------------------- MODULE MCDecisionRules ---------------------------
(***************************************************************************)
(* An instance of DecisionRules for TLC: the seeded rules, and a table with *)
(* a tie and a malformed condition; applications on both sides of every    *)
(* threshold of the seeded rules.                                          *)
(***************************************************************************)
EXTENDS DecisionRules, TLC

Symmetry == Permutations(Requests)

\* README's example, without a key
Broken == [Rule(3, "credit_score", ">=", Whole(450), "approve", 5) EXCEPT
             !.condition = [field |-> "credit_score", operator |-> ">="],
             !.active = FALSE]

TiedRules ==
  <<Rule(1, "credit_score", ">=", Whole(450), "approve", 10),
    Rule(2, "requested_amount", "!=", Whole(0), "manual_review", 10),
    Broken,
    Rule(4, "no_such_field", "==", Whole(0), "decline", 1),
    Rule(5, "credit_score", "<=", NoNumber, "decline", 2)>>

Padded(table) ==
  [i \in Ids |-> IF i <= Len(table) THEN table[i] ELSE Null]

MCTables == {Padded(DEFAULT_RULES), Padded(TiedRules)}

MCNewRules == {Rule(0, "disposable_income", "<", Whole(500), "decline", 5)}

MCPayloads ==
  {[action |-> "decline", priority |-> 1], [active |-> TRUE],
   [priority |-> 30, active |-> FALSE]}

Clean == [score |-> Whole(700), income |-> 400000, expenses |-> 230000,
          obligations |-> 120000, amount |-> 50007, term |-> 3,
          employment |-> 24, negatives |-> 2, judgements |-> 0, defaults |-> 1,
          enquiries |-> 6, rounding |-> 0]

\* 1 576.89 over 3 504.20 is 45%, and 0.45000000000000007 in doubles
AtTheLimit == [Clean EXCEPT !.income = 350420, !.obligations = 0,
                            !.amount = 157689, !.term = 0]

MCInputs ==
  {Clean,
   [Clean EXCEPT !.negatives = 0, !.defaults = 0],
   [AtTheLimit EXCEPT !.rounding = 1],
   [AtTheLimit EXCEPT !.rounding = -1],
   [Clean EXCEPT !.amount = 60000, !.term = 0],
   [Clean EXCEPT !.amount = 60001, !.term = 0],
   [Clean EXCEPT !.score = Whole(699)],
   [Clean EXCEPT !.score = Whole(399), !.negatives = 0],
   [Clean EXCEPT !.score = NoNumber],
   [Clean EXCEPT !.defaults = 2],
   [Clean EXCEPT !.judgements = 1],
   [Clean EXCEPT !.income = 0],
   [Clean EXCEPT !.income = 349999, !.obligations = 0]}
=============================================================================
