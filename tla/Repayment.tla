------------------------------ MODULE Repayment ------------------------------
(***************************************************************************)
(* What a loan costs (RepaymentCalculator in engine.py, whose fixed cost   *)
(* of credit is not the rate that applications and overrides are stored    *)
(* with). Money is in cents, rates in hundredths of a percent;             *)
(* quantize(Decimal("0.01")) rounds half to even.                          *)
(***************************************************************************)
EXTENDS Integers

CostOfCredit == 3000

Rounded(n, d) ==
  LET q == n \div d
      rest == n % d
  IN IF 2 * rest > d \/ (2 * rest = d /\ q % 2 = 1) THEN q + 1 ELSE q

TotalRepayable(principal) == Rounded(principal * (10000 + CostOfCredit), 10000)

SinglePaymentPlan(principal) ==
  [total |-> TotalRepayable(principal), instalments |-> 1,
   instalment |-> TotalRepayable(principal)]

Months == 1..6

\* instalment_plan raises for any other number of months
InstalmentPlan(principal, months) ==
  LET total == TotalRepayable(principal)
  IN [total |-> total, instalments |-> months,
      instalment |-> Rounded(total, months)]

\* 0 months stand for a single payment after 30 days
Plan(principal, months) ==
  IF months = 0 THEN SinglePaymentPlan(principal)
                ELSE InstalmentPlan(principal, months)

Abs(n) == IF n < 0 THEN -n ELSE n

\* The instalments of a plan miss its total by half a cent each at most, and
\* the total misses what 30 percent come to by half a cent.
PlanAddsUp(principal, months) ==
  LET plan == Plan(principal, months)
  IN /\ 2 * Abs(plan.instalments * plan.instalment - plan.total)
          <= plan.instalments
     /\ 2 * Abs(10 * plan.total - 13 * principal) <= 10
=============================================================================
