-------------------------------- MODULE Scoring ---------------------------------
(***************************************************************************)
(* financial-assessment.scoring.ts: the answers of a guarantor turned into  *)
(* five scores, their sum and a band, under a policy.  Amounts are in cents *)
(* of a dinar, tenure in years, ratios in hundredths.                       *)
(***************************************************************************)
EXTENDS Handlers, FiniteSetsExt

\* FinancialScoringInput: the questions the score is computed from.
Amount   == {"monthlyNetIncome", "additionalIncomeAmount", "monthlyLoanPayments",
             "approximateSavings"}
YesNo    == {"hasPreviousUnpaidInstallments", "hasReturnedCheque", "hasSalarySeizure",
             "hasFrequentOverdraft"}
Question == Amount \cup YesNo \cup {"employmentStatus", "employmentType", "yearsWithEmployer"}

\* DEFAULT_FINANCIAL_ASSESSMENT_POLICY: bands are pairs <<threshold, points>>.
DefaultPolicy ==
  [income   |-> {<<300000, 30>>, <<200000, 25>>, <<120000, 18>>, <<80000, 10>>, <<1, 5>>},
   ratio    |-> {<<10, 25>>, <<20, 20>>, <<35, 13>>, <<50, 6>>},
   penalty  |-> 60,
   employed |-> 20,
   status   |-> [employed_public |-> 12, employed_private |-> 10, business_owner |-> 9,
                 self_employed |-> 8, retired |-> 6, other |-> 4, unemployed |-> 0],
   type     |-> [permanent |-> 5, temporary |-> 3, seasonal |-> 2, freelance |-> 2, none |-> 0],
   tenure   |-> {<<5, 3>>, <<2, 2>>, <<1, 1>>},
   banking  |-> 15,
   deduct   |-> [hasReturnedCheque |-> 6, hasSalarySeizure |-> 7, hasFrequentOverdraft |-> 4],
   savings  |-> {<<500000, 10>>, <<200000, 7>>, <<50000, 4>>, <<1, 2>>},
   band     |-> {<<85, "excellent">>, <<70, "good">>, <<55, "borderline">>, <<0, "high_risk">>}]

OrZero(v) == IF v = None THEN 0 ELSE v

\* The satisfied band of the highest threshold (matchMinThresholdBand and
\* matchTenureBand), or of the lowest one (matchMaxRatioBand); 0 without one.
AtLeast(bands, value) ==
  LET ok == {b \in bands : value >= b[1]} IN
  IF ok = {} THEN 0 ELSE (CHOOSE b \in ok : \A c \in ok : c[1] <= b[1])[2]

RatioAtMost(bands, part, whole) ==   \* part of a whole of 0: all of it, or none
  LET ok == {b \in bands : IF whole > 0 THEN 100 * part <= b[1] * whole
                           ELSE part = 0 \/ 100 <= b[1]}
  IN IF ok = {} THEN 0 ELSE (CHOOSE b \in ok : \A c \in ok : b[1] <= c[1])[2]

Income(a) == OrZero(a["monthlyNetIncome"]) + OrZero(a["additionalIncomeAmount"])

Says(a, q) == a[q] # None /\ a[q]
PointsFor(table, v) == IF v = None THEN 0 ELSE table[v]

IncomeScore(a, policy) == AtLeast(policy.income, Income(a))

DebtRatioScore(a, policy) ==
  LET points == RatioAtMost(policy.ratio, OrZero(a["monthlyLoanPayments"]), Income(a)) IN
  IF Says(a, "hasPreviousUnpaidInstallments")
  THEN (points * policy.penalty + 50) \div 100   \* Math.round
  ELSE points

EmploymentScore(a, policy) ==
  Min({policy.employed, PointsFor(policy.status, a["employmentStatus"])
                        + PointsFor(policy.type, a["employmentType"])
                        + AtLeast(policy.tenure, OrZero(a["yearsWithEmployer"]))})

BankingScore(a, policy) ==
  LET lost == MapThenSumSet(LAMBDA q : policy.deduct[q],
                            {q \in DOMAIN policy.deduct : Says(a, q)})
  IN Max({0, policy.banking - lost})

SavingsScore(a, policy) == AtLeast(policy.savings, OrZero(a["approximateSavings"]))

FinalScore(a, policy) ==
  IncomeScore(a, policy) + DebtRatioScore(a, policy) + EmploymentScore(a, policy)
  + BankingScore(a, policy) + SavingsScore(a, policy)

Band(score, policy) == AtLeast(policy.band, score)   \* the lowest band starts at 0

Scored(a, policy) == [final |-> FinalScore(a, policy),
                      band |-> Band(FinalScore(a, policy), policy)]
===============================================================================
