------------------------------ MODULE MCServices ------------------------------
(***************************************************************************)
(* Instances of Services for TLC.                                           *)
(***************************************************************************)
EXTENDS Services, TLC

CONSTANTS d1, d2, s1, s2, x1, x2, x3, payments, documents, e1, e2, u1, n1, n2, t1, t2

\* The services share no row but through Execution: each behaviour keeps to
\* one desk.
ContractDesk  == {"generate", "send", "sign"}
ExecutionDesk == {"generate", "execute"}
ScoreDesk     == {"recordEvent", "correct", "getScore", "reconcile"}
SerialDesks == {ContractDesk, ExecutionDesk, ScoreDesk, PolicyOps, GuarantorOps, AccountOps,
                MembershipOps, DocumentOps, UniversityOps, AssessmentOps, MeetingOps}
\* The questionnaire has one guarantor, and is left alone where handlers
\* overlap.
RaceDesks   == {ContractDesk, ExecutionDesk, ScoreDesk, PolicyOps, GuarantorOps, AccountOps,
                MembershipOps, DocumentOps, UniversityOps, MeetingOps}
OnlyExecution == {ExecutionDesk}

OneDecision == {d1}
TwoDecisions == {d1, d2}
Parties == {"student", "forsa"}

ThreeIds == {x1, x2, x3}
TypeOfThree == (x1 :> "disbursement.record") @@ (x2 :> "contract.send_for_signature")
               @@ (x3 :> "contract.generate")
FourIds == {x1, x2, x3, "other"}
TypeOfFour == TypeOfThree @@ ("other" :> "unknown")
OneId == {x1}
TypeOfOne == x1 :> "disbursement.record"

OneStudent == {s1}
TwoStudents == {s1, s2}
OneDimension == {payments}
TwoDimensions == {payments, documents}
Weights == [d \in Dimension |-> IF Dimension = {payments} THEN 100 ELSE IF d = payments THEN 60 ELSE 40]

Regular == [code |-> "REGULAR", points |-> 150]
Fraud   == [code |-> "FRAUD", points |-> 0 - 90]
Breach  == [code |-> "BREACH", points |-> 0 - 300]
AllKinds == {Regular, Fraud, Breach}
Good  == [code |-> "REGULAR", points |-> 400]
Severe == [code |-> "FRAUD", points |-> 0 - 400]
TwoKinds == {Good, Severe}

OneUser == {u1}
TwoUsers == {e1, e2}
TwoNames == {n1, n2}
TwoTypes == {t1, t2}

\* A questionnaire filled in at once, with whole and with broken amounts; the
\* same without identity; a correction of the income and of two answers the
\* banking score is computed from; a field sent as null.
Full(net, loans) ==
  [f \in Field |-> CASE f = "identity" -> u1
                     [] f = "monthlyNetIncome" -> net
                     [] f = "additionalIncomeAmount" -> None
                     [] f = "monthlyLoanPayments" -> loans
                     [] f = "approximateSavings" -> 60000
                     [] f = "employmentStatus" -> "employed_private"
                     [] f = "employmentType" -> "permanent"
                     [] f = "yearsWithEmployer" -> 3
                     [] OTHER -> f = "hasPreviousUnpaidInstallments"]
Carries(given, null) == [given |-> given, null |-> null]
Sheets == {Carries(Full(150000, 30000), {}),
           Carries([Full(300015, 0) EXCEPT !["identity"] = None], {"monthlyNetIncome"}),
           Carries([Blank EXCEPT !["monthlyNetIncome"] = 90000, !["hasReturnedCheque"] = TRUE],
                   {"identity"}),
           Carries([Blank EXCEPT !["identity"] = e1, !["yearsWithEmployer"] = 3], {})}
===============================================================================
