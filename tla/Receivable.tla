------------------------------ MODULE Receivable ------------------------------
(***************************************************************************)
(* What the repayment side promises, with nothing said of how: a payment is *)
(* offered, may be accepted once for an amount that fits in what its        *)
(* installment still owes, keeps that amount while accepted, and may be     *)
(* withdrawn, for good.                                                     *)
(***************************************************************************)
EXTENDS Naturals, FiniteSetsExt

CONSTANTS Installment, Due, Payment

VARIABLES state,   \* "offered", "accepted" or "withdrawn", of every payment
          money    \* money[i][p]: what payment p holds of installment i

Held(i) == MapThenSumSet(LAMBDA p : money[i][p], Payment)

Init == /\ state = [p \in Payment |-> "offered"]
        /\ money = [i \in Installment |-> [p \in Payment |-> 0]]

Accept(p, i) ==
  /\ state[p] = "offered"
  /\ state' = [state EXCEPT ![p] = "accepted"]
  /\ \E a \in 1..(Due[i] - Held(i)) : money' = [money EXCEPT ![i][p] = a]

Withdraw(p) ==
  /\ state[p] = "accepted"
  /\ state' = [state EXCEPT ![p] = "withdrawn"]
  /\ money' = [i \in Installment |-> [money[i] EXCEPT ![p] = 0]]

Next == \E p \in Payment : Withdraw(p) \/ \E i \in Installment : Accept(p, i)

Spec == Init /\ [][Next]_<<state, money>>
===============================================================================
