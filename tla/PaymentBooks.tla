----------------------------- MODULE PaymentBooks -----------------------------
(***************************************************************************)
(* The three records of the same money compared: the accepted payment rows, *)
(* the amount an installment shows, and the ledger.                         *)
(***************************************************************************)
EXTENDS Payments, FiniteSetsExt

HeldBy(i, p) == IF pay[p].inst = i /\ pay[p].status \in Accepted THEN pay[p].amount ELSE 0

AcceptedFor(i) == MapThenSumSet(LAMBDA p : HeldBy(i, p), Req)

Ledgered(type, account, i) ==
  MapThenSumSet(LAMBDA e : e.amount,
    {e \in ledger : e.type = type /\ e.account = account /\ pay[e.payment].inst = i})

Quiet == InFlight = {}

\* When no handler is under way, what an installment shows as paid is the sum
\* of its accepted payments, and is what the receivable account was credited
\* for it net of reversals, with the bank account moved by the same amounts.
BooksAgree ==
  Quiet => \A i \in Installment :
    /\ inst[i].paid = AcceptedFor(i)
    /\ Ledgered("credit", "student_receivable", i) =
         inst[i].paid + Ledgered("debit", "student_receivable", i)
    /\ Ledgered("debit", "bank", i) =
         inst[i].paid + Ledgered("credit", "bank", i)

\* The money accepted against an installment never exceeds it (D-SEC-002:
\* there is no credit balance an excess could go to).
AcceptedWithinDue == \A i \in Installment : AcceptedFor(i) <= Due[i]

\* A student has one receipt under review per installment: resubmitting
\* replaces it.
OnePendingReceipt ==
  \A p, q \in {x \in Req : pay[x].status = "receipt_uploaded"} :
    pay[p].inst = pay[q].inst => p = q

\* A verified payment is settled: the only way out of it is a reversal, which
\* is the end ("Cannot reject an already verified payment", "Cannot verify a
\* reversed payment").
VerifiedIsFinal ==
  [][\A p \in Req :
       /\ pay[p].status = "verified" => pay'[p].status \in {"verified", "reversed"}
       /\ pay[p].status = "reversed" => pay'[p].status = "reversed"]_vars

-------------------------------------------------------------------------------
(***************************************************************************)
(* The rows of table payments, read as the abstract receivable.             *)
(***************************************************************************)
StateOf(p) == CASE pay[p].status \in Accepted  -> "accepted"
                [] pay[p].status = "reversed"  -> "withdrawn"
                [] OTHER                       -> "offered"

Promise == INSTANCE Receivable WITH
             Payment <- Req,
             state <- [p \in Req |-> StateOf(p)],
             money <- [i \in Installment |-> [p \in Req |-> HeldBy(i, p)]]

\* One request at a time, the handlers implement the abstract receivable.
KeepsPromise == Promise!Spec
===============================================================================
