------------------------------- MODULE Payments -------------------------------
(***************************************************************************)
(* The repayment side of FORSA OS: installments, the payment rows recorded  *)
(* against them, the append-only ledger, and the handlers that move money   *)
(* (payments.service.ts, konnect.service.ts, ledger.service.ts).            *)
(*                                                                          *)
(* Every handler is a sequence of separately awaited SQL statements with no *)
(* transaction around them.  One statement is one step of the model, so the *)
(* statements of different handlers interleave and a handler may fail       *)
(* between two of its own.  A handler keeps in req[r] what it read: later   *)
(* statements write values computed from that copy, as the code does.       *)
(* The row a handler inserts, and the ledger batch it posts, are named by   *)
(* the handler itself (each inserts and posts at most one).                 *)
(***************************************************************************)
EXTENDS Naturals, FiniteSets

CONSTANTS
  Installment,   \* installments of the schedules, as generated
  Due,           \* installments.amount
  Amount,        \* amounts a person may transfer (positive)
  Req,           \* handler invocations; bounds how many requests arrive
  None,          \* SQL NULL / "not yet known"
  Ops,           \* the endpoints in use
  MaxInFlight,   \* how many handlers run at once (1: requests are serialised)
  MayFail,       \* whether a statement may throw, or the server die
  OnlyListed,    \* staff act on the rows the receipts list shows by default
  MaxAge         \* how far the calendar moves

AllOps == {"record", "submit", "verify", "reject", "reverse",
           "initiate", "webhook"}

ASSUME AmountAssumption == /\ Amount \subseteq Nat \ {0}
                           /\ Due \in [Installment -> Nat \ {0}]
ASSUME NoneAssumption   == None \notin Installment /\ None \notin Req
ASSUME BoundAssumption  == /\ Ops \subseteq AllOps
                           /\ MaxInFlight \in Nat
                           /\ MaxAge \in Nat
                           /\ MayFail \in BOOLEAN
                           /\ OnlyListed \in BOOLEAN

(***************************************************************************)
(* The calendar seen from one installment: more than a week ahead, within   *)
(* the week, the due date, the grace period, its last day, past it, and     *)
(* more than thirty days past it.                                           *)
(***************************************************************************)
Far == 0  Soon == 1  Today == 2  Grace == 3
GraceDay == 4  Past == 5  LongPast == 6

InstStatus == {"pending", "due_soon", "due_today", "partial", "late",
               "default_risk", "paid"}
PayStatus  == {"absent", "confirmed", "receipt_uploaded", "verified",
               "rejected", "reversed", "konnect_pending"}
Accepted   == {"confirmed", "verified"}
Where      == {"idle", "payment", "installment", "existing", "update",
               "insert", "debit", "credit", "score", "done", "failed"}
Code       == {"PAYMENT_ON_TIME", "PAYMENT_LATE", "PAYMENT_OVERDUE"}

VARIABLES
  inst,     \* table installments: amount_paid and status
  pay,      \* table payments, a row per inserting handler
  ledger,   \* table financial_ledger
  score,    \* score events asked of the score service
  req,      \* the handlers: where each is and what it has read
  age,      \* the calendar
  cron      \* the daily job: the status its next statement assigns

vars == <<inst, pay, ledger, score, req, age, cron>>

Handler(op, pc, i, p, a, paid) ==
  [op |-> op, pc |-> pc, inst |-> i, pay |-> p, amount |-> a, paid |-> paid,
   full |-> FALSE, late |-> FALSE]
Row(i, s, a, claimed) == [inst |-> i, status |-> s, amount |-> a, claimed |-> claimed]

Init ==
  /\ inst = [i \in Installment |-> [paid |-> 0, status |-> "pending"]]
  /\ pay = [p \in Req |-> Row(None, "absent", 0, 0)]
  /\ ledger = {}
  /\ score = {}
  /\ req = [r \in Req |-> Handler("none", "idle", None, None, 0, 0)]
  /\ age = [i \in Installment |-> Far]
  /\ cron = "due_soon"

(***************************************************************************)
(* Vocabulary of the handlers.                                              *)
(***************************************************************************)
InFlight == {r \in Req : req[r].pc \notin {"idle", "done", "failed"}}

CanStart(r, op) == /\ op \in Ops
                   /\ req[r].pc = "idle"
                   /\ Cardinality(InFlight) < MaxInFlight

At(r, ops, pc) == req[r].op \in ops /\ req[r].pc = pc

Begin(r, handler) == req' = [req EXCEPT ![r] = handler]
Goto(r, pc)       == req' = [req EXCEPT ![r].pc = pc]

Closed(i)    == inst[i].status = "paid"   \* 'waived' is never written

Fits_NoGuard(i, a) == a \in Amount
Fits(i, a) == inst[i].paid + a <= Due[i]

\* isPast(grace_due_date): the date is midnight, so its own day is already past.
IsLate(i) == age[i] >= GraceDay

\* student_amount || amount
Claimed(p) == IF pay[p].claimed # 0 THEN pay[p].claimed ELSE pay[p].amount

Listed(p) == OnlyListed => pay[p].status \in {"receipt_uploaded", "verified", "rejected"}

Verifiable(p) == pay[p].status \notin {"absent", "verified", "reversed"}

Rejectable_Verified(p) == pay[p].status \notin {"absent", "reversed"}
Rejectable(p) == pay[p].status \notin {"absent", "verified", "reversed"}

Reversible_Rejected(p) == pay[p].status \in Accepted \cup {"rejected"}
Reversible(p) == pay[p].status \in Accepted

PendingReceipt_Settled(p, i) ==
  pay[p].inst = i /\ pay[p].status \in {"receipt_uploaded", "verified"}
PendingReceipt_Rejected(p, i) == pay[p].inst = i /\ pay[p].status = "rejected"
PendingReceipt(p, i) == pay[p].inst = i /\ pay[p].status = "receipt_uploaded"

AwaitingGateway(p, i) == pay[p].inst = i /\ pay[p].status \in {"konnect_pending", "receipt_uploaded"}

\* The installment after crediting it to newPaid, and after a reversal.
Credited_Strict(i, newPaid) ==
  [paid |-> newPaid, status |-> IF newPaid > Due[i] THEN "paid" ELSE "partial"]
Credited(i, newPaid) ==
  [paid |-> newPaid, status |-> IF newPaid >= Due[i] THEN "paid" ELSE "partial"]

Reverted_NoClamp(i, a) == [paid |-> inst[i].paid - a, status |-> "pending"]
Reverted(i, a) ==
  [paid |-> IF a > inst[i].paid THEN 0 ELSE inst[i].paid - a, status |-> "pending"]

Entry(type, account, r) ==
  [batch |-> r, type |-> type, account |-> account,
   payment |-> req[r].pay, amount |-> req[r].amount]

(***************************************************************************)
(* recordPayment: staff record money that has arrived.                      *)
(***************************************************************************)
RecordRead(r) ==
  /\ CanStart(r, "record")
  /\ \E i \in Installment, a \in Amount :
        /\ ~Closed(i)
        /\ Fits(i, a)
        /\ Begin(r, Handler("record", "payment", i, r, a, inst[i].paid))
  /\ UNCHANGED <<inst, pay, ledger, score, age, cron>>

RecordInsert(r) ==
  /\ At(r, {"record"}, "payment")
  /\ pay' = [pay EXCEPT ![r] = Row(req[r].inst, "confirmed", req[r].amount, 0)]
  /\ req' = [req EXCEPT ![r].pc = "installment", ![r].late = IsLate(req[r].inst)]
  /\ UNCHANGED <<inst, ledger, score, age, cron>>

(***************************************************************************)
(* verifyPayment: staff saw the money of a receipt in the bank.             *)
(***************************************************************************)
VerifyRead(r) ==
  /\ CanStart(r, "verify")
  /\ \E p \in Req :
        /\ Verifiable(p)
        /\ Listed(p)
        /\ Fits(pay[p].inst, Claimed(p))
        /\ Begin(r, Handler("verify", "payment", pay[p].inst, p, Claimed(p),
                            inst[pay[p].inst].paid))
  /\ UNCHANGED <<inst, pay, ledger, score, age, cron>>

VerifyPayment(r) ==
  /\ At(r, {"verify"}, "payment")
  /\ LET p == req[r].pay IN
       pay' = [pay EXCEPT ![p].status = "verified", ![p].amount = Claimed(p)]
  /\ Goto(r, "installment")
  /\ UNCHANGED <<inst, ledger, score, age, cron>>

\* Both write amount_paid as an absolute value computed from what they read.
CreditInstallment(r) ==
  /\ At(r, {"record", "verify"}, "installment")
  /\ LET i == req[r].inst
         new == Credited(i, req[r].paid + req[r].amount)
     IN /\ inst' = [inst EXCEPT ![i] = new]
        /\ req' = [req EXCEPT ![r].pc = "debit", ![r].full = (new.status = "paid")]
  /\ UNCHANGED <<pay, ledger, score, age, cron>>

(***************************************************************************)
(* rejectPayment: a receipt is refused; the installment is not touched.     *)
(***************************************************************************)
RejectRead(r) ==
  /\ CanStart(r, "reject")
  /\ \E p \in Req :
        /\ Rejectable(p)
        /\ Listed(p)
        /\ Begin(r, Handler("reject", "payment", pay[p].inst, p, 0, 0))
  /\ UNCHANGED <<inst, pay, ledger, score, age, cron>>

RejectPayment(r) ==
  /\ At(r, {"reject"}, "payment")
  /\ pay' = [pay EXCEPT ![req[r].pay].status = "rejected"]
  /\ Goto(r, "done")
  /\ UNCHANGED <<inst, ledger, score, age, cron>>

(***************************************************************************)
(* reversePayment: an accepted payment is undone.                           *)
(***************************************************************************)
ReverseRead(r) ==
  /\ CanStart(r, "reverse")
  /\ \E p \in Req :
        /\ Reversible(p)
        /\ Begin(r, Handler("reverse", "payment", pay[p].inst, p, pay[p].amount, 0))
  /\ UNCHANGED <<inst, pay, ledger, score, age, cron>>

ReversePayment(r) ==
  /\ At(r, {"reverse"}, "payment")
  /\ pay' = [pay EXCEPT ![req[r].pay].status = "reversed"]
  /\ Goto(r, "installment")
  /\ UNCHANGED <<inst, ledger, score, age, cron>>

RevertInstallment(r) ==
  /\ At(r, {"reverse"}, "installment")
  /\ inst' = [inst EXCEPT ![req[r].inst] = Reverted(req[r].inst, req[r].amount)]
  /\ Goto(r, "debit")
  /\ UNCHANGED <<pay, ledger, score, age, cron>>

(***************************************************************************)
(* submitReceipt: the student uploads a proof of payment.                   *)
(***************************************************************************)
SubmitRead(r) ==
  /\ CanStart(r, "submit")
  /\ \E i \in Installment, a \in Amount :
        /\ ~Closed(i)
        /\ Begin(r, Handler("submit", "existing", i, r, a, 0))
  /\ UNCHANGED <<inst, pay, ledger, score, age, cron>>

SubmitFind(r) ==
  /\ At(r, {"submit"}, "existing")
  /\ \/ \E p \in Req :
          /\ PendingReceipt(p, req[r].inst)
          /\ req' = [req EXCEPT ![r].pc = "update", ![r].pay = p]
     \/ /\ \A p \in Req : ~PendingReceipt(p, req[r].inst)
        /\ Goto(r, "insert")
  /\ UNCHANGED <<inst, pay, ledger, score, age, cron>>

SubmitUpdate(r) ==
  /\ At(r, {"submit"}, "update")
  /\ LET p == req[r].pay IN
       pay' = [pay EXCEPT ![p].status = "receipt_uploaded", ![p].claimed = req[r].amount]
  /\ Goto(r, "done")
  /\ UNCHANGED <<inst, ledger, score, age, cron>>

SubmitInsert(r) ==
  /\ At(r, {"submit"}, "insert")
  /\ pay' = [pay EXCEPT ![r] = Row(req[r].inst, "receipt_uploaded", req[r].amount, req[r].amount)]
  /\ Goto(r, "done")
  /\ UNCHANGED <<inst, ledger, score, age, cron>>

(***************************************************************************)
(* Konnect: the student pays an amount of their choice at the gateway; its  *)
(* webhook (which may come more than once) finds the row by the reference,  *)
(* here the installment's.                                                  *)
(***************************************************************************)
KonnectInitiate(r) ==
  /\ CanStart(r, "initiate")
  /\ \E i \in Installment, a \in Amount :
        /\ pay' = [pay EXCEPT ![r] = Row(i, "konnect_pending", a, 0)]
        /\ Begin(r, Handler("initiate", "done", i, r, a, 0))
  /\ UNCHANGED <<inst, ledger, score, age, cron>>

KonnectRead(r) ==
  /\ CanStart(r, "webhook")
  /\ \E q \in Req, p \in Req :
        /\ At(q, {"initiate"}, "done")
        /\ AwaitingGateway(p, req[q].inst)
        /\ Begin(r, Handler("webhook", "payment", pay[p].inst, p, pay[p].amount, 0))
  /\ UNCHANGED <<inst, pay, ledger, score, age, cron>>

KonnectVerify(r) ==
  /\ At(r, {"webhook"}, "payment")
  /\ pay' = [pay EXCEPT ![req[r].pay].status = "verified"]
  /\ Goto(r, "installment")
  /\ UNCHANGED <<inst, ledger, score, age, cron>>

KonnectSettle(r) ==
  /\ At(r, {"webhook"}, "installment")
  /\ LET i == req[r].inst IN
       inst' = [inst EXCEPT ![i] = [paid |-> Due[i], status |-> "paid"]]
  /\ req' = [req EXCEPT ![r].pc = "debit", ![r].full = TRUE]
  /\ UNCHANGED <<pay, ledger, score, age, cron>>

(***************************************************************************)
(* LedgerService.recordEntries: two rows, two statements.  Then the score   *)
(* event, when the handler left the installment paid.                       *)
(***************************************************************************)
DebitAccount(r)  == IF req[r].op = "reverse" THEN "student_receivable" ELSE "bank"
CreditAccount(r) == IF req[r].op = "reverse" THEN "bank" ELSE "student_receivable"

LedgerDebit(r) ==
  /\ req[r].pc = "debit"
  /\ ledger' = ledger \cup {Entry("debit", DebitAccount(r), r)}
  /\ Goto(r, "credit")
  /\ UNCHANGED <<inst, pay, score, age, cron>>

LedgerCredit_Lost(r) ==
  /\ req[r].pc = "credit"
  /\ ledger' = ledger
  /\ Goto(r, IF req[r].full THEN "score" ELSE "done")
  /\ UNCHANGED <<inst, pay, score, age, cron>>
LedgerCredit(r) ==
  /\ req[r].pc = "credit"
  /\ ledger' = ledger \cup {Entry("credit", CreditAccount(r), r)}
  /\ Goto(r, IF req[r].full THEN "score" ELSE "done")
  /\ UNCHANGED <<inst, pay, score, age, cron>>

ScoreEvent(code, i, ref) == [code |-> code, inst |-> i, ref |-> ref]

RecordScore(r) ==
  /\ req[r].pc = "score"
  /\ LET i == req[r].inst
         late == IF req[r].op = "record" THEN req[r].late ELSE IsLate(i)
     IN score' = score \cup
          {ScoreEvent(IF late THEN "PAYMENT_LATE" ELSE "PAYMENT_ON_TIME", i, req[r].pay)}
  /\ Goto(r, "done")
  /\ UNCHANGED <<inst, pay, ledger, age, cron>>

\* A statement throws, or the process dies: nothing already written is undone.
Fail(r) ==
  /\ MayFail
  /\ r \in InFlight
  /\ Goto(r, "failed")
  /\ UNCHANGED <<inst, pay, ledger, score, age, cron>>

(***************************************************************************)
(* updateInstallmentStatuses, daily at 6: four statements over the whole    *)
(* table.  The driver answers UPDATE ... RETURNING with a pair              *)
(* <<rows, count>>, and the loop that follows the third statement iterates  *)
(* over that pair, not over the rows.                                       *)
(***************************************************************************)
Sweep(hit, status) ==
  inst' = [i \in Installment |->
             IF i \in hit THEN [inst[i] EXCEPT !.status = status] ELSE inst[i]]

UpdateReturning(hit) == <<hit, Cardinality(hit)>>

CronDueSoon ==
  /\ cron = "due_soon"
  /\ Sweep({i \in Installment : inst[i].status = "pending" /\ age[i] = Soon}, "due_soon")
  /\ cron' = "due_today"
  /\ UNCHANGED <<pay, ledger, score, req, age>>

CronDueToday ==
  /\ cron = "due_today"
  /\ Sweep({i \in Installment : inst[i].status \in {"pending", "due_soon"} /\ age[i] = Today},
           "due_today")
  /\ cron' = "late"
  /\ UNCHANGED <<pay, ledger, score, req, age>>

NewlyLate_NotPartial(i) ==
  /\ inst[i].status \in {"pending", "due_soon", "due_today"}
  /\ age[i] >= Past
  /\ inst[i].paid < Due[i]
NewlyLate(i) ==
  /\ inst[i].status \in {"pending", "due_soon", "due_today", "partial"}
  /\ age[i] >= Past
  /\ inst[i].paid < Due[i]

CronLate ==
  /\ cron = "late"
  /\ LET hit == {i \in Installment : NewlyLate(i)}
         answer == UpdateReturning(hit)
         seen == {i \in Installment : \E k \in DOMAIN answer : answer[k] = i}
     IN /\ Sweep(hit, "late")
        /\ score' = score \cup {ScoreEvent("PAYMENT_OVERDUE", i, i) : i \in seen}
  /\ cron' = "default_risk"
  /\ UNCHANGED <<pay, ledger, req, age>>

CronDefaultRisk ==
  /\ cron = "default_risk"
  /\ Sweep({i \in Installment : inst[i].status = "late" /\ age[i] = LongPast}, "default_risk")
  /\ cron' = "due_soon"
  /\ UNCHANGED <<pay, ledger, score, req, age>>

\* The day of an installment changes, but not while the job runs.
Tick(i) ==
  /\ cron = "due_soon"
  /\ age[i] < MaxAge
  /\ age' = [age EXCEPT ![i] = @ + 1]
  /\ UNCHANGED <<inst, pay, ledger, score, req, cron>>

Cron == CronDueSoon \/ CronDueToday \/ CronLate \/ CronDefaultRisk

Start(r) == \/ RecordRead(r) \/ VerifyRead(r) \/ RejectRead(r) \/ ReverseRead(r)
            \/ SubmitRead(r) \/ KonnectInitiate(r) \/ KonnectRead(r)

Continue(r) == \/ RecordInsert(r) \/ VerifyPayment(r) \/ CreditInstallment(r)
               \/ RejectPayment(r) \/ ReversePayment(r) \/ RevertInstallment(r)
               \/ SubmitFind(r) \/ SubmitUpdate(r) \/ SubmitInsert(r)
               \/ KonnectVerify(r) \/ KonnectSettle(r)
               \/ LedgerDebit(r) \/ LedgerCredit(r) \/ RecordScore(r)

Next == \/ \E r \in Req : Start(r) \/ Continue(r) \/ Fail(r)
        \/ \E i \in Installment : Tick(i)
        \/ Cron

Spec == Init /\ [][Next]_vars

\* The server runs the handlers it accepted and the scheduler fires daily;
\* nothing obliges anyone to send a request, and days may pass or not.
Fairness == WF_vars(Cron) /\ \A r \in Req : WF_vars(Continue(r))

FairSpec == Spec /\ Fairness

-------------------------------------------------------------------------------
InstRow    == [paid : Nat, status : InstStatus]
PayRow     == [inst : Installment \cup {None}, status : PayStatus, amount : Nat, claimed : Nat]
LedgerRow  == [batch : Req, type : {"debit", "credit"},
               account : {"bank", "student_receivable"},
               payment : Req \cup {None}, amount : Nat]
ScoreRow   == [code : Code, inst : Installment \cup {None},
               ref : Req \cup Installment \cup {None}]
HandlerRow == [op : AllOps \cup {"none"}, pc : Where,
               inst : Installment \cup {None}, pay : Req \cup {None},
               amount : Nat, paid : Nat, full : BOOLEAN, late : BOOLEAN]

\* The shape of the tables and of the handlers' copies of them.
TypeOK ==
  /\ inst \in [Installment -> InstRow]
  /\ pay \in [Req -> PayRow]
  /\ ledger \subseteq LedgerRow
  /\ score \subseteq ScoreRow
  /\ req \in [Req -> HandlerRow]
  /\ age \in [Installment -> Nat]
  /\ cron \in {"due_soon", "due_today", "late", "default_risk"}

\* Whatever interleaves and whatever fails, no installment shows more money
\* than it is for: the remaining-balance guards of recordPayment and
\* verifyPayment, the clamp of the reversal and the gateway's settlement
\* together keep amount_paid within amount.
NeverOverpaid == \A i \in Installment : inst[i].paid <= Due[i]

\* The status and the amount of an installment are written by different
\* statements of five handlers and a cron job, and never disagree on whether
\* it is paid off.
PaidIffFull == \A i \in Installment : inst[i].status = "paid" <=> inst[i].paid = Due[i]

Posts(r) == req[r].op \in {"record", "verify", "webhook", "reverse"}

\* Double entry: a handler that ran to its end left one debit and one credit
\* of the same payment and amount on opposite accounts, and no credit is ever
\* there without its debit, even if the handler died in between.
LedgerBalanced ==
  /\ \A r \in Req : req[r].pc = "done" /\ Posts(r) =>
        \E d, c \in ledger : d.batch = r /\ c.batch = r /\ d.type = "debit" /\ c.type = "credit"
  /\ \A c \in ledger : c.type = "credit" =>
        \E d \in ledger : /\ d.batch = c.batch /\ d.type = "debit"
                          /\ d.payment = c.payment /\ d.amount = c.amount
                          /\ d.account # c.account

\* An installment unpaid long after its grace period does not stay unflagged:
\* the daily job gets to it whatever payments, reversals and resets precede.
OverdueIsFlagged ==
  \A i \in Installment :
    (age[i] = LongPast) ~> (inst[i].status \in {"paid", "default_risk"})
===============================================================================
