---------------------------- MODULE PaymentsProofs ----------------------------
(***************************************************************************)
(* What holds of Payments for every set of installments, amounts and        *)
(* requests, whatever interleaves and whatever fails.                       *)
(***************************************************************************)
EXTENDS PaymentBooks, SumProofs, TLAPS

\* Every payment row names an installment and an amount someone transferred.
RowsOK == \A p \in Req : pay[p].status # "absent" =>
            /\ pay[p].inst \in Installment
            /\ pay[p].amount \in Amount
            /\ pay[p].claimed \in Amount \cup {0}

\* A handler under way knows its installment and its payment row; the amount
\* it carries is a transferred amount unless it is a rejection, and fits on
\* top of the amount it has read.
HandlersOK == \A r \in Req : req[r].pc # "idle" =>
            /\ req[r].inst \in Installment
            /\ req[r].pay \in Req
            /\ req[r].op \in AllOps
            /\ req[r].op # "reject" => req[r].amount \in Amount
            /\ req[r].op \in {"record", "verify"} =>
                 req[r].paid + req[r].amount <= Due[req[r].inst]
            /\ req[r].pc \in {"debit", "credit", "score"} => Posts(r)

\* Whoever works on an existing payment row has one to work on.
TargetsOK == \A r \in Req :
  /\ req[r].pc # "idle"
  /\ \/ req[r].op \in {"verify", "reject", "reverse", "webhook"}
     \/ req[r].pc = "update"
  => pay[req[r].pay].status # "absent"

InstallmentsOK == NeverOverpaid /\ PaidIffFull

\* A batch of the ledger is the one its handler posts, in the order it posts.
LedgerOK ==
  /\ \A e \in ledger :
       /\ req[e.batch].pc \in {"credit", "score", "done", "failed"}
       /\ \/ e = Entry("debit", DebitAccount(e.batch), e.batch)
          \/ /\ e = Entry("credit", CreditAccount(e.batch), e.batch)
             /\ req[e.batch].pc # "credit"
             /\ Entry("debit", DebitAccount(e.batch), e.batch) \in ledger
  /\ \A r \in Req :
       \/ req[r].pc \in {"credit", "score"}
       \/ req[r].pc = "done" /\ Posts(r)
       => Entry("debit", DebitAccount(r), r) \in ledger
  /\ \A r \in Req :
       \/ req[r].pc = "score"
       \/ req[r].pc = "done" /\ Posts(r)
       => Entry("credit", CreditAccount(r), r) \in ledger

Tables == TypeOK /\ RowsOK /\ HandlersOK /\ InstallmentsOK
IInv   == Tables /\ TargetsOK /\ LedgerOK


\* What a payment row claims is an amount someone transferred.
LEMMA ClaimedInAmount ==
  ASSUME RowsOK, NEW p \in Req, pay[p].status # "absent"
  PROVE  Claimed(p) \in Amount
BY DEF RowsOK, Claimed

LEMMA InitIInv == Init => IInv
<1> SUFFICES ASSUME Init PROVE IInv
  OBVIOUS
<1> USE NoneAssumption, AmountAssumption DEF Init, Row, Handler
<1>1. inst \in [Installment -> InstRow]
  BY DEF InstRow, InstStatus
<1>2. pay \in [Req -> PayRow]
  BY DEF PayRow, PayStatus
<1>3. req \in [Req -> HandlerRow]
  BY DEF HandlerRow, Where
<1>4. TypeOK
  BY <1>1, <1>2, <1>3 DEF TypeOK, Far
<1>5. RowsOK /\ HandlersOK
  BY DEF RowsOK, HandlersOK
<1>6. InstallmentsOK
  BY DEF InstallmentsOK, NeverOverpaid, PaidIffFull
<1>7. LedgerOK
  BY DEF LedgerOK
<1>8. TargetsOK
  BY DEF TargetsOK
<1> QED
  BY <1>4, <1>5, <1>6, <1>7, <1>8 DEF IInv, Tables

\* A handler that has just begun is well formed.
LEMMA BeginOK ==
  ASSUME Tables, NEW r \in Req, NEW op \in AllOps,
         NEW pc \in Where \ {"debit", "credit", "score"},
         NEW i \in Installment, NEW p \in Req, NEW a \in Nat, NEW paid \in Nat,
         op # "reject" => a \in Amount,
         op \in {"record", "verify"} => paid + a <= Due[i],
         Begin(r, Handler(op, pc, i, p, a, paid))
  PROVE  req' \in [Req -> HandlerRow] /\ HandlersOK'
<1>1. req' = [req EXCEPT ![r] = Handler(op, pc, i, p, a, paid)]
  BY DEF Begin
<1>2. Handler(op, pc, i, p, a, paid) \in HandlerRow
  BY DEF Handler, HandlerRow
<1>3. req' \in [Req -> HandlerRow]
  BY <1>1, <1>2 DEF Tables, TypeOK
<1>4. req'[r] = Handler(op, pc, i, p, a, paid) /\ \A q \in Req \ {r} : req'[q] = req[q]
  BY <1>1 DEF Tables, TypeOK
<1>5. HandlersOK'
  BY <1>4 DEF Tables, HandlersOK, Handler, Posts
<1> QED
  BY <1>3, <1>5

\* h is what handler r becomes when it moves on: it keeps what it was asked.
Moves(r, h) ==
  /\ req[r].pc # "idle"
  /\ req' = [req EXCEPT ![r] = h]
  /\ h \in HandlerRow
  /\ h.op = req[r].op /\ h.inst = req[r].inst /\ h.amount = req[r].amount
  /\ h.paid = req[r].paid
  /\ h.pc \in {"debit", "credit", "score"} => Posts(r)
  /\ h.pay \in Req

LEMMA MoveOK ==
  ASSUME Tables, NEW r \in Req, NEW h, Moves(r, h)
  PROVE  req' \in [Req -> HandlerRow] /\ HandlersOK'
<1>1. req' \in [Req -> HandlerRow]
  BY DEF Tables, TypeOK, Moves
<1>2. req'[r] = h /\ \A q \in Req \ {r} : req'[q] = req[q]
  BY DEF Tables, TypeOK, Moves
<1>3. HandlersOK'
  BY <1>2 DEF Tables, HandlersOK, Moves, Posts
<1> QED
  BY <1>1, <1>3

\* Two shapes of h.
LEMMA GotoMoves ==
  ASSUME Tables, NEW r \in Req, NEW pc \in Where, req[r].pc # "idle", Goto(r, pc),
         pc \in {"debit", "credit", "score"} => Posts(r)
  PROVE  Moves(r, [req[r] EXCEPT !.pc = pc])
<1>1. req[r] \in HandlerRow
  BY DEF Tables, TypeOK
<1>2. req' = [req EXCEPT ![r] = [req[r] EXCEPT !.pc = pc]]
  BY DEF Goto
<1>3. req[r].pay \in Req
  BY DEF Tables, HandlersOK
<1> QED
  BY <1>1, <1>2, <1>3 DEF Moves, HandlerRow


\* A step of r that leaves the ledger alone, short of the end of a posting.
LEMMA LedgerFrame ==
  ASSUME IInv, NEW r \in Req,
         req[r].pc \notin {"credit", "score", "done", "failed"},
         \A q \in Req \ {r} : req'[q] = req[q],
         req'[r].pc \notin {"credit", "score"},
         req'[r].pc = "done" => ~ Posts(r)',
         ledger' = ledger
  PROVE  LedgerOK'
<1>1. \A e \in ledger : e.batch \in Req \ {r}
  BY DEF IInv, Tables, TypeOK, LedgerRow, LedgerOK
<1>2. \A q \in Req \ {r} : /\ Posts(q)' = Posts(q)
                            /\ Entry("debit", DebitAccount(q), q)' = Entry("debit", DebitAccount(q), q)
                            /\ Entry("credit", CreditAccount(q), q)' = Entry("credit", CreditAccount(q), q)
  BY DEF Posts, Entry, DebitAccount, CreditAccount
<1>3. \A e \in ledger' :
       /\ req'[e.batch].pc \in {"credit", "score", "done", "failed"}
       /\ \/ e = Entry("debit", DebitAccount(e.batch), e.batch)'
          \/ /\ e = Entry("credit", CreditAccount(e.batch), e.batch)'
             /\ req'[e.batch].pc # "credit"
             /\ Entry("debit", DebitAccount(e.batch), e.batch)' \in ledger'
  <2> SUFFICES ASSUME NEW e \in ledger
               PROVE  /\ req'[e.batch].pc \in {"credit", "score", "done", "failed"}
                      /\ \/ e = Entry("debit", DebitAccount(e.batch), e.batch)'
                         \/ /\ e = Entry("credit", CreditAccount(e.batch), e.batch)'
                            /\ req'[e.batch].pc # "credit"
                            /\ Entry("debit", DebitAccount(e.batch), e.batch)' \in ledger'
    OBVIOUS
  <2>1. PICK q \in Req \ {r} : q = e.batch
    BY <1>1
  <2> QED
    BY <1>2, <2>1 DEF IInv, LedgerOK
<1>4. \A q \in Req :
       (\/ req'[q].pc \in {"credit", "score"}
        \/ req'[q].pc = "done" /\ Posts(q)')
       => Entry("debit", DebitAccount(q), q)' \in ledger'
  BY <1>2 DEF IInv, LedgerOK
<1>5. \A q \in Req :
       (\/ req'[q].pc = "score"
        \/ req'[q].pc = "done" /\ Posts(q)')
       => Entry("credit", CreditAccount(q), q)' \in ledger'
  BY <1>2 DEF IInv, LedgerOK
<1> QED
  BY <1>3, <1>4, <1>5 DEF LedgerOK

\* No statement deletes a payment row.
KeepsRows == \A p \in Req : pay[p].status # "absent" => pay'[p].status # "absent"

\* A handler begins, and may insert its row.
LEMMA BeginIInv ==
  ASSUME IInv, NEW r \in Req, req[r].pc = "idle", NEW op \in AllOps,
         NEW pc \in {"payment", "existing", "done"},
         NEW i \in Installment, NEW p \in Req, NEW a \in Nat, NEW paid \in Nat,
         op # "reject" => a \in Amount,
         op \in {"record", "verify"} => paid + a <= Due[i],
         pc = "done" => op = "initiate",
         Begin(r, Handler(op, pc, i, p, a, paid)),
         pay' \in [Req -> PayRow], RowsOK', KeepsRows,
         op \in {"verify", "reject", "reverse", "webhook"} => pay[p].status # "absent",
         UNCHANGED <<inst, ledger, score, age, cron>>
  PROVE  IInv'
<1>1. req' \in [Req -> HandlerRow] /\ HandlersOK'
  BY BeginOK DEF IInv, Where
<1>2. req'[r] = Handler(op, pc, i, p, a, paid) /\ \A q \in Req \ {r} : req'[q] = req[q]
  BY DEF Begin, IInv, Tables, TypeOK
<1>3. LedgerOK'
  BY <1>2, LedgerFrame DEF Handler, Posts
<1>4. InstallmentsOK'
  BY DEF IInv, Tables, InstallmentsOK, NeverOverpaid, PaidIffFull
<1>5. TypeOK'
  BY <1>1 DEF IInv, Tables, TypeOK
<1>6. TargetsOK'
  BY <1>2 DEF TargetsOK, Handler, KeepsRows, IInv, Tables, HandlersOK
<1> QED
  BY <1>1, <1>3, <1>4, <1>5, <1>6 DEF IInv, Tables

\* A handler moves on to a statement before its postings, or ends without any.
LEMMA MoveIInv ==
  ASSUME IInv, NEW r \in Req, NEW h, Moves(r, h),
         req[r].pc \in {"payment", "installment", "existing", "update", "insert"},
         h.pc \notin {"credit", "score"},
         h.pc = "done" => ~ Posts(r),
         inst' \in [Installment -> InstRow], InstallmentsOK',
         pay' \in [Req -> PayRow], RowsOK', KeepsRows,
         h.pay = req[r].pay \/ pay[h.pay].status # "absent",
         h.pc = "update" => pay[h.pay].status # "absent",
         UNCHANGED <<ledger, score, age, cron>>
  PROVE  IInv'
<1>1. req' \in [Req -> HandlerRow] /\ HandlersOK'
  BY MoveOK DEF IInv
<1>2. req'[r] = h /\ \A q \in Req \ {r} : req'[q] = req[q]
  BY DEF Moves, IInv, Tables, TypeOK
<1>3. LedgerOK'
  BY <1>2, LedgerFrame DEF Posts, Moves
<1>4. TypeOK'
  BY <1>1 DEF IInv, Tables, TypeOK
<1>5. TargetsOK'
  BY <1>2 DEF TargetsOK, KeepsRows, Moves, IInv, Tables, HandlersOK
<1> QED
  BY <1>1, <1>3, <1>4, <1>5 DEF IInv, Tables


LEMMA StartIInv ==
  ASSUME IInv, NEW r \in Req, Start(r)
  PROVE  IInv'
<1> USE AmountAssumption DEF AllOps
<1>0. /\ inst \in [Installment -> InstRow] /\ pay \in [Req -> PayRow]
      /\ RowsOK
      /\ pay' = pay => pay' \in [Req -> PayRow] /\ RowsOK' /\ KeepsRows
  BY DEF IInv, Tables, TypeOK, RowsOK, KeepsRows
<1>1. CASE RecordRead(r)
  <2>1. PICK i \in Installment, a \in Amount :
          /\ Fits(i, a)
          /\ Begin(r, Handler("record", "payment", i, r, a, inst[i].paid))
    BY <1>1 DEF RecordRead
  <2>2. inst[i].paid \in Nat /\ a \in Nat /\ inst[i].paid + a <= Due[i]
    BY <1>0, <2>1 DEF InstRow, Fits
  <2>3. req[r].pc = "idle" /\ UNCHANGED <<inst, pay, ledger, score, age, cron>>
    BY <1>1 DEF RecordRead, CanStart
  <2> QED
    BY <1>0, <2>1, <2>2, <2>3, BeginIInv
<1>2. CASE VerifyRead(r)
  <2>1. PICK p \in Req :
          /\ Verifiable(p)
          /\ Fits(pay[p].inst, Claimed(p))
          /\ Begin(r, Handler("verify", "payment", pay[p].inst, p, Claimed(p),
                              inst[pay[p].inst].paid))
    BY <1>2 DEF VerifyRead
  <2>2. pay[p].inst \in Installment /\ Claimed(p) \in Amount /\ Claimed(p) \in Nat
    BY <1>0, <2>1, ClaimedInAmount DEF Verifiable, RowsOK
  <2>3. inst[pay[p].inst].paid \in Nat
    BY <1>0, <2>2 DEF InstRow
  <2>4. inst[pay[p].inst].paid + Claimed(p) <= Due[pay[p].inst]
    BY <2>1 DEF Fits
  <2>5. req[r].pc = "idle" /\ UNCHANGED <<inst, pay, ledger, score, age, cron>>
    BY <1>2 DEF VerifyRead, CanStart
  <2> QED
    BY <1>0, <2>1, <2>2, <2>3, <2>4, <2>5, BeginIInv DEF Verifiable
<1>3. CASE RejectRead(r)
  <2>1. PICK p \in Req :
          /\ Rejectable(p)
          /\ Begin(r, Handler("reject", "payment", pay[p].inst, p, 0, 0))
    BY <1>3 DEF RejectRead
  <2>2. pay[p].inst \in Installment
    BY <1>0, <2>1 DEF Rejectable, RowsOK
  <2>3. req[r].pc = "idle" /\ UNCHANGED <<inst, pay, ledger, score, age, cron>>
    BY <1>3 DEF RejectRead, CanStart
  <2> QED
    BY <1>0, <2>1, <2>2, <2>3, BeginIInv DEF Rejectable
<1>4. CASE ReverseRead(r)
  <2>1. PICK p \in Req :
          /\ Reversible(p)
          /\ Begin(r, Handler("reverse", "payment", pay[p].inst, p, pay[p].amount, 0))
    BY <1>4 DEF ReverseRead
  <2>2. pay[p].inst \in Installment /\ pay[p].amount \in Amount /\ pay[p].amount \in Nat
    BY <1>0, <2>1 DEF Reversible, Accepted, RowsOK
  <2>3. req[r].pc = "idle" /\ UNCHANGED <<inst, pay, ledger, score, age, cron>>
    BY <1>4 DEF ReverseRead, CanStart
  <2> QED
    BY <1>0, <2>1, <2>2, <2>3, BeginIInv DEF Reversible, Accepted
<1>5. CASE SubmitRead(r)
  <2>1. PICK i \in Installment, a \in Amount :
          Begin(r, Handler("submit", "existing", i, r, a, 0))
    BY <1>5 DEF SubmitRead
  <2>2. a \in Nat
    OBVIOUS
  <2>3. req[r].pc = "idle" /\ UNCHANGED <<inst, pay, ledger, score, age, cron>>
    BY <1>5 DEF SubmitRead, CanStart
  <2> QED
    BY <1>0, <2>1, <2>2, <2>3, BeginIInv
<1>6. CASE KonnectInitiate(r)
  <2>1. PICK i \in Installment, a \in Amount :
          /\ pay' = [pay EXCEPT ![r] = Row(i, "konnect_pending", a, 0)]
          /\ Begin(r, Handler("initiate", "done", i, r, a, 0))
    BY <1>6 DEF KonnectInitiate
  <2>2. a \in Nat
    OBVIOUS
  <2>3. pay' \in [Req -> PayRow] /\ RowsOK' /\ KeepsRows
    BY <1>0, <2>1, <2>2 DEF PayRow, PayStatus, Row, RowsOK, KeepsRows
  <2>4. req[r].pc = "idle" /\ UNCHANGED <<inst, ledger, score, age, cron>>
    BY <1>6 DEF KonnectInitiate, CanStart
  <2> QED
    BY <2>1, <2>2, <2>3, <2>4, BeginIInv
<1>7. CASE KonnectRead(r)
  <2>1. PICK p \in Req :
          /\ pay[p].status # "absent"
          /\ Begin(r, Handler("webhook", "payment", pay[p].inst, p, pay[p].amount, 0))
    BY <1>7 DEF KonnectRead, AwaitingGateway
  <2>2. pay[p].inst \in Installment /\ pay[p].amount \in Amount /\ pay[p].amount \in Nat
    BY <1>0, <2>1 DEF RowsOK
  <2>3. req[r].pc = "idle" /\ UNCHANGED <<inst, pay, ledger, score, age, cron>>
    BY <1>7 DEF KonnectRead, CanStart
  <2> QED
    BY <1>0, <2>1, <2>2, <2>3, BeginIInv
<1> QED
  BY <1>1, <1>2, <1>3, <1>4, <1>5, <1>6, <1>7 DEF Start

\* An inserted row is well formed.
LEMMA InsertOK ==
  ASSUME pay \in [Req -> PayRow], RowsOK, NEW r \in Req,
         NEW i \in Installment, NEW s \in PayStatus \ {"absent"},
         NEW a \in Amount, NEW c \in Amount \cup {0},
         pay' = [pay EXCEPT ![r] = Row(i, s, a, c)]
  PROVE  pay' \in [Req -> PayRow] /\ RowsOK' /\ KeepsRows
<1>1. a \in Nat /\ c \in Nat
  BY AmountAssumption
<1>2. Row(i, s, a, c) \in PayRow
  BY <1>1 DEF Row, PayRow
<1> QED
  BY <1>2 DEF Row, RowsOK, KeepsRows

\* The statements that change no installment: the row r writes is well formed.
LEMMA PaymentIInv ==
  ASSUME IInv, NEW r \in Req,
         \/ RecordInsert(r) \/ VerifyPayment(r) \/ RejectPayment(r)
         \/ ReversePayment(r) \/ KonnectVerify(r)
         \/ SubmitFind(r) \/ SubmitUpdate(r) \/ SubmitInsert(r)
  PROVE  IInv'
<1> USE AmountAssumption DEF At
<1>0. /\ pay \in [Req -> PayRow] /\ RowsOK /\ Tables /\ inst \in [Installment -> InstRow]
      /\ req[r] \in HandlerRow
      /\ pay' = pay => pay' \in [Req -> PayRow] /\ RowsOK' /\ KeepsRows
      /\ inst' = inst => InstallmentsOK'
  BY DEF IInv, Tables, TypeOK, RowsOK, InstallmentsOK, NeverOverpaid, PaidIffFull, KeepsRows
<1>1. req[r].pc # "idle" =>
        /\ req[r].inst \in Installment
        /\ req[r].pay \in Req
        /\ req[r].op # "reject" => req[r].amount \in Amount
  BY <1>0 DEF Tables, HandlersOK
<1>2. /\ req[r].pc # "idle"
      /\ \/ req[r].op \in {"verify", "reject", "reverse", "webhook"}
         \/ req[r].pc = "update"
      => pay[req[r].pay].status # "absent"
  BY DEF IInv, TargetsOK
<1>3. CASE RecordInsert(r)
  <2> DEFINE h == [req[r] EXCEPT !.pc = "installment", !.late = IsLate(req[r].inst)]
  <2>0. /\ req[r].inst \in Installment /\ req[r].amount \in Amount
        /\ pay' = [pay EXCEPT ![r] = Row(req[r].inst, "confirmed", req[r].amount, 0)]
    BY <1>1, <1>3 DEF RecordInsert
  <2>1. pay' \in [Req -> PayRow] /\ RowsOK' /\ KeepsRows
    BY <1>0, <2>0, InsertOK DEF PayStatus
  <2>2. IsLate(req[r].inst) \in BOOLEAN
    BY DEF IsLate
  <2>3. h \in HandlerRow /\ h.pc = "installment" /\ h.pay = req[r].pay
        /\ h.op = req[r].op /\ h.inst = req[r].inst /\ h.amount = req[r].amount
        /\ h.paid = req[r].paid
    BY <1>0, <2>2 DEF HandlerRow, Where
  <2>5. req' = [req EXCEPT ![r] = h]
    BY <1>3 DEF RecordInsert
  <2>4. req[r].pc = "payment" /\ UNCHANGED <<inst, ledger, score, age, cron>>
    BY <1>3 DEF RecordInsert
  <2> HIDE DEF h
  <2>6. Moves(r, h)
    BY <1>1, <2>3, <2>4, <2>5 DEF Moves
  <2> QED
    BY <1>0, <2>1, <2>3, <2>4, <2>6, MoveIInv
<1>4. CASE VerifyPayment(r) \/ RejectPayment(r) \/ ReversePayment(r) \/ KonnectVerify(r)
  <2>1. PICK pc \in {"installment", "done"} :
          Goto(r, pc) /\ (pc = "done" => ~ Posts(r))
    BY <1>4 DEF VerifyPayment, RejectPayment, ReversePayment, KonnectVerify, Posts
  <2>2. req[r].pc = "payment" /\ UNCHANGED <<inst, ledger, score, age, cron>>
    BY <1>4 DEF VerifyPayment, RejectPayment, ReversePayment, KonnectVerify
  <2>3. PICK p \in Req : p = req[r].pay /\ pay[p].status # "absent"
    <3>1. req[r].op \in {"verify", "reject", "reverse", "webhook"}
      BY <1>4 DEF VerifyPayment, RejectPayment, ReversePayment, KonnectVerify
    <3> QED
      BY <1>1, <1>2, <2>2, <3>1
  <2>4. Claimed(p) \in Amount
    BY <1>0, <2>3, ClaimedInAmount
  <2>5. PICK s \in {"verified", "rejected", "reversed"}, a \in {Claimed(p), pay[p].amount} :
          pay' = [pay EXCEPT ![p].status = s, ![p].amount = a]
    BY <1>0, <1>4, <2>3 DEF VerifyPayment, RejectPayment, ReversePayment, KonnectVerify, PayRow
  <2>6. pay' \in [Req -> PayRow] /\ RowsOK' /\ KeepsRows
    <3>1. pay[p] \in PayRow /\ pay[p].inst \in Installment
          /\ pay[p].amount \in Amount /\ pay[p].claimed \in Amount \cup {0}
      BY <1>0, <2>3 DEF RowsOK
    <3>2. a \in Amount
      BY <2>4, <3>1
    <3>3. pay'[p] = [pay[p] EXCEPT !.status = s, !.amount = a]
          /\ \A q \in Req : q # p => pay'[q] = pay[q]
      BY <1>0, <2>5
    <3>4. pay'[p] \in PayRow /\ pay'[p].inst \in Installment /\ pay'[p].amount \in Amount
          /\ pay'[p].claimed \in Amount \cup {0} /\ pay'[p].status # "absent"
      BY <3>1, <3>2, <3>3, AmountAssumption DEF PayRow, PayStatus
    <3>5. pay' \in [Req -> PayRow]
      BY <1>0, <2>5, <3>3, <3>4
    <3> QED
      BY <1>0, <3>3, <3>4, <3>5 DEF RowsOK, KeepsRows
  <2>7. Moves(r, [req[r] EXCEPT !.pc = pc])
    BY <1>0, <2>1, <2>2, GotoMoves DEF Where
  <2> QED
    BY <1>0, <2>1, <2>2, <2>6, <2>7, MoveIInv DEF HandlerRow
<1>5. CASE SubmitFind(r)
  <2>1. req[r].pc = "existing" /\ req[r].op = "submit"
        /\ UNCHANGED <<inst, pay, ledger, score, age, cron>>
    BY <1>5 DEF SubmitFind
  <2>2. CASE \E p \in Req :
               /\ PendingReceipt(p, req[r].inst)
               /\ req' = [req EXCEPT ![r].pc = "update", ![r].pay = p]
    <3>1. PICK p \in Req : /\ pay[p].status # "absent"
                           /\ req' = [req EXCEPT ![r].pc = "update", ![r].pay = p]
      BY <2>2 DEF PendingReceipt
    <3> DEFINE h == [req[r] EXCEPT !.pc = "update", !.pay = p]
    <3>2. Moves(r, h) /\ h.pc = "update" /\ h.pay = p
      BY <1>0, <1>1, <2>1, <3>1 DEF Moves, HandlerRow, Where
    <3> HIDE DEF h
    <3> QED
      BY <1>0, <2>1, <3>1, <3>2, MoveIInv
  <2>3. CASE Goto(r, "insert")
    <3>1. Moves(r, [req[r] EXCEPT !.pc = "insert"])
      BY <1>0, <2>1, <2>3, GotoMoves DEF Where
    <3> QED
      BY <1>0, <2>1, <3>1, MoveIInv DEF HandlerRow
  <2> QED
    BY <1>5, <2>2, <2>3 DEF SubmitFind
<1>6. CASE SubmitUpdate(r) \/ SubmitInsert(r)
  <2>1. /\ req[r].pc \in {"update", "insert"} /\ req[r].op = "submit" /\ Goto(r, "done")
        /\ UNCHANGED <<inst, ledger, score, age, cron>>
    BY <1>6 DEF SubmitUpdate, SubmitInsert
  <2>2. pay' \in [Req -> PayRow] /\ RowsOK' /\ KeepsRows
    <3>1. CASE SubmitUpdate(r)
      BY <1>0, <1>1, <1>2, <3>1 DEF SubmitUpdate, PayRow, PayStatus, RowsOK, KeepsRows
    <3>2. CASE SubmitInsert(r)
      <4>1. /\ req[r].inst \in Installment /\ req[r].amount \in Amount
            /\ pay' = [pay EXCEPT ![r] = Row(req[r].inst, "receipt_uploaded",
                                             req[r].amount, req[r].amount)]
        BY <1>1, <3>2 DEF SubmitInsert
      <4> QED
        BY <1>0, <4>1, InsertOK DEF PayStatus
    <3> QED
      BY <1>6, <3>1, <3>2
  <2>3. Moves(r, [req[r] EXCEPT !.pc = "done"])
    BY <1>0, <2>1, GotoMoves DEF Where
  <2> QED
    BY <1>0, <2>1, <2>2, <2>3, MoveIInv DEF HandlerRow, Posts
<1> QED
  BY <1>3, <1>4, <1>5, <1>6


\* Writing one installment row that is sound keeps all of them sound.
LEMMA WriteOK ==
  ASSUME Tables, NEW i \in Installment, NEW row \in InstRow,
         row.paid <= Due[i], row.status = "paid" <=> row.paid = Due[i],
         inst' = [inst EXCEPT ![i] = row]
  PROVE  inst' \in [Installment -> InstRow] /\ InstallmentsOK'
BY DEF Tables, TypeOK, InstallmentsOK, NeverOverpaid, PaidIffFull

\* The three statements that move money of an installment.
LEMMA InstallmentIInv ==
  ASSUME IInv, NEW r \in Req,
         CreditInstallment(r) \/ RevertInstallment(r) \/ KonnectSettle(r)
  PROVE  IInv'
<1> USE AmountAssumption DEF At
<1> DEFINE i == req[r].inst
           a == req[r].amount
<1>0. /\ pay \in [Req -> PayRow] /\ RowsOK /\ Tables /\ inst \in [Installment -> InstRow]
      /\ req[r] \in HandlerRow
      /\ pay' = pay => pay' \in [Req -> PayRow] /\ RowsOK' /\ KeepsRows
  BY DEF IInv, Tables, TypeOK, RowsOK, KeepsRows
<1>1. /\ req[r].pc = "installment" /\ req[r].op \in {"record", "verify", "reverse", "webhook"}
      /\ UNCHANGED <<pay, ledger, score, age, cron>>
  BY DEF CreditInstallment, RevertInstallment, KonnectSettle
<1>2. /\ i \in Installment /\ req[r].pay \in Req /\ a \in Amount /\ Posts(r)
      /\ req[r].op \in {"record", "verify"} => req[r].paid + a <= Due[i]
  BY <1>0, <1>1 DEF Tables, HandlersOK, Posts
<1>3. a \in Nat /\ a > 0 /\ Due[i] \in Nat /\ Due[i] > 0 /\ req[r].paid \in Nat
  BY <1>0, <1>2 DEF HandlerRow
<1>4. inst[i].paid \in Nat /\ inst[i].paid <= Due[i]
  BY <1>0, <1>2 DEF InstRow, Tables, InstallmentsOK, NeverOverpaid
<1>5. inst' \in [Installment -> InstRow] /\ InstallmentsOK'
  <2>1. CASE CreditInstallment(r)
    <3> DEFINE row == Credited(i, req[r].paid + a)
    <3>1. /\ row \in InstRow /\ row.paid <= Due[i]
          /\ row.status = "paid" <=> row.paid = Due[i]
      BY <1>2, <1>3, <2>1 DEF CreditInstallment, Credited, InstRow, InstStatus
    <3>2. inst' = [inst EXCEPT ![i] = row]
      BY <2>1 DEF CreditInstallment
    <3> HIDE DEF row
    <3> QED
      BY <1>0, <1>2, <3>1, <3>2, WriteOK
  <2>2. CASE RevertInstallment(r)
    <3> DEFINE row == Reverted(i, a)
    <3>1. /\ row \in InstRow /\ row.paid <= Due[i]
          /\ row.status = "paid" <=> row.paid = Due[i]
      BY <1>3, <1>4 DEF Reverted, InstRow, InstStatus
    <3>2. inst' = [inst EXCEPT ![i] = row]
      BY <2>2 DEF RevertInstallment
    <3> HIDE DEF row
    <3> QED
      BY <1>0, <1>2, <3>1, <3>2, WriteOK
  <2>3. CASE KonnectSettle(r)
    <3> DEFINE row == [paid |-> Due[i], status |-> "paid"]
    <3>1. /\ row \in InstRow /\ row.paid <= Due[i]
          /\ row.status = "paid" <=> row.paid = Due[i]
      BY <1>3 DEF InstRow, InstStatus
    <3>2. inst' = [inst EXCEPT ![i] = row]
      BY <2>3 DEF KonnectSettle
    <3> HIDE DEF row
    <3> QED
      BY <1>0, <1>2, <3>1, <3>2, WriteOK
  <2> QED
    BY <2>1, <2>2, <2>3
<1>6. PICK full \in BOOLEAN : req' = [req EXCEPT ![r].pc = "debit", ![r].full = full]
  <2>1. CASE CreditInstallment(r)
    BY <2>1 DEF CreditInstallment
  <2>2. CASE RevertInstallment(r)
    <3>1. req[r] = [req[r] EXCEPT !.full = req[r].full]
      BY <1>0 DEF HandlerRow
    <3>2. req' = [req EXCEPT ![r].pc = "debit", ![r].full = req[r].full]
      BY <1>0, <2>2, <3>1 DEF RevertInstallment, Goto, HandlerRow, Tables, TypeOK
    <3> QED
      BY <1>0, <3>2 DEF HandlerRow
  <2>3. CASE KonnectSettle(r)
    BY <2>3 DEF KonnectSettle
  <2> QED
    BY <2>1, <2>2, <2>3
<1> DEFINE h == [req[r] EXCEPT !.pc = "debit", !.full = full]
<1>7. h \in HandlerRow /\ h.pc = "debit" /\ h.pay = req[r].pay
      /\ h.op = req[r].op /\ h.inst = req[r].inst /\ h.amount = req[r].amount
      /\ h.paid = req[r].paid
  BY <1>0 DEF HandlerRow, Where
<1>8. req' = [req EXCEPT ![r] = h]
  BY <1>6
<1> HIDE DEF h, i, a
<1>9. Moves(r, h)
  BY <1>1, <1>2, <1>7, <1>8 DEF Moves
<1> QED
  BY <1>0, <1>1, <1>5, <1>7, <1>9, MoveIInv

\* The daily job and the calendar: a sweep flags no installment that is paid
\* and pays none.
LEMMA SweepOK ==
  ASSUME Tables, NEW hit \in SUBSET Installment, NEW status \in InstStatus \ {"paid"},
         \A i \in hit : inst[i].status # "paid",
         Sweep(hit, status)
  PROVE  inst' \in [Installment -> InstRow] /\ InstallmentsOK'
<1>1. inst \in [Installment -> InstRow]
  BY DEF Tables, TypeOK
<1>2. \A i \in Installment : /\ inst'[i] \in InstRow
                             /\ inst'[i].paid = inst[i].paid
                             /\ inst'[i].status = IF i \in hit THEN status ELSE inst[i].status
  BY <1>1 DEF Sweep, InstRow
<1>3. inst' \in [Installment -> InstRow]
  BY <1>1, <1>2 DEF Sweep
<1>4. InstallmentsOK'
  BY <1>2 DEF Tables, InstallmentsOK, NeverOverpaid, PaidIffFull
<1> QED
  BY <1>3, <1>4

\* Nothing the handlers and the ledger hold depends on the calendar.
LEMMA CalendarIInv ==
  ASSUME IInv, inst' \in [Installment -> InstRow], InstallmentsOK',
         score' \subseteq ScoreRow, age' \in [Installment -> Nat],
         cron' \in {"due_soon", "due_today", "late", "default_risk"},
         UNCHANGED <<pay, ledger, req>>
  PROVE  IInv'
<1>1. TypeOK'
  BY DEF IInv, Tables, TypeOK
<1>2. RowsOK' /\ HandlersOK' /\ TargetsOK'
  BY DEF IInv, Tables, RowsOK, HandlersOK, TargetsOK, Posts
<1>3. LedgerOK'
  BY DEF IInv, LedgerOK, Entry, DebitAccount, CreditAccount, Posts
<1> QED
  BY <1>1, <1>2, <1>3 DEF IInv, Tables

LEMMA CronIInv ==
  ASSUME IInv, Cron
  PROVE  IInv'
<1> USE DEF InstStatus
<1>0. Tables /\ score \subseteq ScoreRow /\ age \in [Installment -> Nat]
  BY DEF IInv, Tables, TypeOK
<1>1. CASE CronDueSoon
  <2> DEFINE hit == {i \in Installment : inst[i].status = "pending" /\ age[i] = Soon}
  <2>2. Sweep(hit, "due_soon") /\ \A i \in hit : inst[i].status # "paid"
    BY <1>1 DEF CronDueSoon
  <2> HIDE DEF hit
  <2>3. hit \in SUBSET Installment
    BY DEF hit
  <2>1. inst' \in [Installment -> InstRow] /\ InstallmentsOK'
    BY <1>0, <2>2, <2>3, SweepOK
  <2> QED
    BY <1>0, <1>1, <2>1, CalendarIInv DEF CronDueSoon
<1>2. CASE CronDueToday
  <2>1. inst' \in [Installment -> InstRow] /\ InstallmentsOK'
    BY <1>0, <1>2, SweepOK DEF CronDueToday
  <2> QED
    BY <1>0, <1>2, <2>1, CalendarIInv DEF CronDueToday
<1>3. CASE CronLate
  <2>1. inst' \in [Installment -> InstRow] /\ InstallmentsOK'
    <3> DEFINE hit == {i \in Installment : NewlyLate(i)}
    <3>1. Sweep(hit, "late") /\ \A i \in hit : inst[i].status # "paid"
      BY <1>3 DEF CronLate, NewlyLate
    <3> HIDE DEF hit
    <3>2. hit \in SUBSET Installment
      BY DEF hit
    <3> QED
      BY <1>0, <3>1, <3>2, SweepOK
  <2>2. score' \subseteq ScoreRow
    BY <1>0, <1>3 DEF CronLate, ScoreRow, ScoreEvent, Code
  <2> QED
    BY <1>0, <1>3, <2>1, <2>2, CalendarIInv DEF CronLate
<1>4. CASE CronDefaultRisk
  <2>1. inst' \in [Installment -> InstRow] /\ InstallmentsOK'
    BY <1>0, <1>4, SweepOK DEF CronDefaultRisk
  <2> QED
    BY <1>0, <1>4, <2>1, CalendarIInv DEF CronDefaultRisk
<1> QED
  BY <1>1, <1>2, <1>3, <1>4 DEF Cron

LEMMA TickIInv ==
  ASSUME IInv, NEW i \in Installment, Tick(i)
  PROVE  IInv'
<1>1. inst \in [Installment -> InstRow] /\ InstallmentsOK /\ score \subseteq ScoreRow
      /\ cron \in {"due_soon", "due_today", "late", "default_risk"}
  BY DEF IInv, Tables, TypeOK
<1>2. inst' \in [Installment -> InstRow] /\ InstallmentsOK'
  BY <1>1 DEF Tick, InstallmentsOK, NeverOverpaid, PaidIffFull
<1>3. age' \in [Installment -> Nat]
  BY DEF IInv, Tables, TypeOK, Tick
<1> QED
  BY <1>1, <1>2, <1>3, CalendarIInv DEF Tick


\* The step of r that posts e, the next entry of its batch, and moves on.
LEMMA PostOK ==
  ASSUME IInv, NEW r \in Req, NEW pc \in {"credit", "score", "done"},
         Goto(r, pc), Posts(r),
         \/ /\ req[r].pc = "debit" /\ pc = "credit"
            /\ ledger' = ledger \cup {Entry("debit", DebitAccount(r), r)}
         \/ /\ req[r].pc = "credit" /\ pc \in {"score", "done"}
            /\ ledger' = ledger \cup {Entry("credit", CreditAccount(r), r)}
         \/ /\ req[r].pc = "score" /\ pc = "done"
            /\ ledger' = ledger
  PROVE  LedgerOK'
<1>1. /\ req'[r].pc = pc /\ req'[r].op = req[r].op
      /\ req'[r].pay = req[r].pay /\ req'[r].amount = req[r].amount
      /\ \A q \in Req \ {r} : req'[q] = req[q]
  BY DEF Goto, IInv, Tables, TypeOK, HandlerRow
<1>2. \A q \in Req : /\ Posts(q)' = Posts(q)
                      /\ Entry("debit", DebitAccount(q), q)' = Entry("debit", DebitAccount(q), q)
                      /\ Entry("credit", CreditAccount(q), q)' = Entry("credit", CreditAccount(q), q)
  BY <1>1 DEF Posts, Entry, DebitAccount, CreditAccount
<1>3. \A e \in ledger : e.batch \in Req
  BY DEF IInv, Tables, TypeOK, LedgerRow
<1>4. /\ Entry("debit", DebitAccount(r), r).batch = r
      /\ Entry("credit", CreditAccount(r), r).batch = r
  BY DEF Entry
<1>5. \A e \in ledger' :
       /\ req'[e.batch].pc \in {"credit", "score", "done", "failed"}
       /\ \/ e = Entry("debit", DebitAccount(e.batch), e.batch)'
          \/ /\ e = Entry("credit", CreditAccount(e.batch), e.batch)'
             /\ req'[e.batch].pc # "credit"
             /\ Entry("debit", DebitAccount(e.batch), e.batch)' \in ledger'
  <2> SUFFICES ASSUME NEW e \in ledger'
               PROVE  /\ req'[e.batch].pc \in {"credit", "score", "done", "failed"}
                      /\ \/ e = Entry("debit", DebitAccount(e.batch), e.batch)'
                         \/ /\ e = Entry("credit", CreditAccount(e.batch), e.batch)'
                            /\ req'[e.batch].pc # "credit"
                            /\ Entry("debit", DebitAccount(e.batch), e.batch)' \in ledger'
    OBVIOUS
  <2>1. CASE e \in ledger
    <3>1. PICK q \in Req : q = e.batch
      BY <1>3, <2>1
    <3> QED
      BY <1>1, <1>2, <2>1, <3>1 DEF IInv, LedgerOK
  <2>2. CASE e \notin ledger
    <3>1. e.batch = r
      BY <1>4, <2>2
    <3> QED
      BY <1>1, <1>2, <2>2, <3>1 DEF IInv, LedgerOK
  <2> QED
    BY <2>1, <2>2
<1>6. \A q \in Req :
       (\/ req'[q].pc \in {"credit", "score"}
        \/ req'[q].pc = "done" /\ Posts(q)')
       => Entry("debit", DebitAccount(q), q)' \in ledger'
  BY <1>1, <1>2 DEF IInv, LedgerOK
<1>7. \A q \in Req :
       (\/ req'[q].pc = "score"
        \/ req'[q].pc = "done" /\ Posts(q)')
       => Entry("credit", CreditAccount(q), q)' \in ledger'
  BY <1>1, <1>2 DEF IInv, LedgerOK
<1> QED
  BY <1>5, <1>6, <1>7 DEF LedgerOK

\* What a move that touches no installment and no payment leaves to show.
LEMMA QuietIInv ==
  ASSUME IInv, NEW r \in Req, NEW pc \in Where, req[r].pc # "idle", pc # "idle",
         Goto(r, pc), pc = "update" => req[r].pc = "update",
         pc \in {"debit", "credit", "score"} => Posts(r),
         ledger' \subseteq LedgerRow, score' \subseteq ScoreRow, LedgerOK',
         UNCHANGED <<inst, pay, age, cron>>
  PROVE  IInv'
<1>1. req' \in [Req -> HandlerRow] /\ HandlersOK'
  BY GotoMoves, MoveOK DEF IInv
<1>2. /\ req'[r].pc = pc /\ req'[r].op = req[r].op /\ req'[r].pay = req[r].pay
      /\ \A q \in Req \ {r} : req'[q] = req[q]
  BY DEF Goto, IInv, Tables, TypeOK, HandlerRow
<1>3. TargetsOK'
  BY <1>2 DEF IInv, TargetsOK
<1>4. RowsOK' /\ InstallmentsOK'
  BY DEF IInv, Tables, RowsOK, InstallmentsOK, NeverOverpaid, PaidIffFull
<1>5. TypeOK'
  BY <1>1 DEF IInv, Tables, TypeOK
<1> QED
  BY <1>1, <1>3, <1>4, <1>5 DEF IInv, Tables

LEMMA PostingIInv ==
  ASSUME IInv, NEW r \in Req, LedgerDebit(r) \/ LedgerCredit(r) \/ RecordScore(r)
  PROVE  IInv'
<1>0. /\ req[r] \in HandlerRow /\ ledger \subseteq LedgerRow /\ score \subseteq ScoreRow
  BY DEF IInv, Tables, TypeOK
<1>1. req[r].pc \in {"debit", "credit", "score"} /\ UNCHANGED <<inst, pay, age, cron>>
  BY DEF LedgerDebit, LedgerCredit, RecordScore
<1>2. req[r].inst \in Installment /\ req[r].pay \in Req /\ Posts(r)
  BY <1>1 DEF IInv, Tables, HandlersOK
<1>3. /\ Entry("debit", DebitAccount(r), r) \in LedgerRow
      /\ Entry("credit", CreditAccount(r), r) \in LedgerRow
  BY <1>0, <1>2 DEF Entry, DebitAccount, CreditAccount, LedgerRow, HandlerRow
<1>4. CASE LedgerDebit(r)
  <2>1. LedgerOK'
    BY <1>2, <1>4, PostOK DEF LedgerDebit
  <2> QED
    BY <1>0, <1>1, <1>2, <1>3, <1>4, <2>1, QuietIInv DEF LedgerDebit, Where
<1>5. CASE LedgerCredit(r)
  <2>1. PICK pc \in {"score", "done"} : Goto(r, pc)
    BY <1>5 DEF LedgerCredit
  <2>2. LedgerOK'
    BY <1>2, <1>5, <2>1, PostOK DEF LedgerCredit
  <2> QED
    BY <1>0, <1>1, <1>2, <1>3, <1>5, <2>1, <2>2, QuietIInv DEF LedgerCredit, Where
<1>6. CASE RecordScore(r)
  <2>1. LedgerOK'
    BY <1>2, <1>6, PostOK DEF RecordScore
  <2>2. score' \subseteq ScoreRow
    BY <1>0, <1>2, <1>6 DEF RecordScore, ScoreEvent, ScoreRow, Code
  <2> QED
    BY <1>0, <1>1, <1>2, <1>6, <2>1, <2>2, QuietIInv DEF RecordScore, Where
<1> QED
  BY <1>4, <1>5, <1>6

LEMMA FailIInv ==
  ASSUME IInv, NEW r \in Req, Fail(r)
  PROVE  IInv'
<1>1. /\ req[r].pc \notin {"idle", "done", "failed"} /\ Goto(r, "failed")
      /\ UNCHANGED <<inst, pay, ledger, score, age, cron>>
  BY DEF Fail, InFlight
<1>2. /\ req'[r].pc = "failed" /\ req'[r].op = req[r].op
      /\ req'[r].pay = req[r].pay /\ req'[r].amount = req[r].amount
      /\ \A q \in Req \ {r} : req'[q] = req[q]
  BY <1>1 DEF Goto, IInv, Tables, TypeOK, HandlerRow
<1>3. \A q \in Req : /\ Posts(q)' = Posts(q)
                      /\ Entry("debit", DebitAccount(q), q)' = Entry("debit", DebitAccount(q), q)
                      /\ Entry("credit", CreditAccount(q), q)' = Entry("credit", CreditAccount(q), q)
  BY <1>2 DEF Posts, Entry, DebitAccount, CreditAccount
<1>4. \A e \in ledger : e.batch \in Req
  BY DEF IInv, Tables, TypeOK, LedgerRow
<1>5. LedgerOK'
  BY <1>1, <1>2, <1>3, <1>4 DEF IInv, LedgerOK
<1> QED
  BY <1>1, <1>5, QuietIInv DEF Where, IInv, Tables, TypeOK

\* The invariant is inductive.
LEMMA NextIInv == IInv /\ [Next]_vars => IInv'
<1> SUFFICES ASSUME IInv, [Next]_vars PROVE IInv'
  OBVIOUS
<1>1. ASSUME NEW r \in Req, Start(r) PROVE IInv'
  BY <1>1, StartIInv
<1>2. ASSUME NEW r \in Req, Continue(r) PROVE IInv'
  BY <1>2, PaymentIInv, InstallmentIInv, PostingIInv DEF Continue
<1>3. ASSUME NEW r \in Req, Fail(r) PROVE IInv'
  BY <1>3, FailIInv
<1>4. ASSUME NEW i \in Installment, Tick(i) PROVE IInv'
  BY <1>4, TickIInv
<1>5. CASE Cron
  BY <1>5, CronIInv
<1>6. CASE UNCHANGED vars
  <2>1. InstallmentsOK' /\ inst' \in [Installment -> InstRow]
    BY <1>6 DEF vars, IInv, Tables, TypeOK, InstallmentsOK, NeverOverpaid, PaidIffFull
  <2> QED
    BY <1>6, <2>1, CalendarIInv DEF vars, IInv, Tables, TypeOK
<1> QED
  BY <1>1, <1>2, <1>3, <1>4, <1>5, <1>6 DEF Next

LEMMA Invariance == Spec => []IInv
<1> QED
  BY InitIInv, NextIInv, PTL DEF Spec

-------------------------------------------------------------------------------
\* The tables and the handlers always have the shape the code gives them.
THEOREM TypeCorrect == Spec => []TypeOK
<1>1. IInv => TypeOK
  BY DEF IInv, Tables
<1> QED
  BY <1>1, Invariance, PTL

\* No interleaving and no failure of the handlers of payments.service.ts and
\* of the gateway's webhook makes an installment show more than its amount.
THEOREM NoOverpayment == Spec => []NeverOverpaid
<1>1. IInv => NeverOverpaid
  BY DEF IInv, Tables, InstallmentsOK
<1> QED
  BY <1>1, Invariance, PTL

\* Nor does the status ever disagree with the amount on what is paid off.
THEOREM PaidExactlyWhenFull == Spec => []PaidIffFull
<1>1. IInv => PaidIffFull
  BY DEF IInv, Tables, InstallmentsOK
<1> QED
  BY <1>1, Invariance, PTL

\* A finished handler leaves both entries of its batch, and a handler that
\* died never leaves a credit alone.
THEOREM DoubleEntry == Spec => []LedgerBalanced
<1>1. IInv => LedgerBalanced
  <2> SUFFICES ASSUME IInv PROVE LedgerBalanced
    OBVIOUS
  <2>1. ASSUME NEW r \in Req, req[r].pc = "done", Posts(r)
        PROVE  \E d, c \in ledger :
                 d.batch = r /\ c.batch = r /\ d.type = "debit" /\ c.type = "credit"
    <3>1. /\ Entry("debit", DebitAccount(r), r) \in ledger
          /\ Entry("credit", CreditAccount(r), r) \in ledger
      BY <2>1 DEF IInv, LedgerOK
    <3>2. /\ Entry("debit", DebitAccount(r), r).batch = r
          /\ Entry("debit", DebitAccount(r), r).type = "debit"
          /\ Entry("credit", CreditAccount(r), r).batch = r
          /\ Entry("credit", CreditAccount(r), r).type = "credit"
      BY DEF Entry
    <3> QED
      BY <3>1, <3>2
  <2>2. ASSUME NEW c \in ledger, c.type = "credit"
        PROVE  \E d \in ledger : /\ d.batch = c.batch /\ d.type = "debit"
                                 /\ d.payment = c.payment /\ d.amount = c.amount
                                 /\ d.account # c.account
    <3> DEFINE d == Entry("debit", DebitAccount(c.batch), c.batch)
    <3>1. c = Entry("credit", CreditAccount(c.batch), c.batch) /\ d \in ledger
      BY <2>2 DEF IInv, LedgerOK, Entry
    <3>2. /\ d.batch = c.batch /\ d.type = "debit"
          /\ d.payment = c.payment /\ d.amount = c.amount
          /\ d.account # c.account
      <4>1. /\ c.payment = req[c.batch].pay /\ c.amount = req[c.batch].amount
            /\ c.account = CreditAccount(c.batch)
        BY <3>1 DEF Entry
      <4> QED
        BY <4>1 DEF Entry, DebitAccount, CreditAccount
    <3> QED
      BY <3>1, <3>2
  <2> QED
    BY <2>1, <2>2 DEF LedgerBalanced
<1> QED
  BY <1>1, Invariance, PTL

-------------------------------------------------------------------------------
(***************************************************************************)
(* What holds of the books when requests are served one after the other.    *)
(***************************************************************************)
OneAtATime == \A p, q \in InFlight : p = q

\* What the handler at work knows of its installment and of its payment row
\* is what they are.
Steady(r) ==
  /\ req[r].pc \in {"idle", "existing", "insert"} => pay[r].status = "absent"
  /\ req[r].op = "record" => req[r].pay = r
  /\ req[r].op = "record" /\ req[r].pc = "payment" => pay[r].status = "absent"
  /\ req[r].op \in {"record", "verify"} /\ req[r].pc \in {"payment", "installment"} =>
       req[r].paid = inst[req[r].inst].paid
  /\ req[r].op = "verify" /\ req[r].pc = "payment" =>
       /\ Verifiable(req[r].pay) /\ pay[req[r].pay].inst = req[r].inst
       /\ req[r].amount = Claimed(req[r].pay)
  /\ req[r].op = "reject" /\ req[r].pc = "payment" => Rejectable(req[r].pay)
  /\ req[r].op = "reverse" /\ req[r].pc = "payment" =>
       /\ Reversible(req[r].pay) /\ pay[req[r].pay].inst = req[r].inst
       /\ req[r].amount = pay[req[r].pay].amount
  /\ req[r].op = "webhook" /\ req[r].pc = "payment" => AwaitingGateway(req[r].pay, req[r].inst)
  /\ req[r].pc = "update" => PendingReceipt(req[r].pay, req[r].inst)
  /\ req[r].pc = "insert" => \A p \in Req : ~PendingReceipt(p, req[r].inst)
  /\ req[r].pc \in {"installment", "debit", "credit"} =>
       pay[req[r].pay].status # "absent" /\ pay[req[r].pay].inst = req[r].inst

SInv == IInv /\ OneAtATime /\ (\A r \in Req : Steady(r)) /\ OnePendingReceipt

-------------------------------------------------------------------------------
(***************************************************************************)
(* How a handler moves.                                                     *)
(***************************************************************************)
Others(r) == \A q \in Req \ {r} : req'[q] = req[q]

Keeps(r) == /\ req'[r].op = req[r].op /\ req'[r].inst = req[r].inst
            /\ req'[r].amount = req[r].amount /\ req'[r].paid = req[r].paid

LEMMA BeginsAs ==
  ASSUME IInv, NEW r \in Req, NEW h, Begin(r, h)
  PROVE  req'[r] = h /\ Others(r)
BY DEF Begin, Others, IInv, Tables, TypeOK

LEMMA GoesTo ==
  ASSUME IInv, NEW r \in Req, NEW pc, Goto(r, pc)
  PROVE  req'[r].pc = pc /\ Keeps(r) /\ req'[r].pay = req[r].pay /\ Others(r)
<1>1. req \in [Req -> HandlerRow] /\ req[r] \in HandlerRow
  BY DEF IInv, Tables, TypeOK
<1>2. req'[r] = [req[r] EXCEPT !.pc = pc]
  BY <1>1 DEF Goto
<1>3. req'[r].pc = pc /\ Keeps(r) /\ req'[r].pay = req[r].pay
  BY <1>1, <1>2 DEF HandlerRow, Keeps
<1> QED
  BY <1>1, <1>3 DEF Others, Goto

LEMMA StartsAlone ==
  ASSUME IsFiniteSet(Req), MaxInFlight <= 1, NEW r \in Req, Start(r)
  PROVE  InFlight = {} /\ req[r].pc = "idle"
<1>1. Cardinality(InFlight) < MaxInFlight /\ req[r].pc = "idle"
  BY DEF Start, RecordRead, VerifyRead, RejectRead, ReverseRead, SubmitRead, KonnectInitiate,
         KonnectRead, CanStart
<1>2. IsFiniteSet(InFlight)
  BY FS_Subset DEF InFlight
<1>3. Cardinality(InFlight) \in Nat /\ MaxInFlight \in Nat
  BY <1>2, FS_CardinalityType, BoundAssumption
<1>4. Cardinality(InFlight) = 0
  BY <1>1, <1>3
<1> QED
  BY <1>1, <1>2, <1>4, FS_EmptySet

LEMMA ContinuesAtWork ==
  ASSUME NEW r \in Req, Continue(r) \/ Fail(r)
  PROVE  r \in InFlight
<1>1. CASE RecordInsert(r) \/ VerifyPayment(r) \/ CreditInstallment(r)
             \/ RejectPayment(r) \/ ReversePayment(r) \/ RevertInstallment(r) \/ Fail(r)
  BY <1>1 DEF InFlight, At, RecordInsert, VerifyPayment, CreditInstallment, RejectPayment,
              ReversePayment, RevertInstallment, Fail
<1>2. CASE SubmitFind(r) \/ SubmitUpdate(r) \/ SubmitInsert(r) \/ KonnectVerify(r)
             \/ KonnectSettle(r) \/ LedgerDebit(r) \/ LedgerCredit(r) \/ RecordScore(r)
  BY <1>2 DEF InFlight, At, SubmitFind, SubmitUpdate, SubmitInsert, KonnectVerify, KonnectSettle,
              LedgerDebit, LedgerCredit, RecordScore
<1> QED
  BY <1>1, <1>2 DEF Continue

LEMMA StepOthers ==
  ASSUME IInv, NEW r \in Req, Start(r) \/ Continue(r) \/ Fail(r)
  PROVE  Others(r)
<1> USE DEF Others, Begin, Goto, IInv, Tables, TypeOK
<1>1. CASE Start(r)
  BY <1>1 DEF Start, RecordRead, VerifyRead, RejectRead, ReverseRead, SubmitRead, KonnectInitiate,
              KonnectRead
<1>2. CASE RecordInsert(r) \/ VerifyPayment(r) \/ CreditInstallment(r)
             \/ RejectPayment(r) \/ ReversePayment(r) \/ RevertInstallment(r) \/ Fail(r)
  BY <1>2 DEF RecordInsert, VerifyPayment, CreditInstallment, RejectPayment, ReversePayment,
              RevertInstallment, Fail
<1>3. CASE SubmitFind(r) \/ SubmitUpdate(r) \/ SubmitInsert(r) \/ KonnectVerify(r)
             \/ KonnectSettle(r) \/ LedgerDebit(r) \/ LedgerCredit(r) \/ RecordScore(r)
  BY <1>3 DEF SubmitFind, SubmitUpdate, SubmitInsert, KonnectVerify, KonnectSettle,
              LedgerDebit, LedgerCredit, RecordScore
<1> QED
  BY <1>1, <1>2, <1>3 DEF Continue

\* The handler that takes a step is the only one at work after it.
LEMMA Alone ==
  ASSUME IsFiniteSet(Req), MaxInFlight <= 1, IInv, OneAtATime,
         NEW r \in Req, Start(r) \/ Continue(r) \/ Fail(r)
  PROVE  /\ Others(r)
         /\ \A q \in InFlight : q = r /\ ~Start(r)
         /\ \A q \in InFlight' : q = r
<1>1. Others(r)
  BY StepOthers
<1>2. \A q \in InFlight : q = r /\ ~Start(r)
  BY StartsAlone, ContinuesAtWork DEF OneAtATime
<1>3. \A q \in InFlight' : q = r
  BY <1>1, <1>2 DEF Others, InFlight
<1> QED
  BY <1>1, <1>2, <1>3

-------------------------------------------------------------------------------
(***************************************************************************)
(* The handler at work stays in step with the tables.                       *)
(***************************************************************************)
\* A row that is not there yet is written by the handler it is named after.
OwnRow(r) == \A q \in Req \ {r} : pay[q].status = "absent" => pay'[q] = pay[q]

Stays(r) == Steady(r)' /\ OwnRow(r) /\ OnePendingReceipt'

LEMMA StaysReads ==
  ASSUME SInv, NEW r \in Req,
         \/ RecordRead(r) \/ VerifyRead(r) \/ RejectRead(r) \/ ReverseRead(r)
         \/ SubmitRead(r) \/ KonnectRead(r)
  PROVE  Stays(r)
<1>0. IInv /\ UNCHANGED <<pay, inst>> /\ OnePendingReceipt
  BY DEF SInv, RecordRead, VerifyRead, RejectRead, ReverseRead, SubmitRead, KonnectRead
<1>1. req[r].pc = "idle"
  BY DEF RecordRead, VerifyRead, RejectRead, ReverseRead, SubmitRead, KonnectRead, CanStart
<1>2. pay[r].status = "absent"
  BY <1>1 DEF SInv, Steady
<1>3. OwnRow(r) /\ OnePendingReceipt'
  BY <1>0 DEF OwnRow, OnePendingReceipt
<1>4. CASE RecordRead(r)
  BY <1>0, <1>2, <1>3, <1>4, BeginsAs DEF RecordRead, Handler, Steady, Stays
<1>5. CASE VerifyRead(r)
  BY <1>0, <1>2, <1>3, <1>5, BeginsAs DEF VerifyRead, Handler, Steady, Stays, Verifiable, Claimed
<1>6. CASE RejectRead(r)
  BY <1>0, <1>2, <1>3, <1>6, BeginsAs DEF RejectRead, Handler, Steady, Stays, Rejectable
<1>7. CASE ReverseRead(r)
  BY <1>0, <1>2, <1>3, <1>7, BeginsAs DEF ReverseRead, Handler, Steady, Stays, Reversible, Accepted
<1>8. CASE SubmitRead(r)
  BY <1>0, <1>2, <1>3, <1>8, BeginsAs DEF SubmitRead, Handler, Steady, Stays
<1>9. CASE KonnectRead(r)
  BY <1>0, <1>2, <1>3, <1>9, BeginsAs DEF KonnectRead, Handler, Steady, Stays, AwaitingGateway
<1> QED
  BY <1>4, <1>5, <1>6, <1>7, <1>8, <1>9

\* What is written to one row of table payments.
LEMMA OneRow ==
  ASSUME IInv, NEW p \in Req, NEW row, pay' = [pay EXCEPT ![p] = row]
  PROVE  pay'[p] = row /\ \A q \in Req \ {p} : pay'[q] = pay[q]
BY DEF IInv, Tables, TypeOK

LEMMA StaysInserts ==
  ASSUME SInv, NEW r \in Req, RecordInsert(r) \/ SubmitInsert(r) \/ KonnectInitiate(r)
  PROVE  Stays(r)
<1>0. IInv /\ UNCHANGED inst /\ OnePendingReceipt /\ Steady(r)
  BY DEF SInv, RecordInsert, SubmitInsert, KonnectInitiate
<1>1. CASE RecordInsert(r)
  <2>1. req[r].op = "record" /\ req[r].pc = "payment"
    BY <1>1 DEF RecordInsert, At
  <2>2. pay[r].status = "absent" /\ req[r].pay = r
        /\ req[r].paid = inst[req[r].inst].paid
    BY <1>0, <2>1 DEF Steady
  <2>3. /\ pay'[r] = Row(req[r].inst, "confirmed", req[r].amount, 0)
        /\ \A q \in Req \ {r} : pay'[q] = pay[q]
    BY <1>0, <1>1, OneRow DEF RecordInsert
  <2>4. /\ req'[r].pc = "installment" /\ req'[r].op = "record" /\ req'[r].pay = r
        /\ req'[r].inst = req[r].inst /\ req'[r].paid = req[r].paid
    <3>1. req \in [Req -> HandlerRow] /\ req[r] \in HandlerRow
      BY <1>0 DEF IInv, Tables, TypeOK
    <3>2. PICK late : req'[r] = [req[r] EXCEPT !.pc = "installment", !.late = late]
      BY <1>1, <3>1 DEF RecordInsert
    <3> QED
      BY <2>1, <2>2, <3>1, <3>2 DEF HandlerRow
  <2>5. Steady(r)'
    BY <1>0, <2>2, <2>3, <2>4 DEF Steady, Row
  <2>6. OwnRow(r) /\ OnePendingReceipt'
    BY <1>0, <2>2, <2>3 DEF OwnRow, OnePendingReceipt, Row
  <2> QED
    BY <2>5, <2>6 DEF Stays
<1>2. CASE SubmitInsert(r)
  <2>1. req[r].pc = "insert" /\ req[r].op = "submit"
    BY <1>2 DEF SubmitInsert, At
  <2>2. pay[r].status = "absent" /\ \A p \in Req : ~PendingReceipt(p, req[r].inst)
    BY <1>0, <2>1 DEF Steady
  <2>3. /\ pay'[r] = Row(req[r].inst, "receipt_uploaded", req[r].amount, req[r].amount)
        /\ \A q \in Req \ {r} : pay'[q] = pay[q]
    BY <1>0, <1>2, OneRow DEF SubmitInsert
  <2>4. req'[r].pc = "done" /\ req'[r].op = "submit"
    BY <1>0, <1>2, <2>1, GoesTo DEF SubmitInsert, Keeps
  <2>5. Steady(r)'
    BY <2>4 DEF Steady
  <2>6. OwnRow(r) /\ OnePendingReceipt'
    BY <1>0, <2>2, <2>3 DEF OwnRow, OnePendingReceipt, PendingReceipt, Row
  <2> QED
    BY <2>5, <2>6 DEF Stays
<1>3. CASE KonnectInitiate(r)
  <2>1. PICK i \in Installment, a \in Amount :
          /\ pay' = [pay EXCEPT ![r] = Row(i, "konnect_pending", a, 0)]
          /\ Begin(r, Handler("initiate", "done", i, r, a, 0))
    BY <1>3 DEF KonnectInitiate
  <2>2. /\ pay'[r] = Row(i, "konnect_pending", a, 0)
        /\ \A q \in Req \ {r} : pay'[q] = pay[q]
    BY <1>0, <2>1, OneRow
  <2>3. req'[r].pc = "done" /\ req'[r].op = "initiate"
    BY <1>0, <2>1, BeginsAs DEF Handler
  <2>4. Steady(r)'
    BY <2>3 DEF Steady
  <2>5. OwnRow(r) /\ OnePendingReceipt'
    BY <1>0, <2>2 DEF OwnRow, OnePendingReceipt, Row
  <2> QED
    BY <2>4, <2>5 DEF Stays
<1> QED
  BY <1>1, <1>2, <1>3

\* What is rewritten is the status, the amount or the claim of a row that is
\* there.
LEMMA Rewrites ==
  ASSUME SInv, NEW r \in Req, r \in InFlight, NEW p \in Req, p = req[r].pay,
         req[r].op # "record", pay[p].status # "absent",
         \A q \in Req \ {p} : pay'[q] = pay[q],
         pay'[p].status # "absent", pay'[p].inst = pay[p].inst,
         pay'[p].status = "receipt_uploaded" => pay[p].status = "receipt_uploaded",
         UNCHANGED inst, Keeps(r), req'[r].pay = p,
         \/ req'[r].pc = "done"
         \/ /\ req'[r].pc = "installment"
            /\ pay[p].inst = req[r].inst
            /\ req[r].op = "verify" => req[r].paid = inst[req[r].inst].paid
  PROVE  Stays(r)
<1>1. OwnRow(r) /\ OnePendingReceipt'
  BY DEF SInv, OwnRow, OnePendingReceipt
<1>2. Steady(r)'
  BY DEF Steady, Keeps
<1> QED
  BY <1>1, <1>2 DEF Stays

LEMMA StaysRewrites ==
  ASSUME SInv, NEW r \in Req,
         \/ VerifyPayment(r) \/ RejectPayment(r) \/ ReversePayment(r) \/ KonnectVerify(r)
         \/ SubmitUpdate(r)
  PROVE  /\ Stays(r)
         /\ \A q \in Req \ {req[r].pay} : pay'[q] = pay[q]
         /\ req[r].pay \in Req /\ pay'[req[r].pay].inst = pay[req[r].pay].inst
         /\ \/ VerifyPayment(r) /\ pay'[req[r].pay].status = "verified"
            \/ RejectPayment(r) /\ pay'[req[r].pay].status = "rejected"
            \/ ReversePayment(r) /\ pay'[req[r].pay].status = "reversed"
            \/ KonnectVerify(r) /\ pay'[req[r].pay].status = "verified"
            \/ SubmitUpdate(r) /\ pay'[req[r].pay].status = "receipt_uploaded"
<1>0. /\ IInv /\ Steady(r) /\ pay \in [Req -> PayRow]
      /\ r \in InFlight /\ req[r].pc # "idle" /\ UNCHANGED inst
  BY ContinuesAtWork
  DEF SInv, IInv, Tables, TypeOK, Continue, InFlight, VerifyPayment, RejectPayment, ReversePayment,
      KonnectVerify, SubmitUpdate
<1>1. req[r].pay \in Req
  BY <1>0 DEF IInv, Tables, HandlersOK
<1>2. PICK p \in Req : p = req[r].pay
  BY <1>1
<1>3. pay[p] \in PayRow
  BY <1>0
<1>4. CASE VerifyPayment(r)
  <2>1. req[r].op = "verify" /\ req[r].pc = "payment"
    BY <1>4 DEF VerifyPayment, At
  <2>2. Verifiable(p) /\ pay[p].inst = req[r].inst /\ req[r].paid = inst[req[r].inst].paid
    BY <1>0, <1>2, <2>1 DEF Steady
  <2>3. pay' = [pay EXCEPT ![p] = [pay[p] EXCEPT !.status = "verified", !.amount = Claimed(p)]]
    BY <1>0, <1>2, <1>4 DEF VerifyPayment
  <2>4. /\ pay'[p].status = "verified" /\ pay'[p].inst = pay[p].inst
        /\ \A q \in Req \ {p} : pay'[q] = pay[q]
    BY <1>0, <1>3, <2>3 DEF PayRow
  <2>5. req'[r].pc = "installment" /\ Keeps(r) /\ req'[r].pay = p
    BY <1>0, <1>2, <1>4, GoesTo DEF VerifyPayment
  <2>6. Stays(r)
    BY <1>0, <1>2, <2>1, <2>2, <2>4, <2>5, Rewrites DEF Verifiable
  <2> QED
    BY <1>2, <1>4, <2>4, <2>6
<1>5. CASE RejectPayment(r)
  <2>1. req[r].op = "reject" /\ req[r].pc = "payment"
    BY <1>5 DEF RejectPayment, At
  <2>2. Rejectable(p)
    BY <1>0, <1>2, <2>1 DEF Steady
  <2>3. pay' = [pay EXCEPT ![p] = [pay[p] EXCEPT !.status = "rejected"]]
    BY <1>0, <1>2, <1>5 DEF RejectPayment
  <2>4. /\ pay'[p].status = "rejected" /\ pay'[p].inst = pay[p].inst
        /\ \A q \in Req \ {p} : pay'[q] = pay[q]
    BY <1>0, <1>3, <2>3 DEF PayRow
  <2>5. req'[r].pc = "done" /\ Keeps(r) /\ req'[r].pay = p
    BY <1>0, <1>2, <1>5, GoesTo DEF RejectPayment
  <2>6. Stays(r)
    BY <1>0, <1>2, <2>1, <2>2, <2>4, <2>5, Rewrites DEF Rejectable
  <2> QED
    BY <1>2, <1>5, <2>4, <2>6
<1>6. CASE ReversePayment(r)
  <2>1. req[r].op = "reverse" /\ req[r].pc = "payment"
    BY <1>6 DEF ReversePayment, At
  <2>2. Reversible(p) /\ pay[p].inst = req[r].inst
    BY <1>0, <1>2, <2>1 DEF Steady
  <2>3. pay' = [pay EXCEPT ![p] = [pay[p] EXCEPT !.status = "reversed"]]
    BY <1>0, <1>2, <1>6 DEF ReversePayment
  <2>4. /\ pay'[p].status = "reversed" /\ pay'[p].inst = pay[p].inst
        /\ \A q \in Req \ {p} : pay'[q] = pay[q]
    BY <1>0, <1>3, <2>3 DEF PayRow
  <2>5. req'[r].pc = "installment" /\ Keeps(r) /\ req'[r].pay = p
    BY <1>0, <1>2, <1>6, GoesTo DEF ReversePayment
  <2>6. Stays(r)
    BY <1>0, <1>2, <2>1, <2>2, <2>4, <2>5, Rewrites DEF Reversible, Accepted
  <2> QED
    BY <1>2, <1>6, <2>4, <2>6
<1>7. CASE KonnectVerify(r)
  <2>1. req[r].op = "webhook" /\ req[r].pc = "payment"
    BY <1>7 DEF KonnectVerify, At
  <2>2. AwaitingGateway(p, req[r].inst)
    BY <1>0, <1>2, <2>1 DEF Steady
  <2>3. pay' = [pay EXCEPT ![p] = [pay[p] EXCEPT !.status = "verified"]]
    BY <1>0, <1>2, <1>7 DEF KonnectVerify
  <2>4. /\ pay'[p].status = "verified" /\ pay'[p].inst = pay[p].inst
        /\ \A q \in Req \ {p} : pay'[q] = pay[q]
    BY <1>0, <1>3, <2>3 DEF PayRow
  <2>5. req'[r].pc = "installment" /\ Keeps(r) /\ req'[r].pay = p
    BY <1>0, <1>2, <1>7, GoesTo DEF KonnectVerify
  <2>6. Stays(r)
    BY <1>0, <1>2, <2>1, <2>2, <2>4, <2>5, Rewrites DEF AwaitingGateway
  <2> QED
    BY <1>2, <1>7, <2>4, <2>6
<1>8. CASE SubmitUpdate(r)
  <2>1. req[r].op = "submit" /\ req[r].pc = "update"
    BY <1>8 DEF SubmitUpdate, At
  <2>2. PendingReceipt(p, req[r].inst)
    BY <1>0, <1>2, <2>1 DEF Steady
  <2>3. pay' = [pay EXCEPT ![p] = [pay[p] EXCEPT !.status = "receipt_uploaded",
                                                 !.claimed = req[r].amount]]
    BY <1>0, <1>2, <1>8 DEF SubmitUpdate
  <2>4. /\ pay'[p].status = "receipt_uploaded" /\ pay'[p].inst = pay[p].inst
        /\ \A q \in Req \ {p} : pay'[q] = pay[q]
    BY <1>0, <1>3, <2>3 DEF PayRow
  <2>5. req'[r].pc = "done" /\ Keeps(r) /\ req'[r].pay = p
    BY <1>0, <1>2, <1>8, GoesTo DEF SubmitUpdate
  <2>6. Stays(r)
    BY <1>0, <1>2, <2>1, <2>2, <2>4, <2>5, Rewrites DEF PendingReceipt
  <2> QED
    BY <1>2, <1>8, <2>4, <2>6
<1> QED
  BY <1>4, <1>5, <1>6, <1>7, <1>8

LEMMA StaysFind ==
  ASSUME SInv, NEW r \in Req, SubmitFind(r)
  PROVE  Stays(r)
<1>0. IInv /\ UNCHANGED <<pay, inst>> /\ OnePendingReceipt /\ Steady(r)
  BY DEF SInv, SubmitFind
<1>1. req[r].pc = "existing" /\ req[r].op = "submit" /\ pay[r].status = "absent"
  BY <1>0 DEF SubmitFind, At, Steady
<1>2. OwnRow(r) /\ OnePendingReceipt'
  BY <1>0 DEF OwnRow, OnePendingReceipt
<1>3. CASE \E p \in Req : /\ PendingReceipt(p, req[r].inst)
                          /\ req' = [req EXCEPT ![r].pc = "update", ![r].pay = p]
  <2>1. PICK p \in Req : /\ PendingReceipt(p, req[r].inst)
                         /\ req' = [req EXCEPT ![r].pc = "update", ![r].pay = p]
    BY <1>3
  <2>2. req \in [Req -> HandlerRow] /\ req[r] \in HandlerRow
    BY <1>0 DEF IInv, Tables, TypeOK
  <2>3. req'[r] = [req[r] EXCEPT !.pc = "update", !.pay = p]
    BY <2>1, <2>2
  <2>4. /\ req'[r].pc = "update" /\ req'[r].pay = p /\ req'[r].inst = req[r].inst
        /\ req'[r].op = "submit"
    BY <1>1, <2>2, <2>3 DEF HandlerRow
  <2>5. Steady(r)'
    BY <1>0, <2>1, <2>4 DEF Steady, PendingReceipt
  <2> QED
    BY <1>2, <2>5 DEF Stays
<1>4. CASE (\A p \in Req : ~PendingReceipt(p, req[r].inst)) /\ Goto(r, "insert")
  <2>1. req'[r].pc = "insert" /\ Keeps(r)
    BY <1>0, <1>4, GoesTo
  <2>2. Steady(r)'
    BY <1>0, <1>1, <1>4, <2>1 DEF Steady, Keeps, PendingReceipt
  <2> QED
    BY <1>2, <2>2 DEF Stays
<1> QED
  BY <1>3, <1>4 DEF SubmitFind

\* Once the payment row is written the handler only follows its own copy.
LEMMA StaysAfter ==
  ASSUME SInv, NEW r \in Req,
         \/ CreditInstallment(r) \/ RevertInstallment(r) \/ KonnectSettle(r)
         \/ LedgerDebit(r) \/ LedgerCredit(r) \/ RecordScore(r) \/ Fail(r)
  PROVE  Stays(r) /\ Keeps(r) /\ req'[r].pay = req[r].pay
<1>0. /\ IInv /\ UNCHANGED pay /\ OnePendingReceipt /\ Steady(r)
      /\ req \in [Req -> HandlerRow] /\ req[r] \in HandlerRow
  BY DEF SInv, CreditInstallment, RevertInstallment, KonnectSettle, LedgerDebit, LedgerCredit,
         RecordScore, Fail, IInv, Tables, TypeOK
<1>1. OwnRow(r) /\ OnePendingReceipt'
  BY <1>0 DEF OwnRow, OnePendingReceipt
<1>2. /\ req'[r].pc \in {"debit", "credit", "score", "done", "failed"}
      /\ req'[r].pc \in {"debit", "credit"} => req[r].pc \in {"installment", "debit"}
      /\ Keeps(r) /\ req'[r].pay = req[r].pay
  <2>1. CASE RevertInstallment(r) \/ LedgerDebit(r) \/ LedgerCredit(r) \/ RecordScore(r) \/ Fail(r)
    <3>1. PICK pc \in {"debit", "credit", "score", "done", "failed"} :
            Goto(r, pc) /\ (pc \in {"debit", "credit"} => req[r].pc \in {"installment", "debit"})
      BY <2>1 DEF RevertInstallment, LedgerDebit, LedgerCredit, RecordScore, Fail, At
    <3> QED
      BY <1>0, <3>1, GoesTo
  <2>2. CASE CreditInstallment(r) \/ KonnectSettle(r)
    <3>1. PICK full : req'[r] = [req[r] EXCEPT !.pc = "debit", !.full = full]
      BY <1>0, <2>2 DEF CreditInstallment, KonnectSettle
    <3>2. req[r].pc = "installment"
      BY <2>2 DEF CreditInstallment, KonnectSettle, At
    <3> QED
      BY <1>0, <3>1, <3>2 DEF HandlerRow, Keeps
  <2> QED
    BY <2>1, <2>2
<1>3. Steady(r)'
  BY <1>0, <1>2 DEF Steady, Keeps
<1> QED
  BY <1>1, <1>2, <1>3 DEF Stays

LEMMA StepStays ==
  ASSUME SInv, NEW r \in Req, Start(r) \/ Continue(r) \/ Fail(r)
  PROVE  Stays(r)
BY StaysReads, StaysInserts, StaysRewrites, StaysFind, StaysAfter DEF Start, Continue

\* The calendar moves no money and touches neither payments nor handlers.
LEMMA CalendarKeeps ==
  ASSUME IInv, Cron \/ \E i \in Installment : Tick(i)
  PROVE  /\ UNCHANGED <<pay, req, ledger>>
         /\ \A i \in Installment : inst'[i].paid = inst[i].paid
<1>1. inst \in [Installment -> InstRow]
  BY DEF IInv, Tables, TypeOK
<1>2. ASSUME NEW hit, NEW status, Sweep(hit, status)
      PROVE  \A i \in Installment : inst'[i].paid = inst[i].paid
  BY <1>1, <1>2 DEF Sweep, InstRow
<1> QED
  BY <1>2 DEF Cron, CronDueSoon, CronDueToday, CronLate, CronDefaultRisk, Tick

LEMMA InitSInv == Init => SInv
<1> SUFFICES ASSUME Init PROVE SInv
  OBVIOUS
<1>1. InFlight = {} /\ OnePendingReceipt /\ \A r \in Req : Steady(r)
  BY DEF Init, InFlight, Handler, Row, OnePendingReceipt, Steady
<1> QED
  BY <1>1, InitIInv DEF SInv, OneAtATime

LEMMA NextSInv ==
  ASSUME IsFiniteSet(Req), MaxInFlight <= 1, SInv, [Next]_vars
  PROVE  SInv'
<1>1. IInv'
  BY NextIInv DEF SInv
<1>2. CASE UNCHANGED vars
  BY <1>1, <1>2 DEF SInv, OneAtATime, InFlight, Steady, OnePendingReceipt, vars, Verifiable,
                    Rejectable, Reversible, Claimed, AwaitingGateway, PendingReceipt
<1>3. CASE Cron \/ \E i \in Installment : Tick(i)
  <2>1. /\ UNCHANGED <<pay, req, ledger>>
        /\ \A i \in Installment : inst'[i].paid = inst[i].paid
    BY <1>3, CalendarKeeps DEF SInv
  <2>2. ASSUME NEW r \in Req PROVE Steady(r)'
    <3>1. req[r].pc # "idle" => req[r].inst \in Installment
      BY DEF SInv, IInv, Tables, HandlersOK
    <3>2. Steady(r)
      BY DEF SInv
    <3> QED
      BY <2>1, <3>1, <3>2 DEF Steady, Verifiable,
         Rejectable, Reversible, Claimed, AwaitingGateway, PendingReceipt
  <2> QED
    BY <1>1, <2>1, <2>2 DEF SInv, OneAtATime, InFlight, OnePendingReceipt
<1>4. ASSUME NEW r \in Req, Start(r) \/ Continue(r) \/ Fail(r) PROVE SInv'
  <2>1. /\ Others(r)
        /\ \A q \in InFlight : q = r
        /\ \A q \in InFlight' : q = r
    BY <1>4, Alone DEF SInv
  <2>2. Stays(r)
    BY <1>4, StepStays
  <2>3. ASSUME NEW q \in Req, q # r PROVE Steady(q)'
    <3>1. req[q].pc \in {"idle", "done", "failed"} /\ req'[q] = req[q] /\ Steady(q)
      BY <2>1, <2>3 DEF InFlight, Others, SInv
    <3> QED
      BY <2>2, <2>3, <3>1 DEF Steady, Stays, OwnRow
  <2>4. \A q \in Req : Steady(q)'
    BY <2>2, <2>3 DEF Stays
  <2> QED
    BY <1>1, <2>1, <2>2, <2>4 DEF SInv, OneAtATime, Stays
<1> QED
  BY <1>2, <1>3, <1>4 DEF Next

LEMMA SerialInvariance ==
  ASSUME IsFiniteSet(Req), MaxInFlight <= 1
  PROVE  Spec => []SInv
<1>1. Init => SInv
  BY InitSInv
<1>2. SInv /\ [Next]_vars => SInv'
  BY NextSInv
<1> QED
  BY <1>1, <1>2, PTL DEF Spec

\* Served one after the other, uploads of a student never leave two receipts
\* under review for one installment.
THEOREM OneReceipt ==
  ASSUME IsFiniteSet(Req), MaxInFlight <= 1
  PROVE  Spec => []OnePendingReceipt
<1>1. SInv => OnePendingReceipt
  BY DEF SInv
<1>2. Spec => []SInv
  BY SerialInvariance
<1> QED
  BY <1>1, <1>2, PTL

\* What a step writes to table payments.
LEMMA PayWrites ==
  ASSUME NEW r \in Req, Start(r) \/ Continue(r) \/ Fail(r)
  PROVE  \/ UNCHANGED pay
         \/ RecordInsert(r) \/ SubmitInsert(r) \/ KonnectInitiate(r)
         \/ VerifyPayment(r) \/ RejectPayment(r) \/ ReversePayment(r) \/ KonnectVerify(r)
         \/ SubmitUpdate(r)
BY DEF Start, RecordRead, VerifyRead, RejectRead, ReverseRead, SubmitRead, KonnectRead,
       Continue, SubmitFind, CreditInstallment, RevertInstallment, KonnectSettle, LedgerDebit,
       LedgerCredit, RecordScore, Fail

\* The row a handler inserts was not there.
LEMMA Inserts ==
  ASSUME SInv, NEW r \in Req, RecordInsert(r) \/ SubmitInsert(r) \/ KonnectInitiate(r)
  PROVE  pay[r].status = "absent" /\ \A q \in Req \ {r} : pay'[q] = pay[q]
<1>1. Steady(r) /\ IInv
  BY DEF SInv
<1>2. pay[r].status = "absent"
  BY <1>1 DEF Steady, RecordInsert, SubmitInsert, KonnectInitiate, CanStart, At
<1> QED
  BY <1>1, <1>2, OneRow DEF RecordInsert, SubmitInsert, KonnectInitiate

LEMMA StepSettles ==
  ASSUME SInv, NEW r \in Req, Start(r) \/ Continue(r) \/ Fail(r), NEW p \in Req
  PROVE  /\ pay[p].status = "verified" => pay'[p].status \in {"verified", "reversed"}
         /\ pay[p].status = "reversed" => pay'[p].status = "reversed"
<1>1. CASE UNCHANGED pay
  BY <1>1
<1>2. CASE RecordInsert(r) \/ SubmitInsert(r) \/ KonnectInitiate(r)
  BY <1>2, Inserts
<1>3. CASE \/ VerifyPayment(r) \/ RejectPayment(r) \/ ReversePayment(r) \/ KonnectVerify(r)
           \/ SubmitUpdate(r)
  <2>1. CASE p # req[r].pay
    BY <1>3, <2>1, StaysRewrites
  <2>2. CASE p = req[r].pay
    <3>1. Steady(r)
      BY DEF SInv
    <3>2. CASE VerifyPayment(r) /\ pay'[p].status = "verified"
      BY <3>1, <3>2, <2>2 DEF VerifyPayment, At, Steady, Verifiable
    <3>3. CASE RejectPayment(r) /\ pay'[p].status = "rejected"
      BY <3>1, <3>3, <2>2 DEF RejectPayment, At, Steady, Rejectable
    <3>4. CASE ReversePayment(r) /\ pay'[p].status = "reversed"
      BY <3>4
    <3>5. CASE KonnectVerify(r) /\ pay'[p].status = "verified"
      BY <3>1, <3>5, <2>2 DEF KonnectVerify, At, Steady, AwaitingGateway
    <3>6. CASE SubmitUpdate(r) /\ pay'[p].status = "receipt_uploaded"
      BY <3>1, <3>6, <2>2 DEF SubmitUpdate, At, Steady, PendingReceipt
    <3> QED
      BY <1>3, <2>2, <3>2, <3>3, <3>4, <3>5, <3>6, StaysRewrites
  <2> QED
    BY <2>1, <2>2
<1> QED
  BY <1>1, <1>2, <1>3, PayWrites

\* A verified payment is only ever reversed, and a reversed one stays so.
THEOREM VerifiedSettles ==
  ASSUME IsFiniteSet(Req), MaxInFlight <= 1
  PROVE  Spec => VerifiedIsFinal
<1>1. ASSUME SInv, [Next]_vars
      PROVE  [\A p \in Req :
       /\ pay[p].status = "verified" => pay'[p].status \in {"verified", "reversed"}
       /\ pay[p].status = "reversed" => pay'[p].status = "reversed"]_vars
  <2>1. CASE UNCHANGED pay
    BY <2>1
  <2> QED
    BY <1>1, <2>1, StepSettles, CalendarKeeps DEF Next, SInv
<1>2. SInv /\ [Next]_vars => [\A p \in Req :
       /\ pay[p].status = "verified" => pay'[p].status \in {"verified", "reversed"}
       /\ pay[p].status = "reversed" => pay'[p].status = "reversed"]_vars
  BY <1>1
<1>3. Spec => []SInv
  BY SerialInvariance
<1> QED
  BY <1>2, <1>3, PTL DEF Spec, VerifiedIsFinal

-------------------------------------------------------------------------------
(***************************************************************************)
(* The sums.                                                                *)
(***************************************************************************)
HeldMap(i) == [p \in Req |-> HeldBy(i, p)]

Amounts == [e \in LedgerRow |-> e.amount]

Posted(type, account, i) ==
  {e \in ledger : e.type = type /\ e.account = account /\ pay[e.payment].inst = i}

LEMMA AcceptedIsTotal ==
  ASSUME IsFiniteSet(Req), NEW i \in Installment
  PROVE  AcceptedFor(i) = Total(Req, HeldMap(i))
<1> DEFINE f == CHOOSE iter : iter = [s \in SUBSET Req |->
                  IF s = {} THEN 0
                  ELSE HeldBy(i, CHOOSE x \in s : TRUE) + iter[s \ {CHOOSE x \in s : TRUE}]]
<1>1. AcceptedFor(i) = f[Req]
  BY DEF AcceptedFor, MapThenSumSet, MapThenFoldSet
<1>2. PICK g : g = [s \in SUBSET Req |->
                  IF s = {} THEN 0
                  ELSE HeldBy(i, CHOOSE x \in s : TRUE) + g[s \ {CHOOSE x \in s : TRUE}]]
  <2>1. PICK g : Sums(g, Req, HeldMap(i))
    BY SumsExist
  <2>2. g = [s \in SUBSET Req |-> IF s = {} THEN 0 ELSE HeldMap(i)[First(s)] + g[s \ {First(s)}]]
    BY <2>1 DEF Sums
  <2>3. \A s \in SUBSET Req : s # {} => HeldMap(i)[First(s)] = HeldBy(i, First(s))
    BY FirstIsIn DEF HeldMap
  <2>4. g = [s \in SUBSET Req |-> IF s = {} THEN 0 ELSE HeldBy(i, First(s)) + g[s \ {First(s)}]]
    BY <2>2, <2>3
  <2> QED
    BY <2>4 DEF First
<1>3. f = [s \in SUBSET Req |->
             IF s = {} THEN 0
             ELSE HeldBy(i, CHOOSE x \in s : TRUE) + f[s \ {CHOOSE x \in s : TRUE}]]
  BY <1>2
<1> HIDE DEF f
<1>4. Sums(f, Req, HeldMap(i))
  BY <1>3 DEF Sums, First, HeldMap
<1> QED
  BY <1>1, <1>4, SumIsTotal

LEMMA LedgeredIsTotal ==
  ASSUME IsFiniteSet(ledger), ledger \subseteq LedgerRow,
         NEW type, NEW account, NEW i \in Installment
  PROVE  Ledgered(type, account, i) = Total(Posted(type, account, i), Amounts)
<1> DEFINE S == Posted(type, account, i)
           f == CHOOSE iter : iter = [s \in SUBSET S |->
                  IF s = {} THEN 0
                  ELSE (CHOOSE x \in s : TRUE).amount + iter[s \ {CHOOSE x \in s : TRUE}]]
<1>0. IsFiniteSet(S) /\ S \subseteq LedgerRow
  BY FS_Subset DEF Posted
<1>1. Ledgered(type, account, i) = f[S]
  BY DEF Ledgered, Posted, MapThenSumSet, MapThenFoldSet
<1> HIDE DEF S
<1>2. PICK g : g = [s \in SUBSET S |->
                  IF s = {} THEN 0
                  ELSE (CHOOSE x \in s : TRUE).amount + g[s \ {CHOOSE x \in s : TRUE}]]
  <2>1. PICK g : Sums(g, S, Amounts)
    BY <1>0, SumsExist
  <2>2. g = [s \in SUBSET S |-> IF s = {} THEN 0 ELSE Amounts[First(s)] + g[s \ {First(s)}]]
    BY <2>1 DEF Sums
  <2>3. \A s \in SUBSET S : s # {} => Amounts[First(s)] = First(s).amount
    BY <1>0, FirstIsIn DEF Amounts
  <2>4. g = [s \in SUBSET S |-> IF s = {} THEN 0 ELSE First(s).amount + g[s \ {First(s)}]]
    BY <2>2, <2>3
  <2> QED
    BY <2>4 DEF First
<1>3. f = [s \in SUBSET S |->
                  IF s = {} THEN 0
                  ELSE (CHOOSE x \in s : TRUE).amount + f[s \ {CHOOSE x \in s : TRUE}]]
  BY <1>2
<1> HIDE DEF f
<1>4. Sums(f, S, Amounts)
  BY <1>0, <1>3 DEF Sums, First, Amounts
<1> QED
  BY <1>0, <1>1, <1>4, SumIsTotal DEF S

-------------------------------------------------------------------------------
(***************************************************************************)
(* The three records of the money agree, and keep the promise of the        *)
(* abstract receivable, when moreover no request fails, staff act on what   *)
(* the receipts list shows and the gateway is not in use.                   *)
(***************************************************************************)
Orderly == /\ IsFiniteSet(Req) /\ MaxInFlight <= 1
           /\ ~MayFail /\ OnlyListed
           /\ "initiate" \notin Ops /\ "webhook" \notin Ops

\* The change a handler makes to what its installment shows.
Change(r) == IF req[r].op = "reverse" THEN - req[r].amount ELSE req[r].amount

\* What of it is still to be written, of installment i: to the installment, to
\* the receivable account, to the bank account.
Owed(r, i, pcs) == IF req[r].inst = i /\ req[r].pc \in pcs THEN Change(r) ELSE 0

Unshown(r, i)   == Owed(r, i, {"installment"})
Uncleared(r, i) ==
  Owed(r, i, IF req[r].op = "reverse" THEN {"debit"} ELSE {"debit", "credit"})
Unbanked(r, i)  ==
  Owed(r, i, IF req[r].op = "reverse" THEN {"debit", "credit"} ELSE {"debit"})

Balanced(i, shown, cleared, banked) ==
  /\ inst[i].paid + shown = AcceptedFor(i)
  /\ Ledgered("credit", "student_receivable", i) + cleared =
       inst[i].paid + Ledgered("debit", "student_receivable", i)
  /\ Ledgered("debit", "bank", i) + banked =
       inst[i].paid + Ledgered("credit", "bank", i)

Accounted(r) == \A i \in Installment :
                  Balanced(i, Unshown(r, i), Uncleared(r, i), Unbanked(r, i))

\* What an orderly handler is at: it accepts no payment twice.
InOrder(r) ==
  /\ req[r].op \notin {"initiate", "webhook"}
  /\ req[r].pc = "installment" => Posts(r)
  /\ req[r].op \in {"verify", "reject"} /\ req[r].pc = "payment" =>
       pay[req[r].pay].status \in {"receipt_uploaded", "rejected"}

\* The books close when nobody is at work.
Closing == InFlight = {} => \A i \in Installment : Balanced(i, 0, 0, 0)

BInv == /\ SInv
        /\ IsFiniteSet(ledger)
        /\ \A e \in ledger : e.payment \in Req /\ pay[e.payment].status # "absent"
        /\ \A r \in Req : InOrder(r)
        /\ Closing
        /\ \A r \in InFlight : Accounted(r)

-------------------------------------------------------------------------------
(***************************************************************************)
(* The sums, in this state and in the next.                                 *)
(***************************************************************************)
Types    == {"debit", "credit"}
Accounts == {"bank", "student_receivable"}

SumsOK ==
  IsFiniteSet(Req) /\ IsFiniteSet(ledger) /\ TypeOK =>
    \A i \in Installment :
      /\ AcceptedFor(i) = Total(Req, HeldMap(i)) /\ AcceptedFor(i) \in Nat
      /\ \A type \in Types, account \in Accounts :
           /\ Ledgered(type, account, i) = Total(Posted(type, account, i), Amounts)
           /\ Ledgered(type, account, i) \in Nat

LEMMA HeldIsNat ==
  ASSUME TypeOK, NEW i \in Installment, NEW p \in Req
  PROVE  HeldMap(i)[p] = HeldBy(i, p) /\ HeldBy(i, p) \in Nat
BY DEF TypeOK, PayRow, HeldMap, HeldBy

LEMMA AllSums == SumsOK
<1> SUFFICES ASSUME IsFiniteSet(Req), IsFiniteSet(ledger), TypeOK, NEW i \in Installment
             PROVE  /\ AcceptedFor(i) = Total(Req, HeldMap(i)) /\ AcceptedFor(i) \in Nat
                    /\ \A type \in Types, account \in Accounts :
                         /\ Ledgered(type, account, i) = Total(Posted(type, account, i), Amounts)
                         /\ Ledgered(type, account, i) \in Nat
  BY DEF SumsOK
<1>1. AcceptedFor(i) = Total(Req, HeldMap(i))
  BY AcceptedIsTotal
<1>2. Total(Req, HeldMap(i)) \in Nat
  BY HeldIsNat, TotalIsNat
<1>3. ASSUME NEW type \in Types, NEW account \in Accounts
      PROVE  /\ Ledgered(type, account, i) = Total(Posted(type, account, i), Amounts)
             /\ Ledgered(type, account, i) \in Nat
  <2>1. Ledgered(type, account, i) = Total(Posted(type, account, i), Amounts)
    BY LedgeredIsTotal DEF TypeOK
  <2>2. IsFiniteSet(Posted(type, account, i))
    BY FS_Subset DEF Posted
  <2>3. \A e \in Posted(type, account, i) : Amounts[e] \in Nat
    BY DEF Posted, Amounts, LedgerRow, TypeOK
  <2>4. Total(Posted(type, account, i), Amounts) \in Nat
    BY <2>2, <2>3, TotalIsNat
  <2> QED
    BY <2>1, <2>4
<1> QED
  BY <1>1, <1>2, <1>3

LEMMA AllSumsNext == SumsOK'
BY AllSums, PTL

\* Both states of a step of an orderly book are such that the sums are sums.
Summable == IsFiniteSet(Req) /\ IsFiniteSet(ledger) /\ TypeOK

LEMMA HeldSame ==
  ASSUME Summable, Summable', NEW i \in Installment,
         \A p \in Req : HeldBy(i, p)' = HeldBy(i, p)
  PROVE  AcceptedFor(i)' = AcceptedFor(i)
<1>1. HeldMap(i)' = HeldMap(i)
  BY DEF HeldMap
<1> QED
  BY <1>1, AllSums, AllSumsNext DEF Summable, SumsOK

\* One payment row changes.
LEMMA HeldChange ==
  ASSUME Summable, Summable', NEW i \in Installment, NEW p \in Req,
         \A q \in Req \ {p} : pay'[q] = pay[q]
  PROVE  AcceptedFor(i)' + HeldBy(i, p) = AcceptedFor(i) + HeldBy(i, p)'
<1> DEFINE m == HeldMap(i)
           n == HeldMap(i)'
<1>1. \A q \in Req : /\ m[q] = HeldBy(i, q) /\ m[q] \in Nat
                     /\ n[q] = HeldBy(i, q)' /\ n[q] \in Nat
  BY DEF Summable, TypeOK, PayRow, HeldMap, HeldBy
<1>2. \A q \in Req \ {p} : m[q] = n[q]
  BY DEF HeldMap, HeldBy
<1>3. AcceptedFor(i) = Total(Req, m) /\ AcceptedFor(i)' = Total(Req, n)
  BY AllSums, AllSumsNext DEF Summable, SumsOK
<1> HIDE DEF m, n
<1>4. Total(Req, n) + m[p] = Total(Req, m) + n[p]
  BY <1>1, <1>2, ChangeOne DEF Summable
<1> QED
  BY <1>1, <1>3, <1>4

\* The rows the entries point at stay on their installments.
EntriesStay == \A e \in ledger : pay'[e.payment].inst = pay[e.payment].inst

LEMMA LedgerSame ==
  ASSUME Summable, Summable', UNCHANGED ledger, EntriesStay,
         NEW i \in Installment, NEW type \in Types, NEW account \in Accounts
  PROVE  Ledgered(type, account, i)' = Ledgered(type, account, i)
<1>1. Posted(type, account, i)' = Posted(type, account, i)
  BY DEF Posted, EntriesStay
<1> QED
  BY <1>1, AllSums, AllSumsNext DEF Summable, SumsOK

Adds(e, type, account, i) ==
  IF e.type = type /\ e.account = account /\ pay[e.payment].inst = i THEN e.amount ELSE 0

\* One entry is posted.
LEMMA LedgerAdds ==
  ASSUME Summable, Summable', UNCHANGED pay,
         NEW e \in LedgerRow, e \notin ledger, ledger' = ledger \cup {e},
         NEW i \in Installment, NEW type \in Types, NEW account \in Accounts
  PROVE  Ledgered(type, account, i)' = Ledgered(type, account, i) + Adds(e, type, account, i)
<1> DEFINE S == Posted(type, account, i)
           T == Posted(type, account, i)'
<1>1. /\ Ledgered(type, account, i) = Total(S, Amounts)
      /\ Ledgered(type, account, i) \in Nat
      /\ Ledgered(type, account, i)' = Total(T, Amounts)
  BY AllSums, AllSumsNext DEF Summable, SumsOK
<1>2. CASE e.type = type /\ e.account = account /\ pay[e.payment].inst = i
  <2>1. T = S \cup {e} /\ e \notin S
    BY <1>2 DEF Posted
  <2>2. IsFiniteSet(S) /\ S \subseteq LedgerRow
    BY FS_Subset DEF Summable, TypeOK, Posted
  <2> HIDE DEF S, T
  <2>3. \A x \in S \cup {e} : Amounts[x] \in Nat
    BY <2>2 DEF Amounts, LedgerRow
  <2>4. Total(S \cup {e}, Amounts) = Total(S, Amounts) + Amounts[e]
    BY <2>1, <2>2, <2>3, AddOne
  <2>5. Amounts[e] = e.amount
    BY DEF Amounts
  <2> QED
    BY <1>1, <1>2, <2>1, <2>4, <2>5 DEF Adds
<1>3. CASE ~(e.type = type /\ e.account = account /\ pay[e.payment].inst = i)
  <2>1. T = S
    BY <1>3 DEF Posted
  <2> HIDE DEF S, T
  <2> QED
    BY <1>1, <1>3, <2>1 DEF Adds
<1> QED
  BY <1>2, <1>3

-------------------------------------------------------------------------------
(***************************************************************************)
(* The handler at work stays accounted for.                                 *)
(***************************************************************************)
Ahead == {"installment", "debit", "credit"}

LEMMA NothingOwed ==
  ASSUME NEW r \in Req, req[r].pc \notin Ahead, NEW i \in Installment
  PROVE  Unshown(r, i) = 0 /\ Uncleared(r, i) = 0 /\ Unbanked(r, i) = 0
BY DEF Ahead, Unshown, Uncleared, Unbanked, Owed

LEMMA NothingOwedNext ==
  ASSUME NEW r \in Req, req'[r].pc \notin Ahead, NEW i \in Installment
  PROVE  Unshown(r, i)' = 0 /\ Uncleared(r, i)' = 0 /\ Unbanked(r, i)' = 0
BY DEF Ahead, Unshown, Uncleared, Unbanked, Owed

LEMMA Before ==
  ASSUME Orderly, BInv, NEW r \in Req, Start(r) \/ Continue(r)
  PROVE  Accounted(r)
<1>1. CASE Start(r)
  <2>1. InFlight = {} /\ req[r].pc \notin Ahead
    BY <1>1, StartsAlone DEF Orderly, Ahead
  <2>2. ASSUME NEW i \in Installment
        PROVE  Balanced(i, Unshown(r, i), Uncleared(r, i), Unbanked(r, i))
    <3>1. Balanced(i, 0, 0, 0)
      BY <2>1 DEF BInv, Closing
    <3> QED
      BY <2>1, <3>1, NothingOwed
  <2> QED
    BY <2>2 DEF Accounted
<1>2. CASE Continue(r)
  BY <1>2, ContinuesAtWork DEF BInv
<1> QED
  BY <1>1, <1>2

\* The step posts nothing and accepts or withdraws nothing.
LEMMA StepSilent ==
  ASSUME Summable, Summable', UNCHANGED ledger, EntriesStay, NEW r \in Req, Accounted(r),
         \A i \in Installment : inst'[i].paid = inst[i].paid,
         \A i \in Installment, p \in Req : HeldBy(i, p)' = HeldBy(i, p),
         req[r].pc \notin Ahead, req'[r].pc \notin Ahead
  PROVE  Accounted(r)'
<1> SUFFICES ASSUME NEW i \in Installment
             PROVE  Balanced(i, Unshown(r, i), Uncleared(r, i), Unbanked(r, i))'
  BY DEF Accounted
<1>1. Balanced(i, 0, 0, 0)
  BY NothingOwed DEF Accounted
<1>2. AcceptedFor(i)' = AcceptedFor(i)
  BY HeldSame
<1>3. /\ Ledgered("credit", "student_receivable", i)' = Ledgered("credit", "student_receivable", i)
      /\ Ledgered("debit", "student_receivable", i)' = Ledgered("debit", "student_receivable", i)
      /\ Ledgered("credit", "bank", i)' = Ledgered("credit", "bank", i)
      /\ Ledgered("debit", "bank", i)' = Ledgered("debit", "bank", i)
  BY LedgerSame DEF Types, Accounts
<1> QED
  BY <1>1, <1>2, <1>3, NothingOwedNext DEF Balanced

\* A payment is accepted or withdrawn: its installment does not show it yet.
LEMMA StepAccepts ==
  ASSUME Summable, Summable', UNCHANGED <<ledger, inst>>, EntriesStay, NEW r \in Req,
         Accounted(r), NEW p \in Req,
         \A q \in Req \ {p} : pay'[q] = pay[q],
         \A i \in Installment :
           HeldBy(i, p)' = HeldBy(i, p) + (IF req[r].inst = i THEN Change(r) ELSE 0),
         Change(r) \in Int,
         req[r].pc = "payment", req'[r].pc = "installment", Keeps(r)
  PROVE  Accounted(r)'
<1> SUFFICES ASSUME NEW i \in Installment
             PROVE  Balanced(i, Unshown(r, i), Uncleared(r, i), Unbanked(r, i))'
  BY DEF Accounted
<1>1. Balanced(i, 0, 0, 0)
  BY NothingOwed DEF Accounted, Ahead
<1>2. AcceptedFor(i)' + HeldBy(i, p) = AcceptedFor(i) + HeldBy(i, p)'
  BY HeldChange
<1>3. /\ Ledgered("credit", "student_receivable", i)' = Ledgered("credit", "student_receivable", i)
      /\ Ledgered("debit", "student_receivable", i)' = Ledgered("debit", "student_receivable", i)
      /\ Ledgered("credit", "bank", i)' = Ledgered("credit", "bank", i)
      /\ Ledgered("debit", "bank", i)' = Ledgered("debit", "bank", i)
  BY LedgerSame DEF Types, Accounts
<1>4. /\ Unshown(r, i)' = (IF req[r].inst = i THEN Change(r) ELSE 0)
      /\ Uncleared(r, i)' = 0 /\ Unbanked(r, i)' = 0
  BY DEF Unshown, Uncleared, Unbanked, Owed, Keeps, Change
<1>5. /\ AcceptedFor(i) \in Nat /\ AcceptedFor(i)' \in Nat
      /\ HeldBy(i, p) \in Nat
  BY AllSums, AllSumsNext, HeldIsNat DEF SumsOK, Summable
<1>6. inst[i].paid \in Nat
  BY DEF Summable, TypeOK, InstRow
<1>7. inst[i].paid + Unshown(r, i)' = AcceptedFor(i)'
  <2>1. inst[i].paid + 0 = AcceptedFor(i)
    BY <1>1 DEF Balanced
  <2>2. HeldBy(i, p)' = HeldBy(i, p) + Unshown(r, i)'
    BY <1>4
  <2>3. Unshown(r, i)' \in Int
    BY <1>4
  <2> QED
    BY <1>2, <1>5, <1>6, <2>1, <2>2, <2>3
<1> QED
  BY <1>1, <1>3, <1>4, <1>7 DEF Balanced

\* The installment shows it: the ledger does not yet.
LEMMA StepShows ==
  ASSUME Summable, Summable', UNCHANGED <<ledger, pay>>, NEW r \in Req, Accounted(r),
         \A i \in Installment :
           inst'[i].paid = inst[i].paid + (IF req[r].inst = i THEN Change(r) ELSE 0),
         Change(r) \in Int,
         req[r].pc = "installment", req'[r].pc = "debit", Keeps(r)
  PROVE  Accounted(r)'
<1> SUFFICES ASSUME NEW i \in Installment
             PROVE  Balanced(i, Unshown(r, i), Uncleared(r, i), Unbanked(r, i))'
  BY DEF Accounted
<1>1. Balanced(i, Unshown(r, i), 0, 0)
  <2>1. Uncleared(r, i) = 0 /\ Unbanked(r, i) = 0
    BY DEF Uncleared, Unbanked, Owed
  <2> QED
    BY <2>1 DEF Accounted
<1>2. AcceptedFor(i)' = AcceptedFor(i)
  BY HeldSame DEF HeldBy
<1>3. /\ Ledgered("credit", "student_receivable", i)' = Ledgered("credit", "student_receivable", i)
      /\ Ledgered("debit", "student_receivable", i)' = Ledgered("debit", "student_receivable", i)
      /\ Ledgered("credit", "bank", i)' = Ledgered("credit", "bank", i)
      /\ Ledgered("debit", "bank", i)' = Ledgered("debit", "bank", i)
  BY LedgerSame DEF Types, Accounts, EntriesStay
<1>4. /\ Unshown(r, i) = (IF req[r].inst = i THEN Change(r) ELSE 0)
      /\ Unshown(r, i)' = 0
      /\ Uncleared(r, i)' = Unshown(r, i)
      /\ Unbanked(r, i)' = Unshown(r, i)
  BY DEF Unshown, Uncleared, Unbanked, Owed, Keeps, Change
<1>5. /\ Ledgered("credit", "student_receivable", i) \in Nat
      /\ Ledgered("debit", "student_receivable", i) \in Nat
      /\ Ledgered("credit", "bank", i) \in Nat
      /\ Ledgered("debit", "bank", i) \in Nat
  BY AllSums DEF SumsOK, Summable, Types, Accounts
<1>6. inst[i].paid \in Nat /\ Unshown(r, i) \in Int
      /\ inst'[i].paid = inst[i].paid + Unshown(r, i)
  BY <1>4 DEF Summable, TypeOK, InstRow
<1> QED
  BY <1>1, <1>2, <1>3, <1>4, <1>5, <1>6 DEF Balanced

\* One entry is posted.
LEMMA StepPosts ==
  ASSUME Summable, Summable', UNCHANGED <<inst, pay>>, NEW r \in Req, Accounted(r),
         NEW e \in LedgerRow, e \notin ledger, ledger' = ledger \cup {e},
         pay[e.payment].inst = req[r].inst, e.amount = req[r].amount, Keeps(r),
         \/ /\ req[r].pc = "debit" /\ req'[r].pc = "credit"
            /\ e.type = "debit" /\ e.account = DebitAccount(r)
         \/ /\ req[r].pc = "credit" /\ req'[r].pc \notin Ahead
            /\ e.type = "credit" /\ e.account = CreditAccount(r)
  PROVE  Accounted(r)'
<1> SUFFICES ASSUME NEW i \in Installment
             PROVE  Balanced(i, Unshown(r, i), Uncleared(r, i), Unbanked(r, i))'
  BY DEF Accounted
<1>1. Balanced(i, Unshown(r, i), Uncleared(r, i), Unbanked(r, i))
  BY DEF Accounted
<1>2. AcceptedFor(i)' = AcceptedFor(i)
  BY HeldSame DEF HeldBy
<1> DEFINE cs == Ledgered("credit", "student_receivable", i)
           ds == Ledgered("debit", "student_receivable", i)
           cb == Ledgered("credit", "bank", i)
           db == Ledgered("debit", "bank", i)
<1>3. cs \in Nat /\ ds \in Nat /\ cb \in Nat /\ db \in Nat
  BY AllSums DEF SumsOK, Summable, Types, Accounts
<1>4. /\ cs' = cs + Adds(e, "credit", "student_receivable", i)
      /\ ds' = ds + Adds(e, "debit", "student_receivable", i)
      /\ cb' = cb + Adds(e, "credit", "bank", i)
      /\ db' = db + Adds(e, "debit", "bank", i)
  BY LedgerAdds DEF Types, Accounts
<1>5. inst[i].paid \in Nat /\ req[r].amount \in Nat
  BY DEF Summable, TypeOK, InstRow, HandlerRow
<1>6. Balanced(i, Unshown(r, i), Uncleared(r, i), Unbanked(r, i))'
       <=> /\ inst[i].paid + Unshown(r, i)' = AcceptedFor(i)
           /\ cs' + Uncleared(r, i)' = inst[i].paid + ds'
           /\ db' + Unbanked(r, i)' = inst[i].paid + cb'
  BY <1>2 DEF Balanced
<1>7. /\ inst[i].paid + Unshown(r, i) = AcceptedFor(i)
      /\ cs + Uncleared(r, i) = inst[i].paid + ds
      /\ db + Unbanked(r, i) = inst[i].paid + cb
  BY <1>1 DEF Balanced
<1> HIDE DEF cs, ds, cb, db
<1>8. Unshown(r, i) = 0 /\ Unshown(r, i)' = 0
  BY DEF Unshown, Owed, Ahead
<1>9. CASE req[r].inst # i
  <2>1. /\ cs' = cs /\ ds' = ds /\ cb' = cb /\ db' = db
    BY <1>3, <1>4, <1>9 DEF Adds
  <2>2. /\ Uncleared(r, i) = 0 /\ Uncleared(r, i)' = 0
        /\ Unbanked(r, i) = 0 /\ Unbanked(r, i)' = 0
    BY <1>9 DEF Uncleared, Unbanked, Owed, Keeps
  <2> QED
    BY <1>6, <1>7, <1>8, <2>1, <2>2
<1>10. CASE req[r].inst = i /\ req[r].pc = "debit" /\ req[r].op = "reverse"
  <2>1. /\ cs' = cs /\ ds' = ds + req[r].amount /\ cb' = cb /\ db' = db
    BY <1>3, <1>4, <1>10 DEF Adds, DebitAccount
  <2>2. /\ Uncleared(r, i) = - req[r].amount /\ Uncleared(r, i)' = 0
        /\ Unbanked(r, i) = - req[r].amount /\ Unbanked(r, i)' = - req[r].amount
    BY <1>10 DEF Uncleared, Unbanked, Owed, Keeps, Change
  <2> QED
    BY <1>3, <1>5, <1>6, <1>7, <1>8, <2>1, <2>2
<1>11. CASE req[r].inst = i /\ req[r].pc = "debit" /\ req[r].op # "reverse"
  <2>1. /\ cs' = cs /\ ds' = ds /\ cb' = cb /\ db' = db + req[r].amount
    BY <1>3, <1>4, <1>11 DEF Adds, DebitAccount
  <2>2. /\ Uncleared(r, i) = req[r].amount /\ Uncleared(r, i)' = req[r].amount
        /\ Unbanked(r, i) = req[r].amount /\ Unbanked(r, i)' = 0
    BY <1>11 DEF Uncleared, Unbanked, Owed, Keeps, Change
  <2> QED
    BY <1>3, <1>5, <1>6, <1>7, <1>8, <2>1, <2>2
<1>12. CASE req[r].inst = i /\ req[r].pc = "credit" /\ req[r].op = "reverse"
  <2>1. /\ cs' = cs /\ ds' = ds /\ cb' = cb + req[r].amount /\ db' = db
    BY <1>3, <1>4, <1>12 DEF Adds, CreditAccount
  <2>2. /\ Uncleared(r, i) = 0 /\ Uncleared(r, i)' = 0
        /\ Unbanked(r, i) = - req[r].amount /\ Unbanked(r, i)' = 0
    BY <1>12 DEF Uncleared, Unbanked, Owed, Keeps, Change, Ahead
  <2> QED
    BY <1>3, <1>5, <1>6, <1>7, <1>8, <2>1, <2>2
<1>13. CASE req[r].inst = i /\ req[r].pc = "credit" /\ req[r].op # "reverse"
  <2>1. /\ cs' = cs + req[r].amount /\ ds' = ds /\ cb' = cb /\ db' = db
    BY <1>3, <1>4, <1>13 DEF Adds, CreditAccount
  <2>2. /\ Uncleared(r, i) = req[r].amount /\ Uncleared(r, i)' = 0
        /\ Unbanked(r, i) = 0 /\ Unbanked(r, i)' = 0
    BY <1>13 DEF Uncleared, Unbanked, Owed, Keeps, Change, Ahead
  <2> QED
    BY <1>3, <1>5, <1>6, <1>7, <1>8, <2>1, <2>2
<1> QED
  BY <1>9, <1>10, <1>11, <1>12, <1>13

-------------------------------------------------------------------------------
(***************************************************************************)
(* The steps of the handlers.                                               *)
(***************************************************************************)
\* A row that is there stays, on its installment.
LEMMA RowsStay ==
  ASSUME SInv, NEW r \in Req, Start(r) \/ Continue(r) \/ Fail(r),
         NEW p \in Req, pay[p].status # "absent"
  PROVE  pay'[p].status # "absent" /\ pay'[p].inst = pay[p].inst
<1>1. CASE UNCHANGED pay
  BY <1>1
<1>2. CASE RecordInsert(r) \/ SubmitInsert(r) \/ KonnectInitiate(r)
  BY <1>2, Inserts
<1>3. CASE \/ VerifyPayment(r) \/ RejectPayment(r) \/ ReversePayment(r) \/ KonnectVerify(r)
           \/ SubmitUpdate(r)
  <2>1. CASE p # req[r].pay
    BY <1>3, <2>1, StaysRewrites
  <2>2. CASE p = req[r].pay
    BY <1>3, <2>2, StaysRewrites
  <2> QED
    BY <2>1, <2>2
<1> QED
  BY <1>1, <1>2, <1>3, PayWrites

LEMMA LedgerWrites ==
  ASSUME NEW r \in Req, Start(r) \/ Continue(r)
  PROVE  UNCHANGED ledger \/ LedgerDebit(r) \/ LedgerCredit(r)
<1>1. CASE Start(r)
  BY <1>1 DEF Start, RecordRead, VerifyRead, RejectRead, ReverseRead, SubmitRead, KonnectInitiate,
              KonnectRead
<1>2. CASE Continue(r)
  BY <1>2 DEF Continue, RecordInsert, VerifyPayment, CreditInstallment, RejectPayment,
              ReversePayment, RevertInstallment, SubmitFind, SubmitUpdate, SubmitInsert,
              KonnectVerify, KonnectSettle, RecordScore
<1> QED
  BY <1>1, <1>2

\* The entry a handler posts is new, and is on its installment.
LEMMA PostsNew ==
  ASSUME SInv, NEW r \in Req, NEW type \in Types, NEW account \in Accounts,
         \/ req[r].pc = "debit" /\ type = "debit"
         \/ req[r].pc = "credit" /\ type = "credit"
  PROVE  /\ Entry(type, account, r) \in LedgerRow
         /\ Entry(type, account, r) \notin ledger
         /\ pay[Entry(type, account, r).payment].inst = req[r].inst
         /\ Entry(type, account, r).payment \in Req
         /\ pay[Entry(type, account, r).payment].status # "absent"
<1> DEFINE e == Entry(type, account, r)
<1>1. /\ e.batch = r /\ e.type = type /\ e.payment = req[r].pay /\ e.amount = req[r].amount
      /\ e.account = account
  BY DEF Entry
<1>2. IInv /\ Steady(r) /\ req[r].pc # "idle"
  BY DEF SInv
<1>3. req[r].pay \in Req /\ req[r].amount \in Nat
  BY <1>2 DEF IInv, Tables, HandlersOK, TypeOK, HandlerRow
<1>4. e \in LedgerRow
  BY <1>3 DEF Entry, LedgerRow, Types, Accounts
<1>5. e \notin ledger
  <2> SUFFICES ASSUME e \in ledger PROVE FALSE
    OBVIOUS
  <2>1. /\ req[e.batch].pc \in {"credit", "score", "done", "failed"}
        /\ \/ e = Entry("debit", DebitAccount(e.batch), e.batch)
           \/ req[e.batch].pc # "credit"
    BY <1>2 DEF IInv, LedgerOK
  <2>2. Entry("debit", DebitAccount(r), r).type = "debit"
    BY DEF Entry
  <2> HIDE DEF e
  <2> QED
    BY <1>1, <2>1, <2>2
<1>6. pay[req[r].pay].status # "absent" /\ pay[req[r].pay].inst = req[r].inst
  BY <1>2 DEF Steady
<1> HIDE DEF e
<1>7. e.payment \in Req /\ pay[e.payment].status # "absent" /\ pay[e.payment].inst = req[r].inst
  BY <1>1, <1>3, <1>6
<1> QED
  BY <1>4, <1>5, <1>7 DEF e

LEMMA StepEntries ==
  ASSUME BInv, NEW r \in Req, Start(r) \/ Continue(r)
  PROVE  /\ IsFiniteSet(ledger') /\ EntriesStay
         /\ \A e \in ledger' : e.payment \in Req /\ pay'[e.payment].status # "absent"
<1>1. SInv /\ IsFiniteSet(ledger)
      /\ \A e \in ledger : e.payment \in Req /\ pay[e.payment].status # "absent"
  BY DEF BInv
<1>2. \A e \in ledger : /\ pay'[e.payment].inst = pay[e.payment].inst
                        /\ pay'[e.payment].status # "absent"
  BY <1>1, RowsStay
<1>3. CASE UNCHANGED ledger
  BY <1>1, <1>2, <1>3 DEF EntriesStay
<1>4. CASE LedgerDebit(r)
  <2> DEFINE e == Entry("debit", DebitAccount(r), r)
  <2>1. ledger' = ledger \cup {e} /\ UNCHANGED pay
    BY <1>4 DEF LedgerDebit
  <2>2. e.payment \in Req /\ pay[e.payment].status # "absent"
    BY <1>1, <1>4, PostsNew DEF LedgerDebit, Types, Accounts, DebitAccount
  <2> HIDE DEF e
  <2> QED
    BY <1>1, <1>2, <2>1, <2>2, FS_AddElement DEF EntriesStay
<1>5. CASE LedgerCredit(r)
  <2> DEFINE e == Entry("credit", CreditAccount(r), r)
  <2>1. ledger' = ledger \cup {e} /\ UNCHANGED pay
    BY <1>5 DEF LedgerCredit
  <2>2. e.payment \in Req /\ pay[e.payment].status # "absent"
    BY <1>1, <1>5, PostsNew DEF LedgerCredit, Types, Accounts, CreditAccount
  <2> HIDE DEF e
  <2> QED
    BY <1>1, <1>2, <2>1, <2>2, FS_AddElement DEF EntriesStay
<1> QED
  BY <1>3, <1>4, <1>5, LedgerWrites

\* The statements a handler orderly at work may be at.
LEMMA StepInOrder ==
  ASSUME Orderly, BInv, NEW r \in Req, Start(r) \/ Continue(r)
  PROVE  InOrder(r)'
<1>1. IInv /\ InOrder(r) /\ req \in [Req -> HandlerRow] /\ req[r] \in HandlerRow
  BY DEF BInv, SInv, IInv, Tables, TypeOK
<1>2. CASE Start(r)
  <2>1. CASE RecordRead(r) \/ ReverseRead(r) \/ SubmitRead(r)
    <3>1. \E op \in {"record", "reverse", "submit"}, pc \in {"payment", "existing"} :
          \E i, p, a, paid : Begin(r, Handler(op, pc, i, p, a, paid))
      <4>1. CASE RecordRead(r)
        BY <4>1 DEF RecordRead
      <4>2. CASE ReverseRead(r)
        BY <4>2 DEF ReverseRead
      <4>3. CASE SubmitRead(r)
        BY <4>3 DEF SubmitRead
      <4> QED
        BY <2>1, <4>1, <4>2, <4>3
    <3>2. req'[r].op \in {"record", "reverse", "submit"} /\ req'[r].pc # "installment"
      BY <1>1, <3>1, BeginsAs DEF Handler
    <3> QED
      BY <3>2 DEF InOrder
  <2>2. CASE VerifyRead(r)
    <3>1. PICK p \in Req :
          /\ Verifiable(p)
          /\ Listed(p)
          /\ Begin(r, Handler("verify", "payment", pay[p].inst, p, Claimed(p),
                              inst[pay[p].inst].paid))
      BY <2>2 DEF VerifyRead
    <3>2. req'[r].op = "verify" /\ req'[r].pc = "payment" /\ req'[r].pay = p
      BY <1>1, <3>1, BeginsAs DEF Handler
    <3>3. pay'[p].status \in {"receipt_uploaded", "rejected"}
      BY <2>2, <3>1 DEF VerifyRead, Verifiable, Listed, Orderly
    <3> QED
      BY <3>2, <3>3 DEF InOrder
  <2>3. CASE RejectRead(r)
    <3>1. PICK p \in Req :
          /\ Rejectable(p)
          /\ Listed(p)
          /\ Begin(r, Handler("reject", "payment", pay[p].inst, p, 0, 0))
      BY <2>3 DEF RejectRead
    <3>2. req'[r].op = "reject" /\ req'[r].pc = "payment" /\ req'[r].pay = p
      BY <1>1, <3>1, BeginsAs DEF Handler
    <3>3. pay'[p].status \in {"receipt_uploaded", "rejected"}
      BY <2>3, <3>1 DEF RejectRead, Rejectable, Listed, Orderly
    <3> QED
      BY <3>2, <3>3 DEF InOrder
  <2>4. ~KonnectInitiate(r) /\ ~KonnectRead(r)
    BY DEF KonnectInitiate, KonnectRead, CanStart, Orderly
  <2> QED
    BY <1>2, <2>1, <2>2, <2>3, <2>4 DEF Start
<1>3. CASE Continue(r)
  <2>1. ~KonnectVerify(r) /\ ~KonnectSettle(r)
    BY <1>1 DEF InOrder, KonnectVerify, KonnectSettle, At
  <2>2. CASE RecordInsert(r) \/ VerifyPayment(r) \/ ReversePayment(r)
    <3>1. req'[r].op = req[r].op /\ req'[r].pc = "installment" /\ Posts(r)
      BY <1>1, <2>2 DEF RecordInsert, VerifyPayment, ReversePayment, Goto, HandlerRow, Posts, At
    <3> QED
      BY <1>1, <3>1 DEF InOrder, Posts
  <2>3. CASE CreditInstallment(r) \/ SubmitFind(r)
    <3>1. req'[r].op = req[r].op /\ req'[r].pc \notin {"installment", "payment"}
      BY <1>1, <2>3 DEF CreditInstallment, SubmitFind, Goto, HandlerRow
    <3> QED
      BY <1>1, <3>1 DEF InOrder
  <2>4. CASE \/ RejectPayment(r) \/ RevertInstallment(r) \/ SubmitUpdate(r) \/ SubmitInsert(r)
             \/ LedgerDebit(r) \/ LedgerCredit(r) \/ RecordScore(r)
    <3>1. \E pc \in {"debit", "credit", "score", "done"} : Goto(r, pc)
      BY <2>4 DEF RejectPayment, RevertInstallment, SubmitUpdate, SubmitInsert, LedgerDebit,
                  LedgerCredit, RecordScore
    <3>2. req'[r].op = req[r].op /\ req'[r].pc \notin {"installment", "payment"}
      BY <1>1, <3>1, GoesTo DEF Keeps
    <3> QED
      BY <1>1, <3>2 DEF InOrder
  <2> QED
    BY <1>3, <2>1, <2>2, <2>3, <2>4 DEF Continue
<1> QED
  BY <1>2, <1>3

\* The state of a payment in the abstract receivable.
LEMMA AbstractState ==
  ASSUME NEW p
  PROVE  /\ pay[p].status \in Accepted => StateOf(p) = "accepted"
         /\ pay[p].status = "reversed" => StateOf(p) = "withdrawn"
         /\ pay[p].status \notin Accepted \cup {"reversed"} => StateOf(p) = "offered"
BY DEF StateOf, Accepted

LEMMA AbstractStateNext ==
  ASSUME NEW p
  PROVE  /\ pay'[p].status \in Accepted => StateOf(p)' = "accepted"
         /\ pay'[p].status = "reversed" => StateOf(p)' = "withdrawn"
         /\ pay'[p].status \notin Accepted \cup {"reversed"} => StateOf(p)' = "offered"
BY DEF StateOf, Accepted

\* The statements that accept a payment or withdraw it.
LEMMA Accepts ==
  ASSUME SInv, NEW r \in Req, InOrder(r),
         RecordInsert(r) \/ VerifyPayment(r) \/ ReversePayment(r)
  PROVE  /\ req[r].pc = "payment" /\ req'[r].pc = "installment" /\ Keeps(r)
         /\ UNCHANGED <<ledger, inst>> /\ Change(r) \in Int
         /\ \E p \in Req :
              /\ p = req[r].pay
              /\ \A q \in Req \ {p} : pay'[q] = pay[q]
              /\ \A i \in Installment :
                   HeldBy(i, p)' = HeldBy(i, p) + (IF req[r].inst = i THEN Change(r) ELSE 0)
              /\ req[r].op # "reverse" => /\ StateOf(p) = "offered" /\ StateOf(p)' = "accepted"
                                          /\ \A i \in Installment : HeldBy(i, p) = 0
              /\ req[r].op = "reverse" => /\ StateOf(p) = "accepted" /\ StateOf(p)' = "withdrawn"
                                          /\ \A i \in Installment : HeldBy(i, p)' = 0
<1>1. /\ IInv /\ Steady(r) /\ pay \in [Req -> PayRow] /\ req \in [Req -> HandlerRow]
      /\ req[r] \in HandlerRow
  BY DEF SInv, IInv, Tables, TypeOK
<1>2. req[r].pc = "payment" /\ UNCHANGED <<ledger, inst>>
  BY DEF RecordInsert, VerifyPayment, ReversePayment, At
<1>3. req[r].amount \in Nat /\ Change(r) \in Int
  BY <1>1 DEF HandlerRow, Change
<1>4. CASE RecordInsert(r)
  <2>1. req[r].op = "record"
    BY <1>4 DEF RecordInsert, At
  <2>2. pay[r].status = "absent" /\ req[r].pay = r
    BY <1>1, <1>2, <2>1 DEF Steady
  <2>3. /\ pay'[r] = Row(req[r].inst, "confirmed", req[r].amount, 0)
        /\ \A q \in Req \ {r} : pay'[q] = pay[q]
    BY <1>1, <1>4, OneRow DEF RecordInsert
  <2>4. req'[r].pc = "installment" /\ Keeps(r)
    <3>1. PICK late : req'[r] = [req[r] EXCEPT !.pc = "installment", !.late = late]
      BY <1>1, <1>4 DEF RecordInsert
    <3> QED
      BY <1>1, <3>1 DEF HandlerRow, Keeps
  <2>5. ASSUME NEW i \in Installment
        PROVE  HeldBy(i, r)' = HeldBy(i, r) + (IF req[r].inst = i THEN Change(r) ELSE 0)
    <3>1. HeldBy(i, r) = 0
      BY <2>2 DEF HeldBy, Accepted
    <3>2. HeldBy(i, r)' = IF req[r].inst = i THEN req[r].amount ELSE 0
      BY <2>3 DEF HeldBy, Accepted, Row
    <3>3. Change(r) = req[r].amount
      BY <2>1 DEF Change
    <3> QED
      BY <1>3, <3>1, <3>2, <3>3
  <2>6. /\ StateOf(r) = "offered" /\ StateOf(r)' = "accepted"
        /\ \A i \in Installment : HeldBy(i, r) = 0
    BY <2>2, <2>3, AbstractState, AbstractStateNext DEF Accepted, Row, HeldBy
  <2> QED
    BY <1>2, <1>3, <2>1, <2>2, <2>3, <2>4, <2>5, <2>6
<1>5. CASE VerifyPayment(r)
  <2>1. req[r].op = "verify"
    BY <1>5 DEF VerifyPayment, At
  <2>2. PICK p \in Req : p = req[r].pay
    BY <1>1, <1>2 DEF IInv, Tables, HandlersOK
  <2>3. /\ pay[p].inst = req[r].inst /\ req[r].amount = Claimed(p)
        /\ pay[p].status \in {"receipt_uploaded", "rejected"}
    BY <1>1, <1>2, <2>1, <2>2 DEF Steady, InOrder
  <2>4. pay' = [pay EXCEPT ![p] = [pay[p] EXCEPT !.status = "verified", !.amount = Claimed(p)]]
    BY <1>1, <1>5, <2>2 DEF VerifyPayment
  <2>5. /\ pay'[p].status = "verified" /\ pay'[p].inst = req[r].inst
        /\ pay'[p].amount = req[r].amount
        /\ \A q \in Req \ {p} : pay'[q] = pay[q]
    BY <1>1, <2>3, <2>4 DEF PayRow
  <2>6. req'[r].pc = "installment" /\ Keeps(r)
    BY <1>1, <1>5, GoesTo DEF VerifyPayment
  <2>7. ASSUME NEW i \in Installment
        PROVE  HeldBy(i, p)' = HeldBy(i, p) + (IF req[r].inst = i THEN Change(r) ELSE 0)
    <3>1. HeldBy(i, p) = 0
      BY <2>3 DEF HeldBy, Accepted
    <3>2. HeldBy(i, p)' = IF req[r].inst = i THEN req[r].amount ELSE 0
      BY <2>5 DEF HeldBy, Accepted
    <3>3. Change(r) = req[r].amount
      BY <2>1 DEF Change
    <3> QED
      BY <1>3, <3>1, <3>2, <3>3
  <2>8. /\ StateOf(p) = "offered" /\ StateOf(p)' = "accepted"
        /\ \A i \in Installment : HeldBy(i, p) = 0
    BY <2>3, <2>5, AbstractState, AbstractStateNext DEF Accepted, HeldBy
  <2> QED
    BY <1>2, <1>3, <2>1, <2>2, <2>5, <2>6, <2>7, <2>8
<1>6. CASE ReversePayment(r)
  <2>1. req[r].op = "reverse"
    BY <1>6 DEF ReversePayment, At
  <2>2. PICK p \in Req : p = req[r].pay
    BY <1>1, <1>2 DEF IInv, Tables, HandlersOK
  <2>3. /\ pay[p].inst = req[r].inst /\ req[r].amount = pay[p].amount
        /\ pay[p].status \in Accepted
    BY <1>1, <1>2, <2>1, <2>2 DEF Steady, Reversible
  <2>4. pay' = [pay EXCEPT ![p] = [pay[p] EXCEPT !.status = "reversed"]]
    BY <1>1, <1>6, <2>2 DEF ReversePayment
  <2>5. /\ pay'[p].status = "reversed"
        /\ \A q \in Req \ {p} : pay'[q] = pay[q]
    BY <1>1, <2>4 DEF PayRow
  <2>6. req'[r].pc = "installment" /\ Keeps(r)
    BY <1>1, <1>6, GoesTo DEF ReversePayment
  <2>7. ASSUME NEW i \in Installment
        PROVE  HeldBy(i, p)' = HeldBy(i, p) + (IF req[r].inst = i THEN Change(r) ELSE 0)
    <3>1. HeldBy(i, p) = IF req[r].inst = i THEN req[r].amount ELSE 0
      BY <2>3 DEF HeldBy
    <3>2. HeldBy(i, p)' = 0
      BY <2>5 DEF HeldBy, Accepted
    <3>3. Change(r) = - req[r].amount
      BY <2>1 DEF Change
    <3> QED
      BY <1>3, <3>1, <3>2, <3>3
  <2>8. /\ StateOf(p) = "accepted" /\ StateOf(p)' = "withdrawn"
        /\ \A i \in Installment : HeldBy(i, p)' = 0
    BY <2>3, <2>5, AbstractState, AbstractStateNext DEF Accepted, HeldBy
  <2> QED
    BY <1>2, <1>3, <2>1, <2>2, <2>5, <2>6, <2>7, <2>8
<1> QED
  BY <1>4, <1>5, <1>6

\* What the installment shows changes by what was accepted or withdrawn: it
\* was read at its current value, and is not clamped.
LEMMA Shows ==
  ASSUME Summable, SInv, NEW r \in Req, Accounted(r), CreditInstallment(r) \/ RevertInstallment(r)
  PROVE  /\ \A i \in Installment :
              inst'[i].paid = inst[i].paid + (IF req[r].inst = i THEN Change(r) ELSE 0)
         /\ Change(r) \in Int
         /\ req[r].pc = "installment" /\ req'[r].pc = "debit" /\ Keeps(r)
         /\ UNCHANGED <<ledger, pay>>
<1>1. /\ IInv /\ Steady(r) /\ inst \in [Installment -> InstRow] /\ req \in [Req -> HandlerRow]
      /\ req[r] \in HandlerRow
  BY DEF SInv, IInv, Tables, TypeOK
<1>2. req[r].pc = "installment" /\ UNCHANGED <<ledger, pay>>
  BY DEF CreditInstallment, RevertInstallment, At
<1>3. req[r].amount \in Nat /\ Change(r) \in Int /\ req[r].inst \in Installment
  BY <1>1, <1>2 DEF HandlerRow, Change, IInv, Tables, HandlersOK
<1>4. \A i \in Installment : inst[i].paid \in Nat
  BY <1>1 DEF InstRow
<1>5. CASE CreditInstallment(r)
  <2>1. req[r].op \in {"record", "verify"}
    BY <1>5 DEF CreditInstallment, At
  <2>2. inst' = [inst EXCEPT ![req[r].inst] = Credited(req[r].inst, req[r].paid + req[r].amount)]
    BY <1>5 DEF CreditInstallment
  <2>3. inst'[req[r].inst].paid = inst[req[r].inst].paid + req[r].amount
    <3>1. inst'[req[r].inst].paid = req[r].paid + req[r].amount
      BY <1>1, <1>3, <2>2 DEF Credited
    <3>2. req[r].paid = inst[req[r].inst].paid
      BY <1>1, <1>2, <2>1 DEF Steady
    <3> QED
      BY <3>1, <3>2
  <2>4. \A i \in Installment : i # req[r].inst => inst'[i] = inst[i]
    BY <1>1, <2>2
  <2>5. Change(r) = req[r].amount
    BY <2>1 DEF Change
  <2>6. req'[r].pc = "debit" /\ Keeps(r)
    <3>1. PICK full : req'[r] = [req[r] EXCEPT !.pc = "debit", !.full = full]
      BY <1>1, <1>5 DEF CreditInstallment
    <3> QED
      BY <1>1, <3>1 DEF HandlerRow, Keeps
  <2> QED
    BY <1>2, <1>3, <1>4, <2>3, <2>4, <2>5, <2>6
<1>6. CASE RevertInstallment(r)
  <2>1. req[r].op = "reverse"
    BY <1>6 DEF RevertInstallment, At
  <2>2. inst' = [inst EXCEPT ![req[r].inst] = Reverted(req[r].inst, req[r].amount)]
    BY <1>6 DEF RevertInstallment
  <2>3. Change(r) = - req[r].amount
    BY <2>1 DEF Change
  <2>4. inst[req[r].inst].paid - req[r].amount = AcceptedFor(req[r].inst)
        /\ AcceptedFor(req[r].inst) \in Nat
    <3>1. inst[req[r].inst].paid + Change(r) = AcceptedFor(req[r].inst)
      BY <1>2, <1>3 DEF Accounted, Balanced, Unshown, Owed
    <3>2. AcceptedFor(req[r].inst) \in Nat
      BY <1>3, AllSums DEF SumsOK, Summable
    <3> QED
      BY <1>3, <1>4, <2>3, <3>1, <3>2
  <2>5. ~(req[r].amount > inst[req[r].inst].paid)
    BY <1>3, <1>4, <2>4
  <2>6. inst'[req[r].inst].paid = inst[req[r].inst].paid - req[r].amount
    BY <1>1, <1>3, <2>2, <2>5 DEF Reverted
  <2>7. \A i \in Installment : i # req[r].inst => inst'[i] = inst[i]
    BY <1>1, <2>2
  <2>8. req'[r].pc = "debit" /\ Keeps(r)
    BY <1>1, <1>6, GoesTo DEF RevertInstallment
  <2> QED
    BY <1>2, <1>3, <1>4, <2>3, <2>6, <2>7, <2>8
<1> QED
  BY <1>5, <1>6

\* The rest moves no money.
LEMMA MovesNoMoney ==
  ASSUME SInv, NEW r \in Req, InOrder(r),
         \/ Start(r) /\ ~KonnectInitiate(r)
         \/ RejectPayment(r) \/ SubmitFind(r) \/ SubmitUpdate(r) \/ SubmitInsert(r)
         \/ RecordScore(r)
  PROVE  /\ UNCHANGED <<ledger, inst>>
         /\ \A i \in Installment, p \in Req : HeldBy(i, p)' = HeldBy(i, p)
         /\ \A p \in Req : StateOf(p)' = StateOf(p)
         /\ req[r].pc \notin Ahead /\ req'[r].pc \notin Ahead
<1>1. /\ IInv /\ Steady(r) /\ req \in [Req -> HandlerRow] /\ req[r] \in HandlerRow
  BY DEF SInv, IInv, Tables, TypeOK
<1>2. CASE Start(r) /\ ~KonnectInitiate(r)
  <2>1. UNCHANGED <<ledger, inst, pay>> /\ req[r].pc = "idle"
    BY <1>2 DEF Start, RecordRead, VerifyRead, RejectRead, ReverseRead, SubmitRead, KonnectRead,
                CanStart
  <2>2. \E pc \in {"payment", "existing"} :
        \E op, i, p, a, paid : Begin(r, Handler(op, pc, i, p, a, paid))
    <3>1. CASE RecordRead(r)
      BY <3>1 DEF RecordRead
    <3>2. CASE VerifyRead(r)
      BY <3>2 DEF VerifyRead
    <3>3. CASE RejectRead(r)
      BY <3>3 DEF RejectRead
    <3>4. CASE ReverseRead(r)
      BY <3>4 DEF ReverseRead
    <3>5. CASE SubmitRead(r)
      BY <3>5 DEF SubmitRead
    <3>6. CASE KonnectRead(r)
      BY <3>6 DEF KonnectRead
    <3> QED
      BY <1>2, <3>1, <3>2, <3>3, <3>4, <3>5, <3>6 DEF Start
  <2>3. req'[r].pc \notin Ahead
    BY <1>1, <2>2, BeginsAs DEF Handler, Ahead
  <2> QED
    BY <2>1, <2>3 DEF HeldBy, StateOf, Ahead
<1>3. CASE SubmitFind(r) \/ RecordScore(r)
  <2>1. UNCHANGED <<ledger, inst, pay>> /\ req[r].pc \in {"existing", "score"}
    BY <1>3 DEF SubmitFind, RecordScore, At
  <2>2. req'[r].pc \in {"update", "insert", "done"}
    BY <1>1, <1>3 DEF SubmitFind, RecordScore, Goto, HandlerRow
  <2> QED
    BY <2>1, <2>2 DEF HeldBy, StateOf, Ahead
<1>4. CASE SubmitInsert(r)
  <2>1. UNCHANGED <<ledger, inst>> /\ req[r].pc = "insert" /\ req'[r].pc = "done"
    BY <1>1, <1>4, GoesTo DEF SubmitInsert, At
  <2>2. pay[r].status = "absent" /\ \A q \in Req \ {r} : pay'[q] = pay[q]
    BY <1>4, Inserts
  <2>3. pay'[r] = Row(req[r].inst, "receipt_uploaded", req[r].amount, req[r].amount)
    BY <1>1, <1>4, OneRow DEF SubmitInsert
  <2>4. pay'[r].status = "receipt_uploaded"
    BY <2>3 DEF Row
  <2> QED
    <3>1. \A p \in Req : StateOf(p)' = StateOf(p)
      <4>1. StateOf(r)' = StateOf(r)
        BY <2>2, <2>4, AbstractState, AbstractStateNext DEF Accepted
      <4> QED
        BY <2>2, <4>1 DEF StateOf
    <3> QED
      BY <2>1, <2>2, <2>4, <3>1 DEF HeldBy, Accepted, Ahead
<1>5. CASE RejectPayment(r) \/ SubmitUpdate(r)
  <2>1. UNCHANGED <<ledger, inst>> /\ req[r].pc \in {"payment", "update"} /\ req'[r].pc = "done"
    BY <1>1, <1>5, GoesTo DEF RejectPayment, SubmitUpdate, At
  <2>2. PICK p \in Req : p = req[r].pay
    BY <1>1, <2>1 DEF IInv, Tables, HandlersOK
  <2>3. pay[p].status \in {"receipt_uploaded", "rejected"}
    BY <1>1, <1>5, <2>2 DEF RejectPayment, SubmitUpdate, At, InOrder, Steady, PendingReceipt
  <2>4. /\ pay'[p].status \in {"receipt_uploaded", "rejected"}
        /\ \A q \in Req \ {p} : pay'[q] = pay[q]
    <3>1. CASE RejectPayment(r)
      <4>1. ~VerifyPayment(r) /\ ~ReversePayment(r) /\ ~KonnectVerify(r) /\ ~SubmitUpdate(r)
        BY <3>1 DEF RejectPayment, VerifyPayment, ReversePayment, KonnectVerify, SubmitUpdate, At
      <4> QED
        BY <2>2, <3>1, <4>1, StaysRewrites
    <3>2. CASE SubmitUpdate(r)
      <4>1. ~VerifyPayment(r) /\ ~ReversePayment(r) /\ ~KonnectVerify(r) /\ ~RejectPayment(r)
        BY <3>2 DEF RejectPayment, VerifyPayment, ReversePayment, KonnectVerify, SubmitUpdate, At
      <4> QED
        BY <2>2, <3>2, <4>1, StaysRewrites
    <3> QED
      BY <1>5, <3>1, <3>2
  <2> QED
    <3>1. \A q \in Req : StateOf(q)' = StateOf(q)
      <4>1. StateOf(p)' = StateOf(p)
        BY <2>3, <2>4, AbstractState, AbstractStateNext DEF Accepted
      <4> QED
        BY <2>4, <4>1 DEF StateOf
    <3> QED
      BY <2>1, <2>3, <2>4, <3>1 DEF HeldBy, Accepted, Ahead
<1> QED
  BY <1>2, <1>3, <1>4, <1>5

LEMMA StepAccounted ==
  ASSUME Orderly, BInv, Summable', NEW r \in Req, Start(r) \/ Continue(r)
  PROVE  Accounted(r)'
<1>1. SInv /\ Summable /\ InOrder(r)
  BY DEF BInv, SInv, Summable, Orderly, IInv, Tables
<1>2. Accounted(r) /\ IsFiniteSet(ledger') /\ EntriesStay
  BY Before, StepEntries
<1>3. /\ ~KonnectInitiate(r) /\ ~KonnectVerify(r) /\ ~KonnectSettle(r)
  BY <1>1 DEF InOrder, KonnectInitiate, KonnectVerify, KonnectSettle, At, CanStart, Orderly
<1>4. CASE \/ Start(r) /\ ~KonnectInitiate(r)
           \/ RejectPayment(r) \/ SubmitFind(r) \/ SubmitUpdate(r) \/ SubmitInsert(r)
           \/ RecordScore(r)
  <2>1. /\ UNCHANGED <<ledger, inst>>
        /\ \A i \in Installment, p \in Req : HeldBy(i, p)' = HeldBy(i, p)
        /\ req[r].pc \notin Ahead /\ req'[r].pc \notin Ahead
    BY <1>1, <1>4, MovesNoMoney
  <2> QED
    BY <1>1, <1>2, <2>1, StepSilent
<1>5. CASE RecordInsert(r) \/ VerifyPayment(r) \/ ReversePayment(r)
  <2>1. /\ req[r].pc = "payment" /\ req'[r].pc = "installment" /\ Keeps(r)
        /\ UNCHANGED <<ledger, inst>> /\ Change(r) \in Int
    BY <1>1, <1>5, Accepts
  <2>2. PICK p \in Req :
              /\ p = req[r].pay
              /\ \A q \in Req \ {p} : pay'[q] = pay[q]
              /\ \A i \in Installment :
                   HeldBy(i, p)' = HeldBy(i, p) + (IF req[r].inst = i THEN Change(r) ELSE 0)
    BY <1>1, <1>5, Accepts
  <2> QED
    BY <1>1, <1>2, <2>1, <2>2, StepAccepts
<1>6. CASE CreditInstallment(r) \/ RevertInstallment(r)
  BY <1>1, <1>2, <1>6, Shows, StepShows
<1>7. CASE LedgerDebit(r)
  <2>1. /\ UNCHANGED <<inst, pay>> /\ req[r].pc = "debit" /\ req'[r].pc = "credit" /\ Keeps(r)
        /\ ledger' = ledger \cup {Entry("debit", DebitAccount(r), r)}
    BY <1>1, <1>7, GoesTo DEF LedgerDebit, SInv
  <2> DEFINE e == Entry("debit", DebitAccount(r), r)
  <2>2. e \in LedgerRow /\ e \notin ledger /\ pay[e.payment].inst = req[r].inst
    BY <1>1, <2>1, PostsNew DEF Types, Accounts, DebitAccount
  <2>3. e.amount = req[r].amount /\ e.type = "debit" /\ e.account = DebitAccount(r)
    BY DEF Entry
  <2> HIDE DEF e
  <2> QED
    BY <1>1, <1>2, <2>1, <2>2, <2>3, StepPosts DEF e
<1>8. CASE LedgerCredit(r)
  <2>1. /\ UNCHANGED <<inst, pay>> /\ req[r].pc = "credit" /\ req'[r].pc \notin Ahead /\ Keeps(r)
        /\ ledger' = ledger \cup {Entry("credit", CreditAccount(r), r)}
    BY <1>1, <1>8, GoesTo DEF LedgerCredit, SInv, Ahead
  <2> DEFINE e == Entry("credit", CreditAccount(r), r)
  <2>2. e \in LedgerRow /\ e \notin ledger /\ pay[e.payment].inst = req[r].inst
    BY <1>1, <2>1, PostsNew DEF Types, Accounts, CreditAccount
  <2>3. e.amount = req[r].amount /\ e.type = "credit" /\ e.account = CreditAccount(r)
    BY DEF Entry
  <2> HIDE DEF e
  <2> QED
    BY <1>1, <1>2, <2>1, <2>2, <2>3, StepPosts DEF e
<1> QED
  BY <1>3, <1>4, <1>5, <1>6, <1>7, <1>8 DEF Continue

-------------------------------------------------------------------------------
(***************************************************************************)
(* The invariant, and what it gives.                                        *)
(***************************************************************************)
LEMMA InitBInv == Orderly /\ Init => BInv
<1> SUFFICES ASSUME Orderly, Init PROVE BInv
  OBVIOUS
<1>1. SInv /\ IInv
  BY InitSInv DEF SInv
<1>2. ledger = {} /\ InFlight = {} /\ IsFiniteSet(ledger)
  BY FS_EmptySet DEF Init, InFlight, Handler
<1>3. \A r \in Req : InOrder(r)
  BY DEF Init, Handler, InOrder
<1>4. ASSUME NEW i \in Installment PROVE Balanced(i, 0, 0, 0)
  <2>1. IsFiniteSet(Req) /\ IsFiniteSet({}) /\ inst[i].paid = 0
    BY FS_EmptySet DEF Orderly, Init
  <2>2. \A type, account : Posted(type, account, i) = {}
    BY <1>2 DEF Posted
  <2>3. Total({}, Amounts) = 0
    BY <2>1, TotalStep
  <2>4. \A type \in Types, account \in Accounts : Ledgered(type, account, i) = 0
    BY <1>1, <1>2, <2>1, <2>2, <2>3, AllSums DEF SumsOK, IInv, Tables
  <2>5. AcceptedFor(i) = 0
    <3>1. \A p \in Req : HeldMap(i)[p] = 0
      BY DEF Init, Row, HeldMap, HeldBy, Accepted
    <3>2. Total(Req, HeldMap(i)) = 0
      BY <2>1, <3>1, TotalOfNothing
    <3> QED
      BY <1>1, <1>2, <2>1, <3>2, AllSums DEF SumsOK, IInv, Tables
  <2> QED
    BY <2>1, <2>4, <2>5 DEF Balanced, Types, Accounts
<1> QED
  BY <1>1, <1>2, <1>3, <1>4 DEF BInv, Closing

LEMMA StepBInv ==
  ASSUME Orderly, BInv, NEW r \in Req, Start(r) \/ Continue(r)
  PROVE  BInv'
<1>0. SInv /\ IInv /\ OneAtATime /\ Next
  BY DEF BInv, SInv, Next
<1>1. SInv' /\ IInv'
  BY <1>0, NextSInv DEF Orderly, SInv
<1>2. /\ IsFiniteSet(ledger')
      /\ \A e \in ledger' : e.payment \in Req /\ pay'[e.payment].status # "absent"
  BY StepEntries
<1>3. Summable'
  BY <1>1, <1>2 DEF Summable, Orderly, IInv, Tables
<1>4. /\ Others(r)
      /\ \A q \in InFlight : q = r
      /\ \A q \in InFlight' : q = r
  BY <1>0, Alone DEF Orderly
<1>5. \A q \in Req : InOrder(q)'
  <2>1. InOrder(r)'
    BY StepInOrder
  <2>2. ASSUME NEW q \in Req, q # r PROVE InOrder(q)'
    <3>1. req[q].pc \in {"idle", "done", "failed"} /\ req'[q] = req[q] /\ InOrder(q)
      BY <1>4, <2>2 DEF InFlight, Others, BInv
    <3> QED
      BY <3>1 DEF InOrder
  <2> QED
    BY <2>1, <2>2
<1>6. Accounted(r)'
  BY <1>3, StepAccounted
<1>7. Closing'
  <2> SUFFICES ASSUME InFlight' = {}, NEW i \in Installment PROVE Balanced(i, 0, 0, 0)'
    BY DEF Closing
  <2>1. req'[r].pc \notin Ahead
    BY DEF InFlight, Ahead
  <2>2. Balanced(i, Unshown(r, i), Uncleared(r, i), Unbanked(r, i))'
    BY <1>6 DEF Accounted
  <2> QED
    BY <2>1, <2>2, NothingOwedNext DEF Balanced
<1>8. \A q \in InFlight' : Accounted(q)'
  BY <1>4, <1>6
<1> QED
  BY <1>1, <1>2, <1>5, <1>7, <1>8 DEF BInv

\* The calendar.
LEMMA CalendarBInv ==
  ASSUME Orderly, BInv, [Next]_vars, UNCHANGED <<pay, req, ledger>>,
         \A i \in Installment : inst'[i].paid = inst[i].paid
  PROVE  BInv'
<1>1. SInv' /\ SInv
  BY NextSInv DEF BInv, Orderly
<1>2. /\ IsFiniteSet(ledger')
      /\ \A e \in ledger' : e.payment \in Req /\ pay'[e.payment].status # "absent"
      /\ \A q \in Req : InOrder(q)'
      /\ InFlight' = InFlight
  BY DEF BInv, InOrder, Posts, InFlight
<1>3. Summable /\ Summable' /\ EntriesStay
  BY <1>1, <1>2 DEF Summable, Orderly, SInv, IInv, Tables, BInv, EntriesStay
<1>4. ASSUME NEW i \in Installment, NEW a, NEW b, NEW c, Balanced(i, a, b, c)
      PROVE  /\ inst'[i].paid + a = AcceptedFor(i)'
             /\ Ledgered("credit", "student_receivable", i)' + b =
                  inst'[i].paid + Ledgered("debit", "student_receivable", i)'
             /\ Ledgered("debit", "bank", i)' + c =
                  inst'[i].paid + Ledgered("credit", "bank", i)'
  <2>1. AcceptedFor(i)' = AcceptedFor(i)
    BY <1>3, HeldSame DEF HeldBy
  <2>2. /\ Ledgered("credit", "student_receivable", i)' = Ledgered("credit", "student_receivable", i)
        /\ Ledgered("debit", "student_receivable", i)' = Ledgered("debit", "student_receivable", i)
        /\ Ledgered("credit", "bank", i)' = Ledgered("credit", "bank", i)
        /\ Ledgered("debit", "bank", i)' = Ledgered("debit", "bank", i)
    BY <1>3, LedgerSame DEF Types, Accounts
  <2> QED
    BY <1>4, <2>1, <2>2 DEF Balanced
<1>5. Closing'
  BY <1>2, <1>4 DEF BInv, Closing, Balanced
<1>6. ASSUME NEW r \in InFlight PROVE Accounted(r)'
  <2>1. \A i \in Installment : /\ Unshown(r, i)' = Unshown(r, i)
                              /\ Uncleared(r, i)' = Uncleared(r, i)
                              /\ Unbanked(r, i)' = Unbanked(r, i)
    BY DEF Unshown, Uncleared, Unbanked, Owed, Change
  <2>2. Accounted(r)
    BY DEF BInv
  <2> QED
    BY <1>4, <2>1, <2>2 DEF Accounted, Balanced
<1> QED
  BY <1>1, <1>2, <1>5, <1>6 DEF BInv

LEMMA NextBInv == Orderly /\ BInv /\ [Next]_vars => BInv'
<1> SUFFICES ASSUME Orderly, BInv, [Next]_vars PROVE BInv'
  OBVIOUS
<1>1. ASSUME NEW r \in Req, Start(r) \/ Continue(r) PROVE BInv'
  BY <1>1, StepBInv
<1>2. ASSUME NEW r \in Req, Fail(r) PROVE FALSE
  BY <1>2 DEF Fail, Orderly
<1>3. CASE Cron \/ \E i \in Installment : Tick(i)
  BY <1>3, CalendarKeeps, CalendarBInv DEF BInv, SInv
<1>4. CASE UNCHANGED vars
  BY <1>4, CalendarBInv DEF vars
<1> QED
  BY <1>1, <1>2, <1>3, <1>4 DEF Next

LEMMA BooksInvariance ==
  ASSUME Orderly
  PROVE  Spec => []BInv
<1>1. Init => BInv
  BY InitBInv
<1>2. BInv /\ [Next]_vars => BInv'
  BY NextBInv
<1> QED
  BY <1>1, <1>2, PTL DEF Spec

\* Whenever nobody is at work, what each installment shows is the sum of its
\* accepted payments and what both accounts of the ledger moved by: the
\* separately awaited statements of recordPayment, verifyPayment and
\* reversePayment leave the three records in agreement.
THEOREM BooksBalance ==
  ASSUME Orderly
  PROVE  Spec => []BooksAgree
<1>1. BInv => BooksAgree
  <2> SUFFICES ASSUME BInv, InFlight = {}, NEW i \in Installment
               PROVE  /\ inst[i].paid = AcceptedFor(i)
                      /\ Ledgered("credit", "student_receivable", i) =
                           inst[i].paid + Ledgered("debit", "student_receivable", i)
                      /\ Ledgered("debit", "bank", i) =
                           inst[i].paid + Ledgered("credit", "bank", i)
    BY DEF BooksAgree, Quiet
  <2>1. Balanced(i, 0, 0, 0)
    BY DEF BInv, Closing
  <2>2. Summable
    BY DEF Summable, Orderly, BInv, SInv, IInv, Tables
  <2>3. /\ Ledgered("credit", "student_receivable", i) \in Nat
        /\ Ledgered("debit", "bank", i) \in Nat
    BY <2>2, AllSums DEF SumsOK, Summable, Types, Accounts
  <2>4. inst[i].paid \in Nat
    BY <2>2 DEF Summable, TypeOK, InstRow
  <2> QED
    BY <2>1, <2>3, <2>4 DEF Balanced
<1>2. Spec => []BInv
  BY BooksInvariance
<1> QED
  BY <1>1, <1>2, PTL

\* What an installment was accepted for it has shown, or has room for.
LEMMA AcceptedFits ==
  ASSUME Orderly, BInv, NEW i \in Installment
  PROVE  AcceptedFor(i) <= Due[i]
<1>1. Summable /\ SInv /\ IInv
  BY DEF Summable, Orderly, BInv, SInv, IInv, Tables
<1>2. inst[i].paid \in Nat /\ inst[i].paid <= Due[i] /\ Due[i] \in Nat
  BY <1>1, AmountAssumption
  DEF Summable, TypeOK, InstRow, IInv, Tables, InstallmentsOK, NeverOverpaid
<1>3. CASE InFlight = {}
  <2>1. inst[i].paid + 0 = AcceptedFor(i)
    BY <1>3 DEF BInv, Closing, Balanced
  <2> QED
    BY <1>2, <2>1
<1>4. CASE InFlight # {}
  <2>1. PICK r \in Req : r \in InFlight /\ Accounted(r) /\ Steady(r)
    BY <1>4 DEF BInv, SInv, InFlight
  <2>2. inst[i].paid + Unshown(r, i) = AcceptedFor(i)
    BY <2>1 DEF Accounted, Balanced
  <2>3. CASE Unshown(r, i) = 0
    BY <1>2, <2>2, <2>3
  <2>4. CASE Unshown(r, i) # 0
    <3>1. req[r].inst = i /\ req[r].pc = "installment" /\ Unshown(r, i) = Change(r)
      BY <2>4 DEF Unshown, Owed
    <3>2. req[r].op \in {"record", "verify", "reverse"} /\ req[r].amount \in Nat
      BY <1>1, <3>1 DEF BInv, InOrder, Posts, Summable, TypeOK, HandlerRow
    <3>3. CASE req[r].op = "reverse"
      BY <1>2, <2>2, <3>1, <3>2, <3>3 DEF Change
    <3>4. CASE req[r].op \in {"record", "verify"}
      <4>1. req[r].paid = inst[i].paid
        BY <2>1, <3>1, <3>4 DEF Steady
      <4>2. req[r].paid + req[r].amount <= Due[i]
        BY <1>1, <3>1, <3>4 DEF IInv, Tables, HandlersOK
      <4>3. Change(r) = req[r].amount
        BY <3>4 DEF Change
      <4> QED
        BY <2>2, <3>1, <4>1, <4>2, <4>3
    <3> QED
      BY <3>2, <3>3, <3>4
  <2> QED
    BY <2>3, <2>4
<1> QED
  BY <1>3, <1>4

\* The remaining-balance guards of recordPayment and verifyPayment keep the
\* money accepted against an installment within what it is for (D-SEC-002).
THEOREM AcceptsWithinDue ==
  ASSUME Orderly
  PROVE  Spec => []AcceptedWithinDue
<1>1. BInv => AcceptedWithinDue
  BY AcceptedFits DEF AcceptedWithinDue
<1>2. Spec => []BInv
  BY BooksInvariance
<1> QED
  BY <1>1, <1>2, PTL

-------------------------------------------------------------------------------
(***************************************************************************)
(* The handlers implement the abstract receivable.                          *)
(***************************************************************************)
State == [p \in Req |-> StateOf(p)]
Money == [i \in Installment |-> [p \in Req |-> HeldBy(i, p)]]

\* The receivable's sum is the sum over the accepted rows.
LEMMA PromisedIsTotal ==
  ASSUME IsFiniteSet(Req), NEW i \in Installment
  PROVE  Promise!Held(i) = Total(Req, HeldMap(i))
<1> DEFINE f == CHOOSE iter : iter = [s \in SUBSET Req |->
                  IF s = {} THEN 0
                  ELSE Money[i][CHOOSE x \in s : TRUE] + iter[s \ {CHOOSE x \in s : TRUE}]]
<1>1. Promise!Held(i) = f[Req]
  BY DEF Promise!Held, Promise!MapThenSumSet, Promise!MapThenFoldSet, Money
<1>2. Money[i] = HeldMap(i)
  BY DEF Money, HeldMap
<1>3. PICK g : g = [s \in SUBSET Req |->
                  IF s = {} THEN 0
                  ELSE Money[i][CHOOSE x \in s : TRUE] + g[s \ {CHOOSE x \in s : TRUE}]]
  <2>1. PICK g : Sums(g, Req, Money[i])
    BY SumsExist
  <2> QED
    BY <2>1 DEF Sums, First
<1>4. f = [s \in SUBSET Req |->
                  IF s = {} THEN 0
                  ELSE Money[i][CHOOSE x \in s : TRUE] + f[s \ {CHOOSE x \in s : TRUE}]]
  BY <1>3
<1> HIDE DEF f
<1>5. Sums(f, Req, Money[i])
  BY <1>4 DEF Sums, First
<1> QED
  BY <1>1, <1>2, <1>5, SumIsTotal

LEMMA InitPromise == Init => Promise!Init
BY DEF Init, Row, Promise!Init, StateOf, HeldBy, Accepted

\* Accepting: the amount fits in what the abstract receivable still owes.
LEMMA AcceptKept ==
  ASSUME Orderly, BInv, NEW r \in Req, RecordInsert(r) \/ VerifyPayment(r)
  PROVE  Promise!Next
<1>1. /\ Summable /\ SInv /\ IInv /\ InOrder(r) /\ Steady(r) /\ Accounted(r)
      /\ req[r].op \in {"record", "verify"} /\ req[r].pc = "payment"
  BY Before DEF Summable, Orderly, BInv, SInv, IInv, Tables, RecordInsert, VerifyPayment, At, Continue
<1>2. PICK p \in Req :
        /\ p = req[r].pay
        /\ \A q \in Req \ {p} : pay'[q] = pay[q]
        /\ \A i \in Installment :
             HeldBy(i, p)' = HeldBy(i, p) + (IF req[r].inst = i THEN Change(r) ELSE 0)
        /\ StateOf(p) = "offered" /\ StateOf(p)' = "accepted"
        /\ \A i \in Installment : HeldBy(i, p) = 0
  BY <1>1, Accepts
<1>3. PICK i \in Installment : i = req[r].inst
  BY <1>1 DEF IInv, Tables, HandlersOK
<1>4. PICK a \in Amount : a = req[r].amount
  BY <1>1 DEF IInv, Tables, HandlersOK
<1>5. Change(r) = a /\ a \in Nat \ {0}
  BY <1>1, <1>4, AmountAssumption DEF Change
<1>6. a \in 1..(Due[i] - Promise!Held(i))
  <2>1. Promise!Held(i) = AcceptedFor(i)
    BY <1>1, PromisedIsTotal, AllSums DEF SumsOK, Summable
  <2>2. inst[i].paid + 0 = AcceptedFor(i)
    BY <1>1, NothingOwed DEF Accounted, Balanced, Ahead
  <2>3. req[r].paid = inst[i].paid /\ req[r].paid + a <= Due[i]
    BY <1>1, <1>3, <1>4 DEF Steady, IInv, Tables, HandlersOK
  <2>4. inst[i].paid \in Nat /\ Due[i] \in Nat
    BY <1>1, AmountAssumption DEF Summable, TypeOK, InstRow
  <2> QED
    BY <1>5, <2>1, <2>2, <2>3, <2>4
<1>7. State' = [State EXCEPT ![p] = "accepted"]
  <2>1. \A q \in Req \ {p} : StateOf(q)' = StateOf(q)
    BY <1>2 DEF StateOf
  <2> QED
    BY <1>2, <2>1 DEF State
<1>8. Money' = [Money EXCEPT ![i][p] = a]
  <2>1. \A j \in Installment, q \in Req \ {p} : HeldBy(j, q)' = HeldBy(j, q)
    BY <1>2 DEF HeldBy
  <2>2. \A j \in Installment \ {i} : HeldBy(j, p)' = HeldBy(j, p)
    BY <1>2, <1>3
  <2>3. HeldBy(i, p)' = a
    BY <1>2, <1>3, <1>5
  <2> QED
    BY <2>1, <2>2, <2>3 DEF Money
<1>9. State[p] = "offered"
  BY <1>2 DEF State
<1>10. Promise!Accept(p, i)
  BY <1>6, <1>7, <1>8, <1>9 DEF Promise!Accept, State, Money
<1> QED
  BY <1>10 DEF Promise!Next

\* Reversing: the payment is withdrawn with all it held.
LEMMA WithdrawKept ==
  ASSUME Orderly, BInv, NEW r \in Req, ReversePayment(r)
  PROVE  Promise!Next
<1>1. SInv /\ InOrder(r) /\ req[r].op = "reverse"
  BY DEF BInv, ReversePayment, At
<1>2. PICK p \in Req :
        /\ \A q \in Req \ {p} : pay'[q] = pay[q]
        /\ StateOf(p) = "accepted" /\ StateOf(p)' = "withdrawn"
        /\ \A i \in Installment : HeldBy(i, p)' = 0
  BY <1>1, Accepts
<1>3. State[p] = "accepted" /\ State' = [State EXCEPT ![p] = "withdrawn"]
  <2>1. \A q \in Req \ {p} : StateOf(q)' = StateOf(q)
    BY <1>2 DEF StateOf
  <2> QED
    BY <1>2, <2>1 DEF State
<1>4. Money' = [i \in Installment |-> [Money[i] EXCEPT ![p] = 0]]
  <2>1. \A j \in Installment, q \in Req \ {p} : HeldBy(j, q)' = HeldBy(j, q)
    BY <1>2 DEF HeldBy
  <2> QED
    BY <1>2, <2>1 DEF Money
<1>5. Promise!Withdraw(p)
  BY <1>3, <1>4 DEF Promise!Withdraw, State, Money
<1> QED
  BY <1>5 DEF Promise!Next

\* Every other step leaves the abstract receivable where it is.
LEMMA OthersStutter ==
  ASSUME Orderly, BInv, NEW r \in Req, Start(r) \/ Continue(r),
         ~RecordInsert(r), ~VerifyPayment(r), ~ReversePayment(r)
  PROVE  UNCHANGED <<State, Money>>
<1>1. SInv /\ InOrder(r)
  BY DEF BInv
<1>2. ~KonnectInitiate(r) /\ ~KonnectVerify(r)
  BY <1>1 DEF InOrder, KonnectInitiate, KonnectVerify, At, CanStart, Orderly
<1>3. CASE UNCHANGED pay
  BY <1>3 DEF State, Money, StateOf, HeldBy
<1>4. CASE RejectPayment(r) \/ SubmitUpdate(r) \/ SubmitInsert(r)
  <2>1. /\ \A i \in Installment, p \in Req : HeldBy(i, p)' = HeldBy(i, p)
        /\ \A p \in Req : StateOf(p)' = StateOf(p)
    BY <1>1, <1>4, MovesNoMoney
  <2> QED
    BY <2>1 DEF State, Money
<1> QED
  BY <1>2, <1>3, <1>4, PayWrites

\* One request at a time, recordPayment, verifyPayment and reversePayment do
\* what the abstract receivable promises at the statement that writes the
\* payment row, and every other statement of every handler is invisible to it.
THEOREM PromiseKept ==
  ASSUME Orderly
  PROVE  Spec => KeepsPromise
<1>1. Init => Promise!Init
  BY InitPromise
<1>2. BInv /\ [Next]_vars => [Promise!Next]_<<State, Money>>
  <2> SUFFICES ASSUME BInv, [Next]_vars PROVE Promise!Next \/ UNCHANGED <<State, Money>>
    OBVIOUS
  <2>1. ASSUME NEW r \in Req, Start(r) \/ Continue(r)
        PROVE  Promise!Next \/ UNCHANGED <<State, Money>>
    BY <2>1, AcceptKept, WithdrawKept, OthersStutter
  <2>2. ASSUME NEW r \in Req, Fail(r) PROVE FALSE
    BY <2>2 DEF Fail, Orderly
  <2>3. CASE UNCHANGED pay
    BY <2>3 DEF State, Money, StateOf, HeldBy
  <2> QED
    BY <2>1, <2>2, <2>3, CalendarKeeps DEF Next, vars, BInv, SInv
<1>3. Spec => []BInv
  BY BooksInvariance
<1> QED
  BY <1>1, <1>2, <1>3, PTL DEF Spec, KeepsPromise, Promise!Spec, State, Money
===============================================================================
