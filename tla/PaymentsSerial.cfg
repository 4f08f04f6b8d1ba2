CONSTANTS
  i1 = i1
  i2 = i2
  r1 = r1
  r2 = r2
  r3 = r3
  r4 = r4
  r5 = r5
  None = None
  Installment <- TwoInst
  Due <- DueOfTwo
  Req <- FourReq
  Amount = {1, 2, 3}
  Ops <- ReceiptOps
  MaxInFlight = 1
  MayFail = FALSE
  OnlyListed = TRUE
  MaxAge = 0
SPECIFICATION Spec
CHECK_DEADLOCK FALSE
SYMMETRY ReqSymmetry
INVARIANTS BooksAgree AcceptedWithinDue OnePendingReceipt
PROPERTIES VerifiedIsFinal KeepsPromise
