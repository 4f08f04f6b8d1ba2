CONSTANTS
  i1 = i1
  i2 = i2
  r1 = r1
  r2 = r2
  r3 = r3
  r4 = r4
  r5 = r5
  None = None
  Installment <- OneInst
  Due <- DueOfOne
  Req <- ThreeReq
  Amount = {1, 2, 3}
  Ops <- AllOps
  MaxInFlight = 3
  MayFail = TRUE
  OnlyListed = FALSE
  MaxAge = 0
SPECIFICATION Spec
CHECK_DEADLOCK FALSE
SYMMETRY ReqSymmetry
INVARIANTS TypeOK NeverOverpaid PaidIffFull LedgerBalanced
