CONSTANTS
  i1 = i1
  i2 = i2
  r1 = r1
  r2 = r2
  r3 = r3
  r4 = r4
  r5 = r5
  None = None
  Installment <- OneInst
  Due <- DueOfOne
  Req <- FourReq
  Amount = {1, 3}
  Ops <- GatewayOps
  MaxInFlight = 1
  MayFail = FALSE
  OnlyListed = TRUE
  MaxAge = 0
SPECIFICATION Spec
CHECK_DEADLOCK FALSE
INVARIANTS AcceptedWithinDue
