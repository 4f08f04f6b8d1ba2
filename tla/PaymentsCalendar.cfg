CONSTANTS
  i1 = i1
  i2 = i2
  r1 = r1
  r2 = r2
  r3 = r3
  r4 = r4
  r5 = r5
  None = None
  Installment <- OneInst
  Due <- DueOfOne
  Req <- ThreeReq
  Amount = {1, 3}
  Ops <- CalendarOps
  MaxInFlight = 2
  MayFail = FALSE
  OnlyListed = TRUE
  MaxAge = 6
SPECIFICATION FairSpec
CHECK_DEADLOCK FALSE
PROPERTIES OverdueIsFlagged
