CONSTANTS
  a1 = a1
  a2 = a2
  s1 = s1
  v1 = v1
  v2 = v2
  r1 = r1
  r2 = r2
  r3 = r3
  r4 = r4
  None = None
  App <- OneApp
  Student <- OneStudent
  Owner <- OwnerOfOne
  Opened <- Fresh
  Req <- TwoReq
  Reviewer <- TwoReviewers
  Mode <- LargeAmount
  Levels = {"approved_level1", "approved_level2", "approved_level3"}
  QueueEnabled = TRUE
  Reentry = {1}
  Ballots <- YesOrWait
  Ops = {"start", "transition", "decide", "override"}
  ByHand = {"under_review", "rejected"}
  MaxInFlight = 2
  MayFail = FALSE
SPECIFICATION FairSpec
CHECK_DEADLOCK FALSE
PROPERTIES RunEnds
