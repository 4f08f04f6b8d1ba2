CONSTANTS
  a1 = a1
  a2 = a2
  s1 = s1
  v1 = v1
  v2 = v2
  r1 = r1
  r2 = r2
  r3 = r3
  r4 = r4
  None = None
  App <- TwoApp
  Student <- OneStudent
  Owner <- OwnerOfTwo
  Opened <- UnderReview
  Req <- ThreeReq
  Reviewer <- TwoReviewers
  Mode <- LargeAmount
  Levels = {"approved_level1", "approved_level2", "approved_level3"}
  QueueEnabled = TRUE
  Reentry = {7}
  Ballots <- NoBallots
  Ops = {"start", "transition", "fraud"}
  ByHand = {"approved_level1"}
  MaxInFlight = 1
  MayFail = FALSE
SPECIFICATION Spec
CHECK_DEADLOCK FALSE
SYMMETRY Symmetry
PROPERTIES BlacklistIsPermanent
