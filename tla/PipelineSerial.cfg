CONSTANTS
  a1 = a1
  a2 = a2
  s1 = s1
  v1 = v1
  v2 = v2
  r1 = r1
  r2 = r2
  r3 = r3
  r4 = r4
  None = None
  App <- TwoApp
  Student <- OneStudent
  Owner <- OwnerOfTwo
  Opened <- OneOfTwo
  Req <- FourReq
  Reviewer <- TwoReviewers
  Mode <- SmallAmount
  Levels = {"approved_level1", "approved_level2", "approved_level3"}
  QueueEnabled = TRUE
  Reentry = {1}
  Ballots <- NoBallots
  Ops = {"apply", "create", "transition", "appeal", "start", "fraud"}
  ByHand = {"waiting_for_documents", "under_review", "on_hold", "approved_level1", "rejected"}
  MaxInFlight = 1
  MayFail = FALSE
SPECIFICATION Spec
CHECK_DEADLOCK FALSE
SYMMETRY Symmetry
INVARIANTS HistoryIsTrail WaitingIsListed
PROPERTIES DecisionIsExecuted FollowsLifecycle MembershipNeverFalls TimelineFollowsCase
