CONSTANTS
  d1 = d1
  d2 = d2
  s1 = s1
  s2 = s2
  x1 = x1
  x2 = x2
  x3 = x3
  payments = payments
  documents = documents
  e1 = e1
  e2 = e2
  u1 = u1
  n1 = n1
  n2 = n2
  t1 = t1
  t2 = t2
  None = None
  NaN = NaN
  Requests = 3
  Desks <- RaceDesks
  MaxInFlight = 2
  PoolMax = 3
  MayThrow = {"execute", "sign", "correct", "login", "deactivate"}
  MayCrash = {}
  Decision <- OneDecision
  Party <- Parties
  ExecutionId <- ThreeIds
  ActionType <- TypeOfThree
  RetryLimit = 1
  Student <- OneStudent
  Dimension <- OneDimension
  Weight <- Weights
  Kind <- TwoKinds
  Ceiling = 600
  Email <- TwoUsers
  User <- OneUser
  MaxAttempts = 2
  Address <- TwoUsers
  DocType <- TwoTypes
  Name <- TwoNames
  Portal <- OneUser
  Tranche <- TwoTypes
  Enrolled <- TwoUsers
  Sheet <- Sheets
SPECIFICATION Spec
CHECK_DEADLOCK FALSE
INVARIANTS TypeOK ResultIsReal SignedHasSignatures ScopeKeepsPolicy NeverLockedEarly OpenSessionsAreExplained MembersAreWhole ChecklistIsBacked AttendanceIsAnnounced
