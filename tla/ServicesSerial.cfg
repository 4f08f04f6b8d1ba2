CONSTANTS
  d1 = d1
  d2 = d2
  s1 = s1
  s2 = s2
  x1 = x1
  x2 = x2
  x3 = x3
  payments = payments
  documents = documents
  e1 = e1
  e2 = e2
  u1 = u1
  n1 = n1
  n2 = n2
  t1 = t1
  t2 = t2
  None = None
  NaN = NaN
  Requests = 3
  Desks <- SerialDesks
  MaxInFlight = 1
  PoolMax = 2
  MayThrow = {}
  MayCrash = {"execute", "generate"}
  Decision <- TwoDecisions
  Party <- Parties
  ExecutionId <- FourIds
  ActionType <- TypeOfFour
  RetryLimit = 1
  Student <- TwoStudents
  Dimension <- TwoDimensions
  Weight <- Weights
  Kind <- AllKinds
  Ceiling = 600
  Email <- TwoUsers
  User <- OneUser
  MaxAttempts = 2
  Address <- TwoUsers
  DocType <- TwoTypes
  Name <- TwoNames
  Portal <- OneUser
  Tranche <- TwoTypes
  Enrolled <- TwoUsers
  Sheet <- Sheets
SPECIFICATION FairSpec
CHECK_DEADLOCK FALSE
INVARIANTS OncePerId SameAnswer TermsMatch ScoreFollowsLog SeriousIsCapped CacheIsCurrent OneAgreementInForce AssessmentExplained
PROPERTIES AnsweredOnce HandlersEnd
