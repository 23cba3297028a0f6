SPECIFICATION Spec
CONSTANTS
  NameOrder <- MCNameOrder
  Lower <- MCLower
  Decimal <- MCDecimal
  Number <- MCNumber
  Cuts <- MCCuts
  LinesIn <- MCLinesIn
  EmptyLines <- MCEmptyLines
  MethodOrder <- MCMethodOrder
  PatternOrder <- MCPatternOrder
  Matches <- MCMatches
  Invalid = {"/("}
  Requests <- MCRequests
  Answers <- MCAnswers
  RouteSet <- MCRouteSet
  Probes <- MCProbes
  MaxCalls = 4
  SetUpCalls = 2
  RouteTables <- MCRouteTables
  ForeignRequests <- MCForeignRequests
  ForeignResponses <- MCForeignResponses
  Overreads <- MCOverreads
  Garbage = {0, 200}
INVARIANTS
  TypeOK
  FirstAddedWins
  FindsRightRoute
  RequestArrives
  ResponseArrives
  StatusArrives
  TokenNeeded
  BodyWholeOrNone
PROPERTIES
  OnlyMatchingAffected
CHECK_DEADLOCK FALSE
