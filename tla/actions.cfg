SPECIFICATION Spec
CONSTANTS
  Actions <- MCActions
  Rules <- MCRules
  Universal = "universal"
  JumpTable = "jumptable"
  FollowsFlow <- MCFollowsFlow
  Kind <- MCKind
  Flags <- MCFlags
  List <- MCList
  Below <- MCBelow
  PerOp <- MCPerOp
  MaxRestarts = 1
  NumOps = 2
  InitialCode <- MCInitialCode
  BreakPoints <- MCBreakPoints
  MaxChanges = 2
  MaxTables = 1
  MaxPerforms = 2
INVARIANTS
  TypeOK
  OncePerStart
  RestartHonoured
PROPERTIES
  FixpointReached
  NoChangeForgotten
  PerformReturns
CHECK_DEADLOCK FALSE
