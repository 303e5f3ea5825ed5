SPECIFICATION Spec
CONSTANTS
  Repertoires <- SomeCalls
  LineSize = 4
  CommentFill = 1
  HardBreak = 5
  Gain = 1
  IndentIncrement = 1
  QueueSize = 4
  Expansion = 2
  Texts = {2, 3}
  Gaps = {1}
  Bumps = {0}
  Margins = {1}
  MaxDepth = 2
  MaxQuiet = 2
  MaxHeld = 2
  MaxTotal = 4
CHECK_DEADLOCK FALSE
INVARIANTS
  TypeOK
  ScanqueueIsOpenTokens
  NothingWaitsUnscanned
  FlushesClean
  SpaceIsReal
  UnitsStayWhole
PROPERTIES
  ExpandsWithOpenTokens
  WithinMargin
  FunctionPrinted
  InOrder
