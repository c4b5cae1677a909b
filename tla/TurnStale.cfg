\* The session rests once MaxRequests requests are answered.
SPECIFICATION Spec
CONSTANTS
  Envelope = 8
  Tier2Prefix = 4
  CharsPerToken = 4
  Bodies = {"hi", "long", "photo", "reply", "call", "tool", "none", "summary"}
  Blank = " "
  NoOutput = NoOutput
  NoResult = NoResult
  NoQuestion = NoQuestion
  Answers <- TwoAnswers
  Attempts = 1
  Wires <- AllWires
  ToolNames = {"echo", "mcp", "rm", "other"}
  DenyNames = {"rm"}
  LocalTools = {"echo", "rm"}
  McpAllowlist = {"mcp", "echo"}
  Servers = 2
  Transports = {"none"}
  Limits <- DefaultLimits
  Questions <- TwoQuestions
  OutputSizes = {8, 24}
  Marker = 2
  ReplySize = 8
  Images = {TRUE}
  Histories <- AllHistories
  FtsWords = 1
  HitLimit = 3
  ScanLimit = 4
  RrfK = 60
  Policies <- NoRecall
  Memories <- SomeMemories
  Setups <- OneSetup
  MaxLoops = 3
  MaxRequests = 2
INVARIANT ContextHoldsQuestion
CHECK_DEADLOCK FALSE
