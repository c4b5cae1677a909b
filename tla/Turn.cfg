\* The session rests once MaxRequests requests are answered.
SPECIFICATION FairSpec
CONSTANTS
  Envelope = 8
  Tier2Prefix = 4
  CharsPerToken = 4
  Bodies = {"hi", "long", "photo", "reply", "call", "tool", "none", "summary"}
  Blank = " "
  NoOutput = NoOutput
  NoResult = NoResult
  NoQuestion = NoQuestion
  Answers <- AllAnswers
  Attempts = 2
  Wires <- AllWires
  ToolNames = {"echo", "mcp", "rm", "other"}
  DenyNames = {"rm"}
  LocalTools = {"echo", "rm"}
  McpAllowlist = {"mcp", "echo"}
  Servers = 2
  Transports = {"none", "stdio", "http", "http_stream"}
  Limits <- AllLimits
  Questions <- AllQuestions
  OutputSizes = {8, 24}
  Marker = 2
  ReplySize = 8
  Images = {TRUE, FALSE}
  Histories <- AllHistories
  FtsWords = 1
  HitLimit = 3
  ScanLimit = 4
  RrfK = 60
  Policies <- AllPolicies
  Memories <- SomeMemories
  Setups <- AllSetups
  MaxLoops = 2
  MaxRequests = 2
INVARIANTS
  ToolMessagesAnswerCalls
  ContextFits
  StreamAgrees
  AnsweredByLast
  RecallBest
PROPERTY TurnEnds
CHECK_DEADLOCK FALSE
