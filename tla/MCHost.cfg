SPECIFICATION HostSpec
CONSTANTS
  MaxAgents = 2
  MaxFaults = 1
  FileSizes = {0, 9, 10, 12}
  HeaderBase = 20
  Budgets = {26, 27, 29, 60}
  Requests = {1, 4}
  Surfer = {1, 2}
  Engines = 2
  MaxFetches = 3
  Path = {1}
  Words <- WordsOf
  Settings <- ChunkSettings
  Caller = {"parent", "child"}
  MaxCalls = 3
  MaxRedact = 1
  MinimumAnswers = 1
  MaximumAnswers = 2
  Client = {w1}
  MaxInputs = 3
  MaxLaunches = 2
  Histories <- Conversations
  ConfigContext = 0
  Contexts = {300, 1200}
  SafetyTokens = 128
  MaxTokens = 512
  MaximumRetries = 1
  ToolTokens = 100
  CatalogueChars = 290
  Replies <- ModelReplies
  Pieces = 2
CHECK_DEADLOCK FALSE
INVARIANTS
  ChildrenAccounted
  PagesCover
  DocumentsKeptOnce
  NobodyUnheard
  FirstTalkSound
  CompletionSound
PROPERTIES
  SettledForGood
