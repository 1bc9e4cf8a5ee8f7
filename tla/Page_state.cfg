SPECIFICATION Spec
CONSTANTS
  Explored = {"http", "download", "terminal", "commands", "gesture", "panes", "texts", "workspace", "source"}
  None = None
  Threads = {t1, t2, t3}
  MaxRetained = 2
  MaxBody = 2
  MaxChunk = 2
  Bodies = {2, 3}
  Names = {"a", "b"}
  MaxNodes = 3
  MaxDocumentWrites = 1
  MaxSteps = 2
  PartSize <- MCSize
  Document <- MCDocument
  MaxAttempts = 1
  Views = {v1, v2}
  Limit = 3
  MaxChars = 3
  MaxTokens = 3
  MaxDepth = 3
  MaxCalls = 4
  MaxY = 3
  Tolerance = 0
  TapDistance = 1
  ScrollDistance = 2
  LongPress = 2
  TapTime = 1
  Block = 3
  MaxGestures = 2
  MaxSession = 2
  MaxPanes = 3
  MaxText = 1
  MaxMounts = 2
  MaxModels = 2
  Entries = {"f", "l"}
  Links = {"l"}
  Readers = {"r"}
  ImageSize = 1
  MaxGenerations = 2
  MaxChanges = 1
INVARIANTS DownloadSound CommandsSound GesturesSound PageSound WorkspaceSound
PROPERTIES HttpSound TerminalSound SourceSound
\* Every bound may be used up.
CHECK_DEADLOCK FALSE
