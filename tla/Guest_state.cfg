SPECIFICATION Spec
CONSTANTS
  Explored = {"tools", "shell", "child", "results", "mirror"}
  None = None
  s1 = s1
  s2 = s2
  h1 = h1
  p1 = p1
  p2 = p2
  Sessions = {s1, s2}
  Hosts = {h1}
  Jobs = {j1}
  Lsp = lsp
  Commands <- MCCommands
  HostPrograms = {"rustc", "cargo"}
  ExitCodes = {1}
  MaxCommands = 3
  SessionIds = {0}
  Keys = {"line"}
  MaxLoops = 2
  MaxEvents = 3
  Paths = {p1, p2}
  Chunks = 1
  MaxRequests = 2
  MaxEdits = 2
  MaxTraps = 2
  Faults = {}
  MaxFaults = 0
  Callers = {c1, c2}
  Sizes = {0, 1, 3}
  Align = 2
  PageBytes = 4
  MaxPages = 4
  MaxAnswers = 3
  TreePaths = {"d", "d/f", "d/x", "s"}
  TreeAncestors <- MCAncestors
  TreeHosts <- MCHosts
  Excluded = {"s"}
  Sysroot = {"s"}
  Runtimes = {{}, {"d/x"}}
  MaxEntries = 2
  MaxRuns = 2
  MaxWrites = 2
  MaxTreeEdits = 1
SYMMETRY Symmetric
INVARIANTS ToolRunsSound BootstrapsSound ResultsSound MirrorSound ImportSound DeliveriesSound
PROPERTIES HostIsTransactional
\* Every bound may be used up.
CHECK_DEADLOCK FALSE
