SPECIFICATION FairSpec
CONSTANTS
  Explored = {"tools", "shell", "child"}
  None = None
  s1 = s1
  s2 = s2
  h1 = h1
  p1 = p1
  p2 = p2
  Sessions = {s1, s2}
  Hosts = {h1}
  Jobs = {j1}
  Lsp = lsp
  Commands <- MCCommands
  HostPrograms = {"rustc", "cargo"}
  ExitCodes = {1}
  MaxCommands = 3
  SessionIds = {0}
  Keys = {"line"}
  MaxLoops = 2
  MaxEvents = 2
  Paths = {p1}
  Chunks = 2
  MaxRequests = 2
  MaxEdits = 0
  MaxTraps = 1
  Faults = {"clear", "terminate", "restore"}
  MaxFaults = 1
  Callers = {c1, c2}
  Sizes = {0, 1, 3}
  Align = 2
  PageBytes = 4
  MaxPages = 4
  MaxAnswers = 3
  TreePaths = {"d", "d/f", "d/x"}
  TreeAncestors <- MCAncestors
  TreeHosts <- MCHosts
  Excluded = {}
  Sysroot = {}
  Runtimes = {{}, {"d/x"}}
  MaxEntries = 2
  MaxRuns = 2
  MaxWrites = 2
  MaxTreeEdits = 1
INVARIANTS DisposedClean
PROPERTIES GuestEnds
\* Every bound may be used up.
CHECK_DEADLOCK FALSE
