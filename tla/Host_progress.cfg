SPECIFICATION FairSpec
CONSTANTS
  Explored = {"http", "download", "asset", "coordinator", "language", "transport", "readiness", "documents", "activation", "runtime"}
  None = None
  Bad = Bad
  Threads = {t1, t2}
  MaxRetained = 2
  MaxBody = 2
  MaxChunk = 2
  Bodies = {2, 3}
  Size <- MCSize
  Build <- MCBuild
  Frames <- MCFrames
  MaxAttempts = 1
  Tabs = {"t1", "t2"}
  Timeout = 1
  Providers = {v1, v2}
  MaxWrites = 3
  MaxFrameChunk = 4
  Phase = 3
  Request = 2
  Poll = 1
  MaxVersion = 3
  MaxPublished = 2
  Docs = {d1}
  Flushes = {run1, run2, dispose}
  Disposer = dispose
  MaxEdits = 2
  MaxTexts = 4
  Failing = {d1}
  Gens = {g1}
  Ops = {call1, call2}
  Faults = {"construct", "factory", "initialize", "callbacks", "animal", "cleanup"}
INVARIANTS TransportSound
PROPERTIES TeardownSound CacheSound CoordinatorSound LanguageSound ReadinessSound DocumentsSound ActivationSound HostEnds
\* Every bound may be used up.
CHECK_DEADLOCK FALSE
