SPECIFICATION Spec
CONSTANTS
  main = main
  lib = lib
  run1 = run1
  run2 = run2
  dispose = dispose
  Docs <- OneDoc
  Flushes <- TwoRuns
  Disposer = dispose
  MaxEdits = 3
  Failing <- OneDoc
PROPERTY FlushedTextIsLatest
\* Every call may have settled and no timer be running.
CHECK_DEADLOCK FALSE
