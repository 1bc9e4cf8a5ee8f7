SPECIFICATION Spec
CONSTANTS
  main = main
  lib = lib
  run1 = run1
  run2 = run2
  dispose = dispose
  Docs <- TwoDocs
  Flushes <- OneRun
  Disposer = dispose
  MaxEdits = 2
  Failing <- OneDoc
INVARIANT NoSilentLoss
PROPERTIES FlushBarrier DisposeDrains
\* Every call may have settled and no timer be running.
CHECK_DEADLOCK FALSE
