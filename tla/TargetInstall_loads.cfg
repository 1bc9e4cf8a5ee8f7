SPECIFICATION FairSpec
CONSTANTS t1 = t1
          t2 = t2
          NoTriple = NoTriple
          Triples <- TwoTargets
          Capacity = 1
          Chunks = 2
          MaxRequests = 2
INVARIANTS RunExcludesInstall LoadsTracked
PROPERTY LoadsEnd
\* Every target may be loaded, or the runtime gone.
CHECK_DEADLOCK FALSE
