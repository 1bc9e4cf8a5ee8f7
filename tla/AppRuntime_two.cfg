SPECIFICATION FairSpec
CONSTANTS
  g1 = g1
  g2 = g2
  call1 = call1
  call2 = call2
  Nobody = Nobody
  Gens <- TwoGens
  Ops <- NoCalls
  Faults <- SlotFaults
INVARIANTS FarmOutlivesUsers QuarantineRetains
PROPERTIES SlotImplemented CreateEnds
\* Every generation may have been disposed of, or quarantined.
CHECK_DEADLOCK FALSE
