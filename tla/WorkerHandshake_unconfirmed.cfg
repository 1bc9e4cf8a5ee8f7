SPECIFICATION Spec
CONSTANT Faults <- AllFaults
INVARIANT NoFalseSafeDisposal
CHECK_DEADLOCK FALSE
