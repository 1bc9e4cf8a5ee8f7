SPECIFICATION FairSpec
CONSTANT Faults <- AllFaults
INVARIANTS AnimalSafe HandshakeOrdered
PROPERTIES ImplementsCustody CallersHear
\* A terminal handshake has stopped both workers: nothing is left to happen.
CHECK_DEADLOCK FALSE
