SPECIFICATION Spec
CONSTANTS
  Request = {r1, r2, r3, r4, r5}
  IP = {c1}
  Unit = 3
  Rate = 2
  Burst = 2
  MaxTime = 3
SYMMETRY Symmetric
INVARIANTS
  WindowBound
  BurstGranted
PROPERTIES
  ImplementsTokenBucket
