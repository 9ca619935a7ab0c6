CONSTANTS
  MIN_MTU = 508
  Mtus <- MCMtus
  Sizes <- MCSizes
  HopCounts <- SomeHops
SPECIFICATION Spec
CHECK_DEADLOCK FALSE
INVARIANTS CutsWell WholeMessage RefusedOnlyForHops
