\* A reset that dies on its way, and the start-up after it.
SPECIFICATION Spec
CONSTANTS
  Runs = {r1, r2}
  Kinds = {"start", "reset"}
PROPERTIES
  AutoSeedSeeds
CHECK_DEADLOCK FALSE
