\* Up to three start-ups and resets, overlapping or not, that die anywhere.
SPECIFICATION Spec
CONSTANTS
  Runs = {r1, r2, r3}
  Kinds = {"start", "bare_start", "reset"}
SYMMETRY RunSymmetry
INVARIANTS
  TypeOK
  TransactionsKeepItSeedable
  SeedableAtRest
  KeyIndexIsLostOnlyByDeath
  AllFailOnlyAroundReset
PROPERTIES
  SuccessMeansReady
\* Every run is done once.
CHECK_DEADLOCK FALSE
