\* Crash recovery under kills, power losses and failing writes.
SPECIFICATION Spec
CONSTANTS
  Ops <- TestOps
  Legal <- TestLegal
  MaxOps = 3
  MaxFaults = 3
INVARIANTS NoSilentLoss ReplayNeverDiverges KillsAreHarmless
