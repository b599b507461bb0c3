\* An acknowledged operation that recovery does not give back.
SPECIFICATION Spec
CONSTANTS
  Ops <- TestOps
  Legal <- TestLegal
  MaxOps = 3
  MaxFaults = 3
INVARIANT AcknowledgedSurvivesCrash
