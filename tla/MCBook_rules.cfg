\* One instance of every rule: matching, stops, price collar, position limit,
\* termination of every call under the fairness of its goroutine.
SPECIFICATION FairSpec
CONSTANTS
  OrderIds = {1, 2, 3, 4}
  Owners = {1, 2}
  Orders <- RuleOrders
  MinPx = 1
  MaxPx = 3
  Tick = 1
  Capacity = 3
  PriceCollarBps = 5000
  PositionLimit = 2
  MaxCascades = 1
  MaxSubmits = 4
ACTION_CONSTRAINT LeastIds
INVARIANTS NotCrossed PositionsNetToZero FOKAllOrNothing FillsWalkTheBook
  StopsQuiet TakerWithinLimit
PROPERTIES RejectIsNoOp EveryCallReturns
