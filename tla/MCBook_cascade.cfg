\* A submit releases more stops than maxTriggerCascades.
SPECIFICATION Spec
CONSTANTS
  OrderIds = {1, 2, 3, 4, 5}
  Owners = {1, 2}
  Orders <- StopOrders
  MinPx = 1
  MaxPx = 3
  Tick = 1
  Capacity = 5
  PriceCollarBps = 0
  PositionLimit = 0
  MaxCascades = 1
  MaxSubmits = 5
ACTION_CONSTRAINT LeastIds
INVARIANT CascadeBounded
