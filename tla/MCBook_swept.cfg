\* A taker that walks two levels trades at a stop's trigger, ends beyond it and
\* leaves the stop parked.
SPECIFICATION Spec
CONSTANTS
  OrderIds = {1, 2, 3, 4}
  Owners = {1, 2}
  Orders <- SweepOrders
  MinPx = 1
  MaxPx = 3
  Tick = 1
  Capacity = 4
  PriceCollarBps = 0
  PositionLimit = 0
  MaxCascades = 2
  MaxSubmits = 4
ACTION_CONSTRAINT LeastIds
INVARIANT ParkedUntilTraded
