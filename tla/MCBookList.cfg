\* The storage of the book: arena, queues, bitmaps and index.
SPECIFICATION ListSpec
CONSTANTS
  OrderIds = {1, 2, 3, 4}
  Owners = {1, 2}
  Orders <- ListOrders
  MinPx = 1
  MaxPx = 5
  Tick = 1
  Capacity = 3
  PriceCollarBps = 0
  PositionLimit = 0
  MaxCascades = 1
  MaxSubmits = 4
  WordBits = 2
ACTION_CONSTRAINT NumberedIds
INVARIANTS QueuesHoldTheBook HeadsHavePriority ArenaExact AggregatesExact WalksExact
