\* The tick loop and the routes of a desk.
SPECIFICATION FairSpec
CONSTANTS
  Threads = {1, 2}
  Subs = {"sub"}
  Primary = "primary"
  Scaled <- Clone
  Prices = {4, 8}
  StartPrice = 4
  OrderRequests <- Requests
  AlgoRequests <- Algos
  Signals <- Emitted
  StartingCash = 20
  DrawdownPct = 30
  MaxEvents = 2
  MaxStart = 1
ACTION_CONSTRAINT Few
INVARIANTS ActiveCovered ClosesOnce  TotalSent
PROPERTIES HaltOnlyReduces HaltFlattens
