\* Two threads and one order, with every fault; three websockets; three readers.
SPECIFICATION LiveSpec
CONSTANTS
  o1 = o1
  h1 = h1
  h2 = h2
  Orders = {o1}
  Handlers = {h1, h2}
  MaxPlaced = 3
  Clients = {"c1", "c2", "c3"}
  NoFeed = NoFeed
  MaxFeeds = 2
  Readers = {"r1", "r2", "r3"}
  NotLoaded = NotLoaded
  MaxDays = 3
INVARIANTS SubmittedIsProven PlacedOnce BrokerAgrees FeedFollowsWatchers MemoryFollowsFile
PROPERTIES HaltHolds SemaphoreReturns
CHECK_DEADLOCK FALSE
