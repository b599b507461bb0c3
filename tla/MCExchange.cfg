\* A demo with two visitors, a simulation with two makers, a market of two steps,
\* two threads on one engine, three sessions of a strategy, a path of seven bars.
SPECIFICATION ExchangeSpec
CONSTANTS
  Makers = {"m1", "m2"}
  None = None
  MaxInventory = 2
  Visitors = {"v1", "v2"}
  Pairs <- TwoPairs
  QuoteSize = 1
  CrowdOrders <- DemoCrowd
  VisitorOrders <- VisitorWishes
  MaxOpenOrders = 2
  MaxOrders = 4
  Quotable <- ThreePairs
  Size = 1
  TraderOrders <- SimTraders
  MaxTurns = 6
  Routes = {"route"}
  Steps <- WidePairs
  LotSize = 1
  AgentOrders <- MarketTraders
  UserOrders <- UserWishes
  Unknown = Unknown
  MaxTracked = 2
  MaxRecent = 2
  MaxVolumes = 1
  MaxEntered = 6
  MaxSteps = 2
  Callers = {"t1", "t2"}
  Ops = {"submit", "quotes", "bad"}
  MaxCalls = 3
  Kinds = {"pairs", "kelly", "basket", "calendar", "strangle", "condor", "hedged"}
  Strikes = {1, 2}
  Qty = 2
  KellySizes = {1, 2}
  Ratios <- SignedRatios
  Filled <- AllOrNothing
  MaxSessions = 3
  Adapters = {"pairs", "kelly", "basket", "options", "hedged"}
  Bars = 7
  Lots = 2
  KellyLots = {1, 3}
  HedgeRatios = {0, 1, 2}
  OptionLegs = {"near", "far"}
  LegSide <- SoldNear
  HoldBars = 4
  RebalanceBars = 2
  MinRebalance = 2
INVARIANTS AnswersAreOwn FlatHoldsNothing AdapterKnowsItsPosition LedgerIsTheBook MakersOwnTheirQuotes FillsAreAttributed BarsPairUp
PROPERTY EveryCallEnds
CHECK_DEADLOCK FALSE
