\* A calendar spread, whose two legs share their strike.
SPECIFICATION StrategySpec
CONSTANTS
  Kinds = {"calendar"}
  Strikes = {1, 2}
  Qty = 2
  KellySizes = {1}
  Ratios <- RoundedRatios
  Filled <- AllOrNothing
  MaxSessions = 3
INVARIANT OptionsAreSeen
CHECK_DEADLOCK FALSE
