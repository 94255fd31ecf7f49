SPECIFICATION FairSpec
CONSTANTS
  InitialCapital = 601
  FeeNum = 1
  FeeDen = 10
  Prices = {2, 3, 7}
  MaxCandles = 4
  MinCandles = 2
  StaleLimit = 2
  Limits = {3, NoLimit}
  NoLimit = NoLimit
  NoBest = NoBest
  Horizon = 9
INVARIANTS TypeOK BestIsGreatest TradesExplainCapital
PROPERTIES StopIsPrompt LoopEnds
CHECK_DEADLOCK FALSE
