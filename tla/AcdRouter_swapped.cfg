SPECIFICATION FairSpec
CONSTANTS
  Agents = {a1}
  Callers = {c1, c2}
  Entries = {e1, e2, e3}
  NoAgent = NoAgent
  NoCaller = NoCaller
  NoEntry = NoEntry
  MaxOffers = 2
  HoldAudio = TRUE
  MaxAsks = 0
  Faults = {}
CHECK_DEADLOCK FALSE
PROPERTY AgentReturns
