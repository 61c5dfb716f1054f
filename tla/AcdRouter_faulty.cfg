SPECIFICATION Spec
CONSTANTS
  Agents = {a1}
  Callers = {c1}
  Entries = {e1, e2, e3}
  NoAgent = NoAgent
  NoCaller = NoCaller
  NoEntry = NoEntry
  MaxOffers = 2
  HoldAudio = TRUE
  MaxAsks = 1
  Faults = {"hangup", "lost", "kill", "dberror", "reject", "ambiguous", "late", "split"}
SYMMETRY Symmetry
CHECK_DEADLOCK FALSE
INVARIANT OffersBounded
