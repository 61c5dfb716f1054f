SPECIFICATION Spec
CONSTANTS
  Agents = {a1, a2}
  Callers = {c1, c2}
  Entries = {e1, e2, e3}
  NoAgent = NoAgent
  NoCaller = NoCaller
  NoEntry = NoEntry
  MaxOffers = 2
  HoldAudio = TRUE
  MaxAsks = 1
  Faults = {"lost", "kill", "reject"}
SYMMETRY Symmetry
CHECK_DEADLOCK FALSE
INVARIANT TypeOK
INVARIANT OneOfferPerAgent
INVARIANT OnePhonePerCaller
PROPERTY RefinesReception
