SPECIFICATION Spec
CONSTANTS
  Contacts = {1}
  Agents = {a1, a2}
  NoAgent = NoAgent
  Households = {}
  MaxAttempts = 1
  Usages = {u1, u2}
  FollowedCalls = {u1}
  FollowedTexts = {}
  Tabs = {t1, t2}
  Dispatchers = {d1, d2}
  NoContact = NoContact
  NoSender = NoSender
  NoUsage = NoUsage
  Sessions = {}
  Price = 1
  TopUp = 1
  OpeningCredits = 2
  Faults = {"kill", "night", "ambiguous"}
  BatchSize = 1
  MaxTries = 2
  Types = {"live_call", "message"}
  Numbers = {}
  Sweeps = {}
  NoNumber = NoNumber
  Rent = 1
  MaxCatchUp = 36
  LastCycle = 5
SYMMETRY Symmetry
PROPERTY NotDialedAgain
PROPERTY RecordedOnce
PROPERTY StopIsHeard
INVARIANT DispatchAlive
ACTION_CONSTRAINT JobsWait
