SPECIFICATION Spec
CONSTANTS
  Contacts = {1}
  Agents = {a1}
  NoAgent = NoAgent
  Households = {}
  MaxAttempts = 1
  Usages = {u1}
  FollowedCalls = {u1}
  FollowedTexts = {u1}
  Tabs = {t1}
  Dispatchers = {d1}
  NoContact = NoContact
  NoSender = NoSender
  NoUsage = NoUsage
  Sessions = {s1}
  Price = 1
  TopUp = 2
  OpeningCredits = 1
  Faults = {"kill", "replay", "lost", "dberror", "reject", "ambiguous", "config", "landline"}
  BatchSize = 1
  MaxTries = 2
  Types = {"none", "live_call", "message"}
  Numbers = {n1}
  Sweeps = {b1}
  NoNumber = NoNumber
  Rent = 1
  MaxCatchUp = 36
  LastCycle = 5
SYMMETRY Symmetry
INVARIANT TypeOK
INVARIANT BalanceIsLedger
INVARIANT NoFreeUsage
INVARIANT CallTracked
PROPERTY RefinesAccount
INVARIANT RestoredWhenPaid
PROPERTY ReleaseEarned
PROPERTY BehindIsSuspended
ACTION_CONSTRAINT OneConcern
