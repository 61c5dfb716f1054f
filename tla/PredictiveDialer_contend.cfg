SPECIFICATION Spec
CONSTANTS
  Contacts = {1, 2}
  Agents = {a1, a2}
  NoAgent = NoAgent
  Households = {{1, 2}}
  MaxAttempts = 2
  Legs = {l1, l2, l3}
  Uuids = {u1}
  NoContact = 0
  Later = {}
  Night = {}
  GroupHouseholds = FALSE
  VoicemailFile = TRUE
  LegacyRooms = TRUE
  MaxOptOutSkips = 2
  MaxWindowSkips = 25
  Faults = {"reject", "ambiguous", "instant"}
  Edits = {"stop"}
  MaxEdits = 1
SYMMETRY Symmetry
CHECK_DEADLOCK FALSE
INVARIANT TypeOK
INVARIANT NoDoubleDial
INVARIANT FailedWasTried
PROPERTY OptOutHonoured
PROPERTY CompletionSparesAttempts
PROPERTY RefinesCallList
PROPERTY HouseholdLeft
