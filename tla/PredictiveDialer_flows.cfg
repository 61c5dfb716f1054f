SPECIFICATION FairSpec
CONSTANTS
  Contacts = {1, 2}
  Agents = {a1}
  NoAgent = NoAgent
  Households = {}
  MaxAttempts = 2
  Legs = {l1, l2, l3}
  Uuids = {u1}
  NoContact = 0
  Later = {}
  Night = {}
  GroupHouseholds = FALSE
  VoicemailFile = TRUE
  LegacyRooms = FALSE
  MaxOptOutSkips = 2
  MaxWindowSkips = 25
  Faults = {}
  Edits = {}
  MaxEdits = 0
CHECK_DEADLOCK FALSE
PROPERTY AgentIsServed
