SPECIFICATION RestlessSpec
CONSTANTS
  Contacts = {1, 2}
  Agents = {a1}
  NoAgent = NoAgent
  Households = {}
  MaxAttempts = 2
  Legs = {l1, l2}
  Uuids = {u1}
  NoContact = 0
  Later = {}
  Night = {}
  GroupHouseholds = FALSE
  VoicemailFile = FALSE
  LegacyRooms = TRUE
  MaxOptOutSkips = 2
  MaxWindowSkips = 25
  Faults = {"kill", "reject"}
  Edits = {"stop"}
  MaxEdits = 1
CHECK_DEADLOCK FALSE
PROPERTY QueueDrains
PROPERTY CampaignCompletes
