SPECIFICATION Spec
CONSTANTS
  Contacts = {1, 2}
  Agents = {a1}
  NoAgent = NoAgent
  Households = {}
  MaxAttempts = 2
  Legs = {l1, l2, l3}
  Uuids = {u1, u2}
  NoContact = 0
  Later = {2}
  Night = {2}
  GroupHouseholds = FALSE
  VoicemailFile = TRUE
  LegacyRooms = TRUE
  MaxOptOutSkips = 2
  MaxWindowSkips = 2
  Faults = {"kill", "reject", "ambiguous", "dberror", "stall", "redeliver", "instant", "midturn"}
  Edits = {"enqueue", "requeueAll", "dequeue"}
  MaxEdits = 1
SYMMETRY Symmetry
CHECK_DEADLOCK FALSE
INVARIANT OneContactPerRoom
