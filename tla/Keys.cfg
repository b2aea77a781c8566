SPECIFICATION TypeSupportSpec
CONSTANTS
  TopicIds = {11, 12}
  KeyValues = {1, 2, 3}
  Murmur <- SmallMurmur
  MaxHeld = 2
INVARIANTS
  EqkeyExact
CHECK_DEADLOCK FALSE
