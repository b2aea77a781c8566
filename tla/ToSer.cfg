SPECIFICATION TransferSpec
CONSTANTS
  Length = 3
  MaxFragments = 1
  MaxHops = 0
  NoCdr = NoCdr
INVARIANTS
  ToSerFills
CHECK_DEADLOCK FALSE
