SPECIFICATION DeadlinesSpec
CONSTANTS
  r1 = r1
  r2 = r2
  None = None
  Readers = {r1, r2}
  Timeout <- MCTimeout
  MaxInstant = 3
  MaxGeneration = 2
  Callers = {c1, c2, c3}
  MaxReaders = 2
  Grace = 2
  Total = 2
  Invalid = Invalid
  MaxFaults = 1
INVARIANTS
  ReportsAlternate
  TypeOK
  WaitCovers
  AnnouncedOnce
  RecordTruthful
  NothingLeftBehind
PROPERTIES
  VerdictSound
  AbsenceNoticed
  EveryDeadlineAnnounced
  EveryoneEnds
CHECK_DEADLOCK FALSE
