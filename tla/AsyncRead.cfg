SPECIFICATION ReadSpec
CONSTANTS
  r1 = r1
  t1 = t1
  t2 = t2
  None = None
  Readers = {r1}
  Timeout <- OneTimeout
  MaxInstant = 2
  MaxGeneration = 3
  Tasks = {t1}
  ReaderOf <- OneTask
  Takers = {t1}
  Capacity = 2
  MaxValid = 1
  MaxInvalid = 0
INVARIANTS
  NoLostWakeup
  NoLostAbsence
PROPERTIES
  StopWhenNoWriterUnlessEarly
  CallsComplete
  DataBeforeAbsence
  ImplementsContract
