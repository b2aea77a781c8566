SPECIFICATION ReadSpec
CONSTANTS
  r1 = r1
  t1 = t1
  t2 = t2
  None = None
  Readers = {r1}
  Timeout <- OneTimeout
  MaxInstant = 1
  MaxGeneration = 1
  Tasks = {t1, t2}
  ReaderOf <- SharedReader
  Takers = {t1}
  Capacity = 2
  MaxValid = 1
  MaxInvalid = 0
PROPERTIES
  ImplementsContract
