SPECIFICATION EntitiesSpec
CONSTANTS
  Threads = {t1, t2}
  Domains = {d1}
  Default = default
  DefaultDomain = d1
  Handles = {h1, h2, h3}
  Args = {args1}
  None = none
  LookupMayFail = TRUE
  Participants = {p1}
  Groups = {g1}
  Topics = {tp1}
  Endpoints = {e1}
  Builtins = {b1}
  Buffers = {l1}
  Listeners = {k1, k2}
  MaxHandles = 2
  Nil = nil
  Serdatas = {s1, s2}
  Readers = {r1, r2}
  SampleBuffers = {b1, b2}
  Fragments = {f1}
  Capacity = 2
  MaxSlots = 2
  Lengths <- MCLengths
  MaxReferences = 3
  Nothing = Nothing
INVARIANTS
  RefsSound
  NoCreateInTeardown
  SharedSound
  NoneLeaked
  BoxesSound
  DropsInAnyOrder
  LocksAreReleased
PROPERTIES
  ShownStaysUnlessRaced
CHECK_DEADLOCK FALSE
