CONSTANTS
  Serdatas = {s1, s2}
  Readers = {r1, r2}
  SampleBuffers = {b1, b2}
  Fragments = {f1}
  Capacity = 2
  MaxSlots = 2
  Lengths <- MCLengths
  MaxReferences = 4
  Nothing = Nothing
SPECIFICATION RefsSpec
CONSTRAINT FewReferences
SYMMETRY Symmetry
INVARIANTS NothingLeaks
