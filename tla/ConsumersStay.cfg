SPECIFICATION Spec
CONSTANTS
  c1 = c1
  c2 = c2
  c3 = c3
  p1 = p1
  p2 = p2
  r1 = r1
  r2 = r2
  r3 = r3
  r4 = r4
  r5 = r5
  Client = {c1, c2, c3, p1, p2}
  Consumer = {c1, c2, c3}
  Publisher = {c1, p1, p2}
  Leaver = {p1, p2}
  Record = {r1, r2, r3, r4, r5}
  Null = Null
  INITIAL_MAX_CONNECTIONS = 4
  RECORD_WORDS = 1
  POINTER_SIZE = 2
  MaxConsumes = 1
  MaxHanded = 4
INVARIANTS RegisteredOnce SafeUntilConsumerLeaves FairRotation
PROPERTY AbstractSpec
SYMMETRY Symmetry
