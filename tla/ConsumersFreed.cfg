SPECIFICATION Spec
CONSTANTS
  c1 = c1
  p1 = p1
  r1 = r1
  r2 = r2
  Client = {c1, p1}
  Consumer = {c1}
  Publisher = {p1}
  Leaver = {c1}
  Record = {r1, r2}
  Null = Null
  INITIAL_MAX_CONNECTIONS = 2
  RECORD_WORDS = 1
  POINTER_SIZE = 2
  MaxConsumes = 1
  MaxHanded = 2
INVARIANT NoFreedRecordRead
