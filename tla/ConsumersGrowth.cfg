SPECIFICATION FairSpec
CONSTANTS
  c1 = c1
  c2 = c2
  p1 = p1
  r1 = r1
  r2 = r2
  r3 = r3
  Client = {c1, c2, p1}
  Consumer = {c1, c2}
  Publisher = {p1}
  Leaver = {c1}
  Record = {r1, r2, r3}
  Null = Null
  INITIAL_MAX_CONNECTIONS = 3
  RECORD_WORDS = 1
  POINTER_SIZE = 4
  MaxConsumes = 2
  MaxHanded = 3
INVARIANTS TypeOK IndexInTable TableInitialised InBoundsUntilGrowth
PROPERTIES DispatchEnds LeavesCleanly DispatchAdvances
