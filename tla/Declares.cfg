SPECIFICATION FairSpec
CONSTANTS
  c1 = c1
  c2 = c2
  n1 = n1
  n2 = n2
  n3 = n3
  Client = {c1, c2}
  Slow = {c1}
  Name = {n1, n2, n3}
  Null = Null
  INITIAL_MAX_CONNECTIONS_QUEUES = 2
  POINTER_SIZE = 4
  MaxCalls = 3
INVARIANTS TypeOK SafeUntilGrowth NamesUnique DeclaredIsFound
PROPERTIES LookUpEnds AppendOnly Linearizable LookUpAdvances
