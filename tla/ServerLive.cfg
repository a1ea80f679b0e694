SPECIFICATION FairSpec
CONSTANTS
  c1 = c1
  p1 = p1
  x1 = x1
  Conn = {c1, p1}
  Asker = {p1}
  Declarer = {c1, p1}
  Consumer = {c1}
  Publisher = {c1, p1}
  Closer = {c1, p1}
  Leaver = {c1, p1}
  Huge = {}
  Long = {}
  Resetter = {}
  Slow = {c1}
  Unlucky = {p1}
  Fd = {4, 5}
  Null = Null
  MaxDepth = 2
PROPERTIES DispatchNotBlocked DescriptorReturns
