SPECIFICATION Spec
CONSTANTS
  c1 = c1
  p1 = p1
  x1 = x1
  Conn = {p1, x1}
  Asker = {p1, x1}
  Declarer = {p1, x1}
  Consumer = {}
  Publisher = {}
  Closer = {p1, x1}
  Leaver = {}
  Huge = {}
  Long = {}
  Resetter = {}
  Slow = {}
  Unlucky = {}
  Fd = {4, 5}
  Null = Null
  MaxDepth = 4
INVARIANT ServerStaysUp
