SPECIFICATION Spec
CONSTANTS
  c1 = c1
  p1 = p1
  x1 = x1
  Conn = {c1, p1, x1}
  Asker = {x1}
  Declarer = {x1}
  Consumer = {c1}
  Publisher = {p1}
  Closer = {p1, x1}
  Leaver = {c1}
  Huge = {x1}
  Long = {p1}
  Resetter = {x1}
  Slow = {}
  Unlucky = {p1}
  Fd = {4, 5}
  Null = Null
  MaxDepth = 2
INVARIANTS TypeOK OwnDescriptor NoDescriptorLeak BytesReachTheirPeer
  AnnouncedTag DownForAReason
