SPECIFICATION Spec
CONSTANTS
  Size = {0, 1, 2992, 2993, 3000}
  NameSize = {0, 255}
  Unwritten = {0, 255}
  FrameMax = 3000
  MaxMessages = 3
  MaxWrites = 2
INVARIANTS TypeOK FramedRightly FitsItsBuffer OneFrameIsIntact OneFrameFits
