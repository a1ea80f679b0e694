SPECIFICATION FairSpec
CONSTANTS
  q1 = q1
  q2 = q2
  NoName = NoName
  Name = {q1}
  Frame <- Mixed
  MaxSent = 2
INVARIANTS TypeOK OnlyWholeFrames EndsForOneReason
PROPERTIES PeerGoneEnds ThreadAdvances
