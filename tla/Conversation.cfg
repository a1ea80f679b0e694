SPECIFICATION Spec
CONSTANTS
  q1 = q1
  q2 = q2
  NoName = NoName
  Name = {q1, q2}
  Frame <- RequestsAndMessages
  MaxSent = 3
INVARIANTS DeclaredQueueIsKnown PublishedInOrder
PROPERTY AnsweredInOrder
