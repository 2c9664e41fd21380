SPECIFICATION Spec
CONSTANTS
  s1 = s1
  s2 = s2
  s3 = s3
  Songs = {s1, s2}
  Rank <- MCTwoRank
  Bad = {}
  Silent = {}
  ShortTag = {}
  Length = 2
  Threshold = 1
  MaxEvents = 1
CHECK_DEADLOCK FALSE
INVARIANT ListCircular
