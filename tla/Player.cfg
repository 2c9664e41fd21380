SPECIFICATION Spec
CONSTANTS
  s1 = s1
  s2 = s2
  s3 = s3
  Songs = {s1, s2, s3}
  Rank <- MCRank
  Bad = {s2}
  Silent = {s1}
  ShortTag = {s3}
  Length = 2
  Threshold = 1
  MaxEvents = 6
CHECK_DEADLOCK FALSE
INVARIANTS StateOK ListCircular ListSorted
PROPERTIES ResumesSong ListPlayed InputReturns
