SPECIFICATION Spec
CONSTANTS
  Places = {p1, p2}
  Width = 2
  Burst = 1
INVARIANTS StateOK
PROPERTIES SampleTrue EventsTold PenReported
