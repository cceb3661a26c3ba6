SPECIFICATION FairSpec
CONSTANTS
  s1 = s1
  s2 = s2
  s3 = s3
  s4 = s4
  s5 = s5
  r1 = r1
  r2 = r2
  NoSample = NoSample
  Samples = {s1, s2, s3, s4, s5}
  ObservedAt <- Times
  Positioned = {s1, s3, s5}
  Measured = {s4}
  Connection <- Links
  Requests = {r1, r2}
  MaxAttempts = 3
  MaxFaults = 1
CHECK_DEADLOCK FALSE
INVARIANTS
  StateIsProjection
  AnswersAreTrue
PROPERTIES
  MotionFromPredecessor
  SampleCounts
