SPECIFICATION Spec
CONSTANTS
  o1 = o1
  o2 = o2
  o3 = o3
  o4 = o4
  o5 = o5
  t1 = t1
  t2 = t2
  h1 = h1
  r1 = r1
  r2 = r2
  NoHint = NoHint
  NoTrack = NoTrack
  NoObs = NoObs
  Obs = {o1, o2, o3, o4, o5}
  Hints = {h1}
  ObservedAt <- RaceTime
  TrackHint <- RaceHint
  Tracks = {t1, t2}
  Requests = {r1, r2}
  MaxAttempts = 2
  MaxFaults = 1
SYMMETRY RequestSymmetry
CONSTRAINT FewArrive
INVARIANTS
  OneOwner
  WatermarkIsEvidence
  EvidenceIsSound
  LossNeedsContention
PROPERTIES
  ImplementsLedger
