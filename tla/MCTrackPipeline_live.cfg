SPECIFICATION FairSpec
CONSTANTS
  o1 = o1
  o2 = o2
  o3 = o3
  o4 = o4
  o5 = o5
  t1 = t1
  t2 = t2
  h1 = h1
  r1 = r1
  r2 = r2
  NoHint = NoHint
  NoTrack = NoTrack
  NoObs = NoObs
  Obs = {o1, o2}
  Hints = {h1}
  ObservedAt <- TieTime
  TrackHint <- TieHint
  Tracks = {t1, t2}
  Requests = {r1, r2}
  MaxAttempts = 3
  MaxFaults = 1
PROPERTIES
  StoredIsProcessed
