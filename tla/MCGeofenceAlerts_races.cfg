SPECIFICATION Spec
CONSTANTS
  t1 = t1
  u1 = u1
  u2 = u2
  u3 = u3
  u4 = u4
  a1 = a1
  r1 = r1
  r2 = r2
  z1 = z1
  z2 = z2
  Nothing = Nothing
  Zones = {z1, z2}
  Tracks = {t1}
  Updates = {u1, u2, u3, u4}
  TrackOf <- OneTrack
  ObservedAt <- InOrder
  Containing <- InOutIn
  Positionless = {u4}
  Areas = {}
  Overlapping <- NoAreas
  Requests = {r1, r2}
  MaxFaults = 1
  MaxReplays = 0
  MaxResolves = 1
  MaxToggles = 1
CHECK_DEADLOCK FALSE
SYMMETRY RequestSymmetry
INVARIANTS
  AlertsAreUnique
  TransitionsAlternate
  EachPublishedOnce
