SPECIFICATION FairSpec
CONSTANTS
  t1 = t1
  u1 = u1
  u2 = u2
  u3 = u3
  u4 = u4
  a1 = a1
  r1 = r1
  r2 = r2
  z1 = z1
  z2 = z2
  Nothing = Nothing
  Zones = {z1, z2}
  Tracks = {t1}
  Updates = {u1}
  TrackOf <- OneTrack
  ObservedAt <- InOrder1
  Containing <- In1
  Positionless = {}
  Areas = {a1}
  Overlapping <- BothZones
  Requests = {r1, r2}
  MaxFaults = 1
  MaxReplays = 1
  MaxResolves = 1
  MaxToggles = 0
CHECK_DEADLOCK FALSE
PROPERTIES
  ZonesAreAlerted
