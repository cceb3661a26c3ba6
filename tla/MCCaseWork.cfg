\* Two incidents for one alert, one mission, two handlers.
CONSTANTS
  i1 = i1  i2 = i2  m1 = m1
  Incidents = {i1, i2}
  Missions = {m1}
  Alerts = {a1}
  Others = {o1}
  Assets = {b1}
  Tasks = {t1}
  Fields = {f1, f2}
  Values = {v0, v1}
  Initial = v0
  Requests = {r1, r2}
  None = None
  Desks <- FiveDesks
  MaxClock = 4
  MaxFaults = 1
SYMMETRY Interchangeable
SPECIFICATION Spec
CHECK_DEADLOCK FALSE
INVARIANTS
  StampsTellHistory
  PointerAgrees
  EventsAreTrue
PROPERTIES
  LifecycleRespected
  EditsOverlap
