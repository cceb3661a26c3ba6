\* A desk that probes every path, one that works and hires, and the background.
CONSTANTS
  op = op  chief = chief  admin = admin  sage = sage  guest = guest
  tok = tok  chiefTok = chiefTok  adminTok = adminTok  sageTok = sageTok
  sweep = sweep  office = office  hirer = hirer  worker = worker
  Operators = {op, chief, admin, sage, guest}
  DefaultOperator = op
  Tokens = {tok, chiefTok, adminTok, sageTok}
  None = None
  Settings <- FourSettings
  Given <- FourRoles
  Desks = {sweep, office, hirer, worker}
  Shifts <- FourShifts
  Calls <- DeskCalls
  Background = {worker}
  Evidence = {e1, e2}
  MaxFaults = 2
  DefaultLimit = 1
  MaxLimit = 2
  MaxRows = 3
  Ranks = {1, 2}
SPECIFICATION Spec
CHECK_DEADLOCK FALSE
INVARIANTS
  Accountable
  TablesAgree
  CauseFirst
  Delivered
  AnnouncedIsCited
  Paging
