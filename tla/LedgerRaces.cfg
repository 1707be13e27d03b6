CONSTANTS
  m1 = m1 m2 = m2 k1 = k1 k2 = k2 k3 = k3 c1 = c1 c2 = c2 p1 = p1 p2 = p2 e1 = e1
  key1 = key1 key2 = key2 key3 = key3
  Managers = {m1, m2}
  PrepareKeys = {k1}
  ConfirmKeys = {key1}
  Previews = {p1, p2}
  Employees = {e1}
  Changing = {e1}
  OffDays <- SecondDayOff
  Calls = {c1, c2}
  LastDay = 2
  MaxRevision = 2
  None = None
  Other = Other
SPECIFICATION Spec
CHECK_DEADLOCK FALSE
SYMMETRY Same
INVARIANTS TypeOK AcceptedOnRecord OneOutcome
PROPERTIES CommandsHold
