SPECIFICATION Spec
CONSTANTS
  None = None
  Gone = Gone
  Routes = {r1, r2}
  Trucks = {t1, t2}
  Packages = {p1, p2}
  Processes = {a1, a2}
  Capacity = 1
  ThreadBound = 2
  CommandBound = 2
SYMMETRY Symmetry
INVARIANTS
  RowsStayLinked
  LoneUnitIsAtomic
  OnlyStaleCopiesHarm
