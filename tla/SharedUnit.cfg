SPECIFICATION Spec
CONSTANTS
  None = None
  Gone = Gone
  Routes = {r1, r2}
  Trucks = {t1}
  Packages = {p1}
  Processes = {a1}
  Capacity = 1
  ThreadBound = 2
  CommandBound = 2
SYMMETRY Symmetry
INVARIANT UnitOfWorkIsAtomic
