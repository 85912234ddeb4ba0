\* Two workers, three commands on one route and one customer, one fault, in each deployment.
CONSTANTS
  None = None
  alice = alice
  bob = bob
  w1 = w1
  w2 = w2
  Workers <- MCWorkers
  Actors <- MCActors
  Routes = {r1}
  Customers = {k1}
  Parcel = parcel
  Shared = shared
  Backends = {"memory", "threads", "database"}
  CommandBound = 3
  ChangeBound = 1
  FaultBound = 1

SPECIFICATION Spec

SYMMETRY Interchangeable

INVARIANTS
  AcknowledgedIsAudited
  OnlyThreadsSweep
  AuditedOnce
  SummaryComesLast

CHECK_DEADLOCK FALSE
