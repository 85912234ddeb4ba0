\* Up to three additions to the log, first deliveries, repeats and denials
\* together; up to four requests of a manager and an employee in two threads.
CONSTANTS
  None = None
  Users <- MCUsers
  Auditors <- MCAuditors
  Kinds <- MCKinds
  Sources = {"CLI", "HTTP"}
  Times = {1, 2}
  Filters <- MCFilters
  Pages <- MCPages
  LogBound = 3
  h1 = h1
  h2 = h2
  p1 = p1
  p2 = p2
  Threads <- MCThreads
  Passwords <- MCPasswords
  SamePassword = SamePassword
  Accounts = {manager, employee}
  Managers = {manager}
  Stores = {"json", "postgres"}
  RequestBound = 4

SPECIFICATION RequestSpec

SYMMETRY Symmetry

INVARIANTS
  BackendsAgree
  PageIsExact
  RevokedStaysRevoked
  IssuedTokensWork
  PasswordChangesStick

PROPERTIES
  RecordsAreKept
