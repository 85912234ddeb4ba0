\* Every event class; ids 1 and 2, times 8 and 9, lists of at most 2 items (1 permission).
CONSTANTS
  None = None
  Unused = "unused"
  Ids = {1, 2}
  Tenths = {5, 10, 20}
  Times = {8, 9}
  Strings <- MCStrings
  Normal <- MCNormal
  Blank <- MCBlank
  ListBound = 2
  PermissionBound = 1

SPECIFICATION Spec

INVARIANTS
  CodecTypeOK
  StoredEventReadsBack
  ReadIsSound
  EventIsAuditable
  AuditTellsEvent

CHECK_DEADLOCK FALSE
