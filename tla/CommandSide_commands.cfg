SPECIFICATION Spec
CONSTANTS
  p1 = p1  p2 = p2  a1 = a1  a2 = a2  t1 = t1
  NoId = NoId
  AccountIds = {a1, a2}
  TransferIds = {t1}
  MaxOperationAmount = 2
  Procs = {p1, p2}
  Requests <- TransferAndRefusals
  maxRetries = 2
  SnapshotEvery = 2
  MaxVersion = 4
SYMMETRY Writers
VIEW Unpublished
CHECK_DEADLOCK FALSE
INVARIANTS TypeOK VersionsContiguous NoOverdraft SnapshotsFaithful
           ConflictsMeanProgress LocalsConsistent
PROPERTIES SnapshotsMonotone CommandsTerminate ImplementsAtomicLedger
