SPECIFICATION Spec
CONSTANTS
  p1 = p1  p2 = p2  a1 = a1  a2 = a2  t1 = t1
  NoId = NoId
  AccountIds = {a1}
  TransferIds = {t1}
  MaxOperationAmount = 2
  Procs = {p1, p2}
  Requests <- OneAccount
  maxRetries = 2
  SnapshotEvery = 5
  MaxVersion = 3
SYMMETRY Writers
CHECK_DEADLOCK FALSE
INVARIANT PublishedInOrder
