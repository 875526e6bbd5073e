SPECIFICATION Spec
CONSTANTS
  a1 = a1  a2 = a2  ghost = ghost  t1 = t1  t2 = t2  t3 = t3  w1 = w1  w2 = w2
  NoId = NoId
  AccountIds = {a1, a2, ghost}
  Opened = {a1, a2}
  MaxOperationAmount = 2
  Amounts = {1}
  Funds = 1
  TransferIds = {t1}
  Workers = {w1}
  Partitions = {1}
  PartitionOf <- OnePartition
  BusSize = 2
  QueueSize = 1
  creditRetries = 2
  Failures = TRUE
INVARIANT SettledOnce
