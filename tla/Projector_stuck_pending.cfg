SPECIFICATION Spec
CONSTANTS
  a1 = a1  a2 = a2  bad = bad  t1 = t1  t2 = t2
  NoId = NoId
  AccountIds = {a1, a2}
  TransferIds = {t1}
  MaxOperationAmount = 1
  Malformed = {}
  Amounts = {1}
  Partitions = {1, 2}
  PartitionOf <- TwoPartitions
  MaxEvents = 4
  MaxFaults = 2
CHECK_DEADLOCK FALSE
INVARIANT TransfersFaithful
