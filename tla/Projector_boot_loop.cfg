SPECIFICATION FairSpec
CONSTANTS
  a1 = a1  a2 = a2  bad = bad  t1 = t1  t2 = t2
  NoId = NoId
  AccountIds = {a1, bad}
  TransferIds = {t1}
  MaxOperationAmount = 1
  Malformed = {bad}
  Amounts = {1}
  Partitions = {1, 2}
  PartitionOf <- TwoPartitions
  MaxEvents = 3
  MaxFaults = 1
CHECK_DEADLOCK FALSE
PROPERTY ServiceRecovers
