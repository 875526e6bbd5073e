SPECIFICATION Spec
CONSTANTS
  a1 = a1
  a2 = a2
  bad = bad
  NoId = NoId
  AccountIds = {a1, a2, bad}
  Malformed = {bad}
  TransferIds = {t1}
  MaxOperationAmount = 1
  Amounts = {1}
  MaxVersion = 3
SYMMETRY Accounts
INVARIANTS MemoryMatchesPostgres UnprocessedInOrder
