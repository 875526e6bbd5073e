SPECIFICATION Spec
CONSTANTS
  g1 = g1  g2 = g2  g3 = g3  k1 = k1
  NoRequest = NoRequest
  Goroutines = {g1, g2, g3}
  Keys = {k1}
  Payloads <- TwoPayloads
  Outcomes = {"ErrInsufficientFunds", "ErrTooManyConflicts", "internal"}
  Faults = {"disconnect", "database", "crash"}
SYMMETRY Interchangeable
INVARIANTS TypeOK OneExecution AnswersTrue
PROPERTY StoredAnswersStay
