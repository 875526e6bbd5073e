SPECIFICATION FairSpec
CONSTANTS
  g1 = g1  g2 = g2  g3 = g3  k1 = k1
  NoRequest = NoRequest
  Goroutines = {g1, g2}
  Keys = {k1}
  Payloads <- OnePayload
  Outcomes = {"internal"}
  Faults = {"disconnect"}
PROPERTY RetriesAreAnswered
