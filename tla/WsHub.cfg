SPECIFICATION HubFairSpec
CONSTANTS
  Streams = {a}
  Subs <- ConnectionStream
  Viewed = {a}
  Client = {c}
  Conn = {k1, k2}
  None = None
  MaxSeq = 3
  MaxBatch = 2
  MaxInFlight = 1
  MaxRequests = 1
  MaxFaults = 1
  PowerLoss = FALSE
INVARIANTS
  HubTypeOK
  QuietMeansCurrent
  NoSubscriptionLeaks
PROPERTIES
  PageReadsTheStream
  EventuallyCurrent
