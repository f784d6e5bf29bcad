SPECIFICATION FairSpec
CONSTANTS
  r1 = r1
  r2 = r2
  f1 = f1
  Requests <- TwoRequests
  Own <- OneRequest
  Fetches <- OneFetch
  Cap = 1
  QueueSize = 1
  InFlight = 1
  LastVersion = 3
INVARIANTS
  TypeOK
  AlwaysFed
  StreamsAscend
  NewestIsKept
PROPERTIES
  BoardIsDisplay
  CatchesUp
  LiveReturns
