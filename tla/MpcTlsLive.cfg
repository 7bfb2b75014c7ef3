SPECIFICATION FairSpec
CONSTANTS
  MaxSent = 3
  MaxRecv = 3
  MaxRecvOnline = 3
  MaxSentRecords = 2
  MaxRecvRecords = 2
  MaxBuffer = 1
  BlockSize = 2
  LocalParams = {"cert"}
  Outgoing <- AllOut
  Incoming <- SomeIn
  Deferred <- BothModes
  LinkFaults = TRUE
  MaxInFlight = 1
INVARIANTS
  SequenceIntact
  TranscriptIsTheConnection
  AcceptedIsComplete
PROPERTIES
  CallReturns
  FollowerEnds
  ImplementsWitness
