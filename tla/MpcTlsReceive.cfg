SPECIFICATION Spec
CONSTANTS
  MaxSent = 2
  MaxRecv = 6
  MaxRecvOnline = 5
  MaxSentRecords = 1
  MaxRecvRecords = 3
  MaxBuffer = 2
  BlockSize = 2
  LocalParams = {"cert"}
  Outgoing <- FinishedOut
  Incoming <- AllIn
  Deferred <- BothModes
  LinkFaults = FALSE
  MaxInFlight = 2
INVARIANTS
  ReplicasAgree
  FailsWithLeader
  AuthenticatedBeforeKey
