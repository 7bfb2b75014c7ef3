SPECIFICATION Spec
CONSTANTS
  Versions = {"TLSv1_2", "TLSv1_3"}
  BackendVersions = {"TLSv1_2", "TLSv1_3"}
  HasCerts = TRUE
  Records <- PeerRecords
  OddRecords <- PeerOddRecords
  BackendFails = TRUE
  BufferLimit = 1
  SoftLimit = 2
  HardLimit = 3
  MaxFrames = 1
  MaxRecords = 9
  MaxOdd = 1
  MaxChunks = 2
INVARIANTS
  DataAuthenticated
  TranscriptComplete
  ProtectedAfterCcs
  DataInOrder
  BackendReady
