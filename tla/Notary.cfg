SPECIFICATION FairSpec
CONSTANTS
  Connections = {q1, q2}
  NoSession = noSession
  Keys = {k1}
  NoKey = noKey
  Volumes = {1, 2}
  MaxVolume = 1
  Concurrency = 1
  Authorization = TRUE
  LinkFaults = TRUE
  MaxEdits = 2
INVARIANTS
  PermitsAccounted
  
  BusyKeepsSession
PROPERTIES
  PermitReturned
\* A server without provers idles.
CHECK_DEADLOCK FALSE
