SPECIFICATION Spec
CONSTANTS
  DeferFromStart = FALSE
  VerifierLost = TRUE
  ChannelSize = 1
  MaxSent = 1
  MaxReceived = 2
  MaxBad = 1
INVARIANTS TranscriptIsConversation 
PROPERTIES  WrittenIsSent
CHECK_DEADLOCK FALSE
