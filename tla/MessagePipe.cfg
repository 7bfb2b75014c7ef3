SPECIFICATION Spec
CONSTANTS
  RandomLen = 1
  SessionMax = 2
  CertBytesMax = 24
  MaxPayload = 80
  MaxHandshakeSize = 60
  Plans <- McPlans
  Damages <- McDamages
CHECK_DEADLOCK FALSE
INVARIANT AllDelivered
PROPERTY ImplementsChannel
