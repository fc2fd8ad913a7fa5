SPECIFICATION ConsumerSpec
CONSTANTS
  Error <- MCError
  HandshakeError <- MCHandshakeError
  MaxItems = 4
INVARIANTS
  IInv
  Accounted
  EndsOnlyWithSource
PROPERTY
  OnlyHandshakesHoldUp
