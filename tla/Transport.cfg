SPECIFICATION FairSpec
CONSTANTS
  MaxBytes = 4
  SocketBuffer = 1
  SessionBuffer = 2
INVARIANTS
  IInv
  OutputNeverStuck
PROPERTIES
  ImplementsByteStreams
  OutputDelivered
  OrderlyEnd
