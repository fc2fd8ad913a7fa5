SPECIFICATION TestSpec
CONSTANTS
  Conn = {c1, c2, c3, c4}
  Main = server
  BlockingThreads = 2
INVARIANT
  TestInv
PROPERTY
  EveryTestPasses
