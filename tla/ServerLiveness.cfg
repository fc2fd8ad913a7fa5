SPECIFICATION FairSpec
CONSTANTS
  Conn = {c1, c2}
  Main = main
  BlockingThreads = 1
PROPERTIES
  ShutdownCompletes
  EveryHandshakeStarts
