SPECIFICATION Spec
CONSTANTS
  Conn = {c1, c2}
  Main = main
  BlockingThreads = 1
PROPERTY
  NoConnectWhileDraining
